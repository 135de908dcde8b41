--------------------------- MODULE TakeoverProofs ---------------------------
(***************************************************************************)
(* Proofs about Takeover, for any number of controllers and users, any     *)
(* number of revisions and any bound on failures: its types, that lists    *)
(* and state files are snapshots of the panel's table whoever writes them, *)
(* that the controller in the slot serves its own list, and that the       *)
(* periodic tasks do nothing Job does not allow.                           *)
(***************************************************************************)
EXTENDS Takeover, TLAPS

-----------------------------------------------------------------------------
(* The invariants.                                                         *)

\* Who is being started has no task yet, and nobody else is at the places of a
\* start; a token means that nothing executes; a task that is closed while it
\* executes is cancelled.
TaskInv ==
    \A c \in Controller :
        /\ task[c].token => task[c].exec = "idle"
        /\ task[c].running => ~task[c].cancelled
        /\ ~task[c].running /\ task[c].exec # "idle" => task[c].cancelled
        /\ c = new \/ ctl[c].at = "none" => ~task[c].running /\ task[c].exec = "idle"
        /\ ctl[c].at \in {"close", "delnode", "activate"} => c = new

\* The users of a revision, none at revision 0.
Exact(r, U) == /\ r \in 0 .. Len(snap)
               /\ r = 0 => U = {}
               /\ r > 0 => U = snap[r]

ListInv ==
    \A c \in Controller :
        /\ Exact(ctl[c].rev, ctl[c].list)
        /\ ctl[c].at \in {"open", "write"} => ctl[c].rev > 0
        /\ ctl[c].at = "forget" => ctl[c].user \in User

FileInv ==
    \A n \in {"path", "tmp"} :
        /\ Exact(file[n].rev, file[n].users)
        /\ file[n].kind = "ok" => file[n].rev > 0

SnapInv == ListInv /\ FileInv

\* The places of a start.
StartPlace == {"ask", "open", "write", "rename", "close", "delnode", "activate",
               "edge", "sent"}

\* Only the controller in the slot has a task that runs, and the inbound is its
\* own; a start that is past Close of the old controller finds no other there.
SlotInv ==
    /\ slot \in Controller => /\ slot # new /\ inbound = slot
                              /\ ctl[slot].at # "none"
    /\ \A c \in Controller : task[c].running => c = slot
    /\ \A c \in Controller : c = new =>
          /\ ctl[c].at \in StartPlace
          /\ ctl[c].at \in {"activate", "edge", "sent"} => slot = Nil
          /\ ctl[c].at \in {"edge", "sent"} => inbound = c
          /\ ctl[c].at = "delnode" /\ slot \in Controller => ~task[slot].running

\* Where a controller is fits its task, the kind of its node, what it still has to
\* delete and to add, and whose users it works on.
PlaceOf(c) ==
    LET k == ctl[c] IN
    /\ c # new => (k.at \in {"none", "idle"} <=> task[c].exec # "executing")
    /\ k.at \in {"edge", "sent"} => Sidecar
    /\ k.at \in {"del", "forget", "add"} => ~Sidecar
    /\ k.at \in {"none", "idle", "ask", "addids", "add", "edge", "sent", "end"}
          => k.del = {}
    /\ k.at \in {"none", "idle", "ask", "edge", "sent", "end"} => k.add = {}
    /\ k.at = "forget" => k.user \in k.del
    /\ c = new => k.del = {} /\ k.add = {}
    /\ c = slot /\ k.at \in {"del", "forget", "add"} => k.manager = c

PlaceInv == \A c \in Controller : PlaceOf(c)

\* The users the inbound has when all but k.del and k.add has been applied.
Partly(k) == (k.list \ k.add)
                \cup (IF k.at = "forget" THEN k.del \ {k.user} ELSE k.del)

\* The users with an id by then.
WithID(k) == IF k.at = "add" THEN k.list ELSE k.list \ k.add

\* What the controller in the slot serves in the course of a sync.
ServeOf(c) ==
    LET k == ctl[c] IN
    /\ ~cut =>
          /\ ~Sidecar => proxy[c] = Partly(k)
          /\ k.add \subseteq k.list /\ k.del \cap k.list = {}
          /\ WithID(k) \ uidMap \subseteq robbed
    /\ Sidecar =>
          /\ k.at \in {"idle", "ask", "end"} => edge = k.list \/ behind
          /\ k.at \in {"open", "write", "rename", "apply"}
                /\ k.del = {} /\ k.add = {} => edge = k.list \/ behind

ServeInv ==
    /\ slot \in Controller => ServeOf(slot)
    /\ new \in Controller /\ ctl[new].at \in {"edge", "sent"} =>
          ctl[new].list \ uidMap \subseteq robbed

-----------------------------------------------------------------------------
(* Types.                                                                  *)

\* Changing one field of a controller, the places it goes to being given.
LEMMA FieldTypes ==
    ASSUME NEW k \in ControllerState
    PROVE  /\ \A x \in Place : [k EXCEPT !.at = x] \in ControllerState
           /\ \A x \in SUBSET User : [k EXCEPT !.list = x] \in ControllerState
           /\ \A x \in Nat : [k EXCEPT !.rev = x] \in ControllerState
           /\ \A x \in SUBSET User : [k EXCEPT !.del = x] \in ControllerState
           /\ \A x \in SUBSET User : [k EXCEPT !.add = x] \in ControllerState
           /\ \A x \in User \cup {Nil} : [k EXCEPT !.user = x] \in ControllerState
           /\ \A x \in Controller \cup {Nil} : [k EXCEPT !.manager = x] \in ControllerState
           /\ \A x \in {"no", "tmp", "path", "gone"} :
                 [k EXCEPT !.open = x] \in ControllerState
BY DEF ControllerState

\* The same for a task.
LEMMA TaskFieldTypes ==
    ASSUME NEW t \in Tasks, NEW x \in BOOLEAN
    PROVE  /\ [t EXCEPT !.running = x] \in Tasks
           /\ [t EXCEPT !.token = x] \in Tasks
           /\ [t EXCEPT !.cancelled = x] \in Tasks
           /\ [t EXCEPT !.expired = x] \in Tasks
           /\ \A e \in {"idle", "launched", "executing"} : [t EXCEPT !.exec = e] \in Tasks
BY DEF Tasks

\* Goto, for any place.
LEMMA GotoType ==
    ASSUME TypeOK, NEW c \in Controller, NEW a \in Place, Goto(c, a)
    PROVE  ctl' \in [Controller -> ControllerState]
<1>1. [ctl[c] EXCEPT !.at = a] \in ControllerState
  BY FieldTypes DEF TypeOK
<1> QED BY <1>1 DEF Goto, TypeOK

\* Return clears what is left to do.
LEMMA ReturnType ==
    ASSUME TypeOK, NEW c \in Controller, Return(c)
    PROVE  ctl' \in [Controller -> ControllerState]
<1>1. ctl[c] \in ControllerState /\ "end" \in Place
  BY DEF TypeOK, Place
<1>2. [ctl[c] EXCEPT !.at = "end", !.del = {}, !.add = {}, !.manager = Nil]
        \in ControllerState
  BY <1>1, FieldTypes, Zenon
<1>3. ctl' = [ctl EXCEPT ![c] = [ctl[c] EXCEPT !.at = "end", !.del = {}, !.add = {},
                                              !.manager = Nil]]
  BY DEF Return
<1> QED BY <1>2, <1>3 DEF TypeOK

\* What the controllers that make no step are like after Gone.
LEMMA GoneType ==
    ASSUME TypeOK, NEW c \in Controller, Gone(c)
    PROVE  ctl' \in [Controller -> ControllerState] /\ new' \in Controller \cup {Nil}
<1>1. NoController \in ControllerState
  BY DEF NoController, ControllerState, Place
<1> QED BY <1>1 DEF Gone, TypeOK

\* The first controller runs with the table and the file it was started with.
LEMMA TypeInit == Init => TypeOK
<1> SUFFICES ASSUME Init PROVE TypeOK
  OBVIOUS
<1>1. PICK c \in Controller, U \in Table :
        /\ snap = <<U>>
        /\ ctl = [d \in Controller |->
                    IF d = c THEN [NoController EXCEPT !.at = "idle", !.list = U,
                                                       !.rev = 1]
                    ELSE NoController]
        /\ slot = c
        /\ task = [d \in Controller |->
                     IF d = c THEN [NoTask EXCEPT !.running = TRUE, !.token = TRUE]
                     ELSE NoTask]
        /\ file = [n \in {"path", "tmp"} |-> IF n = "path" THEN Saved(1, U) ELSE NoFile]
        /\ inbound = c
        /\ proxy = [d \in Controller |-> IF d = c /\ ~Sidecar THEN U ELSE {}]
        /\ uidMap = U
        /\ edge = IF Sidecar THEN U ELSE {}
  BY DEF Init
<1>2. snap \in Seq(Table) /\ snap # <<>>
  BY <1>1
<1>3. ctl \in [Controller -> ControllerState]
  <2>1. NoController \in ControllerState /\ "idle" \in Place /\ 1 \in Nat
    BY DEF NoController, ControllerState, Place
  <2>2. [NoController EXCEPT !.at = "idle", !.list = U, !.rev = 1] \in ControllerState
    BY <2>1, FieldTypes, Zenon DEF Table
  <2> QED BY <1>1, <2>1, <2>2
<1>4. task \in [Controller -> Tasks]
  <2>1. NoTask \in Tasks
    BY DEF NoTask, Tasks
  <2>2. [NoTask EXCEPT !.running = TRUE, !.token = TRUE] \in Tasks
    BY <2>1, TaskFieldTypes, Zenon
  <2> QED BY <1>1, <2>1, <2>2
<1>5. file \in [{"path", "tmp"} -> Contents]
  BY <1>1 DEF Contents, Saved, NoFile, Table
<1> QED BY <1>1, <1>2, <1>3, <1>4, <1>5 DEF Init, TypeOK, Table

\* Every step keeps the types.
LEMMA TypeNext == TypeOK /\ SnapInv /\ [Next]_vars => TypeOK'
<1> SUFFICES ASSUME TypeOK, SnapInv, [Next]_vars PROVE TypeOK'
  OBVIOUS
<1>place. "idle" \in Place /\ "end" \in Place /\ "ask" \in Place /\ "edge" \in Place
          /\ "sent" \in Place /\ "addids" \in Place /\ "delnode" \in Place
          /\ "activate" \in Place /\ "forget" \in Place /\ "del" \in Place
          /\ "add" \in Place /\ "open" \in Place /\ "write" \in Place
          /\ "rename" \in Place /\ "close" \in Place /\ "apply" \in Place
  BY DEF Place
<1>state. \A c \in Controller :
            /\ ctl[c] \in ControllerState /\ task[c] \in Tasks
            /\ ctl[c].list \subseteq User /\ ctl[c].del \subseteq User
            /\ ctl[c].add \subseteq User /\ ctl[c].rev \in Nat
            /\ ctl[c].at \in Place
  BY DEF TypeOK, ControllerState
<1>none. NoController \in ControllerState /\ NoTask \in Tasks
  BY DEF NoController, ControllerState, Place, NoTask, Tasks
<1>panel. ASSUME NEW U \in Table, PanelChange(U) PROVE TypeOK'
  <2>1. snap' \in Seq(Table) /\ snap' # <<>>
    BY <1>panel DEF PanelChange, TypeOK
  <2> QED BY <1>panel, <2>1 DEF PanelChange, TypeOK, sharedVars, historyVars
<1>create. ASSUME NEW c \in Controller, Create(c) PROVE TypeOK'
  <2>1. file["path"].users \in SUBSET User /\ file["path"].rev \in Nat
    BY DEF TypeOK, Contents
  <2>2. [ctl[c] EXCEPT !.at = "ask", !.list = file["path"].users,
                       !.rev = file["path"].rev] \in ControllerState
    BY <1>place, <1>state, <2>1, FieldTypes, Zenon
  <2>3. ctl' = [ctl EXCEPT ![c] = [ctl[c] EXCEPT !.at = "ask",
                      !.list = file["path"].users, !.rev = file["path"].rev]]
    BY <1>create DEF Create
  <2>4. ctl' \in [Controller -> ControllerState]
    BY <2>2, <2>3 DEF TypeOK
  <2> QED BY <1>create, <2>4 DEF Create, TypeOK, sharedVars, historyVars
<1>gone. ASSUME NEW c \in Controller, PrepareFails(c) \/ ActivateFails(c) PROVE TypeOK'
  <2>1. ctl' \in [Controller -> ControllerState] /\ new' \in Controller \cup {Nil}
    BY <1>gone, GoneType DEF PrepareFails, ActivateFails
  <2> QED BY <1>gone, <2>1 DEF PrepareFails, ActivateFails, Fault, TypeOK,
                               sharedVars,
                               historyVars
<1>task. ASSUME NEW c \in Controller, TaskTick(c) \/ SyncExpire(c) PROVE TypeOK'
  <2>1. [task[c] EXCEPT !.token = FALSE, !.exec = "launched"] \in Tasks
    BY <1>state, TaskFieldTypes, Zenon
  <2>2. [task[c] EXCEPT !.expired = TRUE] \in Tasks
    BY <1>state, TaskFieldTypes, Zenon
  <2>3. \/ task' = [task EXCEPT ![c] = [task[c] EXCEPT !.token = FALSE, !.exec = "launched"]]
        \/ task' = [task EXCEPT ![c] = [task[c] EXCEPT !.expired = TRUE]]
    BY <1>task DEF TaskTick, Tick, SyncExpire, Expire
  <2>4. task' \in [Controller -> Tasks]
    BY <2>1, <2>2, <2>3 DEF TypeOK
  <2> QED BY <1>task, <2>4 DEF TaskTick, SyncExpire, Fault, TypeOK, sharedVars,
                               historyVars
<1>collect. ASSUME NEW c \in Controller, Collect(c) PROVE TypeOK'
  BY <1>collect, <1>none DEF Collect, TypeOK, historyVars
<1>begin. ASSUME NEW c \in Controller, Start(c) PROVE task' \in [Controller -> Tasks]
  <2>1. [NoTask EXCEPT !.running = TRUE, !.token = TRUE] \in Tasks
    BY <1>none, TaskFieldTypes, Zenon
  <2> QED BY <1>begin, <2>1 DEF Start, TypeOK
<1>start. ASSUME NEW c \in Controller, StartStep(c) PROVE TypeOK'
  <2>1. CASE CloseOld(c)
    <3>1. ctl' \in [Controller -> ControllerState]
      BY <2>1, <1>place, GotoType DEF CloseOld
    <3>2. ASSUME slot \in Controller PROVE SafeStop(task[slot]) \in Tasks
      <4>1. [task[slot] EXCEPT !.running = FALSE, !.cancelled = TRUE] \in Tasks
        BY <3>2, <1>state, TaskFieldTypes, Zenon
      <4> QED BY <3>2, <4>1, <1>state DEF SafeStop
    <3>3. task' \in [Controller -> Tasks]
      BY <2>1, <3>2 DEF CloseOld, Close, TypeOK
    <3> QED BY <2>1, <3>1, <3>3 DEF CloseOld, TypeOK, sharedVars, historyVars
  <2>2. CASE DelOld(c)
    <3>1. ctl' \in [Controller -> ControllerState]
      BY <2>2, <1>place, GotoType DEF DelOld
    <3> QED BY <2>2, <3>1 DEF DelOld, DelNode, TypeOK
  <2>3. CASE Activate(c)
    <3>1. ctl' \in [Controller -> ControllerState]
      BY <2>3, <1>place, GotoType DEF Activate
    <3>2. task' \in [Controller -> Tasks] /\ slot' \in Controller \cup {Nil}
          /\ new' \in Controller \cup {Nil}
      BY <2>3, <1>begin DEF Activate, StartTasks, TypeOK
    <3>3. proxy' \in [Controller -> SUBSET User]
      BY <2>3, <1>state DEF Activate, TypeOK
    <3> QED BY <2>3, <3>1, <3>2, <3>3, <1>state DEF Activate, TypeOK
  <2> QED BY <1>start, <2>1, <2>2, <2>3 DEF StartStep
<1>put. ASSUME NEW c \in Controller, NEW k \in ControllerState,
               ctl' = [ctl EXCEPT ![c] = k]
        PROVE  ctl' \in [Controller -> ControllerState]
  BY <1>put DEF TypeOK
<1>sync. ASSUME NEW c \in Controller, SyncStep(c) PROVE TypeOK'
  <2> DEFINE k == ctl[c]
  <2>1. CASE SyncBegin(c)
    <3>1. ctl' \in [Controller -> ControllerState]
      BY <2>1, <1>place, GotoType DEF SyncBegin
    <3>2. [task[c] EXCEPT !.exec = "executing", !.expired = FALSE] \in Tasks
      BY <1>state, TaskFieldTypes, Zenon
    <3>3. task' = [task EXCEPT ![c] = [task[c] EXCEPT !.exec = "executing",
                                                      !.expired = FALSE]]
      BY <2>1 DEF SyncBegin, Begin
    <3>4. task' \in [Controller -> Tasks]
      BY <3>2, <3>3 DEF TypeOK
    <3> QED BY <2>1, <3>1, <3>4 DEF SyncBegin, TypeOK, sharedVars, historyVars
  <2>2. CASE AskFails(c)
    <3>1. ctl' \in [Controller -> ControllerState]
      BY <2>2, <1>place, GotoType DEF AskFails
    <3> QED BY <2>2, <3>1 DEF AskFails, Fault, TypeOK, sharedVars, historyVars
  <2>3. CASE Apply(c)
    <3>1. AfterDelete(c) \in Place
      BY <1>place DEF AfterDelete
    <3>2. [k EXCEPT !.at = AfterDelete(c), !.del = {}] \in ControllerState
      BY <1>state, <3>1, FieldTypes, Zenon
    <3>3. inbound \in Controller \cup {Nil}
      BY DEF TypeOK
    <3>4. [k EXCEPT !.at = "del", !.manager = inbound] \in ControllerState
      BY <1>state, <1>place, <3>3, FieldTypes, Zenon
    <3>5. \/ Goto(c, "end") \/ Goto(c, "addids") \/ Return(c)
          \/ ctl' = [ctl EXCEPT ![c] = [k EXCEPT !.at = AfterDelete(c), !.del = {}]]
          \/ ctl' = [ctl EXCEPT ![c] = [k EXCEPT !.at = "del", !.manager = inbound]]
      BY <2>3 DEF Apply, CutShort
    <3>6. ctl' \in [Controller -> ControllerState]
      BY <3>2, <3>4, <3>5, <1>place, <1>put, GotoType, ReturnType
    <3> QED BY <2>3, <3>6 DEF Apply, CutShort, TypeOK, sharedVars
  <2>4. CASE AddUserIDs(c)
    <3>1. inbound \in Controller \cup {Nil}
      BY DEF TypeOK
    <3>2. [k EXCEPT !.at = "add", !.manager = inbound] \in ControllerState
      BY <1>state, <1>place, <3>1, FieldTypes, Zenon
    <3>3. [k EXCEPT !.at = "edge", !.add = {}] \in ControllerState
      BY <1>state, <1>place, FieldTypes, Zenon
    <3>4. \/ Return(c)
          \/ ctl' = [ctl EXCEPT ![c] = [k EXCEPT !.at = "add", !.manager = inbound]]
          \/ ctl' = [ctl EXCEPT ![c] = [k EXCEPT !.at = "edge", !.add = {}]]
      BY <2>4 DEF AddUserIDs, CutShort
    <3>5. ctl' \in [Controller -> ControllerState]
      BY <3>2, <3>3, <3>4, <1>put, ReturnType
    <3> QED BY <2>4, <3>5, <1>state DEF AddUserIDs, CutShort, TypeOK
  <2>5. CASE SyncEnd(c)
    <3>1. [k EXCEPT !.at = "idle", !.manager = Nil] \in ControllerState
      BY <1>state, <1>place, FieldTypes, Zenon
    <3>2. ctl' = [ctl EXCEPT ![c] = [k EXCEPT !.at = "idle", !.manager = Nil]]
      BY <2>5 DEF SyncEnd
    <3>3. [task[c] EXCEPT !.exec = "idle", !.token = TRUE, !.expired = FALSE] \in Tasks
      BY <1>state, TaskFieldTypes, Zenon
    <3>4. task' = [task EXCEPT ![c] = [task[c] EXCEPT !.exec = "idle", !.token = TRUE,
                                                      !.expired = FALSE]]
      BY <2>5 DEF SyncEnd, Finish
    <3>5. task' \in [Controller -> Tasks] /\ ctl' \in [Controller -> ControllerState]
      BY <3>1, <3>2, <3>3, <3>4, <1>put DEF TypeOK
    <3> QED BY <2>5, <3>5 DEF SyncEnd, TypeOK, sharedVars, historyVars
  <2>6. CASE ForgetUser(c)
    <3> DEFINE rest == k.del \ {k.user}
    <3>1. (IF rest = {} THEN AfterDelete(c) ELSE "del") \in Place /\ rest \subseteq User
      BY <1>place, <1>state DEF AfterDelete
    <3>2. [k EXCEPT !.at = IF rest = {} THEN AfterDelete(c) ELSE "del", !.del = rest,
                    !.user = Nil] \in ControllerState
      BY <3>1, <1>state, FieldTypes, Zenon
    <3>3. ctl' = [ctl EXCEPT ![c] = [k EXCEPT !.at = IF rest = {} THEN AfterDelete(c)
                                                                  ELSE "del",
                                              !.del = rest, !.user = Nil]]
      BY <2>6 DEF ForgetUser
    <3>4. ctl' \in [Controller -> ControllerState]
      BY <3>2, <3>3, <1>put
    <3>5. k.user \in User
      BY <2>6 DEF ForgetUser, SnapInv, ListInv
    <3> QED BY <2>6, <3>4, <3>5 DEF ForgetUser, TypeOK
  <2>7. ASSUME NEW u \in User, DelUser(c, u) PROVE TypeOK'
    <3>1. [k EXCEPT !.at = "forget", !.user = u] \in ControllerState
      BY <1>state, <1>place, FieldTypes, Zenon
    <3>2. \/ Return(c)
          \/ ctl' = [ctl EXCEPT ![c] = [k EXCEPT !.at = "forget", !.user = u]]
      BY <2>7 DEF DelUser, CutShort
    <3>3. ctl' \in [Controller -> ControllerState]
      BY <3>1, <3>2, <1>put, ReturnType
    <3>4. proxy' \in [Controller -> SUBSET User]
      BY <2>7 DEF DelUser, TypeOK
    <3> QED BY <2>7, <3>3, <3>4 DEF DelUser, CutShort, TypeOK
  <2>8. ASSUME NEW u \in User, AddUser(c, u) PROVE TypeOK'
    <3> DEFINE rest == k.add \ {u}
               a    == IF rest = {} THEN "end" ELSE "add"
    <3>1. a \in Place /\ rest \in SUBSET User
      BY <1>place, <1>state
    <3>2. [k EXCEPT !.add = rest, !.at = a] \in ControllerState
      BY <3>1, <1>state, FieldTypes, Zenon
    <3>3. Return(c) \/ ctl' = [ctl EXCEPT ![c] = [k EXCEPT !.add = rest, !.at = a]]
      BY <2>8 DEF AddUser, CutShort
    <3>4. ctl' \in [Controller -> ControllerState]
      BY <3>2, <3>3, <1>put, ReturnType
    <3>5. proxy' \in [Controller -> SUBSET User]
      BY <2>8 DEF AddUser, TypeOK
    <3> QED BY <2>8, <3>4, <3>5 DEF AddUser, CutShort, TypeOK
  <2> QED BY <1>sync, <2>1, <2>2, <2>3, <2>4, <2>5, <2>6, <2>7, <2>8 DEF SyncStep
<1>save. ASSUME NEW c \in Controller, SaveStep(c) PROVE TypeOK'
  <2> DEFINE k == ctl[c]
  <2>1. CASE Ask(c)
    <3> DEFINE l == (k.list \ Deleted(k.rev)) \cup Upsert(k.rev)
               d == IF Starting(c) THEN {} ELSE k.del \cup Deleted(k.rev)
               b == IF Starting(c) THEN {} ELSE k.add \cup Upsert(k.rev)
    <3>1. Rev \in Nat /\ snap[Rev] \subseteq User
      BY DEF TypeOK, Rev, Table
    <3>2. Upsert(k.rev) \subseteq User /\ Deleted(k.rev) \subseteq User
      <4>1. k.rev \in 0 .. Len(snap)
        BY DEF SnapInv, ListInv, Exact
      <4>2. k.rev = 0 \/ snap[k.rev] \subseteq User
        BY <4>1 DEF TypeOK, Table
      <4> QED BY <3>1, <4>2 DEF Upsert, Deleted
    <3>3. l \in SUBSET User /\ d \in SUBSET User /\ b \in SUBSET User
      BY <3>2, <1>state
    <3>6. [k EXCEPT !.at = "open", !.rev = Rev, !.list = l, !.del = d, !.add = b]
            \in ControllerState
      <4> HIDE DEF l, d, b
      <4> QED BY <3>1, <3>3, <1>state, <1>place, FieldTypes, Zenon
    <3>4. ctl' = [ctl EXCEPT ![c] = [k EXCEPT !.at = "open", !.rev = Rev, !.list = l,
                                              !.del = d, !.add = b]]
      BY <2>1 DEF Ask
    <3>5. ctl' \in [Controller -> ControllerState]
      BY <3>4, <3>6, <1>put
    <3> QED BY <2>1, <3>5 DEF Ask, TypeOK, sharedVars, historyVars
  <2>2. CASE SaveOpen(c)
    <3>1. [k EXCEPT !.at = "write", !.open = "tmp"] \in ControllerState
      BY <1>state, <1>place, FieldTypes, Zenon
    <3>2. ctl' = [ctl EXCEPT ![c] = [k EXCEPT !.at = "write", !.open = "tmp"]]
      BY <2>2 DEF SaveOpen
    <3>3. ctl' \in [Controller -> ControllerState]
      BY <3>1, <3>2, <1>put
    <3>4. file' \in [{"path", "tmp"} -> Contents]
      BY <2>2 DEF SaveOpen, Truncated, TypeOK, Contents
    <3> QED BY <2>2, <3>3, <3>4 DEF SaveOpen, TypeOK, historyVars
  <2>3. CASE SaveRename(c)
    <3> DEFINE there == file["tmp"] # NoFile
               next  == IF ~Starting(c) THEN "apply"
                        ELSE IF slot = Nil THEN "activate" ELSE "close"
               e(d)  == IF there THEN [ctl[d] EXCEPT !.open = Renamed(@)] ELSE ctl[d]
    <3>1. next \in Place
      BY <1>place
    <3>2. ASSUME NEW d \in Controller PROVE e(d) \in ControllerState
      <4>1. Renamed(ctl[d].open) \in {"no", "tmp", "path", "gone"}
        BY <1>state DEF Renamed, ControllerState
      <4> QED BY <4>1, <1>state, FieldTypes, Zenon
    <3>3. ctl' = [d \in Controller |-> IF d = c THEN [e(d) EXCEPT !.at = next] ELSE e(d)]
      BY <2>3 DEF SaveRename
    <3>4. \A d \in Controller : [e(d) EXCEPT !.at = next] \in ControllerState
      BY <3>1, <3>2, FieldTypes, Zenon
    <3>5. ctl' \in [Controller -> ControllerState]
      <4> HIDE DEF e, next
      <4> QED BY <3>2, <3>3, <3>4
    <3>6. file' \in [{"path", "tmp"} -> Contents]
      BY <2>3 DEF SaveRename, NoFile, TypeOK, Contents
    <3> QED BY <2>3, <3>5, <3>6 DEF SaveRename, TypeOK, historyVars
  <2>4. ASSUME NEW f \in {Torn, Saved(ctl[c].rev, ctl[c].list)}, SaveWrite(c, f)
        PROVE  TypeOK'
    <3>1. f \in Contents
      BY <1>state DEF Torn, Saved, Contents
    <3>2. [k EXCEPT !.at = "rename", !.open = "no"] \in ControllerState
      BY <1>state, <1>place, FieldTypes, Zenon
    <3>3. ctl' = [ctl EXCEPT ![c] = [k EXCEPT !.at = "rename", !.open = "no"]]
      BY <2>4 DEF SaveWrite
    <3>4. ctl' \in [Controller -> ControllerState]
      BY <3>2, <3>3, <1>put
    <3>5. file' \in [{"path", "tmp"} -> Contents]
      BY <2>4, <3>1 DEF SaveWrite, TypeOK
    <3> QED BY <2>4, <3>4, <3>5 DEF SaveWrite, TypeOK, historyVars
  <2> QED BY <1>save, <2>1, <2>2, <2>3, <2>4 DEF SaveStep
<1>edge. ASSUME NEW c \in Controller, EdgeStep(c) PROVE TypeOK'
  <2>1. CASE EdgeSend(c)
    <3>1. ctl' \in [Controller -> ControllerState]
      BY <2>1, <1>place, GotoType, ReturnType DEF EdgeSend
    <3>2. Request(c) \in [from : Controller, rev : Nat, users : SUBSET User]
      BY <1>state DEF Request
    <3> QED BY <2>1, <3>1, <3>2 DEF EdgeSend, TypeOK
  <2>2. CASE EdgeFails(c)
    <3>1. ctl' \in [Controller -> ControllerState] /\ new' \in Controller \cup {Nil}
      BY <2>2, GoneType, ReturnType DEF EdgeFails, TypeOK
    <3> QED BY <2>2, <3>1 DEF EdgeFails, DelNode, Fault, TypeOK
  <2> QED BY <1>edge, <2>1, <2>2 DEF EdgeStep
<1>daemon. ASSUME NEW r \in flight, EdgeServe(r) \/ EdgeLose(r) PROVE TypeOK'
  <2>1. r.from \in Controller /\ r.users \subseteq User
    BY DEF TypeOK
  <2>2. CASE EdgeLose(r)
    BY <2>2 DEF EdgeLose, TypeOK, historyVars
  <2>3. CASE EdgeServe(r)
    <3>1. ctl' \in [Controller -> ControllerState]
      BY <2>1, <2>3, <1>place, GotoType DEF EdgeServe, TypeOK
    <3>2. task' \in [Controller -> Tasks] /\ slot' \in Controller \cup {Nil}
          /\ new' \in Controller \cup {Nil}
      BY <2>1, <2>3, <1>begin DEF EdgeServe, StartTasks, TypeOK
    <3> QED BY <2>1, <2>3, <3>1, <3>2 DEF EdgeServe, TypeOK
  <2> QED BY <1>daemon, <2>2, <2>3
<1>same. ASSUME UNCHANGED vars PROVE TypeOK'
  BY <1>same DEF TypeOK, vars, sharedVars, historyVars
<1> QED
  BY <1>panel, <1>create, <1>gone, <1>task, <1>collect, <1>start, <1>sync, <1>save,
     <1>edge, <1>daemon, <1>same DEF Next, Step

-----------------------------------------------------------------------------
(* Snapshots.                                                              *)

\* The lists stay exact when no controller gets another list or revision.
LEMMA ListsKept ==
    ASSUME ListInv, UNCHANGED snap,
           \A d \in Controller :
              /\ \/ ctl'[d].rev = ctl[d].rev /\ ctl'[d].list = ctl[d].list
                 \/ ctl'[d] = NoController
              /\ ctl'[d].at \in {"open", "write"} => ctl[d].at \in {"open", "write"}
              /\ ctl'[d].at = "forget" => ctl'[d].user \in User
    PROVE  ListInv'
<1> SUFFICES ASSUME NEW d \in Controller
             PROVE  /\ Exact(ctl[d].rev, ctl[d].list)'
                    /\ ctl'[d].at \in {"open", "write"} => ctl'[d].rev > 0
                    /\ ctl'[d].at = "forget" => ctl'[d].user \in User
  BY DEF ListInv
<1>1. CASE ctl'[d] = NoController
  <2>1. ctl'[d].rev = 0 /\ ctl'[d].list = {} /\ ctl'[d].at = "none"
    BY <1>1 DEF NoController
  <2> QED BY <2>1 DEF Exact, ListInv
<1>2. CASE ctl'[d].rev = ctl[d].rev /\ ctl'[d].list = ctl[d].list
  BY <1>2 DEF Exact, ListInv
<1> QED BY <1>1, <1>2

\* The files stay exact when nobody writes one.
LEMMA FilesKept ==
    ASSUME FileInv, UNCHANGED <<snap, file>>
    PROVE  FileInv'
BY DEF FileInv, Exact

\* The same when a controller goes to a place that needs nothing of its list ...
LEMMA ListsGoto ==
    ASSUME TypeOK, ListInv, UNCHANGED snap, NEW c \in Controller, NEW a,
           a \notin {"open", "write", "forget"}, Goto(c, a)
    PROVE  ListInv'
<1>1. \A d \in Controller :
         /\ ctl'[d].rev = ctl[d].rev /\ ctl'[d].list = ctl[d].list
         /\ ctl'[d].user = ctl[d].user
         /\ ctl'[d].at = IF d = c THEN a ELSE ctl[d].at
  BY DEF Goto, TypeOK, ControllerState
<1>2. \A d \in Controller : ctl[d].at = "forget" => ctl[d].user \in User
  BY DEF ListInv
<1> QED BY <1>1, <1>2, ListsKept

\* ... when its sync returns ...
LEMMA ListsReturn ==
    ASSUME TypeOK, ListInv, UNCHANGED snap, NEW c \in Controller, Return(c)
    PROVE  ListInv'
<1>1. \A d \in Controller :
         /\ ctl'[d].rev = ctl[d].rev /\ ctl'[d].list = ctl[d].list
         /\ ctl'[d].user = ctl[d].user
         /\ ctl'[d].at = IF d = c THEN "end" ELSE ctl[d].at
  BY DEF Return, TypeOK, ControllerState
<1>2. \A d \in Controller : ctl[d].at = "forget" => ctl[d].user \in User
  BY DEF ListInv
<1> QED BY <1>1, <1>2, ListsKept

\* ... and when its start fails.
LEMMA ListsGone ==
    ASSUME TypeOK, ListInv, UNCHANGED snap, NEW c \in Controller,
           ctl' = [ctl EXCEPT ![c] = NoController]
    PROVE  ListInv'
<1>1. \A d \in Controller : ctl'[d] = IF d = c THEN NoController ELSE ctl[d]
  BY DEF TypeOK
<1>2. NoController.at = "none"
  BY DEF NoController
<1>3. \A d \in Controller : ctl[d].at = "forget" => ctl[d].user \in User
  BY DEF ListInv
<1> QED BY <1>1, <1>2, <1>3, ListsKept

\* The first list and the first file are the first table.
LEMMA SnapInit == Init => SnapInv
<1> SUFFICES ASSUME Init PROVE SnapInv
  OBVIOUS
<1>1. PICK c \in Controller, U \in Table :
        /\ snap = <<U>>
        /\ ctl = [d \in Controller |->
                    IF d = c THEN [NoController EXCEPT !.at = "idle", !.list = U,
                                                       !.rev = 1]
                    ELSE NoController]
        /\ file = [n \in {"path", "tmp"} |-> IF n = "path" THEN Saved(1, U) ELSE NoFile]
  BY DEF Init
<1>2. Len(snap) = 1 /\ snap[1] = U
  BY <1>1
<1>3. \A d \in Controller :
         \/ ctl[d].rev = 1 /\ ctl[d].list = U /\ ctl[d].at = "idle"
         \/ ctl[d].rev = 0 /\ ctl[d].list = {} /\ ctl[d].at = "none"
  BY <1>1 DEF NoController
<1>4. \A n \in {"path", "tmp"} :
         \/ file[n].rev = 1 /\ file[n].users = U
         \/ file[n].rev = 0 /\ file[n].users = {} /\ file[n].kind = "none"
  BY <1>1 DEF Saved, NoFile
<1> QED BY <1>2, <1>3, <1>4 DEF SnapInv, ListInv, FileInv, Exact

\* A step of the panel, of a start, of a sync, of a save or of the daemon.
LEMMA SnapNext == TypeOK /\ SnapInv /\ [Next]_vars => SnapInv'
<1> SUFFICES ASSUME TypeOK, ListInv, FileInv, [Next]_vars PROVE ListInv' /\ FileInv'
  BY DEF SnapInv
<1>forget. \A d \in Controller : ctl[d].at = "forget" => ctl[d].user \in User
  BY DEF ListInv
<1>same. ASSUME UNCHANGED <<snap, ctl, file>> PROVE ListInv' /\ FileInv'
  BY <1>same, <1>forget, ListsKept, FilesKept
<1>panel. ASSUME NEW U \in Table, PanelChange(U) PROVE ListInv' /\ FileInv'
  <2>1. /\ Len(snap') = Len(snap) + 1 /\ Len(snap) \in Nat
        /\ \A i \in 1 .. Len(snap) : snap'[i] = snap[i]
    BY <1>panel DEF PanelChange, TypeOK
  <2>2. ASSUME NEW r, NEW V, Exact(r, V)
        PROVE  r \in 0 .. Len(snap') /\ (r = 0 => V = {}) /\ (r > 0 => V = snap'[r])
    BY <2>1, <2>2 DEF Exact
  <2>3. ListInv'
    BY <1>panel, <2>2 DEF PanelChange, ListInv, Exact
  <2>4. FileInv'
    BY <1>panel, <2>2 DEF PanelChange, FileInv, Exact, sharedVars
  <2> QED BY <2>3, <2>4
<1>create. ASSUME NEW c \in Controller, Create(c) PROVE ListInv' /\ FileInv'
  <2>1. FileInv'
    BY <1>create, FilesKept DEF Create, sharedVars
  <2>2. /\ ctl'[c].rev = file["path"].rev /\ ctl'[c].list = file["path"].users
        /\ ctl'[c].at = "ask"
        /\ \A d \in Controller \ {c} : ctl'[d] = ctl[d]
    BY <1>create DEF Create, TypeOK, ControllerState
  <2>3. Exact(file["path"].rev, file["path"].users)
    BY DEF FileInv
  <2>4. snap' = snap
    BY <1>create DEF Create
  <2>5. ListInv'
    BY <2>2, <2>3, <2>4 DEF ListInv, Exact
  <2> QED BY <2>1, <2>5
<1>gone. ASSUME NEW c \in Controller, PrepareFails(c) \/ ActivateFails(c)
         PROVE ListInv' /\ FileInv'
  BY <1>gone, ListsGone, FilesKept DEF PrepareFails, ActivateFails, Gone, sharedVars
<1>collect. ASSUME NEW c \in Controller, Collect(c) PROVE ListInv' /\ FileInv'
  BY <1>collect, ListsGone, FilesKept DEF Collect
<1>task. ASSUME NEW c \in Controller, TaskTick(c) \/ SyncExpire(c)
         PROVE ListInv' /\ FileInv'
  BY <1>task, <1>same DEF TaskTick, SyncExpire, sharedVars
<1>start. ASSUME NEW c \in Controller, StartStep(c) PROVE ListInv' /\ FileInv'
  <2>1. UNCHANGED <<snap, file>>
    BY <1>start DEF StartStep, CloseOld, DelOld, Activate, sharedVars
  <2>2. \/ Goto(c, "delnode") \/ Goto(c, "activate") \/ Goto(c, "idle")
        \/ Goto(c, "edge")
    BY <1>start DEF StartStep, CloseOld, DelOld, Activate
  <2> QED BY <2>1, <2>2, ListsGoto, FilesKept
<1>sync. ASSUME NEW c \in Controller, SyncStep(c) PROVE ListInv' /\ FileInv'
  <2>1. UNCHANGED <<snap, file>>
    BY <1>sync DEF SyncStep, SyncBegin, AskFails, Apply, AddUserIDs, SyncEnd,
                   ForgetUser,
                   DelUser, AddUser, sharedVars
  <2>2. CASE SyncBegin(c) \/ AskFails(c)
    BY <2>1, <2>2, ListsGoto, FilesKept DEF SyncBegin, AskFails
  <2>a. ASSUME NEW a, a \notin {"open", "write", "forget"},
               /\ ctl'[c].rev = ctl[c].rev /\ ctl'[c].list = ctl[c].list
               /\ ctl'[c].at = a
               /\ \A d \in Controller \ {c} : ctl'[d] = ctl[d]
        PROVE  ListInv' /\ FileInv'
    BY <2>1, <2>a, <1>forget, ListsKept, FilesKept
  <2>b. AfterDelete(c) \notin {"open", "write", "forget"}
    BY DEF AfterDelete
  <2>3. CASE Apply(c)
    <3>1. CASE Goto(c, "end") \/ Goto(c, "addids") \/ Return(c)
      BY <2>1, <3>1, ListsGoto, ListsReturn, FilesKept
    <3>2. CASE ctl' = [ctl EXCEPT ![c].at = AfterDelete(c), ![c].del = {}]
      BY <3>2, <2>a, <2>b DEF TypeOK, ControllerState
    <3>3. CASE ctl' = [ctl EXCEPT ![c].at = "del", ![c].manager = inbound]
      BY <3>3, <2>a DEF TypeOK, ControllerState
    <3> QED BY <2>3, <3>1, <3>2, <3>3 DEF Apply, CutShort
  <2>4. CASE AddUserIDs(c)
    <3>1. CASE Return(c)
      BY <2>1, <3>1, ListsReturn, FilesKept
    <3>2. CASE ctl' = [ctl EXCEPT ![c].at = "edge", ![c].add = {}]
      BY <3>2, <2>a DEF TypeOK, ControllerState
    <3>3. CASE ctl' = [ctl EXCEPT ![c].at = "add", ![c].manager = inbound]
      BY <3>3, <2>a DEF TypeOK, ControllerState
    <3> QED BY <2>4, <3>1, <3>2, <3>3 DEF AddUserIDs, CutShort
  <2>5. CASE SyncEnd(c)
    BY <2>5, <2>a DEF SyncEnd, TypeOK, ControllerState
  <2>6. CASE ForgetUser(c)
    <3> DEFINE a == IF ctl[c].del \ {ctl[c].user} = {} THEN AfterDelete(c) ELSE "del"
    <3>1. a \notin {"open", "write", "forget"}
      BY <2>b
    <3>2. /\ ctl'[c].rev = ctl[c].rev /\ ctl'[c].list = ctl[c].list
          /\ ctl'[c].at = a
          /\ \A d \in Controller \ {c} : ctl'[d] = ctl[d]
      BY <2>6 DEF ForgetUser, TypeOK, ControllerState
    <3> HIDE DEF a
    <3> QED BY <3>1, <3>2, <2>a
  <2>7. ASSUME NEW u \in User, DelUser(c, u) PROVE ListInv' /\ FileInv'
    <3>1. CASE Return(c)
      BY <2>1, <3>1, ListsReturn, FilesKept
    <3>2. CASE ctl' = [ctl EXCEPT ![c].at = "forget", ![c].user = u]
      <4>1. /\ ctl'[c].rev = ctl[c].rev /\ ctl'[c].list = ctl[c].list
            /\ ctl'[c].at = "forget" /\ ctl'[c].user = u
            /\ \A d \in Controller \ {c} : ctl'[d] = ctl[d]
        BY <3>2 DEF TypeOK, ControllerState
      <4> QED BY <2>1, <4>1, <1>forget, ListsKept, FilesKept
    <3> QED BY <2>7, <3>1, <3>2 DEF DelUser, CutShort
  <2>8. ASSUME NEW u \in User, AddUser(c, u) PROVE ListInv' /\ FileInv'
    <3> DEFINE rest == ctl[c].add \ {u}
               a    == IF rest = {} THEN "end" ELSE "add"
    <3>1. CASE Return(c)
      BY <2>1, <3>1, ListsReturn, FilesKept
    <3>2. CASE ctl' = [ctl EXCEPT ![c].add = rest, ![c].at = a]
      <4>1. /\ ctl'[c].rev = ctl[c].rev /\ ctl'[c].list = ctl[c].list
            /\ ctl'[c].at = a
            /\ \A d \in Controller \ {c} : ctl'[d] = ctl[d]
        BY <3>2 DEF TypeOK, ControllerState
      <4>2. a \notin {"open", "write", "forget"}
        OBVIOUS
      <4> HIDE DEF a
      <4> QED BY <4>1, <4>2, <2>a
    <3> QED BY <2>8, <3>1, <3>2 DEF AddUser, CutShort
  <2> QED BY <1>sync, <2>2, <2>3, <2>4, <2>5, <2>6, <2>7, <2>8 DEF SyncStep
<1>save. ASSUME NEW c \in Controller, SaveStep(c) PROVE ListInv' /\ FileInv'
  <2>0. snap' = snap
    BY <1>save DEF SaveStep, Ask, SaveOpen, SaveRename, SaveWrite
  <2>1. CASE Ask(c)
    <3> DEFINE r == ctl[c].rev
    <3>1. /\ ctl'[c].rev = Rev
          /\ ctl'[c].list = (ctl[c].list \ Deleted(r)) \cup Upsert(r)
          /\ ctl'[c].at = "open"
          /\ \A d \in Controller \ {c} : ctl'[d] = ctl[d]
      BY <2>1 DEF Ask, TypeOK, ControllerState
    <3>2. Rev \in Nat /\ Rev > 0 /\ Rev = Len(snap)
      BY DEF Rev, TypeOK
    <3>3. Exact(r, ctl[c].list)
      BY DEF ListInv
    <3>4. (ctl[c].list \ Deleted(r)) \cup Upsert(r) = snap[Rev]
      <4>1. CASE r = 0
        BY <3>3, <4>1 DEF Exact, Deleted, Upsert
      <4>2. CASE r # 0
        <5>1. ctl[c].list = snap[r]
          BY <3>3, <4>2 DEF Exact
        <5> QED BY <4>2, <5>1 DEF Deleted, Upsert
      <4> QED BY <4>1, <4>2
    <3>5. ListInv'
      <4>1. /\ Exact(ctl[c].rev, ctl[c].list)' /\ ctl'[c].rev > 0
            /\ ctl'[c].at = "open"
        <5> HIDE DEF r
        <5> QED BY <2>0, <3>1, <3>2, <3>4 DEF Exact
      <4>2. \A d \in Controller \ {c} :
               /\ Exact(ctl[d].rev, ctl[d].list)'
               /\ ctl'[d].at \in {"open", "write"} => ctl'[d].rev > 0
               /\ ctl'[d].at = "forget" => ctl'[d].user \in User
        BY <2>0, <3>1 DEF ListInv, Exact
      <4> QED BY <4>1, <4>2 DEF ListInv
    <3> QED BY <2>1, <3>5, <2>0, FilesKept DEF Ask, sharedVars
  <2>2. CASE SaveOpen(c)
    <3>1. /\ ctl'[c].rev = ctl[c].rev /\ ctl'[c].list = ctl[c].list
          /\ ctl'[c].at = "write" /\ ctl[c].at = "open"
          /\ \A d \in Controller \ {c} : ctl'[d] = ctl[d]
      BY <2>2 DEF SaveOpen, TypeOK, ControllerState
    <3>2. ListInv'
      BY <2>0, <3>1, <1>forget, ListsKept
    <3>3. file'["path"] = file["path"] /\ file'["tmp"] = Truncated
      BY <2>2 DEF SaveOpen, TypeOK
    <3>4. FileInv'
      BY <2>0, <3>3 DEF FileInv, Exact, Truncated, TypeOK
    <3> QED BY <3>2, <3>4
  <2>3. CASE SaveRename(c)
    <3>1. \A d \in Controller :
             /\ ctl'[d].rev = ctl[d].rev /\ ctl'[d].list = ctl[d].list
             /\ ctl'[d].user = ctl[d].user
             /\ ctl'[d].at = ctl[d].at \/ ctl'[d].at \in {"apply", "activate", "close"}
      BY <2>3 DEF SaveRename, TypeOK, ControllerState
    <3>2. ListInv'
      BY <2>0, <3>1, <1>forget, ListsKept
    <3>3. \/ file' = file
          \/ file'["path"] = file["tmp"] /\ file'["tmp"] = NoFile
      BY <2>3 DEF SaveRename, TypeOK
    <3>4. FileInv'
      BY <2>0, <3>3 DEF FileInv, Exact, NoFile, TypeOK
    <3> QED BY <3>2, <3>4
  <2>4. ASSUME NEW f \in {Torn, Saved(ctl[c].rev, ctl[c].list)}, SaveWrite(c, f)
        PROVE  ListInv' /\ FileInv'
    <3>1. /\ ctl'[c].rev = ctl[c].rev /\ ctl'[c].list = ctl[c].list
          /\ ctl'[c].at = "rename" /\ ctl[c].at = "write"
          /\ \A d \in Controller \ {c} : ctl'[d] = ctl[d]
      BY <2>4 DEF SaveWrite, TypeOK, ControllerState
    <3>2. ListInv'
      BY <2>0, <3>1, <1>forget, ListsKept
    <3>3. Exact(f.rev, f.users) /\ (f.kind = "ok" => f.rev > 0)
      <4>1. Exact(ctl[c].rev, ctl[c].list) /\ ctl[c].rev > 0 /\ Len(snap) \in Nat
        BY <3>1 DEF ListInv, TypeOK
      <4> QED BY <4>1 DEF Exact, Torn, Saved
    <3>4. \A n \in {"path", "tmp"} : file'[n] = file[n] \/ file'[n] = f
      BY <2>4 DEF SaveWrite, TypeOK
    <3>5. FileInv'
      BY <2>0, <3>3, <3>4 DEF FileInv, Exact
    <3> QED BY <3>2, <3>5
  <2> QED BY <1>save, <2>1, <2>2, <2>3, <2>4 DEF SaveStep
<1>edge. ASSUME NEW c \in Controller, EdgeStep(c) PROVE ListInv' /\ FileInv'
  <2>1. UNCHANGED <<snap, file>>
    BY <1>edge DEF EdgeStep, EdgeSend, EdgeFails
  <2>2. Goto(c, "sent") \/ Return(c) \/ ctl' = [ctl EXCEPT ![c] = NoController]
    BY <1>edge DEF EdgeStep, EdgeSend, EdgeFails, Gone
  <2> QED BY <2>1, <2>2, ListsGoto, ListsReturn, ListsGone, FilesKept
<1>daemon. ASSUME NEW r \in flight, EdgeServe(r) \/ EdgeLose(r) PROVE ListInv' /\ FileInv'
  <2>1. UNCHANGED <<snap, file>> /\ r.from \in Controller
    BY <1>daemon DEF EdgeServe, EdgeLose, TypeOK
  <2>2. UNCHANGED ctl \/ Goto(r.from, "idle") \/ Goto(r.from, "end")
    BY <1>daemon DEF EdgeServe, EdgeLose
  <2> QED BY <2>1, <2>2, <1>same, ListsGoto, FilesKept
<1> QED
  <2>1. CASE UNCHANGED vars
    BY <2>1, <1>same DEF vars, sharedVars
  <2> QED BY <2>1, <1>panel, <1>create, <1>gone, <1>task, <1>collect, <1>start,
     <1>sync,
             <1>save, <1>edge, <1>daemon DEF Next, Step

-----------------------------------------------------------------------------
(* Tasks.                                                                  *)

\* Init: one task runs and none executes.
LEMMA TaskInit == Init => TaskInv
<1> SUFFICES ASSUME Init PROVE TaskInv
  OBVIOUS
<1>1. PICK c \in Controller, U \in Table :
        /\ ctl = [d \in Controller |->
                    IF d = c THEN [NoController EXCEPT !.at = "idle", !.list = U,
                                                       !.rev = 1]
                    ELSE NoController]
        /\ task = [d \in Controller |->
                     IF d = c THEN [NoTask EXCEPT !.running = TRUE, !.token = TRUE]
                     ELSE NoTask]
  BY DEF Init
<1>2. ctl[c].at = "idle" /\ \A d \in Controller \ {c} : ctl[d].at = "none"
  BY <1>1 DEF NoController
<1>3. /\ task[c].token /\ task[c].exec = "idle" /\ task[c].running /\ ~task[c].cancelled
      /\ \A d \in Controller \ {c} : /\ ~task[d].token /\ task[d].exec = "idle"
                                     /\ ~task[d].running
  BY <1>1 DEF NoTask
<1>4. new = Nil /\ Nil \notin Controller
  BY TakeoverAssumption DEF Init
<1> QED BY <1>2, <1>3, <1>4 DEF TaskInv

\* What TaskInv says of one controller, its place a and its task t.
TaskFits(c, a, t, n) ==
    /\ t.token => t.exec = "idle"
    /\ t.running => ~t.cancelled
    /\ ~t.running /\ t.exec # "idle" => t.cancelled
    /\ c = n \/ a = "none" => ~t.running /\ t.exec = "idle"
    /\ a \in {"close", "delnode", "activate"} => c = n

\* The steps of Takeover: what each does to a controller's place and its task.
LEMMA TaskNext == TypeOK /\ TaskInv /\ [Next]_vars => TaskInv'
<1> SUFFICES ASSUME TypeOK, TaskInv, [Next]_vars PROVE TaskInv'
  OBVIOUS
<1> USE DEF TaskFits
<1>fits. \A c \in Controller : TaskFits(c, ctl[c].at, task[c], new)
  BY DEF TaskInv
<1>goal. ASSUME \A c \in Controller : TaskFits(c, ctl'[c].at, task'[c], new')
         PROVE  TaskInv'
  BY <1>goal DEF TaskInv
<1>nil. Nil \notin Controller
  BY TakeoverAssumption
<1> HIDE DEF TaskFits
\* A step that moves one controller between places of a start or of a sync.
<1>move. ASSUME NEW c \in Controller, NEW a, UNCHANGED <<task, new>>,
                ctl[c].at # "none", ctl'[c].at = a,
                a \notin {"none", "close", "delnode", "activate"} \/ c = new,
                \A d \in Controller \ {c} : ctl'[d].at = ctl[d].at
         PROVE  TaskInv'
  <2>1. TaskFits(c, ctl'[c].at, task'[c], new')
    BY <1>move, <1>fits DEF TaskFits
  <2> QED BY <1>move, <1>fits, <2>1, <1>goal
<1>goto. ASSUME NEW c \in Controller, NEW a, Goto(c, a)
         PROVE  /\ ctl'[c].at = a
                /\ \A d \in Controller \ {c} : ctl'[d].at = ctl[d].at
  BY <1>goto DEF Goto, TypeOK, ControllerState
<1>return. ASSUME NEW c \in Controller, Return(c)
           PROVE  /\ ctl'[c].at = "end"
                  /\ \A d \in Controller \ {c} : ctl'[d].at = ctl[d].at
  BY <1>return DEF Return, TypeOK, ControllerState
<1>gone. ASSUME NEW c \in Controller, c = new, Gone(c), UNCHANGED task PROVE TaskInv'
  <2>1. /\ ctl'[c].at = "none" /\ new' = Nil
        /\ \A d \in Controller \ {c} : ctl'[d].at = ctl[d].at
    BY <1>gone DEF Gone, TypeOK, NoController
  <2>2. \A d \in Controller : TaskFits(d, ctl'[d].at, task'[d], new')
    BY <2>1, <1>gone, <1>fits, <1>nil DEF TaskFits
  <2> QED BY <2>2, <1>goal
<1>begin. ASSUME NEW c \in Controller, c = new, Goto(c, "idle"), StartTasks(c)
          PROVE  TaskInv'
  <2>1. /\ ctl'[c].at = "idle" /\ new' = Nil
        /\ task'[c].running /\ task'[c].exec = "idle" /\ ~task'[c].cancelled
        /\ \A d \in Controller \ {c} : ctl'[d].at = ctl[d].at /\ task'[d] = task[d]
    BY <1>begin, <1>goto DEF StartTasks, Start, NoTask, TypeOK
  <2>2. \A d \in Controller : TaskFits(d, ctl'[d].at, task'[d], new')
    BY <2>1, <1>begin, <1>fits, <1>nil DEF TaskFits
  <2> QED BY <2>2, <1>goal
<1>same. ASSUME UNCHANGED <<ctl, task, new>> PROVE TaskInv'
  BY <1>same, <1>fits, <1>goal
<1>panel. ASSUME NEW U \in Table, PanelChange(U) PROVE TaskInv'
  BY <1>panel, <1>same DEF PanelChange
<1>create. ASSUME NEW c \in Controller, Create(c) PROVE TaskInv'
  <2>1. /\ ctl[c].at = "none" /\ ctl'[c].at = "ask" /\ new' = c /\ new = Nil
        /\ task' = task
        /\ \A d \in Controller \ {c} : ctl'[d].at = ctl[d].at
    BY <1>create DEF Create, NoController, TypeOK, ControllerState
  <2>2. \A d \in Controller : TaskFits(d, ctl'[d].at, task'[d], new')
    BY <2>1, <1>fits, <1>nil DEF TaskFits
  <2> QED BY <2>2, <1>goal
<1>fails. ASSUME NEW c \in Controller, PrepareFails(c) \/ ActivateFails(c) PROVE TaskInv'
  <2>1. c = new
    BY <1>fails, <1>fits DEF PrepareFails, ActivateFails, Starting, TaskFits
  <2> QED BY <2>1, <1>fails, <1>gone DEF PrepareFails, ActivateFails
<1>task. ASSUME NEW c \in Controller, TaskTick(c) \/ SyncExpire(c) PROVE TaskInv'
  <2>1. /\ UNCHANGED <<ctl, new>>
        /\ \A d \in Controller \ {c} : task'[d] = task[d]
        /\ task'[c].running = task[c].running /\ task'[c].cancelled = task[c].cancelled
        /\ \/ task[c].running /\ ~task'[c].token
           \/ task'[c].token = task[c].token /\ task'[c].exec = task[c].exec
    BY <1>task DEF TaskTick, Tick, SyncExpire, Expire, TypeOK, Tasks
  <2>2. \A d \in Controller : TaskFits(d, ctl'[d].at, task'[d], new')
    BY <2>1, <1>fits DEF TaskFits
  <2> QED BY <2>2, <1>goal
<1>collect. ASSUME NEW c \in Controller, Collect(c) PROVE TaskInv'
  <2>1. /\ UNCHANGED new /\ ctl'[c].at = "none" /\ task'[c] = NoTask
        /\ \A d \in Controller \ {c} : ctl'[d].at = ctl[d].at /\ task'[d] = task[d]
    BY <1>collect DEF Collect, TypeOK, NoController
  <2>2. \A d \in Controller : TaskFits(d, ctl'[d].at, task'[d], new')
    BY <2>1, <1>fits DEF TaskFits, NoTask
  <2> QED BY <2>2, <1>goal
<1>start. ASSUME NEW c \in Controller, StartStep(c) PROVE TaskInv'
  <2>0. c = new /\ ctl[c].at # "none"
    BY <1>start, <1>fits DEF StartStep, CloseOld, DelOld, Activate, TaskFits
  <2>1. CASE CloseOld(c)
    <3>1. /\ UNCHANGED new /\ ctl'[c].at = "delnode"
          /\ \A d \in Controller \ {c} : ctl'[d].at = ctl[d].at
      BY <2>1, <1>goto DEF CloseOld
    <3>2. \A d \in Controller :
             \/ task'[d] = task[d]
             \/ /\ task[d].running /\ ~task'[d].running /\ task'[d].cancelled
                /\ task'[d].exec = task[d].exec /\ task'[d].token = task[d].token
      BY <2>1 DEF CloseOld, Close, SafeStop, TypeOK, Tasks
    <3>3. \A d \in Controller : TaskFits(d, ctl'[d].at, task'[d], new')
      BY <2>0, <3>1, <3>2, <1>fits DEF TaskFits
    <3> QED BY <3>3, <1>goal
  <2>2. CASE DelOld(c)
    BY <2>0, <2>2, <1>goto, <1>move DEF DelOld
  <2>3. CASE Activate(c)
    BY <2>0, <2>3, <1>goto, <1>move, <1>begin DEF Activate
  <2> QED BY <1>start, <2>1, <2>2, <2>3 DEF StartStep
<1>sync. ASSUME NEW c \in Controller, SyncStep(c) PROVE TaskInv'
  <2>1. CASE SyncBegin(c)
    <3>1. /\ UNCHANGED new /\ ctl'[c].at = "ask"
          /\ task[c].exec = "launched" /\ task'[c].exec = "executing"
          /\ task'[c].running = task[c].running /\ task'[c].token = task[c].token
          /\ task'[c].cancelled = task[c].cancelled
          /\ \A d \in Controller \ {c} : ctl'[d].at = ctl[d].at /\ task'[d] = task[d]
      BY <2>1, <1>goto DEF SyncBegin, Begin, TypeOK, Tasks
    <3>2. \A d \in Controller : TaskFits(d, ctl'[d].at, task'[d], new')
      BY <3>1, <1>fits DEF TaskFits
    <3> QED BY <3>2, <1>goal
  <2>2. CASE SyncEnd(c)
    <3>1. /\ UNCHANGED new /\ ctl'[c].at = "idle"
          /\ task'[c].exec = "idle" /\ task[c].exec = "executing"
          /\ task'[c].running = task[c].running
          /\ task'[c].cancelled = task[c].cancelled
          /\ \A d \in Controller \ {c} : ctl'[d].at = ctl[d].at /\ task'[d] = task[d]
      BY <2>2 DEF SyncEnd, Finish, TypeOK, Tasks, ControllerState
    <3>2. \A d \in Controller : TaskFits(d, ctl'[d].at, task'[d], new')
      BY <3>1, <1>fits DEF TaskFits
    <3> QED BY <3>2, <1>goal
  <2>3. CASE AskFails(c)
    BY <2>3, <1>goto, <1>move DEF AskFails
  <2>4. CASE Apply(c)
    <3>1. UNCHANGED <<task, new>> /\ ctl[c].at = "apply"
      BY <2>4 DEF Apply
    <3>2. CASE Goto(c, "end") \/ Goto(c, "addids") \/ Return(c)
      BY <3>1, <3>2, <1>goto, <1>return, <1>move
    <3>3. CASE \/ ctl' = [ctl EXCEPT ![c].at = AfterDelete(c), ![c].del = {}]
               \/ ctl' = [ctl EXCEPT ![c].at = "del", ![c].manager = inbound]
      <4>1. /\ ctl'[c].at \notin {"none", "close", "delnode", "activate"}
            /\ \A d \in Controller \ {c} : ctl'[d].at = ctl[d].at
        BY <3>3 DEF TypeOK, ControllerState, AfterDelete
      <4> QED BY <3>1, <4>1, <1>move
    <3> QED BY <2>4, <3>2, <3>3 DEF Apply, CutShort
  <2>5. CASE AddUserIDs(c)
    <3>1. UNCHANGED <<task, new>> /\ ctl[c].at = "addids"
      BY <2>5 DEF AddUserIDs
    <3>2. CASE Return(c)
      BY <3>1, <3>2, <1>return, <1>move
    <3>3. CASE \/ ctl' = [ctl EXCEPT ![c].at = "edge", ![c].add = {}]
               \/ ctl' = [ctl EXCEPT ![c].at = "add", ![c].manager = inbound]
      <4>1. /\ ctl'[c].at \notin {"none", "close", "delnode", "activate"}
            /\ \A d \in Controller \ {c} : ctl'[d].at = ctl[d].at
        BY <3>3 DEF TypeOK, ControllerState
      <4> QED BY <3>1, <4>1, <1>move
    <3> QED BY <2>5, <3>2, <3>3 DEF AddUserIDs, CutShort
  <2>6. CASE ForgetUser(c)
    <3> DEFINE a == IF ctl[c].del \ {ctl[c].user} = {} THEN AfterDelete(c) ELSE "del"
    <3>1. /\ UNCHANGED <<task, new>> /\ ctl[c].at = "forget"
          /\ ctl'[c].at = a
          /\ \A d \in Controller \ {c} : ctl'[d].at = ctl[d].at
      BY <2>6 DEF ForgetUser, TypeOK, ControllerState
    <3>2. a \notin {"none", "close", "delnode", "activate"}
      BY DEF AfterDelete
    <3> HIDE DEF a
    <3> QED BY <3>1, <3>2, <1>move
  <2>7. ASSUME NEW u \in User, DelUser(c, u) \/ AddUser(c, u) PROVE TaskInv'
    <3>1. UNCHANGED <<task, new>> /\ ctl[c].at \in {"del", "add"}
      BY <2>7 DEF DelUser, AddUser
    <3>2. CASE Return(c)
      BY <3>1, <3>2, <1>return, <1>move
    <3>3. CASE ~Return(c)
      <4>1. /\ ctl'[c].at \notin {"none", "close", "delnode", "activate"}
            /\ \A d \in Controller \ {c} : ctl'[d].at = ctl[d].at
        BY <2>7, <3>3 DEF DelUser, AddUser, CutShort, TypeOK, ControllerState
      <4> QED BY <3>1, <4>1, <1>move
    <3> QED BY <3>2, <3>3
  <2> QED BY <1>sync, <2>1, <2>2, <2>3, <2>4, <2>5, <2>6, <2>7 DEF SyncStep
<1>save. ASSUME NEW c \in Controller, SaveStep(c) PROVE TaskInv'
  <2>1. /\ UNCHANGED <<task, new>> /\ ctl[c].at \in {"ask", "open", "write", "rename"}
    BY <1>save DEF SaveStep, Ask, SaveOpen, SaveRename, SaveWrite
  <2>2. CASE ~SaveRename(c)
    <3>1. /\ ctl'[c].at \in {"open", "write", "rename"}
          /\ \A d \in Controller \ {c} : ctl'[d].at = ctl[d].at
      BY <1>save, <2>2 DEF SaveStep, Ask, SaveOpen, SaveWrite, TypeOK,
                           ControllerState
    <3> QED BY <2>1, <3>1, <1>move
  <2>3. CASE SaveRename(c)
    <3>1. /\ ctl'[c].at \in {"apply", "activate", "close"}
          /\ ctl'[c].at # "apply" => c = new
          /\ \A d \in Controller \ {c} : ctl'[d].at = ctl[d].at
      BY <2>3 DEF SaveRename, Starting, TypeOK, ControllerState
    <3> QED BY <2>1, <3>1, <1>move
  <2> QED BY <2>2, <2>3
<1>edge. ASSUME NEW c \in Controller, EdgeStep(c) PROVE TaskInv'
  <2>1. CASE EdgeSend(c)
    BY <2>1, <1>goto, <1>return, <1>move DEF EdgeSend
  <2>2. CASE EdgeFails(c)
    BY <2>2, <1>return, <1>move, <1>gone DEF EdgeFails, Starting
  <2> QED BY <1>edge, <2>1, <2>2 DEF EdgeStep
<1>daemon. ASSUME NEW r \in flight, EdgeServe(r) \/ EdgeLose(r) PROVE TaskInv'
  <2>1. r.from \in Controller
    BY DEF TypeOK
  <2>2. CASE EdgeLose(r)
    BY <2>2, <1>same DEF EdgeLose
  <2>3. CASE EdgeServe(r)
    BY <2>1, <2>3, <1>same, <1>goto, <1>move, <1>begin DEF EdgeServe, Starting
  <2> QED BY <1>daemon, <2>2, <2>3
<1> QED
  <2>1. CASE UNCHANGED vars
    BY <2>1, <1>same DEF vars
  <2> QED BY <2>1, <1>panel, <1>create, <1>fails, <1>task, <1>collect, <1>start,
     <1>sync,
             <1>save, <1>edge, <1>daemon DEF Next, Step

\* The state of a job as the mapping gives it, for one controller.
JobState(t) == IF t.exec = "launched" THEN "due"
               ELSE IF t.exec = "idle" THEN "idle"
               ELSE IF t.cancelled \/ t.expired THEN "dead" ELSE "live"

\* A step that changes one task is a step of its job, or none.
LEMMA JobStep ==
    ASSUME NEW c \in Controller, DOMAIN task = Controller, DOMAIN task' = Controller,
           \A d \in Controller \ {c} : task'[d] = task[d],
           LET o == task[c].running
               p == task'[c].running
               r == JobState(task[c])
               s == JobState(task'[c])
           IN  \/ o = p /\ r = s
               \/ ~o /\ p = TRUE /\ r = "idle" /\ s = r
               \/ o /\ p = o /\ r = "idle" /\ s = "due"
               \/ p = o /\ r = "due" /\ s = IF o THEN "live" ELSE "dead"
               \/ p = o /\ r = "live" /\ s = "dead"
               \/ p = o /\ r \in {"live", "dead"} /\ s = "idle"
               \/ o /\ p = FALSE /\ s = IF r = "live" THEN "dead" ELSE r
    PROVE  [J!Next]_<<JobOpen, JobRun>>
<1> DEFINE o == task[c].running
           p == task'[c].running
           r == JobState(task[c])
           s == JobState(task'[c])
<1>1. /\ JobOpen = [d \in Controller |-> task[d].running]
      /\ JobOpen' = [d \in Controller |-> task'[d].running]
      /\ JobRun = [d \in Controller |-> JobState(task[d])]
      /\ JobRun' = [d \in Controller |-> JobState(task'[d])]
  BY DEF JobOpen, JobRun, JobState, CtxDone
<1>2. /\ JobOpen[c] = o /\ JobRun[c] = r
      /\ JobOpen' = [JobOpen EXCEPT ![c] = p]
      /\ JobRun' = [JobRun EXCEPT ![c] = s]
  BY <1>1
<1>3. /\ o = p => UNCHANGED JobOpen
      /\ r = s => UNCHANGED JobRun
  BY <1>1
<1>4. \/ o = p /\ r = s
      \/ ~o /\ p = TRUE /\ r = "idle" /\ s = r
      \/ o /\ p = o /\ r = "idle" /\ s = "due"
      \/ p = o /\ r = "due" /\ s = IF o THEN "live" ELSE "dead"
      \/ p = o /\ r = "live" /\ s = "dead"
      \/ p = o /\ r \in {"live", "dead"} /\ s = "idle"
      \/ o /\ p = FALSE /\ s = IF r = "live" THEN "dead" ELSE r
  OBVIOUS
<1> HIDE DEF o, p, r, s
<1>5. CASE o = p /\ r = s
  BY <1>3, <1>5
<1>6. CASE ~o /\ p = TRUE /\ r = "idle" /\ s = r
  BY <1>2, <1>3, <1>6 DEF J!Next, J!Open
<1>7. CASE o /\ p = o /\ r = "idle" /\ s = "due"
  BY <1>2, <1>3, <1>7 DEF J!Next, J!Due, J!Goes
<1>8. CASE p = o /\ r = "due" /\ s = IF o THEN "live" ELSE "dead"
  BY <1>2, <1>3, <1>8 DEF J!Next, J!Begin, J!Goes
<1>9. CASE p = o /\ r = "live" /\ s = "dead"
  BY <1>2, <1>3, <1>9 DEF J!Next, J!Expire, J!Goes
<1>10. CASE p = o /\ r \in {"live", "dead"} /\ s = "idle"
  BY <1>2, <1>3, <1>10 DEF J!Next, J!Finish, J!Goes
<1>11. CASE o /\ p = FALSE /\ s = IF r = "live" THEN "dead" ELSE r
  BY <1>2, <1>11 DEF J!Next, J!Close, J!Goes
<1> QED BY <1>4, <1>5, <1>6, <1>7, <1>8, <1>9, <1>10, <1>11

\* The steps of Takeover that change a task, and how.
LEMMA TaskSteps ==
    ASSUME TypeOK, Next, ~UNCHANGED task
    PROVE  \E c \in Controller :
              \/ TaskTick(c) \/ SyncBegin(c) \/ SyncExpire(c) \/ SyncEnd(c)
              \/ CloseOld(c) \/ Collect(c)
              \/ StartTasks(c) /\ (Starting(c) \/ ctl[c].at = "activate")
<1> DEFINE Goal(c) == \/ TaskTick(c) \/ SyncBegin(c) \/ SyncExpire(c) \/ SyncEnd(c)
                      \/ CloseOld(c) \/ Collect(c)
                      \/ StartTasks(c) /\ (Starting(c) \/ ctl[c].at = "activate")
<1>1. \A U \in Table : ~PanelChange(U)
  BY DEF PanelChange
<1>2. ASSUME NEW c \in Controller, StartStep(c) PROVE Goal(c)
  BY <1>2 DEF StartStep, DelOld, Activate
<1>3. ASSUME NEW c \in Controller, SyncStep(c) PROVE Goal(c)
  BY <1>3 DEF SyncStep, AskFails, Apply, AddUserIDs, ForgetUser, DelUser, AddUser
<1>4. ASSUME NEW c \in Controller, SaveStep(c) \/ EdgeStep(c) PROVE Goal(c)
  BY <1>4 DEF SaveStep, Ask, SaveOpen, SaveRename, SaveWrite, EdgeStep, EdgeSend,
              EdgeFails
<1>5. ASSUME NEW c \in Controller, Create(c) \/ PrepareFails(c) \/ ActivateFails(c)
      PROVE  Goal(c)
  BY <1>5 DEF Create, PrepareFails, ActivateFails
<1>6. ASSUME NEW r \in flight, EdgeServe(r) \/ EdgeLose(r) PROVE Goal(r.from)
  BY <1>6 DEF EdgeServe, EdgeLose
<1>7. \A r \in flight : r.from \in Controller
  BY DEF TypeOK
<1>8. ASSUME NEW c \in Controller, TaskTick(c) \/ SyncExpire(c) \/ Collect(c) PROVE Goal(c)
  BY <1>8
<1>9. \E c \in Controller : Goal(c)
  <2> HIDE DEF Goal
  <2> QED BY <1>1, <1>2, <1>3, <1>4, <1>5, <1>6, <1>7, <1>8 DEF Next, Step
<1> QED BY <1>9

\* Every step of Takeover is a step of the jobs, or changes none.
LEMMA JobNext ==
    TypeOK /\ TypeOK' /\ TaskInv /\ [Next]_vars => [J!Next]_<<JobOpen, JobRun>>
<1> SUFFICES ASSUME TypeOK, TypeOK', TaskInv, [Next]_vars
             PROVE  [J!Next]_<<JobOpen, JobRun>>
  OBVIOUS
<1>1. CASE UNCHANGED task
  BY <1>1 DEF JobOpen, JobRun, CtxDone
<1>2. CASE Next /\ ~UNCHANGED task
  <2>1. PICK c \in Controller :
              \/ TaskTick(c) \/ SyncBegin(c) \/ SyncExpire(c) \/ SyncEnd(c)
              \/ CloseOld(c) \/ Collect(c)
              \/ StartTasks(c) /\ (Starting(c) \/ ctl[c].at = "activate")
    BY <1>2, TaskSteps
  <2>2. DOMAIN task = Controller /\ DOMAIN task' = Controller
    BY DEF TypeOK
  <2>3. \A d \in Controller : task[d] \in Tasks /\ task'[d] \in Tasks
    BY DEF TypeOK
  <2>4. CASE TaskTick(c)
    <3>1. /\ \A d \in Controller \ {c} : task'[d] = task[d]
          /\ task[c].running /\ task'[c].running = task[c].running
          /\ task[c].exec = "idle" /\ task'[c].exec = "launched"
      BY <2>3, <2>4 DEF TaskTick, Tick, TypeOK, Tasks, TaskInv
    <3> QED BY <2>2, <3>1, JobStep DEF JobState
  <2>5. CASE SyncBegin(c)
    <3>1. /\ \A d \in Controller \ {c} : task'[d] = task[d]
          /\ task'[c].running = task[c].running
          /\ task[c].exec = "launched" /\ task'[c].exec = "executing"
          /\ ~task'[c].expired /\ task'[c].cancelled = task[c].cancelled
          /\ task[c].running = ~task[c].cancelled
      BY <2>3, <2>5 DEF SyncBegin, Begin, TypeOK, Tasks, TaskInv
    <3> QED BY <2>2, <3>1, JobStep DEF JobState
  <2>6. CASE SyncExpire(c)
    <3>1. /\ \A d \in Controller \ {c} : task'[d] = task[d]
          /\ task'[c].running = task[c].running
          /\ task[c].exec = "executing" /\ task'[c].exec = "executing"
          /\ ~task[c].expired /\ task'[c].expired
          /\ task'[c].cancelled = task[c].cancelled
      BY <2>3, <2>6 DEF SyncExpire, Expire, TypeOK, Tasks
    <3> QED BY <2>2, <3>1, JobStep DEF JobState
  <2>7. CASE SyncEnd(c)
    <3>1. /\ \A d \in Controller \ {c} : task'[d] = task[d]
          /\ task'[c].running = task[c].running
          /\ task[c].exec = "executing" /\ task'[c].exec = "idle"
      BY <2>3, <2>7 DEF SyncEnd, Finish, TypeOK, Tasks
    <3> QED BY <2>2, <3>1, JobStep DEF JobState
  <2>8. CASE CloseOld(c)
    <3>1. slot \in Controller /\ task' = [task EXCEPT ![slot] = SafeStop(task[slot])]
          /\ task[slot].running
      BY <1>2, <2>8 DEF CloseOld, Close, SafeStop, TypeOK
    <3>2. /\ \A d \in Controller \ {slot} : task'[d] = task[d]
          /\ ~task'[slot].running /\ task'[slot].exec = task[slot].exec
          /\ task'[slot].cancelled /\ task'[slot].expired = task[slot].expired
      BY <2>3, <3>1 DEF SafeStop, TypeOK, Tasks
    <3>3. task'[slot].running = FALSE
      BY <2>3, <3>1, <3>2 DEF Tasks
    <3> QED BY <2>2, <3>1, <3>2, <3>3, JobStep DEF JobState
  <2>9. CASE Collect(c)
    <3>1. /\ \A d \in Controller \ {c} : task'[d] = task[d]
          /\ ~task[c].running /\ task[c].exec = "idle"
          /\ ~task'[c].running /\ task'[c].exec = "idle"
      BY <2>9 DEF Collect, NoTask, TypeOK
    <3>2. task'[c].running = task[c].running
      BY <2>3, <3>1 DEF Tasks
    <3> QED BY <2>2, <3>1, <3>2, JobStep DEF JobState
  <2>10. CASE StartTasks(c) /\ (Starting(c) \/ ctl[c].at = "activate")
    <3>1. c = new
      BY <2>10 DEF Starting, TaskInv
    <3>2. /\ \A d \in Controller \ {c} : task'[d] = task[d]
          /\ ~task[c].running /\ task[c].exec = "idle"
          /\ task'[c].running = TRUE /\ task'[c].exec = "idle"
      BY <2>10, <3>1 DEF StartTasks, Start, NoTask, TypeOK, TaskInv
    <3> QED BY <2>2, <3>2, JobStep DEF JobState
  <2> QED BY <2>1, <2>4, <2>5, <2>6, <2>7, <2>8, <2>9, <2>10
<1> QED BY <1>1, <1>2 DEF vars

\* Before anything happens no job executes.
LEMMA JobInit == Init => J!Init
<1> SUFFICES ASSUME Init PROVE J!Init
  OBVIOUS
<1>1. TypeOK
  BY TypeInit
<1>2. \A d \in Controller : task[d].exec = "idle"
  <2>1. PICK c \in Controller :
           task = [d \in Controller |->
                     IF d = c THEN [NoTask EXCEPT !.running = TRUE, !.token = TRUE]
                     ELSE NoTask]
    BY DEF Init
  <2> QED BY <2>1 DEF NoTask
<1>3. \A d \in Controller : task[d].running \in BOOLEAN
  BY <1>1 DEF TypeOK, Tasks
<1> QED BY <1>2, <1>3 DEF J!Init, JobOpen, JobRun

-----------------------------------------------------------------------------
(* The handover.                                                           *)

\* What the invariants read of a controller.
Alike(k, l) == /\ k.at = l.at /\ k.list = l.list /\ k.del = l.del /\ k.add = l.add
               /\ k.user = l.user /\ k.manager = l.manager

OthersAlike(c) == \A d \in Controller \ {c} : Alike(ctl'[d], ctl[d])

\* A step that leaves the controllers in their roles and their tasks running or
\* not: it is enough to look at the one that moves.
LEMMA SlotMove ==
    ASSUME SlotInv, UNCHANGED <<slot, new, inbound>>, NEW c \in Controller,
           OthersAlike(c), \A d \in Controller : task'[d].running = task[d].running,
           ctl'[c].at # "none",
           c = new => /\ ctl'[c].at \in StartPlace
                      /\ ctl'[c].at # "delnode"
                      /\ ctl'[c].at \in {"activate", "edge", "sent"} => slot = Nil
                      /\ ctl'[c].at \in {"edge", "sent"} => inbound = c
    PROVE  SlotInv'
BY DEF SlotInv, OthersAlike, Alike

\* The same for where the controllers are.
LEMMA PlaceMove ==
    ASSUME PlaceInv, UNCHANGED <<setup, slot, new>>, NEW c \in Controller,
           OthersAlike(c), \A d \in Controller \ {c} : task'[d].exec = task[d].exec,
           PlaceOf(c)'
    PROVE  PlaceInv'
<1> SUFFICES ASSUME NEW d \in Controller \ {c} PROVE PlaceOf(d)'
  BY DEF PlaceInv
<1>1. PlaceOf(d)
  BY DEF PlaceInv
<1>2. Alike(ctl'[d], ctl[d])
  BY DEF OthersAlike
<1> QED BY <1>1, <1>2 DEF PlaceOf, Alike, Sidecar

\* The parts of a step of one controller, after which only its own fields differ.
LEMMA GotoFields ==
    ASSUME TypeOK, NEW c \in Controller, NEW a, Goto(c, a)
    PROVE  /\ ctl'[c].at = a /\ ctl'[c].list = ctl[c].list
           /\ ctl'[c].del = ctl[c].del /\ ctl'[c].add = ctl[c].add
           /\ ctl'[c].user = ctl[c].user /\ ctl'[c].manager = ctl[c].manager
           /\ OthersAlike(c)
BY DEF Goto, Alike, OthersAlike, TypeOK, ControllerState

\* A task that returns.
LEMMA ReturnFields ==
    ASSUME TypeOK, NEW c \in Controller, Return(c)
    PROVE  /\ ctl'[c].at = "end" /\ ctl'[c].list = ctl[c].list
           /\ ctl'[c].del = {} /\ ctl'[c].add = {}
           /\ OthersAlike(c)
BY DEF Return, Alike, OthersAlike, TypeOK, ControllerState

\* A controller that is gone.
LEMMA GoneFields ==
    ASSUME TypeOK, NEW c \in Controller, ctl' = [ctl EXCEPT ![c] = NoController]
    PROVE  /\ ctl'[c].at = "none" /\ ctl'[c].del = {} /\ ctl'[c].add = {}
           /\ OthersAlike(c)
BY DEF NoController, Alike, OthersAlike, TypeOK

\* The delta from the list of a controller to the newest table.
LEMMA DeltaApplies ==
    ASSUME TypeOK, SnapInv, NEW c \in Controller
    PROVE  LET D == Deleted(ctl[c].rev)
               U == Upsert(ctl[c].rev)
               L == ctl[c].list
               N == (L \ D) \cup U
           IN  U \subseteq N /\ D \cap N = {} /\ (N \ U) \cup D = L
<1> DEFINE r == ctl[c].rev
           L == ctl[c].list
<1>1. Exact(r, L)
  BY DEF SnapInv, ListInv
<1>2. CASE r = 0
  BY <1>1, <1>2 DEF Exact, Deleted, Upsert
<1>3. CASE r # 0
  <2>1. L = snap[r]
    BY <1>1, <1>3 DEF Exact
  <2> QED BY <1>3, <2>1 DEF Deleted, Upsert
<1> QED BY <1>2, <1>3

HandInv == SlotInv /\ PlaceInv /\ ServeInv

\* A controller that executes and is not in the slot has a context that is done.
LEMMA OldIsCancelled ==
    ASSUME TypeOK, TaskInv, HandInv, NEW c \in Controller, c # slot, c # new,
           ctl[c].at \notin {"none", "idle"}
    PROVE  CtxDone(c)
<1>1. task[c].exec = "executing"
  <2>1. PlaceOf(c)
    BY DEF HandInv, PlaceInv
  <2> QED BY <2>1 DEF PlaceOf
<1>2. ~task[c].running
  BY DEF HandInv, SlotInv
<1>3. task[c].cancelled
  BY <1>1, <1>2 DEF TaskInv
<1> QED BY <1>3 DEF CtxDone

\* The steps of a start, but for those it has in common with a sync.
LEMMA HandStart ==
    ASSUME TypeOK, TaskInv, HandInv, NEW c \in Controller,
           \/ Create(c) \/ PrepareFails(c) \/ ActivateFails(c) \/ CloseOld(c)
           \/ DelOld(c) \/ Activate(c)
    PROVE  HandInv'
<1> USE DEF HandInv
<1>nil. Nil \notin Controller
  BY TakeoverAssumption
<1>type. slot \in Controller \cup {Nil} /\ new \in Controller \cup {Nil}
  BY DEF TypeOK
<1>1. CASE Create(c)
  <2>1. /\ ctl'[c].at = "ask" /\ ctl'[c].del = {} /\ ctl'[c].add = {} /\ OthersAlike(c)
        /\ ctl[c].at = "none"
    BY <1>1 DEF Create, NoController, Alike, OthersAlike, TypeOK, ControllerState
  <2>2. c # slot /\ new = Nil /\ new' = c
        /\ UNCHANGED <<setup, slot, task, inbound, proxy, uidMap, edge, robbed, cut, behind>>
    BY <1>1, <2>1 DEF Create, SlotInv, sharedVars, historyVars
  <2>3. SlotInv'
    BY <2>1, <2>2, <1>nil, <1>type DEF SlotInv, OthersAlike, Alike, StartPlace
  <2>4. PlaceInv'
    <3> SUFFICES ASSUME NEW d \in Controller PROVE PlaceOf(d)'
      BY DEF PlaceInv
    <3>1. CASE d = c
      BY <2>1, <2>2, <3>1 DEF PlaceOf
    <3>2. CASE d # c
      <4>1. PlaceOf(d) /\ Alike(ctl'[d], ctl[d]) /\ d # new /\ d # new'
        BY <3>2, <2>1, <2>2, <1>nil DEF PlaceInv, OthersAlike
      <4> QED BY <4>1, <2>2 DEF PlaceOf, Alike, Sidecar
    <3> QED BY <3>1, <3>2
  <2>5. ServeInv'
    <3>1. ASSUME slot \in Controller PROVE ServeOf(slot)'
      <4>1. Alike(ctl'[slot], ctl[slot]) /\ ServeOf(slot)
        BY <2>1, <2>2, <3>1 DEF OthersAlike, ServeInv
      <4> QED BY <2>2, <4>1 DEF ServeOf, Alike, Partly, WithID, Sidecar
    <3> QED BY <2>1, <2>2, <3>1 DEF ServeInv
  <2> QED BY <2>3, <2>4, <2>5
<1>2. CASE PrepareFails(c) \/ ActivateFails(c)
  <2>1. c = new /\ new' = Nil
        /\ UNCHANGED <<setup, slot, task, inbound, proxy, uidMap, edge, robbed, cut, behind>>
    BY <1>2 DEF PrepareFails, ActivateFails, Gone, Starting, sharedVars,
                historyVars, TaskInv
  <2>2. ctl'[c].at = "none" /\ ctl'[c].del = {} /\ ctl'[c].add = {} /\ OthersAlike(c)
    BY <1>2, GoneFields DEF PrepareFails, ActivateFails, Gone
  <2>3. SlotInv'
    BY <2>1, <2>2, <1>nil, <1>type DEF SlotInv, OthersAlike, Alike
  <2>4. PlaceInv'
    <3> SUFFICES ASSUME NEW d \in Controller PROVE PlaceOf(d)'
      BY DEF PlaceInv
    <3>1. CASE d = c
      <4>1. task[c].exec = "idle" /\ c # slot
        BY <2>1, <1>nil DEF TaskInv, SlotInv
      <4> QED BY <2>1, <2>2, <3>1, <4>1 DEF PlaceOf
    <3>2. CASE d # c
      <4>1. PlaceOf(d) /\ Alike(ctl'[d], ctl[d]) /\ d # new /\ d # new'
        BY <3>2, <2>1, <2>2, <1>nil DEF PlaceInv, OthersAlike
      <4> QED BY <4>1, <2>1 DEF PlaceOf, Alike, Sidecar
    <3> QED BY <3>1, <3>2
  <2>5. ServeInv'
    <3>1. ASSUME slot \in Controller PROVE ServeOf(slot)'
      <4>1. Alike(ctl'[slot], ctl[slot]) /\ ServeOf(slot)
        BY <2>1, <2>2, <3>1 DEF OthersAlike, ServeInv, SlotInv
      <4> QED BY <2>1, <4>1 DEF ServeOf, Alike, Partly, WithID, Sidecar
    <3> QED BY <2>1, <1>nil, <3>1 DEF ServeInv
  <2> QED BY <2>3, <2>4, <2>5
<1>3. CASE CloseOld(c)
  <2>1. c = new /\ c # slot
        /\ UNCHANGED <<setup, slot, new, inbound, proxy, uidMap, edge, robbed, cut, behind>>
    BY <1>3, <1>nil DEF CloseOld, sharedVars, historyVars, TaskInv, SlotInv
  <2>2. /\ ctl'[c].at = "delnode" /\ ctl'[c].del = ctl[c].del
        /\ ctl'[c].add = ctl[c].add /\ ctl'[c].list = ctl[c].list /\ OthersAlike(c)
    BY <1>3, GotoFields DEF CloseOld
  <2>3. /\ \A d \in Controller : task'[d].exec = task[d].exec
        /\ \A d \in Controller : task'[d].running => task[d].running
        /\ slot \in Controller => ~task'[slot].running
    BY <1>3 DEF CloseOld, Close, SafeStop, TypeOK, Tasks
  <2>4. SlotInv'
    BY <2>1, <2>2, <2>3, <1>nil, <1>type DEF SlotInv, OthersAlike, Alike, StartPlace
  <2>5. PlaceInv'
    <3>1. PlaceOf(c)
      BY DEF PlaceInv
    <3>2. PlaceOf(c)'
      BY <2>1, <2>2, <3>1 DEF PlaceOf
    <3> QED BY <2>1, <2>2, <2>3, <3>2, PlaceMove
  <2>6. ServeInv'
    <3>1. ASSUME slot \in Controller PROVE ServeOf(slot)'
      <4>1. Alike(ctl'[slot], ctl[slot]) /\ ServeOf(slot)
        BY <2>1, <2>2, <3>1 DEF OthersAlike, ServeInv
      <4> QED BY <2>1, <4>1 DEF ServeOf, Alike, Partly, WithID, Sidecar
    <3> QED BY <2>1, <2>2, <3>1 DEF ServeInv
  <2> QED BY <2>4, <2>5, <2>6
<1>4. CASE DelOld(c)
  <2>1. c = new /\ c # slot /\ slot' = Nil /\ UNCHANGED <<setup, new, task>>
    BY <1>4, <1>nil DEF DelOld, TaskInv, SlotInv
  <2>2. /\ ctl'[c].at = "activate" /\ ctl'[c].del = ctl[c].del
        /\ ctl'[c].add = ctl[c].add /\ OthersAlike(c) /\ ctl[c].at = "delnode"
    BY <1>4, GotoFields DEF DelOld
  <2>3. SlotInv'
    BY <2>1, <2>2, <1>nil, <1>type DEF SlotInv, OthersAlike, Alike, StartPlace
  <2>4. PlaceInv'
    <3> SUFFICES ASSUME NEW d \in Controller PROVE PlaceOf(d)'
      BY DEF PlaceInv
    <3>1. PlaceOf(d)
      BY DEF PlaceInv
    <3>2. d # slot'
      BY <2>1, <1>nil
    <3>3. CASE d = c
      BY <2>1, <2>2, <3>1, <3>2, <3>3 DEF PlaceOf
    <3>4. CASE d # c
      <4>1. Alike(ctl'[d], ctl[d])
        BY <2>2, <3>4 DEF OthersAlike
      <4> QED BY <2>1, <3>1, <3>2, <4>1 DEF PlaceOf, Alike, Sidecar
    <3> QED BY <3>3, <3>4
  <2>5. ServeInv'
    BY <2>1, <2>2, <1>nil DEF ServeInv
  <2> QED BY <2>3, <2>4, <2>5
<1>5. CASE Activate(c)
  <2>1. c = new /\ slot = Nil /\ inbound' = c /\ UNCHANGED <<setup, cut, behind, edge>>
        /\ uidMap' = uidMap \cup ctl[c].list /\ robbed' = robbed \ ctl[c].list
    BY <1>5 DEF Activate, TaskInv, SlotInv
  <2>2. ctl[c].del = {} /\ ctl[c].add = {}
    <3>1. PlaceOf(c)
      BY DEF PlaceInv
    <3> QED BY <2>1, <3>1 DEF PlaceOf
  <2>3. CASE Sidecar
    <3>1. Goto(c, "edge") /\ UNCHANGED <<proxy, slot, new, task>>
      BY <1>5, <2>3 DEF Activate
    <3>2. /\ ctl'[c].at = "edge" /\ ctl'[c].del = {} /\ ctl'[c].add = {}
          /\ ctl'[c].list = ctl[c].list /\ OthersAlike(c)
      BY <2>2, <3>1, GotoFields
    <3>3. SlotInv'
      BY <2>1, <3>1, <3>2, <1>nil, <1>type
         DEF SlotInv, OthersAlike, Alike, StartPlace
    <3>4. PlaceOf(c)'
      BY <2>1, <2>3, <3>1, <3>2 DEF PlaceOf, Sidecar
    <3>5. PlaceInv'
      BY <2>1, <3>1, <3>2, <3>4, PlaceMove
    <3>6. ServeInv'
      BY <2>1, <3>1, <3>2, <1>nil DEF ServeInv
    <3> QED BY <3>3, <3>5, <3>6
  <2>4. CASE ~Sidecar
    <3>1. Goto(c, "idle") /\ StartTasks(c) /\ proxy' = [proxy EXCEPT ![c] = ctl[c].list]
      BY <1>5, <2>4 DEF Activate
    <3>2. /\ ctl'[c].at = "idle" /\ ctl'[c].del = {} /\ ctl'[c].add = {}
          /\ ctl'[c].list = ctl[c].list /\ OthersAlike(c)
      BY <2>2, <3>1, GotoFields
    <3>3. /\ slot' = c /\ new' = Nil /\ task'[c].exec = "idle"
          /\ \A d \in Controller \ {c} : task'[d] = task[d]
          /\ proxy'[c] = ctl[c].list
      BY <3>1 DEF StartTasks, Start, NoTask, TypeOK
    <3>4. SlotInv'
      BY <2>1, <3>2, <3>3, <1>nil, <1>type DEF SlotInv, OthersAlike, Alike
    <3>5. PlaceInv'
      <4> SUFFICES ASSUME NEW d \in Controller PROVE PlaceOf(d)'
        BY DEF PlaceInv
      <4>1. CASE d = c
        BY <2>1, <3>2, <3>3, <4>1 DEF PlaceOf
      <4>2. CASE d # c
        <5>1. PlaceOf(d) /\ Alike(ctl'[d], ctl[d]) /\ d # new /\ d # new' /\ d # slot'
          BY <2>1, <3>2, <3>3, <4>2, <1>nil DEF PlaceInv, OthersAlike
        <5> QED BY <2>1, <3>3, <4>2, <5>1 DEF PlaceOf, Alike, Sidecar
      <4> QED BY <4>1, <4>2
    <3>6. ServeOf(c)'
      BY <2>1, <2>4, <3>2, <3>3 DEF ServeOf, Partly, WithID, Sidecar
    <3> QED BY <3>3, <3>4, <3>5, <3>6, <1>nil DEF ServeInv
  <2> QED BY <2>3, <2>4
<1> QED BY <1>1, <1>2, <1>3, <1>4, <1>5

\* The steps of a task, the panel and the garbage collector.
LEMMA HandTask ==
    ASSUME TypeOK, TaskInv, HandInv, NEW c \in Controller,
           TaskTick(c) \/ SyncExpire(c) \/ Collect(c)
    PROVE  HandInv'
<1> USE DEF HandInv
<1>1. CASE TaskTick(c) \/ SyncExpire(c)
  <2>1. UNCHANGED <<setup, ctl, slot, new, inbound, proxy, uidMap, edge, robbed, cut, behind>>
    BY <1>1 DEF TaskTick, SyncExpire, sharedVars, historyVars
  <2>2. /\ \A d \in Controller : task'[d].running = task[d].running
        /\ \A d \in Controller :
              \/ task'[d].exec = task[d].exec
              \/ task[d].exec = "idle" /\ task'[d].exec = "launched"
    <3>1. CASE TaskTick(c)
      <4>1. task[c].exec = "idle"
        BY <3>1 DEF TaskTick, Tick, TaskInv
      <4> QED BY <3>1, <4>1 DEF TaskTick, Tick, TypeOK, Tasks
    <3>2. CASE SyncExpire(c)
      <4>1. /\ \A d \in Controller \ {c} : task'[d] = task[d]
            /\ task'[c].running = task[c].running /\ task'[c].exec = task[c].exec
        BY <3>2 DEF SyncExpire, Expire, TypeOK, Tasks
      <4> QED BY <4>1
    <3> QED BY <1>1, <3>1, <3>2
  <2>3. SlotInv'
    BY <2>1, <2>2 DEF SlotInv
  <2>4. PlaceInv'
    <3> SUFFICES ASSUME NEW d \in Controller PROVE PlaceOf(d)'
      BY DEF PlaceInv
    <3>1. PlaceOf(d)
      BY DEF PlaceInv
    <3> QED BY <2>1, <2>2, <3>1 DEF PlaceOf, Sidecar
  <2>5. ServeInv'
    BY <2>1 DEF ServeInv, ServeOf, Partly, WithID, Sidecar
  <2> QED BY <2>3, <2>4, <2>5
<1>2. CASE Collect(c)
  <2>1. /\ c # slot /\ UNCHANGED <<setup, slot, new, inbound, uidMap, edge, robbed, cut, behind>>
        /\ ctl[c].at = "idle" /\ proxy' = [proxy EXCEPT ![c] = {}]
    BY <1>2 DEF Collect, historyVars
  <2>2. c # new
    BY <2>1 DEF SlotInv, StartPlace
  <2>3. ctl'[c].at = "none" /\ ctl'[c].del = {} /\ ctl'[c].add = {} /\ OthersAlike(c)
    BY <1>2, GoneFields DEF Collect
  <2>4. /\ \A d \in Controller \ {c} : task'[d] = task[d]
        /\ task'[c].exec = "idle" /\ ~task'[c].running
    BY <1>2 DEF Collect, TypeOK, NoTask
  <2>5. SlotInv'
    BY <2>1, <2>2, <2>3, <2>4 DEF SlotInv, OthersAlike, Alike
  <2>6. PlaceOf(c)'
    BY <2>1, <2>2, <2>3, <2>4 DEF PlaceOf
  <2>7. PlaceInv'
    BY <2>1, <2>3, <2>4, <2>6, PlaceMove
  <2>8. ASSUME slot \in Controller PROVE ServeOf(slot)'
    <3>1. Alike(ctl'[slot], ctl[slot]) /\ ServeOf(slot) /\ proxy'[slot] = proxy[slot]
      BY <2>1, <2>3, <2>8 DEF OthersAlike, ServeInv, TypeOK
    <3> QED BY <2>1, <3>1 DEF ServeOf, Alike, Partly, WithID, Sidecar
  <2>9. ServeInv'
    BY <2>1, <2>2, <2>3, <2>8 DEF ServeInv, OthersAlike, Alike
  <2> QED BY <2>5, <2>7, <2>9
<1> QED BY <1>1, <1>2

\* Asking for the delta and saving the state, in a start and in a sync.
LEMMA HandSave ==
    ASSUME TypeOK, SnapInv, TaskInv, HandInv, NEW c \in Controller, SaveStep(c)
    PROVE  HandInv'
<1> USE DEF HandInv
<1>all. /\ UNCHANGED <<setup, slot, new, task, inbound, proxy, uidMap, edge, robbed, cut,
                       behind>>
        /\ ctl[c].at \in {"ask", "open", "write", "rename"}
  BY DEF SaveStep, Ask, SaveOpen, SaveWrite, SaveRename, sharedVars, historyVars
<1>place. PlaceOf(c)
  BY DEF PlaceInv
<1>serve. ASSUME OthersAlike(c), c = slot => ServeOf(c)',
                 ctl'[c].at \notin {"edge", "sent"}
          PROVE  ServeInv'
  <2>1. ASSUME slot \in Controller, slot # c PROVE ServeOf(slot)'
    <3>1. Alike(ctl'[slot], ctl[slot]) /\ ServeOf(slot)
      BY <1>serve, <2>1 DEF OthersAlike, ServeInv
    <3> QED BY <1>all, <3>1 DEF ServeOf, Alike, Partly, WithID, Sidecar
  <2> QED BY <1>all, <1>serve, <2>1 DEF ServeInv, OthersAlike, Alike
<1>1. CASE Ask(c)
  <2> DEFINE D == Deleted(ctl[c].rev)
             U == Upsert(ctl[c].rev)
             L == ctl[c].list
             N == (L \ D) \cup U
  <2>1. /\ ctl'[c].at = "open" /\ ctl'[c].list = N /\ OthersAlike(c)
        /\ ctl'[c].del = IF c = new THEN {} ELSE ctl[c].del \cup D
        /\ ctl'[c].add = IF c = new THEN {} ELSE ctl[c].add \cup U
    BY <1>1 DEF Ask, Starting, Alike, OthersAlike, TypeOK, ControllerState
  <2>2. ctl[c].at = "ask" /\ ctl[c].del = {} /\ ctl[c].add = {}
    BY <1>1, <1>place DEF Ask, PlaceOf
  <2>3. SlotInv'
    BY <1>all, <2>1, SlotMove DEF StartPlace
  <2>4. PlaceOf(c)'
    BY <1>all, <1>place, <2>1, <2>2 DEF PlaceOf
  <2>5. PlaceInv'
    BY <1>all, <2>1, <2>4, PlaceMove
  <2>6. ASSUME c = slot PROVE ServeOf(c)'
    <3>1. ServeOf(c) /\ c # new
      BY <2>6 DEF ServeInv, SlotInv
    <3>2. U \subseteq N /\ D \cap N = {} /\ (N \ U) \cup D = L
      BY DeltaApplies
    <3>3. ctl'[c].del = D /\ ctl'[c].add = U
      BY <2>1, <2>2, <3>1
    <3>4. D = {} /\ U = {} => N = L
      BY <3>2
    <3> HIDE DEF D, U, N
    <3>5. /\ ~cut => (~Sidecar => proxy[c] = L) /\ L \ uidMap \subseteq robbed
          /\ Sidecar => edge = L \/ behind
      BY <2>2, <3>1 DEF ServeOf, Partly, WithID
    <3>6. ~cut => (~Sidecar => proxy[c] = (N \ U) \cup D) /\ (N \ U) \ uidMap \subseteq robbed
      BY <3>2, <3>5
    <3> QED BY <1>all, <2>1, <3>2, <3>3, <3>4, <3>5, <3>6
            DEF ServeOf, Partly, WithID, Sidecar
  <2>7. ServeInv'
    BY <1>serve, <2>1, <2>6
  <2> QED BY <2>3, <2>5, <2>7
<1>2. CASE ~Ask(c)
  <2>1. /\ ctl'[c].list = ctl[c].list /\ ctl'[c].del = ctl[c].del /\ OthersAlike(c)
        /\ ctl'[c].add = ctl[c].add /\ ctl'[c].user = ctl[c].user
        /\ ctl'[c].manager = ctl[c].manager
        /\ ctl[c].at \in {"open", "write", "rename"}
        /\ \/ ctl'[c].at \in {"write", "rename"}
           \/ c # new /\ ctl'[c].at = "apply"
           \/ c = new /\ ctl'[c].at = "close"
           \/ c = new /\ ctl'[c].at = "activate" /\ slot = Nil
    <3>1. CASE SaveRename(c)
      BY <3>1 DEF SaveRename, Starting, Alike, OthersAlike, TypeOK, ControllerState
    <3>2. CASE SaveOpen(c)
      BY <3>2 DEF SaveOpen, Alike, OthersAlike, TypeOK, ControllerState
    <3>3. CASE \E f \in {Torn, Saved(ctl[c].rev, ctl[c].list)} : SaveWrite(c, f)
      BY <3>3 DEF SaveWrite, Alike, OthersAlike, TypeOK, ControllerState
    <3> QED BY <1>2, <3>1, <3>2, <3>3 DEF SaveStep
  <2>2. SlotInv'
    BY <1>all, <2>1, SlotMove DEF StartPlace
  <2>3. PlaceOf(c)'
    BY <1>all, <1>place, <2>1 DEF PlaceOf
  <2>4. PlaceInv'
    BY <1>all, <2>1, <2>3, PlaceMove
  <2>5. ASSUME c = slot PROVE ServeOf(c)'
    <3>1. ServeOf(c) /\ c # new
      BY <2>5 DEF ServeInv, SlotInv
    <3> QED BY <1>all, <2>1, <3>1 DEF ServeOf, Partly, WithID, Sidecar
  <2>6. ServeInv'
    BY <1>serve, <2>1, <2>5
  <2> QED BY <2>2, <2>4, <2>6
<1> QED BY <1>1, <1>2

\* The steps of a sync.  Only the controller in the slot writes the users of an
\* inbound, its own; the others' contexts are done.  They still delete and add ids.
LEMMA HandSync ==
    ASSUME TypeOK, SnapInv, TaskInv, HandInv, NEW c \in Controller, SyncStep(c)
    PROVE  HandInv'
<1> USE DEF HandInv
<1>nil. Nil \notin Controller
  BY TakeoverAssumption
<1>all. UNCHANGED <<setup, slot, new, inbound, edge, behind>>
  BY DEF SyncStep, SyncBegin, AskFails, Apply, AddUserIDs, SyncEnd, ForgetUser,
         DelUser,
         AddUser, sharedVars, historyVars
<1>new. c # new
  BY DEF SyncStep, SyncBegin, Begin, AskFails, Apply, AddUserIDs, SyncEnd,
         ForgetUser,
         DelUser, AddUser, Starting, SlotInv, StartPlace, TaskInv
<1>place. PlaceOf(c)
  BY DEF PlaceInv
<1>slot. ASSUME c = slot PROVE ServeOf(c) /\ inbound = c /\ ctl[c].at # "none"
  BY <1>slot DEF ServeInv, SlotInv
<1>run. ASSUME UNCHANGED task, ctl'[c].at # "none", OthersAlike(c) PROVE SlotInv'
  BY <1>all, <1>new, <1>run, SlotMove
<1>move. ASSUME UNCHANGED task, OthersAlike(c), PlaceOf(c)' PROVE PlaceInv'
  BY <1>all, <1>move, PlaceMove
\* Nobody loses an id without being robbed, and only the slot's users change.
<1>serve. ASSUME OthersAlike(c), c = slot => ServeOf(c)',
                 c # slot => /\ UNCHANGED <<proxy, cut>>
                             /\ uidMap \cup robbed \subseteq uidMap' \cup robbed'
          PROVE  ServeInv'
  <2>1. ASSUME slot \in Controller, slot # c PROVE ServeOf(slot)'
    <3>1. Alike(ctl'[slot], ctl[slot]) /\ ServeOf(slot) /\ UNCHANGED <<proxy, cut>>
      BY <1>serve, <2>1 DEF OthersAlike, ServeInv
    <3>2. uidMap \cup robbed \subseteq uidMap' \cup robbed'
      BY <1>serve, <2>1
    <3>4. WithID(ctl'[slot]) = WithID(ctl[slot])
          /\ Partly(ctl'[slot]) = Partly(ctl[slot])
      BY <3>1 DEF WithID, Partly, Alike
    <3>5. WithID(ctl[slot]) \ uidMap \subseteq robbed
             => WithID(ctl'[slot]) \ uidMap' \subseteq robbed'
      BY <3>2, <3>4
    <3> QED BY <1>all, <3>1, <3>4, <3>5 DEF ServeOf, Alike, Sidecar
  <2>2. ASSUME new \in Controller, ctl'[new].at \in {"edge", "sent"}
        PROVE  ctl'[new].list \ uidMap' \subseteq robbed'
    <3>1. Alike(ctl'[new], ctl[new]) /\ slot = Nil
      BY <1>serve, <1>new, <2>2 DEF OthersAlike, Alike, SlotInv
    <3>2. uidMap \cup robbed \subseteq uidMap' \cup robbed'
      BY <1>serve, <1>nil, <3>1
    <3> QED BY <2>2, <3>1, <3>2 DEF ServeInv, Alike
  <2> QED BY <1>all, <1>serve, <2>1, <2>2 DEF ServeInv
\* A sync that returns half way.
<1>cut. ASSUME CutShort(c), UNCHANGED <<task, proxy, uidMap, robbed>>, ~Sidecar,
               ctl[c].at \notin {"none", "idle"}
        PROVE  HandInv'
  <2>1. /\ ctl'[c].at = "end" /\ ctl'[c].list = ctl[c].list /\ ctl'[c].del = {}
        /\ ctl'[c].add = {} /\ OthersAlike(c)
    BY <1>cut, ReturnFields DEF CutShort
  <2>2. cut' = (cut \/ c = slot)
    BY <1>cut DEF CutShort
  <2>3. PlaceOf(c)'
    BY <1>all, <1>new, <1>place, <1>cut, <2>1 DEF PlaceOf
  <2>4. c = slot => ServeOf(c)'
    BY <1>all, <1>cut, <2>2 DEF ServeOf, Sidecar
  <2>5. c # slot => UNCHANGED cut
    BY <2>2 DEF TypeOK
  <2> QED BY <1>cut, <1>run, <1>move, <1>serve, <2>1, <2>3, <2>4, <2>5
<1>1. CASE SyncBegin(c)
  <2>1. /\ ctl'[c].at = "ask" /\ ctl'[c].list = ctl[c].list /\ ctl'[c].del = ctl[c].del
        /\ ctl'[c].add = ctl[c].add /\ OthersAlike(c)
    BY <1>1, GotoFields DEF SyncBegin
  <2>2. /\ \A d \in Controller \ {c} : task'[d] = task[d]
        /\ task'[c].running = task[c].running /\ task[c].exec = "launched"
        /\ task'[c].exec = "executing"
    BY <1>1 DEF SyncBegin, Begin, TypeOK, Tasks
  <2>3. UNCHANGED <<proxy, uidMap, robbed, cut>>
    BY <1>1 DEF SyncBegin, sharedVars, historyVars
  <2>4. SlotInv'
    BY <1>all, <1>new, <2>1, <2>2, SlotMove
  <2>5. ctl[c].at \in {"none", "idle"}
    BY <1>new, <1>place, <2>2 DEF PlaceOf
  <2>6. PlaceOf(c)'
    BY <1>all, <1>new, <1>place, <2>1, <2>2, <2>5 DEF PlaceOf
  <2>7. PlaceInv'
    BY <1>all, <2>1, <2>2, <2>6, PlaceMove
  <2>8. c = slot => ServeOf(c)'
    BY <1>all, <1>slot, <2>1, <2>3, <2>5 DEF ServeOf, Partly, WithID, Sidecar
  <2> QED BY <1>serve, <2>1, <2>3, <2>4, <2>7, <2>8
<1>2. CASE AskFails(c)
  <2>1. /\ ctl'[c].at = "end" /\ ctl'[c].list = ctl[c].list /\ ctl'[c].del = ctl[c].del
        /\ ctl'[c].add = ctl[c].add /\ OthersAlike(c) /\ ctl[c].at = "ask"
    BY <1>2, GotoFields DEF AskFails
  <2>2. UNCHANGED <<task, proxy, uidMap, robbed, cut>>
    BY <1>2 DEF AskFails, sharedVars, historyVars
  <2>3. PlaceOf(c)'
    BY <1>all, <1>new, <1>place, <2>1, <2>2 DEF PlaceOf
  <2>4. c = slot => ServeOf(c)'
    BY <1>all, <1>slot, <2>1, <2>2 DEF ServeOf, Partly, WithID, Sidecar
  <2> QED BY <1>run, <1>move, <1>serve, <2>1, <2>2, <2>3, <2>4
<1>3. CASE Apply(c)
  <2> DEFINE k == ctl[c]
  <2>1. UNCHANGED <<task, proxy, uidMap, robbed>> /\ k.at = "apply"
    BY <1>3 DEF Apply, sharedVars
  <2>2. CASE ~Sidecar /\ CutShort(c)
    BY <1>cut, <2>1, <2>2
  <2>3. CASE ~(~Sidecar /\ CutShort(c))
    <3>1. /\ ctl'[c].list = k.list /\ ctl'[c].add = k.add /\ OthersAlike(c)
          /\ cut' = cut
          /\ \/ k.del = {} /\ k.add = {} /\ ctl'[c].at = "end" /\ ctl'[c].del = k.del
             \/ k.del = {} /\ k.add # {} /\ ctl'[c].at = "addids" /\ ctl'[c].del = k.del
             \/ /\ k.del # {} /\ Sidecar /\ ctl'[c].del = {}
                /\ ctl'[c].at = IF k.add # {} THEN "addids" ELSE "edge"
             \/ /\ k.del # {} /\ ~Sidecar /\ ctl'[c].del = k.del /\ ctl'[c].at = "del"
                /\ ctl'[c].manager = inbound
      BY <1>3, <2>3 DEF Apply, AfterDelete, Goto, Alike, OthersAlike, TypeOK,
                        ControllerState
    <3>2. PlaceOf(c)'
      BY <1>all, <1>new, <1>place, <1>slot, <2>1, <3>1 DEF PlaceOf, Sidecar
    <3>3. c = slot => ServeOf(c)'
      BY <1>all, <1>slot, <2>1, <3>1 DEF ServeOf, Partly, WithID, Sidecar
    <3> QED BY <1>run, <1>move, <1>serve, <2>1, <3>1, <3>2, <3>3
  <2> QED BY <2>2, <2>3
<1>4. CASE AddUserIDs(c)
  <2> DEFINE k == ctl[c]
  <2>1. UNCHANGED <<task, proxy>> /\ k.at = "addids"
    BY <1>4 DEF AddUserIDs
  <2>2. CASE ~Sidecar /\ inbound = Nil
    BY <1>4, <1>cut, <2>1, <2>2 DEF AddUserIDs
  <2>3. CASE Sidecar \/ inbound # Nil
    <3>1. /\ uidMap' = uidMap \cup k.add /\ robbed' = robbed \ k.add /\ cut' = cut
          /\ ctl'[c].list = k.list /\ ctl'[c].del = k.del /\ OthersAlike(c)
          /\ \/ Sidecar /\ ctl'[c].at = "edge" /\ ctl'[c].add = {}
             \/ /\ ~Sidecar /\ ctl'[c].at = "add" /\ ctl'[c].add = k.add
                /\ ctl'[c].manager = inbound
      BY <1>4, <2>3 DEF AddUserIDs, Alike, OthersAlike, TypeOK, ControllerState
    <3>2. PlaceOf(c)'
      BY <1>all, <1>new, <1>place, <1>slot, <2>1, <3>1 DEF PlaceOf, Sidecar
    <3>3. c = slot => ServeOf(c)'
      BY <1>all, <1>slot, <2>1, <3>1 DEF ServeOf, Partly, WithID, Sidecar
    <3> QED BY <1>run, <1>move, <1>serve, <2>1, <3>1, <3>2, <3>3
  <2> QED BY <2>2, <2>3
<1>5. CASE SyncEnd(c)
  <2>1. /\ ctl'[c].at = "idle" /\ ctl'[c].list = ctl[c].list /\ ctl'[c].del = ctl[c].del
        /\ ctl'[c].add = ctl[c].add /\ OthersAlike(c) /\ ctl[c].at = "end"
    BY <1>5 DEF SyncEnd, Alike, OthersAlike, TypeOK, ControllerState
  <2>2. /\ \A d \in Controller \ {c} : task'[d] = task[d]
        /\ task'[c].running = task[c].running /\ task'[c].exec = "idle"
    BY <1>5 DEF SyncEnd, Finish, TypeOK, Tasks
  <2>3. UNCHANGED <<proxy, uidMap, robbed, cut>>
    BY <1>5 DEF SyncEnd, sharedVars, historyVars
  <2>4. SlotInv'
    BY <1>all, <1>new, <2>1, <2>2, SlotMove
  <2>5. PlaceOf(c)'
    BY <1>all, <1>new, <1>place, <2>1, <2>2 DEF PlaceOf
  <2>6. PlaceInv'
    BY <1>all, <2>1, <2>2, <2>5, PlaceMove
  <2>7. c = slot => ServeOf(c)'
    BY <1>all, <1>slot, <2>1, <2>3 DEF ServeOf, Partly, WithID, Sidecar
  <2> QED BY <1>serve, <2>1, <2>3, <2>4, <2>6, <2>7
<1>6. CASE ForgetUser(c)
  <2> DEFINE k == ctl[c]
             rest == k.del \ {k.user}
  <2>1. /\ UNCHANGED <<task, proxy, cut>> /\ k.at = "forget" /\ ~Sidecar
        /\ k.user \in k.del
    BY <1>6, <1>place DEF ForgetUser, PlaceOf
  <2>2. /\ ctl'[c].list = k.list /\ ctl'[c].add = k.add /\ ctl'[c].del = rest
        /\ ctl'[c].manager = k.manager /\ OthersAlike(c)
        /\ \/ rest # {} /\ ctl'[c].at = "del"
           \/ rest = {} /\ k.add # {} /\ ctl'[c].at = "addids"
           \/ rest = {} /\ k.add = {} /\ ctl'[c].at = "end"
    BY <1>6, <2>1 DEF ForgetUser, AfterDelete, Alike, OthersAlike, TypeOK,
                      ControllerState
  <2>3. uidMap' = uidMap \ {k.user}
        /\ robbed' = IF c = slot THEN robbed ELSE robbed \cup {k.user}
    BY <1>6 DEF ForgetUser
  <2>4. PlaceOf(c)'
    BY <1>all, <1>new, <1>place, <2>1, <2>2 DEF PlaceOf, Sidecar
  <2>5. c = slot => ServeOf(c)'
    BY <1>all, <1>slot, <2>1, <2>2, <2>3 DEF ServeOf, Partly, WithID, Sidecar
  <2>6. SlotInv' /\ PlaceInv'
    BY <1>run, <1>move, <2>1, <2>2, <2>4
  <2>7. ASSUME c # slot PROVE ServeInv'
    BY <1>serve, <2>1, <2>2, <2>3, <2>7
  <2>8. ASSUME c = slot PROVE ServeInv'
    BY <1>all, <1>new, <2>2, <2>3, <2>5, <2>8, <1>nil
       DEF ServeInv, SlotInv, OthersAlike, Alike
  <2> QED BY <2>6, <2>7, <2>8
<1>7. ASSUME NEW u \in User, DelUser(c, u) PROVE HandInv'
  <2> DEFINE k == ctl[c]
  <2>1. /\ UNCHANGED <<task, uidMap, robbed>> /\ k.at = "del" /\ u \in k.del /\ ~Sidecar
    BY <1>7, <1>place DEF DelUser, PlaceOf
  <2>2. CASE CtxDone(c)
    BY <1>7, <1>cut, <2>1, <2>2 DEF DelUser
  <2>3. CASE ~CtxDone(c)
    <3>1. c = slot
      BY <1>new, <2>1, <2>3, OldIsCancelled
    <3>2. /\ ctl'[c].list = k.list /\ ctl'[c].add = k.add /\ ctl'[c].del = k.del
          /\ ctl'[c].manager = k.manager /\ OthersAlike(c)
          /\ ctl'[c].at = "forget" /\ ctl'[c].user = u
      BY <1>7, <2>3 DEF DelUser, Alike, OthersAlike, TypeOK, ControllerState
    <3>3. k.manager = c
      BY <1>place, <2>1, <3>1 DEF PlaceOf
    <3>4. proxy'[c] = proxy[c] \ {u} /\ cut' = cut
      BY <1>7, <2>3, <3>3 DEF DelUser, TypeOK
    <3>5. PlaceOf(c)'
      BY <1>all, <1>new, <1>place, <2>1, <3>2 DEF PlaceOf, Sidecar
    <3>6. ServeOf(c)'
      BY <1>all, <1>slot, <2>1, <3>1, <3>2, <3>4
         DEF ServeOf, Partly, WithID, Sidecar
    <3> QED BY <1>run, <1>move, <1>serve, <2>1, <3>1, <3>2, <3>5, <3>6
  <2> QED BY <2>2, <2>3
<1>8. ASSUME NEW u \in User, AddUser(c, u) PROVE HandInv'
  <2> DEFINE k == ctl[c]
             rest == k.add \ {u}
  <2>1. /\ UNCHANGED <<task, uidMap, robbed>> /\ k.at = "add" /\ u \in k.add /\ ~Sidecar
    BY <1>8, <1>place DEF AddUser, PlaceOf
  <2>2. CASE CtxDone(c)
    BY <1>8, <1>cut, <2>1, <2>2 DEF AddUser
  <2>3. CASE ~CtxDone(c)
    <3>1. c = slot
      BY <1>new, <2>1, <2>3, OldIsCancelled
    <3>2. /\ ctl'[c].list = k.list /\ ctl'[c].add = rest /\ ctl'[c].del = k.del
          /\ ctl'[c].manager = k.manager /\ OthersAlike(c)
          /\ ctl'[c].at = IF rest = {} THEN "end" ELSE "add"
      BY <1>8, <2>3 DEF AddUser, Alike, OthersAlike, TypeOK, ControllerState
    <3>3. k.manager = c /\ k.del = {}
      BY <1>place, <2>1, <3>1 DEF PlaceOf
    <3>4. proxy'[c] = proxy[c] \cup {u} /\ cut' = cut
      BY <1>8, <2>3, <3>3 DEF AddUser, TypeOK
    <3>5. PlaceOf(c)'
      BY <1>all, <1>new, <1>place, <2>1, <3>2 DEF PlaceOf, Sidecar
    <3>6. ServeOf(c)'
      BY <1>all, <1>slot, <2>1, <3>1, <3>2, <3>3, <3>4
         DEF ServeOf, Partly, WithID, Sidecar
    <3> QED BY <1>run, <1>move, <1>serve, <2>1, <3>1, <3>2, <3>5, <3>6
  <2> QED BY <2>2, <2>3
<1> QED BY <1>1, <1>2, <1>3, <1>4, <1>5, <1>6, <1>7, <1>8 DEF SyncStep

\* The upserts of the sidecar.  One that nobody in charge waits for leaves a mark.
LEMMA HandEdge ==
    ASSUME TypeOK, TaskInv, HandInv, NEW c \in Controller, EdgeStep(c)
    PROVE  HandInv'
<1> USE DEF HandInv
<1>nil. Nil \notin Controller
  BY TakeoverAssumption
<1>type. slot \in Controller \cup {Nil}
  BY DEF TypeOK
<1>all. /\ UNCHANGED <<setup, slot, task, proxy, edge, robbed, cut>>
        /\ ctl[c].at \in {"edge", "sent"}
  BY DEF EdgeStep, EdgeSend, EdgeFails
<1>place. PlaceOf(c) /\ Sidecar /\ ctl[c].del = {} /\ ctl[c].add = {}
  <2>1. PlaceOf(c)
    BY DEF PlaceInv
  <2> QED BY <1>all, <2>1 DEF PlaceOf
<1>slot. ASSUME c = slot PROVE ServeOf(c) /\ c # new
  BY <1>slot DEF ServeInv, SlotInv
\* Whoever moves, the slot's users are the same; the sidecar may fall behind.
<1>serve. ASSUME OthersAlike(c), UNCHANGED uidMap, behind' \in {behind, TRUE},
                 c = slot => ServeOf(c)'
          PROVE  slot \in Controller => ServeOf(slot)'
  <2> SUFFICES ASSUME slot \in Controller, slot # c PROVE ServeOf(slot)'
    BY <1>all, <1>serve
  <2>1. Alike(ctl'[slot], ctl[slot]) /\ ServeOf(slot)
    BY <1>serve DEF OthersAlike, ServeInv
  <2> QED BY <1>all, <1>serve, <2>1 DEF ServeOf, Alike, Partly, WithID, Sidecar
<1>1. CASE EdgeSend(c) /\ Goto(c, "sent") /\ UNCHANGED behind
  <2>1. /\ ctl'[c].at = "sent" /\ ctl'[c].list = ctl[c].list /\ ctl'[c].del = {}
        /\ ctl'[c].add = {} /\ OthersAlike(c) /\ ctl[c].at = "edge"
    BY <1>1, <1>place, GotoFields DEF EdgeSend
  <2>2. UNCHANGED <<new, inbound, uidMap, behind>>
    BY <1>1 DEF EdgeSend
  <2>3. SlotInv'
    <3>1. c = new => slot = Nil /\ inbound = c
      BY <1>all DEF SlotInv
    <3> QED BY <1>all, <2>1, <2>2, <3>1, SlotMove DEF StartPlace
  <2>4. PlaceOf(c)'
    BY <1>all, <1>place, <2>1, <2>2 DEF PlaceOf, Sidecar
  <2>5. PlaceInv'
    BY <1>all, <2>1, <2>2, <2>4, PlaceMove
  <2>6. c = slot => ServeOf(c)'
    BY <1>all, <1>slot, <2>1, <2>2, <1>place DEF ServeOf, Partly, WithID, Sidecar
  <2>7. ServeInv'
    BY <1>all, <1>serve, <2>1, <2>2, <2>6 DEF ServeInv, OthersAlike, Alike
  <2> QED BY <2>3, <2>5, <2>7
<1>2. CASE ~Starting(c) /\ Return(c) /\ UNCHANGED <<new, inbound, uidMap>> /\ behind' = TRUE
  <2>1. /\ ctl'[c].at = "end" /\ ctl'[c].list = ctl[c].list /\ ctl'[c].del = {}
        /\ ctl'[c].add = {} /\ OthersAlike(c) /\ c # new
    BY <1>2, ReturnFields DEF Starting
  <2>3. SlotInv'
    BY <1>all, <1>2, <2>1, SlotMove
  <2>4. PlaceOf(c)'
    BY <1>all, <1>place, <1>2, <2>1 DEF PlaceOf, Sidecar
  <2>5. PlaceInv'
    BY <1>all, <1>2, <2>1, <2>4, PlaceMove
  <2>6. c = slot => ServeOf(c)'
    BY <1>all, <1>slot, <1>2, <2>1, <1>place DEF ServeOf, Partly, WithID, Sidecar
  <2>7. ServeInv'
    BY <1>all, <1>serve, <1>2, <2>1, <2>6 DEF ServeInv, OthersAlike, Alike
  <2> QED BY <2>3, <2>5, <2>7
<1>3. CASE EdgeFails(c) /\ Starting(c)
  <2>1. c = new /\ new' = Nil /\ slot = Nil
    BY <1>3, <1>all DEF EdgeFails, Starting, Gone, SlotInv
  <2>2. ctl'[c].at = "none" /\ ctl'[c].del = {} /\ ctl'[c].add = {} /\ OthersAlike(c)
    BY <1>3, GoneFields DEF EdgeFails, Gone
  <2>3. SlotInv'
    BY <1>all, <2>1, <2>2, <1>nil DEF SlotInv
  <2>4. PlaceInv'
    <3> SUFFICES ASSUME NEW d \in Controller PROVE PlaceOf(d)'
      BY DEF PlaceInv
    <3>1. CASE d = c
      <4>1. task[c].exec = "idle"
        BY <2>1 DEF TaskInv
      <4> QED BY <1>all, <1>nil, <2>1, <2>2, <3>1, <4>1 DEF PlaceOf
    <3>2. CASE d # c
      <4>1. PlaceOf(d) /\ Alike(ctl'[d], ctl[d]) /\ d # new /\ d # new'
        BY <3>2, <2>1, <2>2, <1>nil DEF PlaceInv, OthersAlike
      <4> QED BY <4>1, <1>all DEF PlaceOf, Alike, Sidecar
    <3> QED BY <3>1, <3>2
  <2>5. ServeInv'
    BY <1>all, <2>1, <1>nil DEF ServeInv
  <2> QED BY <2>3, <2>4, <2>5
<1> QED BY <1>1, <1>2, <1>3 DEF EdgeStep, EdgeSend, EdgeFails

\* The daemon.
LEMMA HandDaemon ==
    ASSUME TypeOK, TaskInv, HandInv, NEW r \in flight, EdgeServe(r) \/ EdgeLose(r)
    PROVE  HandInv'
<1> USE DEF HandInv
<1> DEFINE c == r.from
           waits == ctl[c].at = "sent" /\ r = Request(c)
<1>nil. Nil \notin Controller
  BY TakeoverAssumption
<1>c. c \in Controller
  BY DEF TypeOK
<1>all. UNCHANGED <<setup, inbound, proxy, uidMap, robbed, cut>>
  BY DEF EdgeServe, EdgeLose, historyVars
<1>place. PlaceOf(c)
  BY <1>c DEF PlaceInv
<1>1. CASE EdgeLose(r)
  <2>1. UNCHANGED <<ctl, slot, new, task, edge, behind>>
    BY <1>1 DEF EdgeLose, historyVars
  <2> QED BY <1>all, <2>1 DEF SlotInv, PlaceInv, PlaceOf, ServeInv, ServeOf, Partly,
                              WithID,
                              Sidecar
<1>2. CASE EdgeServe(r) /\ ~waits
  <2>1. UNCHANGED <<ctl, slot, new, task>> /\ behind'
    BY <1>2 DEF EdgeServe
  <2> QED BY <1>all, <2>1 DEF SlotInv, PlaceInv, PlaceOf, ServeInv, ServeOf, Partly,
                              WithID,
                              Sidecar
<1>3. CASE EdgeServe(r) /\ waits
  <2>1. /\ edge' = ctl[c].list /\ behind' = ~(c \in {slot, new})
        /\ ctl[c].at = "sent" /\ Sidecar /\ ctl[c].del = {} /\ ctl[c].add = {}
    BY <1>3, <1>place DEF EdgeServe, Request, PlaceOf
  <2>2. CASE Starting(c)
    <3>1. Goto(c, "idle") /\ StartTasks(c)
      BY <1>3, <2>2 DEF EdgeServe
    <3>2. c = new /\ slot = Nil /\ inbound = c /\ ctl[c].list \ uidMap \subseteq robbed
      BY <2>1, <2>2, <1>c DEF Starting, SlotInv, ServeInv
    <3>3. /\ ctl'[c].at = "idle" /\ ctl'[c].del = {} /\ ctl'[c].add = {}
          /\ ctl'[c].list = ctl[c].list /\ OthersAlike(c)
      BY <1>c, <2>1, <3>1, GotoFields
    <3>4. /\ slot' = c /\ new' = Nil /\ task'[c].exec = "idle"
          /\ \A d \in Controller \ {c} : task'[d] = task[d]
      BY <1>c, <3>1 DEF StartTasks, Start, NoTask, TypeOK
    <3>5. SlotInv'
      BY <1>all, <1>c, <3>2, <3>3, <3>4, <1>nil DEF SlotInv, OthersAlike, Alike
    <3>6. PlaceInv'
      <4> SUFFICES ASSUME NEW d \in Controller PROVE PlaceOf(d)'
        BY DEF PlaceInv
      <4>1. CASE d = c
        BY <1>all, <3>2, <3>3, <3>4, <4>1 DEF PlaceOf
      <4>2. CASE d # c
        <5>1. PlaceOf(d) /\ Alike(ctl'[d], ctl[d]) /\ d # new /\ d # new' /\ d # slot'
          BY <3>2, <3>3, <3>4, <4>2, <1>nil DEF PlaceInv, OthersAlike
        <5> QED BY <1>all, <3>4, <4>2, <5>1 DEF PlaceOf, Alike, Sidecar
      <4> QED BY <4>1, <4>2
    <3>7. ServeOf(c)'
      BY <1>all, <2>1, <3>2, <3>3 DEF ServeOf, Partly, WithID, Sidecar
    <3> QED BY <3>4, <3>5, <3>6, <3>7, <1>nil DEF ServeInv
  <2>3. CASE ~Starting(c)
    <3>1. Goto(c, "end") /\ UNCHANGED <<task, slot, new>>
      BY <1>3, <2>3 DEF EdgeServe
    <3>2. /\ ctl'[c].at = "end" /\ ctl'[c].del = {} /\ ctl'[c].add = {}
          /\ ctl'[c].list = ctl[c].list /\ OthersAlike(c) /\ c # new
      BY <1>c, <2>1, <2>3, <3>1, GotoFields DEF Starting
    <3>3. SlotInv'
      BY <1>all, <1>c, <3>1, <3>2, SlotMove
    <3>4. PlaceOf(c)'
      BY <1>all, <1>place, <2>1, <3>1, <3>2 DEF PlaceOf, Sidecar
    <3>5. PlaceInv'
      BY <1>all, <1>c, <3>1, <3>2, <3>4, PlaceMove
    <3>6. ASSUME slot \in Controller PROVE ServeOf(slot)'
      <4>1. ServeOf(slot)
        BY <3>6 DEF ServeInv
      <4>2. CASE slot = c
        BY <1>all, <2>1, <3>1, <3>2, <4>1, <4>2 DEF ServeOf, Partly, WithID, Sidecar
      <4>3. CASE slot # c
        <5>1. Alike(ctl'[slot], ctl[slot]) /\ behind'
          BY <2>1, <3>2, <3>6, <4>3 DEF OthersAlike
        <5> QED BY <1>all, <3>1, <4>1, <5>1
           DEF ServeOf, Alike, Partly, WithID, Sidecar
      <4> QED BY <4>2, <4>3
    <3> QED BY <1>all, <3>1, <3>2, <3>3, <3>5, <3>6 DEF ServeInv, OthersAlike, Alike
  <2> QED BY <2>2, <2>3
<1> QED BY <1>1, <1>2, <1>3

\* The first controller is in the slot and serves its list.
LEMMA HandInit == Init => HandInv
<1> SUFFICES ASSUME Init PROVE HandInv
  OBVIOUS
<1>1. PICK c \in Controller, U \in Table :
        /\ ctl = [d \in Controller |->
                    IF d = c THEN [NoController EXCEPT !.at = "idle", !.list = U,
                                                       !.rev = 1]
                    ELSE NoController]
        /\ slot = c
        /\ task = [d \in Controller |->
                     IF d = c THEN [NoTask EXCEPT !.running = TRUE, !.token = TRUE]
                     ELSE NoTask]
        /\ inbound = c
        /\ proxy = [d \in Controller |-> IF d = c /\ ~Sidecar THEN U ELSE {}]
        /\ uidMap = U
        /\ edge = IF Sidecar THEN U ELSE {}
  BY DEF Init
<1>2. new = Nil /\ Nil \notin Controller
  BY TakeoverAssumption DEF Init
<1>3. /\ \A d \in Controller : ctl[d].del = {} /\ ctl[d].add = {}
      /\ \A d \in Controller : ctl[d].at = IF d = c THEN "idle" ELSE "none"
      /\ \A d \in Controller : task[d].exec = "idle" /\ (task[d].running => d = c)
      /\ ctl[c].list = U
  BY <1>1 DEF NoController, NoTask
<1>4. SlotInv
  BY <1>1, <1>2, <1>3 DEF SlotInv
<1>5. PlaceInv
  BY <1>2, <1>3 DEF PlaceInv, PlaceOf
<1>6. ServeOf(c)
  BY <1>1, <1>3 DEF ServeOf, Partly, WithID
<1> QED BY <1>1, <1>2, <1>4, <1>5, <1>6 DEF HandInv, ServeInv

\* Every step keeps the handover's invariants.
LEMMA HandNext == TypeOK /\ SnapInv /\ TaskInv /\ HandInv /\ [Next]_vars => HandInv'
<1> SUFFICES ASSUME TypeOK, SnapInv, TaskInv, HandInv, [Next]_vars PROVE HandInv'
  OBVIOUS
<1>1. CASE UNCHANGED <<setup, ctl, slot, new, task, sharedVars, historyVars>>
  BY <1>1 DEF HandInv, SlotInv, PlaceInv, PlaceOf, ServeInv, ServeOf, Partly,
              WithID,
              Sidecar, sharedVars, historyVars
<1>2. CASE \E U \in Table : PanelChange(U)
  BY <1>1, <1>2 DEF PanelChange
<1>3. ASSUME NEW c \in Controller, StartStep(c) PROVE HandInv'
  BY <1>3, HandStart DEF StartStep
<1> QED
  <2>1. CASE UNCHANGED vars
    BY <2>1, <1>1 DEF vars
  <2> QED BY <2>1, <1>2, <1>3, HandStart, HandTask, HandSave, HandSync, HandEdge,
     HandDaemon
          DEF Next, Step

-----------------------------------------------------------------------------
(* The theorems.                                                           *)

\* Every variable of Takeover keeps its type, in every behaviour.
THEOREM TypeCorrect == Spec => []TypeOK
<1>1. Init => TypeOK /\ SnapInv
  BY TypeInit, SnapInit
<1>2. TypeOK /\ SnapInv /\ [Next]_vars => TypeOK' /\ SnapInv'
  BY TypeNext, SnapNext
<1> QED BY <1>1, <1>2, PTL DEF Spec

\* However many controllers save at the same time, every list and every state
\* file that can be read is the panel's table at its revision.
THEOREM SnapshotsAreExact == Spec => []SnapshotsExact
<1>1. Init => TypeOK /\ SnapInv
  BY TypeInit, SnapInit
<1>2. TypeOK /\ SnapInv /\ [Next]_vars => TypeOK' /\ SnapInv'
  BY TypeNext, SnapNext
<1>3. SnapInv => SnapshotsExact
  BY DEF SnapInv, ListInv, FileInv, Exact, SnapshotsExact
<1> QED BY <1>1, <1>2, <1>3, PTL DEF Spec

\* Whoever starts, fails, is closed or is cancelled in the middle of its sync, the
\* controller in the slot serves its own list once its sync is over: the inbound is
\* its own, nobody else changes its users, and only a user whom a closed controller
\* was deleting may lack an id.
THEOREM HandoverIsClean == Spec => []HandedOver
<1> DEFINE All == TypeOK /\ SnapInv /\ TaskInv /\ HandInv
<1>1. Init => All
  BY TypeInit, SnapInit, TaskInit, HandInit
<1>2. All /\ [Next]_vars => All'
  BY TypeNext, SnapNext, TaskNext, HandNext
<1>3. All => HandedOver
  <2> SUFFICES ASSUME All, NEW c \in Controller, Settled(c)
               PROVE  /\ inbound = c
                      /\ ctl[c].list \ uidMap \subseteq robbed
                      /\ IF ~Sidecar THEN proxy[c] = ctl[c].list
                         ELSE edge = ctl[c].list \/ behind
    BY DEF HandedOver
  <2>1. c = slot /\ ctl[c].at = "idle" /\ ~cut
    BY DEF Settled
  <2>2. inbound = c /\ PlaceOf(c) /\ ServeOf(c)
    BY <2>1 DEF HandInv, SlotInv, PlaceInv, ServeInv
  <2>3. ctl[c].del = {} /\ ctl[c].add = {}
    BY <2>1, <2>2 DEF PlaceOf
  <2> QED BY <2>1, <2>2, <2>3 DEF ServeOf, Partly, WithID
<1> HIDE DEF All
<1> QED BY <1>1, <1>2, <1>3, PTL DEF Spec

\* The periodic tasks implement Job, but for its fairness: never two executions
\* of one task, whatever is closed, started, timed out or collected in between,
\* and none with a live context once the task is closed.
THEOREM TasksImplementJobs == Spec => J!SafeSpec
<1>1. Init => TypeOK /\ SnapInv /\ TaskInv /\ J!Init
  BY TypeInit, SnapInit, TaskInit, JobInit
<1>2. TypeOK /\ SnapInv /\ TaskInv /\ [Next]_vars => TypeOK' /\ SnapInv' /\ TaskInv'
  BY TypeNext, SnapNext, TaskNext
<1>3. TypeOK /\ TypeOK' /\ TaskInv /\ [Next]_vars => [J!Next]_<<JobOpen, JobRun>>
  BY JobNext
<1> QED BY <1>1, <1>2, <1>3, PTL DEF Spec, J!SafeSpec, J!jobVars

=============================================================================
