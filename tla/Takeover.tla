------------------------------ MODULE Takeover ------------------------------
(***************************************************************************)
(* One controller takes over a node from another (node/controller.go,      *)
(* StartReplacing) while the user sync of the old one is under way.        *)
(*                                                                         *)
(* The two share what belongs to the node and not to a controller: the     *)
(* state file and its temporary file (node/user_sync_state.go), the tag's  *)
(* inbound and the uidMap of the core (core/node.go, core/user.go), and    *)
(* the sidecar of the edge daemon (node/edge_sidecar.go).  Nothing         *)
(* excludes them from one another: the new controller is prepared while    *)
(* the old one runs, and Close cancels the old one's sync without waiting  *)
(* for it.  Task has the task that runs the sync.                          *)
(*                                                                         *)
(* A controller whose work is over leaves its place in Controller to one   *)
(* that is made later.  UserSync has what is left out here: the changes of *)
(* users that stay, panels without differences, nodes without users, and   *)
(* crashes.                                                                *)
(***************************************************************************)
EXTENDS Task, Sequences

CONSTANTS
    User,
    Nil,             \* no controller, no sidecar
    Setups           \* who serves the node, the core or a sidecar of the daemon;
                     \* bounds: revisions of the panel's user table, and failed
                     \* calls, failed starts and timeouts

ASSUME TakeoverAssumption ==
    /\ Setups \subseteq [kind : {"core", "sidecar"}, maxRev : Nat, maxFaults : Nat]
    /\ Nil \notin Controller \cup User

VARIABLES
    setup,     \* the type of the node
    snap,      \* panel: the users of the node at each revision
    ctl,       \* the controllers
    slot,      \* the controller in the manager's slot
    new,       \* the controller that is being started
    file,      \* contents of the state file and of its temporary file
    inbound,   \* the controller whose AddNode made the inbound of the tag
    proxy,     \* the users of the inbound each controller made
    uidMap,    \* users with an id
    edge,      \* daemon: the users of the sidecar
    flight,    \* upserts the daemon may still serve
    robbed,    \* history: users whose id a closed controller has deleted
    cut,       \* history: a sync of the controller in the slot ended half way
    behind,    \* history: the last upsert failed, or an old one was served
    faults

sharedVars  == <<file, inbound, proxy, uidMap, edge, flight>>
historyVars == <<robbed, cut, behind>>
vars == <<setup, snap, ctl, slot, new, task, sharedVars, historyVars, faults>>

Sidecar == setup.kind = "sidecar"

Rev   == Len(snap)
Table == SUBSET User \ {{}}

\* What a file holds: nothing, the bytes of two writers, or a userSyncStateFile.
NoFile    == [kind |-> "none",  rev |-> 0, users |-> {}]
Truncated == [kind |-> "empty", rev |-> 0, users |-> {}]
Torn      == [kind |-> "torn",  rev |-> 0, users |-> {}]
Saved(r, U) == [kind |-> "ok", rev |-> r, users |-> U]

\* userList and userRevision; where its start or its sync is; the users still
\* to be deleted and added, the one it is deleting, the inbound whose user
\* manager it has; and the name that the file it has open goes by now.
NoController == [at |-> "none", list |-> {}, rev |-> 0, del |-> {}, add |-> {},
                 user |-> Nil, manager |-> Nil, open |-> "no"]

Fault == faults < setup.maxFaults /\ faults' = faults + 1

Starting(c) == c = new

\* c goes on at place a.
Goto(c, a) == ctl' = [ctl EXCEPT ![c].at = a]

-----------------------------------------------------------------------------
(* The panel.                                                              *)

PanelChange(U) ==
    /\ Rev < setup.maxRev /\ U # snap[Rev]
    /\ snap' = Append(snap, U)
    /\ UNCHANGED <<setup, ctl, slot, new, task, sharedVars, historyVars, faults>>

\* Users deleted and added since a revision; since 0 the answer is the full list.
Deleted(r) == IF r = 0 THEN {} ELSE snap[r] \ snap[Rev]
Upsert(r)  == IF r = 0 THEN snap[Rev] ELSE snap[Rev] \ snap[r]

-----------------------------------------------------------------------------
(* The start of a controller, up to Close of the old one.                  *)

\* A reconcile or a retry makes a controller.  loadUserSyncState: without a file
\* that can be read the start is cold.
Create(c) ==
    /\ new = Nil /\ ctl[c] = NoController
    /\ new' = c
    /\ ctl' = [ctl EXCEPT ![c].at = "ask", ![c].list = file["path"].users,
                          ![c].rev = file["path"].rev]
    /\ UNCHANGED <<setup, snap, slot, task, sharedVars, historyVars, faults>>

\* A start that fails leaves no controller.
Gone(c) ==
    /\ ctl' = [ctl EXCEPT ![c] = NoController]
    /\ new' = Nil

\* prepareStart fails: at the users, or after they are saved, at the certificate.
PrepareFails(c) ==
    /\ Starting(c) /\ ctl[c].at \in {"ask", "close"} /\ Fault
    /\ Gone(c)
    /\ UNCHANGED <<setup, snap, slot, task, sharedVars, historyVars>>

\* Faulty variant: keeps the list it had.
AskKeepsList(c) ==
    /\ ctl[c].at = "ask" /\ (Starting(c) \/ ~CtxDone(c))
    /\ ctl' = [ctl EXCEPT ![c].at = "open", ![c].rev = Rev]
    /\ UNCHANGED <<setup, snap, slot, new, task, sharedVars, historyVars, faults>>

\* GetUserDelta, in loadAndSyncUsers and in executeNodeUserSync.
Ask(c) ==
    LET r == ctl[c].rev IN
    /\ ctl[c].at = "ask" /\ (Starting(c) \/ ~CtxDone(c))
    /\ ctl' = [ctl EXCEPT ![c].at = "open", ![c].rev = Rev,
                          ![c].list = (@ \ Deleted(r)) \cup Upsert(r),
                          ![c].del = IF Starting(c) THEN {} ELSE @ \cup Deleted(r),
                          ![c].add = IF Starting(c) THEN {} ELSE @ \cup Upsert(r)]
    /\ UNCHANGED <<setup, snap, slot, new, task, sharedVars, historyVars, faults>>

-----------------------------------------------------------------------------
(* saveUserSyncState.  Both controllers write path.tmp.                    *)

\* os.WriteFile opens the file and truncates it.
SaveOpen(c) ==
    /\ ctl[c].at = "open"
    /\ file' = [file EXCEPT !["tmp"] = Truncated]
    /\ ctl' = [ctl EXCEPT ![c].at = "write", ![c].open = "tmp"]
    /\ UNCHANGED <<setup, snap, slot, new, task, inbound, proxy, uidMap, edge,
                   flight, historyVars, faults>>

\* One write at offset 0 into the file that is open, whatever its name is now.
\* Over other bytes it leaves their end if it is shorter.
SaveWrite(c, f) ==
    LET name == ctl[c].open
        data == Saved(ctl[c].rev, ctl[c].list)
    IN
    /\ ctl[c].at = "write"
    /\ IF name = "gone" THEN f = Torn /\ UNCHANGED file
       ELSE /\ f = data \/ (f = Torn /\ file[name] # Truncated)
            /\ file' = [file EXCEPT ![name] = f]
    /\ ctl' = [ctl EXCEPT ![c].at = "rename", ![c].open = "no"]
    /\ UNCHANGED <<setup, snap, slot, new, task, inbound, proxy, uidMap, edge,
                   flight, historyVars, faults>>

\* What the name of an open file becomes when path.tmp is renamed.
Renamed(name) == CASE name = "tmp"  -> "path"
                   [] name = "path" -> "gone"
                   [] OTHER -> name

\* os.Rename; the error of a file that is no longer there is ignored.
SaveRename(c) ==
    /\ ctl[c].at = "rename"
    /\ LET there == file["tmp"] # NoFile
           next  == IF ~Starting(c) THEN "apply"
                    ELSE IF slot = Nil THEN "activate" ELSE "close"
       IN
       /\ file' = IF there THEN [file EXCEPT !["path"] = file["tmp"],
                                             !["tmp"] = NoFile] ELSE file
       /\ ctl' = [d \in Controller |->
                    LET k == IF there THEN [ctl[d] EXCEPT !.open = Renamed(@)]
                             ELSE ctl[d]
                    IN  IF d = c THEN [k EXCEPT !.at = next] ELSE k]
    /\ UNCHANGED <<setup, snap, slot, new, task, inbound, proxy, uidMap, edge,
                   flight, historyVars, faults>>

-----------------------------------------------------------------------------
(* Close of the old controller, activatePreparedStart of the new one.      *)

\* The old controller's task is closed first ...
CloseOld(c) ==
    /\ ctl[c].at = "close"
    /\ Close(slot)
    /\ Goto(c, "delnode")
    /\ UNCHANGED <<setup, snap, slot, new, sharedVars, historyVars, faults>>

\* ... then DelNode.  Only for a sidecar the ids of the tag go, too.
DelNode ==
    /\ inbound' = Nil
    /\ uidMap' = IF Sidecar THEN {} ELSE uidMap

DelOld(c) ==
    /\ ctl[c].at = "delnode"
    /\ DelNode
    /\ slot' = Nil /\ cut' = FALSE
    /\ Goto(c, "activate")
    /\ UNCHANGED <<setup, snap, new, task, file, proxy, edge, flight, robbed, behind,
                   faults>>

\* startTasks; the new controller takes the slot.
StartTasks(c) == Start(c) /\ slot' = c /\ new' = Nil

\* AddNode, AddUsers with the whole list (ids, then users) and, for a node of the
\* core, startTasks.  What the old sync does in between it may as well do before
\* or after.
Activate(c) ==
    /\ ctl[c].at = "activate"
    /\ inbound' = c
    /\ uidMap' = uidMap \cup ctl[c].list
    /\ robbed' = robbed \ ctl[c].list
    /\ IF ~Sidecar
       THEN /\ proxy' = [proxy EXCEPT ![c] = ctl[c].list]
            /\ StartTasks(c) /\ Goto(c, "idle")
       ELSE Goto(c, "edge") /\ UNCHANGED <<proxy, slot, new, task>>
    /\ UNCHANGED <<setup, snap, file, edge, flight, cut, behind, faults>>

ActivateFails(c) ==
    /\ ctl[c].at = "activate" /\ Fault
    /\ Gone(c)
    /\ UNCHANGED <<setup, snap, slot, task, sharedVars, historyVars>>

-----------------------------------------------------------------------------
(* The user sync, an execution of the task.                                *)

TaskTick(c) ==
    /\ Tick(c)
    /\ UNCHANGED <<setup, snap, ctl, slot, new, sharedVars, historyVars, faults>>

SyncBegin(c) ==
    /\ Begin(c)
    /\ Goto(c, "ask")
    /\ UNCHANGED <<setup, snap, slot, new, sharedVars, historyVars, faults>>

SyncExpire(c) ==
    /\ Expire(c) /\ Fault
    /\ UNCHANGED <<setup, snap, ctl, slot, new, sharedVars, historyVars>>

\* The sync returns without having applied everything.
Return(c) == ctl' = [ctl EXCEPT ![c].at = "end", ![c].del = {}, ![c].add = {},
                                ![c].manager = Nil]

CutShort(c) == Return(c) /\ cut' = (cut \/ c = slot)

\* The request fails, or its context is done.
AskFails(c) ==
    /\ ~Starting(c) /\ ctl[c].at = "ask"
    /\ IF CtxDone(c) THEN UNCHANGED faults ELSE Fault
    /\ Goto(c, "end")
    /\ UNCHANGED <<setup, snap, slot, new, task, sharedVars, historyVars>>

\* What is next when the users in del have been deleted.
AfterDelete(c) == IF ctl[c].add # {} THEN "addids"
                  ELSE IF Sidecar THEN "edge" ELSE "end"

\* applyDeletedUsers does nothing for a sidecar; DelUsers takes the user
\* manager of the tag.
Apply(c) ==
    LET k == ctl[c] IN
    /\ k.at = "apply"
    /\ IF k.del = {} /\ k.add = {} THEN Goto(c, "end") /\ UNCHANGED cut
       ELSE IF k.del = {} THEN Goto(c, "addids") /\ UNCHANGED cut
       ELSE IF Sidecar
            THEN /\ ctl' = [ctl EXCEPT ![c].at = AfterDelete(c), ![c].del = {}]
                 /\ UNCHANGED cut
       ELSE IF inbound = Nil THEN CutShort(c)
       ELSE ctl' = [ctl EXCEPT ![c].at = "del", ![c].manager = inbound] /\ UNCHANGED cut
    /\ UNCHANGED <<setup, snap, slot, new, task, sharedVars, robbed, behind, faults>>

\* Faulty variant: does not look at the context.
DelUserNoCtx(c, u) ==
    LET m == ctl[c].manager IN
    /\ ctl[c].at = "del" /\ u \in ctl[c].del
    /\ proxy' = [proxy EXCEPT ![m] = @ \ {u}]
    /\ ctl' = [ctl EXCEPT ![c].at = "forget", ![c].user = u]
    /\ UNCHANGED <<setup, snap, slot, new, task, file, inbound, uidMap, edge, flight,
                   historyVars, faults>>

\* DelUsers for one user: the context, RemoveUser ...
DelUser(c, u) ==
    LET m == ctl[c].manager IN
    /\ ctl[c].at = "del" /\ u \in ctl[c].del
    /\ IF CtxDone(c) THEN CutShort(c) /\ UNCHANGED proxy
       ELSE /\ proxy' = [proxy EXCEPT ![m] = @ \ {u}]
            /\ ctl' = [ctl EXCEPT ![c].at = "forget", ![c].user = u]
            /\ UNCHANGED cut
    /\ UNCHANGED <<setup, snap, slot, new, task, file, inbound, uidMap, edge, flight,
                   robbed, behind, faults>>

\* ... and its entry in uidMap.
ForgetUser(c) ==
    LET u == ctl[c].user
        rest == ctl[c].del \ {u}
    IN
    /\ ctl[c].at = "forget"
    /\ uidMap' = uidMap \ {u}
    /\ robbed' = IF c = slot THEN robbed ELSE robbed \cup {u}
    /\ ctl' = [ctl EXCEPT ![c].at = IF rest = {} THEN AfterDelete(c) ELSE "del",
                          ![c].del = rest, ![c].user = Nil]
    /\ UNCHANGED <<setup, snap, slot, new, task, file, inbound, proxy, edge, flight,
                   cut, behind, faults>>

\* AddUsersWithContext: the user manager of the tag, then all ids at once.
AddUserIDs(c) ==
    /\ ctl[c].at = "addids"
    /\ IF Sidecar
       THEN /\ uidMap' = uidMap \cup ctl[c].add /\ robbed' = robbed \ ctl[c].add
            /\ ctl' = [ctl EXCEPT ![c].at = "edge", ![c].add = {}]
            /\ UNCHANGED cut
       ELSE IF inbound = Nil THEN CutShort(c) /\ UNCHANGED <<uidMap, robbed>>
       ELSE /\ uidMap' = uidMap \cup ctl[c].add /\ robbed' = robbed \ ctl[c].add
            /\ ctl' = [ctl EXCEPT ![c].at = "add", ![c].manager = inbound]
            /\ UNCHANGED cut
    /\ UNCHANGED <<setup, snap, slot, new, task, file, inbound, proxy, edge, flight,
                   behind, faults>>

\* One round of its loop: the context, AddUser.
AddUser(c, u) ==
    LET m == ctl[c].manager
        rest == ctl[c].add \ {u}
    IN
    /\ ctl[c].at = "add" /\ u \in ctl[c].add
    /\ IF CtxDone(c) THEN CutShort(c) /\ UNCHANGED proxy
       ELSE /\ proxy' = [proxy EXCEPT ![m] = @ \cup {u}]
            /\ ctl' = [ctl EXCEPT ![c].add = rest,
                                  ![c].at = IF rest = {} THEN "end" ELSE "add"]
            /\ UNCHANGED cut
    /\ UNCHANGED <<setup, snap, slot, new, task, file, inbound, uidMap, edge, flight,
                   robbed, behind, faults>>

\* nodeUserMonitor logs an error and returns nil.
SyncEnd(c) ==
    /\ ctl[c].at = "end"
    /\ Finish(c, FALSE)
    /\ ctl' = [ctl EXCEPT ![c].at = "idle", ![c].manager = Nil]
    /\ UNCHANGED <<setup, snap, slot, new, sharedVars, historyVars, faults>>

-----------------------------------------------------------------------------
(* applyEdgeSidecar: of the start and of the sync.                         *)

Request(c) == [from |-> c, rev |-> ctl[c].rev, users |-> ctl[c].list]

\* UpsertSidecar posts the list; not if the context is done.
EdgeSend(c) ==
    /\ ctl[c].at = "edge"
    /\ IF ~Starting(c) /\ CtxDone(c)
       THEN Return(c) /\ behind' = TRUE /\ UNCHANGED flight
       ELSE /\ flight' = flight \cup {Request(c)}
            /\ Goto(c, "sent") /\ UNCHANGED behind
    /\ UNCHANGED <<setup, snap, slot, new, task, file, inbound, proxy, uidMap, edge,
                   robbed, cut, faults>>

\* The daemon serves a request, and answers if somebody waits.
EdgeServe(r) ==
    LET c == r.from
        waits == ctl[c].at = "sent" /\ r = Request(c)
    IN
    /\ r \in flight
    /\ edge' = r.users
    /\ flight' = flight \ {r}
    /\ IF waits /\ Starting(c) THEN StartTasks(c) /\ Goto(c, "idle")
       ELSE /\ IF waits THEN Goto(c, "end") ELSE UNCHANGED ctl
            /\ UNCHANGED <<task, slot, new>>
    /\ behind' = ~(waits /\ c \in {slot, new})
    /\ UNCHANGED <<setup, snap, file, inbound, proxy, uidMap, robbed, cut, faults>>

\* A request that nobody waits for never arrives.
EdgeLose(r) ==
    /\ r \in flight
    /\ ~(ctl[r.from].at = "sent" /\ r = Request(r.from))
    /\ flight' = flight \ {r}
    /\ UNCHANGED <<setup, snap, ctl, slot, new, task, file, inbound, proxy, uidMap,
                   edge, historyVars, faults>>

\* The client's timeout, or the context, ends the wait.  The start fails and its
\* controller is closed; the request may still be served.
EdgeFails(c) ==
    /\ ctl[c].at = "sent"
    /\ IF ~Starting(c) /\ CtxDone(c) THEN UNCHANGED faults ELSE Fault
    /\ IF Starting(c)
       THEN Gone(c) /\ DelNode
       ELSE Return(c) /\ UNCHANGED <<new, inbound, uidMap>>
    /\ behind' = TRUE
    /\ UNCHANGED <<setup, snap, slot, task, file, proxy, edge, flight, robbed, cut>>

-----------------------------------------------------------------------------

\* A closed controller is garbage when its last execution has ended.
Collect(c) ==
    /\ ctl[c].at = "idle" /\ ~task[c].running /\ task[c].exec = "idle" /\ c # slot
    /\ ctl' = [ctl EXCEPT ![c] = NoController]
    /\ task' = [task EXCEPT ![c] = NoTask]
    /\ proxy' = [proxy EXCEPT ![c] = {}]
    /\ UNCHANGED <<setup, snap, slot, new, file, inbound, uidMap, edge, flight,
                   historyVars, faults>>

\* The first controller has been started.
Init ==
    /\ setup \in Setups
    /\ \E c \in Controller, U \in Table :
          /\ snap = <<U>>
          /\ ctl = [d \in Controller |->
                      IF d = c THEN [NoController EXCEPT !.at = "idle", !.list = U,
                                                         !.rev = 1]
                      ELSE NoController]
          /\ slot = c
          /\ task = [d \in Controller |->
                       IF d = c THEN [NoTask EXCEPT !.running = TRUE, !.token = TRUE]
                       ELSE NoTask]
          /\ file = [n \in {"path", "tmp"} |-> IF n = "path" THEN Saved(1, U) ELSE NoFile]
          /\ inbound = c
          /\ proxy = [d \in Controller |-> IF d = c /\ ~Sidecar THEN U ELSE {}]
          /\ uidMap = U
          /\ edge = IF Sidecar THEN U ELSE {}
    /\ new = Nil /\ flight = {}
    /\ robbed = {} /\ cut = FALSE /\ behind = FALSE /\ faults = 0

StartStep(c) == CloseOld(c) \/ DelOld(c) \/ Activate(c)

SyncStep(c) ==
    \/ SyncBegin(c) \/ AskFails(c) \/ Apply(c) \/ AddUserIDs(c) \/ SyncEnd(c)
    \/ ForgetUser(c)
    \/ \E u \in User : DelUser(c, u) \/ AddUser(c, u)

SaveStep(c) ==
    \/ Ask(c) \/ SaveOpen(c) \/ SaveRename(c)
    \/ \E f \in {Torn, Saved(ctl[c].rev, ctl[c].list)} : SaveWrite(c, f)

EdgeStep(c) == EdgeSend(c) \/ EdgeFails(c)

Step(c) == StartStep(c) \/ SyncStep(c) \/ SaveStep(c) \/ EdgeStep(c)

Next ==
    \/ \E U \in Table : PanelChange(U)
    \/ \E c \in Controller :
          \/ Create(c) \/ PrepareFails(c) \/ ActivateFails(c)
          \/ Step(c)
          \/ TaskTick(c) \/ SyncExpire(c) \/ Collect(c)
    \/ \E r \in flight : EdgeServe(r) \/ EdgeLose(r)

Spec == Init /\ [][Next]_vars

\* Controllers go on with what they do, tasks tick, the daemon serves its
\* requests, and a node that does not run is tried again (Machine).
Fairness ==
    /\ \A c \in Controller :
          /\ WF_vars(Step(c)) /\ WF_vars(TaskTick(c))
          /\ WF_vars(Collect(c))
    /\ WF_vars(\E r \in flight : EdgeServe(r))
    /\ WF_vars(slot = Nil /\ \E c \in Controller : Create(c))

FairSpec == Spec /\ Fairness

-----------------------------------------------------------------------------
(* Properties.                                                             *)

Place == {"none", "ask", "open", "write", "rename", "close", "delnode", "activate",
          "apply", "del", "forget", "addids", "add", "edge", "sent", "end", "idle"}

ControllerState == [at : Place, list : SUBSET User, rev : Nat,
                    del : SUBSET User, add : SUBSET User, user : User \cup {Nil},
                    manager : Controller \cup {Nil},
                    open : {"no", "tmp", "path", "gone"}]

Contents == [kind : {"none", "empty", "torn", "ok"}, rev : Nat, users : SUBSET User]

\* Every variable keeps its type.
TypeOK ==
    /\ setup \in Setups /\ snap \in Seq(Table) /\ snap # <<>>
    /\ ctl \in [Controller -> ControllerState] /\ task \in [Controller -> Tasks]
    /\ slot \in Controller \cup {Nil} /\ new \in Controller \cup {Nil}
    /\ file \in [{"path", "tmp"} -> Contents]
    /\ inbound \in Controller \cup {Nil} /\ proxy \in [Controller -> SUBSET User]
    /\ uidMap \subseteq User /\ edge \subseteq User
    /\ flight \subseteq [from : Controller, rev : Nat, users : SUBSET User]
    /\ robbed \subseteq User /\ cut \in BOOLEAN /\ behind \in BOOLEAN /\ faults \in Nat

\* A controller that runs, between two syncs, and has applied all it knows.
Settled(c) == c = slot /\ ctl[c].at = "idle" /\ ~cut

\* Whatever a closed controller's sync still does, the controller in its place
\* serves exactly its own list: the inbound is its own, nobody adds a user to it
\* or removes one, and every user has an id, but for one that the old sync was
\* deleting when it was cancelled.  The sidecar has the list unless an upsert
\* failed or was overtaken.
HandedOver ==
    \A c \in Controller : Settled(c) =>
        /\ inbound = c
        /\ ctl[c].list \ uidMap \subseteq robbed
        /\ IF ~Sidecar THEN proxy[c] = ctl[c].list
           ELSE edge = ctl[c].list \/ behind

\* The list of every controller and every state file that can be read are the
\* panel's table at their revision, also when two controllers save at the same
\* time: a file they both write is one of the two or cannot be read.
SnapshotsExact ==
    /\ \A c \in Controller : ctl[c].rev > 0 => ctl[c].list = snap[ctl[c].rev]
    /\ \A n \in {"path", "tmp"} :
          file[n].kind = "ok" => file[n].users = snap[file[n].rev]

JobOpen == [c \in Controller |-> task[c].running]

JobRun == [c \in Controller |->
             IF task[c].exec = "launched" THEN "due"
             ELSE IF task[c].exec = "idle" THEN "idle"
             ELSE IF CtxDone(c) THEN "dead" ELSE "live"]

J == INSTANCE Job WITH Worker <- Controller, open <- JobOpen, run <- JobRun

\* Every task does what Job promises: one execution at a time, a context that is
\* done in every execution that outlives Close or begins after it, and of these
\* at most one; and every execution, also of a closed controller, ends.
TasksAreJobs == J!Spec

\* The node is always served again, and once the panel stays as it is by its
\* users, unless a sync was cut short or an upsert failed: then the next change
\* of the list or the next start repairs it.
Converges ==
    []<>(/\ slot # Nil
         /\ \/ cut \/ behind
            \/ (IF ~Sidecar THEN proxy[slot] ELSE edge) = snap[Rev])

=============================================================================
