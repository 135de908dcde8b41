------------------------------ MODULE UserSync ------------------------------
(***************************************************************************)
(* How one node keeps its users in step with the panel.                    *)
(*                                                                         *)
(* The panel numbers the successive user tables of the node (revisions).   *)
(* A controller pulls the difference between its revision and the current  *)
(* one, or a full table, writes (revision, users) to a state file, and     *)
(* pushes the difference into the proxy core (user manager and uidMap) and *)
(* into the limiter.  Two goroutines run executeNodeUserSync: the periodic *)
(* task nodeUserMonitor and the realtime user worker; userSyncMu           *)
(* serialises them.  The process may crash between any two steps and warm  *)
(* starts from the state file.                                             *)
(*                                                                         *)
(* A user list is a function from uuids to the user's record, or NoUser:   *)
(* every list operation of the code is keyed by Uuid.  Info stands for the *)
(* fields Id, SpeedLimit and DeviceLimit, the ones compareUserList tests.  *)
(***************************************************************************)
EXTENDS Integers

CONSTANTS
    Uuid,           \* uuids of the users of this node
    Info,           \* values of (Id, SpeedLimit, DeviceLimit)
    NoUser,         \* the entry of a uuid that is not in a list
    Syncer,         \* goroutines that call executeNodeUserSync
    Periodic,       \* the one of them that is the nodeUserMonitor task
    MaxRev,         \* bound: number of panel revisions
    MaxFaults       \* bound: number of crashes and failed calls

ASSUME ConstantsAssumption ==
    /\ NoUser \notin Info
    /\ MaxRev \in Nat /\ MaxRev >= 1
    /\ MaxFaults \in Nat
    /\ "boot" \notin Syncer /\ "free" \notin Syncer
    /\ Periodic \in Syncer

VARIABLES
    snap,               \* panel: the user table of each revision
    rev,                \* panel: current revision
    file,               \* disk: user_sync_*.json
    tmp,                \* disk: user_sync_*.json.tmp
    userList,           \* Controller.userList
    userRevision,       \* Controller.userRevision
    userDeltaSupported, \* Controller.userDeltaSupported
    userEtag,           \* Client.userEtag, as the table it stands for
    lock,               \* Controller.userSyncMu
    pc,                 \* where each goroutine is
    reply,              \* a received answer that is not applied yet
    job,                \* the locals deleted, added, updated of a sync
    uidMap,             \* V2Core.users.uidMap, for this node's tag
    proxy,              \* users of the inbound's user manager
    limits,             \* Limiter.UserLimitInfo
    faults,             \* number of faults so far
    diverged            \* history: an apply step failed since the start

panelVars == <<snap, rev>>
diskVars  == <<file, tmp>>
listVars  == <<userList, userRevision, userDeltaSupported, userEtag>>
coreVars  == <<uidMap, proxy, limits>>
vars == <<panelVars, diskVars, listVars, lock, pc, reply, job, coreVars,
          faults, diverged>>

Boot == "boot"
Proc == Syncer \cup {Boot}

-----------------------------------------------------------------------------
(* User tables and the two list operations of the controller.              *)

Table    == [Uuid -> Info \cup {NoUser}]
Empty    == [u \in Uuid |-> NoUser]
Users(t) == {u \in Uuid : t[u] # NoUser}

NoFile == [rev |-> -1, users |-> Empty]
Torn   == [rev |-> -2, users |-> Empty]
Saved  == [rev : 0 .. MaxRev, users : Table]

\* The result of applyUserDelta: deletions first, then upserts, whose records
\* are those of the table new.
ApplyUserDelta(old, new, D, U) ==
    [u \in Uuid |-> IF u \in U THEN new[u]
                    ELSE IF u \in D THEN NoUser ELSE old[u]]

\* The locals of a sync: users to delete, to add and to update, the ones of
\* the running loop that are left, and the one being deleted.
Diff(del, add, upd) ==
    [del |-> del, add |-> add, upd |-> upd, todo |-> {}, cur |-> {}]
NoJob == Diff({}, {}, {})

\* Faulty variant: overlooks a user deleted and upserted by one answer.
DeltaJobNoReAdd(old, D, U) ==
    Diff(D \cap Users(old), U \ Users(old), U \cap Users(old))

\* The differences applyUserDelta reports: a uuid that is deleted and
\* upserted by the same answer is deleted and added.
DeltaJob(old, D, U) ==
    Diff(D \cap Users(old), U \ (Users(old) \ D), U \cap (Users(old) \ D))

\* The differences compareUserList reports.
CompareUserList(old, new) ==
    Diff(Users(old) \ Users(new), Users(new) \ Users(old),
         {u \in Users(old) \cap Users(new) : old[u] # new[u]})

-----------------------------------------------------------------------------
(* The panel.                                                              *)

NoReply == [kind |-> "none", rev |-> 0, del |-> {}, ups |-> {}]
Reply   == [kind : {"none", "full", "delta"}, rev : 0 .. MaxRev,
            del : SUBSET Uuid, ups : SUBSET Uuid]

\* What makes (D, U) a correct difference from revision s to revision r.
\* D may name users that left and came back, U users that did not change.
DeltaContract(s, r, D, U) ==
    /\ U \subseteq Users(snap[r])
    /\ {u \in Users(snap[r]) : snap[s][u] # snap[r][u]} \subseteq U
    /\ Users(snap[s]) \ Users(snap[r]) \subseteq D
    /\ D \cap Users(snap[r]) \subseteq U

PanelChange(u, i) ==
    /\ rev < MaxRev
    /\ snap[rev][u] # i
    /\ snap' = [snap EXCEPT ![rev + 1] = [snap[rev] EXCEPT ![u] = i]]
    /\ rev' = rev + 1
    /\ UNCHANGED <<diskVars, listVars, lock, pc, reply, job, coreVars,
                   faults, diverged>>

-----------------------------------------------------------------------------
(* Asking the panel.                                                       *)

Fault == faults < MaxFaults /\ faults' = faults + 1

Goto(p, where) == pc' = [pc EXCEPT ![p] = where]

\* Return from executeNodeUserSync: the deferred Unlock.
Return(p) == Goto(p, "idle") /\ lock' = "free"

\* The revision an answer is asked from.
Since(p) == CASE pc[p] = "warm" -> file.rev
              [] pc[p] = "cold" -> 0
              [] OTHER -> userRevision

AskingDelta(p) == pc[p] \in {"delta", "warm", "cold"} /\ reply[p] = NoReply

\* Faulty variant: userSyncMu is not taken.
LockWithoutMutex(p) ==
    /\ pc[Boot] = "up" /\ pc[p] = "idle"
    /\ Goto(p, IF userDeltaSupported THEN "delta" ELSE "list")
    /\ UNCHANGED <<panelVars, diskVars, listVars, lock, reply, job, coreVars,
                   faults, diverged>>

Lock(p) ==
    /\ pc[Boot] = "up" /\ pc[p] = "idle" /\ lock = "free"
    /\ lock' = p
    /\ Goto(p, IF userDeltaSupported THEN "delta" ELSE "list")
    /\ UNCHANGED <<panelVars, diskVars, listVars, reply, job, coreVars,
                   faults, diverged>>

GetFull(p) ==
    /\ AskingDelta(p) \/ (pc[p] = "list" /\ reply[p] = NoReply)
    /\ reply' = [reply EXCEPT ![p] = [kind |-> "full", rev |-> rev,
                                      del |-> {}, ups |-> {}]]
    /\ UNCHANGED <<panelVars, diskVars, listVars, lock, pc, job, coreVars,
                   faults, diverged>>

GetDelta(p, D, U) ==
    /\ AskingDelta(p)
    /\ DeltaContract(Since(p), rev, D, U)
    /\ reply' = [reply EXCEPT ![p] = [kind |-> "delta", rev |-> rev,
                                      del |-> D, ups |-> U]]
    /\ UNCHANGED <<panelVars, diskVars, listVars, lock, pc, job, coreVars,
                   faults, diverged>>

\* 403, 404, 405 or 501: never ask for a difference again, fetch the list.
DeltaNotSupported(p) ==
    /\ AskingDelta(p)
    /\ userDeltaSupported' = FALSE
    /\ Goto(p, "list")
    /\ UNCHANGED <<panelVars, diskVars, userList, userRevision, userEtag, lock,
                   reply, job, coreVars, faults, diverged>>

\* 304: the list is the one this client fetched last.
NotModified(p) ==
    /\ p \in Syncer /\ pc[p] = "list" /\ reply[p] = NoReply
    /\ userEtag = snap[rev]
    /\ Return(p)
    /\ UNCHANGED <<panelVars, diskVars, listVars, reply, job, coreVars,
                   faults, diverged>>

\* The request failed (an error is returned) or its context was cancelled
\* (the client answers nil, nothing is applied).
RequestFails(p) ==
    /\ p \in Syncer /\ pc[p] \in {"delta", "list"} /\ reply[p] = NoReply
    /\ Fault
    /\ Return(p)
    /\ UNCHANGED <<panelVars, diskVars, listVars, reply, job, coreVars,
                   diverged>>

-----------------------------------------------------------------------------
(* Applying an answer to the controller's list and saving it.              *)

\* An empty full answer counts as "no change"; the revision moves all the
\* same.
ApplyFull(p) ==
    LET new == snap[reply[p].rev] IN
    /\ pc[p] = "delta" /\ reply[p].kind = "full"
    /\ userRevision' = reply[p].rev
    /\ userList' = IF new = Empty THEN userList ELSE new
    /\ job' = [job EXCEPT ![p] = IF new = Empty THEN NoJob
                                 ELSE CompareUserList(userList, new)]
    /\ reply' = [reply EXCEPT ![p] = NoReply]
    /\ Goto(p, "save")
    /\ UNCHANGED <<panelVars, diskVars, userDeltaSupported, userEtag, lock,
                   coreVars, faults, diverged>>

ApplyDelta(p) ==
    LET r == reply[p] IN
    /\ pc[p] = "delta" /\ r.kind = "delta"
    /\ userRevision' = r.rev
    /\ userList' = ApplyUserDelta(userList, snap[r.rev], r.del, r.ups)
    /\ job' = [job EXCEPT ![p] = DeltaJob(userList, r.del, r.ups)]
    /\ reply' = [reply EXCEPT ![p] = NoReply]
    /\ Goto(p, "save")
    /\ UNCHANGED <<panelVars, diskVars, userDeltaSupported, userEtag, lock,
                   coreVars, faults, diverged>>

\* Faulty variant: takes the new list over without computing differences.
ApplyListNoDiff(p) ==
    /\ p \in Syncer /\ pc[p] = "list" /\ reply[p].kind = "full"
    /\ userEtag' = snap[reply[p].rev] /\ userList' = snap[reply[p].rev]
    /\ reply' = [reply EXCEPT ![p] = NoReply]
    /\ Goto(p, "update")
    /\ UNCHANGED <<panelVars, diskVars, userRevision, userDeltaSupported, lock,
                   job, coreVars, faults, diverged>>

ApplyList(p) ==
    LET new == snap[reply[p].rev] IN
    /\ p \in Syncer /\ pc[p] = "list" /\ reply[p].kind = "full"
    /\ userEtag' = new
    /\ userList' = IF new = Empty THEN userList ELSE new
    /\ job' = [job EXCEPT ![p] = IF new = Empty THEN NoJob
                                 ELSE CompareUserList(userList, new)]
    /\ reply' = [reply EXCEPT ![p] = NoReply]
    /\ Goto(p, "update")
    /\ UNCHANGED <<panelVars, diskVars, userRevision, userDeltaSupported, lock,
                   coreVars, faults, diverged>>

AfterSave(p) == Goto(p, IF p = Boot THEN "activate" ELSE "update")

\* Faulty variant: writes the state file in place.
SaveOpenInPlace(p) ==
    /\ pc[p] = "save"
    /\ file' = Torn
    /\ Goto(p, "write")
    /\ UNCHANGED <<panelVars, tmp, listVars, lock, reply, job, coreVars,
                   faults, diverged>>

\* os.WriteFile truncates the temporary file, then fills it.
SaveOpen(p) ==
    /\ pc[p] = "save"
    /\ tmp' = Torn
    /\ Goto(p, "write")
    /\ UNCHANGED <<panelVars, file, listVars, lock, reply, job, coreVars,
                   faults, diverged>>

SaveWrite(p) ==
    /\ pc[p] = "write"
    /\ tmp' = [rev |-> userRevision, users |-> userList]
    /\ Goto(p, "rename")
    /\ UNCHANGED <<panelVars, file, listVars, lock, reply, job, coreVars,
                   faults, diverged>>

SaveRename(p) ==
    /\ pc[p] = "rename"
    /\ file' = tmp
    /\ tmp' = NoFile
    /\ AfterSave(p)
    /\ UNCHANGED <<panelVars, listVars, lock, reply, job, coreVars,
                   faults, diverged>>

\* An error of saveUserSyncState is ignored.
SaveFails(p) ==
    /\ pc[p] \in {"save", "write", "rename"}
    /\ Fault
    /\ AfterSave(p)
    /\ UNCHANGED <<panelVars, diskVars, listVars, lock, reply, job, coreVars,
                   diverged>>

-----------------------------------------------------------------------------
(* Pushing the differences into the core and the limiter.                  *)

\* The table t with the entries of the uuids in S taken from the user list.
Refresh(t, S) == [u \in Uuid |-> IF u \in S THEN userList[u] ELSE t[u]]
Drop(t, S)    == [u \in Uuid |-> IF u \in S THEN NoUser ELSE t[u]]

ApplyUpdatedUsers(p) ==
    /\ pc[p] = "update"
    /\ limits' = Refresh(limits, job[p].upd)
    /\ uidMap' = Refresh(uidMap, job[p].upd)
    /\ job' = [job EXCEPT ![p] = [@ EXCEPT !.todo = job[p].del]]
    /\ Goto(p, "delete")
    /\ UNCHANGED <<panelVars, diskVars, listVars, lock, reply, proxy,
                   faults, diverged>>

\* Faulty variant: forgets the uid while the proxy still accepts the user.
RemoveUserUIDFirst(p, u) ==
    /\ pc[p] = "delete" /\ u \in job[p].todo
    /\ uidMap' = Drop(uidMap, {u})
    /\ job' = [job EXCEPT ![p] = [@ EXCEPT !.cur = {u}]]
    /\ Goto(p, "forget")
    /\ UNCHANGED <<panelVars, diskVars, listVars, lock, reply, proxy, limits,
                   faults, diverged>>

\* DelUsers, user by user: the user manager first, the uid next.
RemoveUser(p, u) ==
    /\ pc[p] = "delete" /\ u \in job[p].todo
    /\ proxy' = proxy \ {u}
    /\ job' = [job EXCEPT ![p] = [@ EXCEPT !.cur = {u}]]
    /\ Goto(p, "forget")
    /\ UNCHANGED <<panelVars, diskVars, listVars, lock, reply, uidMap, limits,
                   faults, diverged>>

ForgetUser(p) ==
    /\ pc[p] = "forget"
    /\ uidMap' = Drop(uidMap, job[p].cur)
    /\ job' = [job EXCEPT ![p] = [@ EXCEPT !.todo = job[p].todo \ job[p].cur,
                                            !.cur = {}]]
    /\ Goto(p, "delete")
    /\ UNCHANGED <<panelVars, diskVars, listVars, lock, reply, proxy, limits,
                   faults, diverged>>

UsersDeleted(p) ==
    /\ pc[p] = "delete" /\ job[p].todo = {}
    /\ Goto(p, "addIDs")
    /\ UNCHANGED <<panelVars, diskVars, listVars, lock, reply, job, coreVars,
                   faults, diverged>>

\* AddUsersWithContext: the uids of all added users, then user by user.
AddUserIDs(p) ==
    /\ pc[p] = "addIDs"
    /\ uidMap' = Refresh(uidMap, job[p].add)
    /\ job' = [job EXCEPT ![p] = [@ EXCEPT !.todo = job[p].add]]
    /\ Goto(p, "addUsers")
    /\ UNCHANGED <<panelVars, diskVars, listVars, lock, reply, proxy, limits,
                   faults, diverged>>

AddUser(p, u) ==
    /\ pc[p] = "addUsers" /\ u \in job[p].todo
    /\ proxy' = proxy \cup {u}
    /\ job' = [job EXCEPT ![p] = [@ EXCEPT !.todo = job[p].todo \ {u}]]
    /\ UNCHANGED <<panelVars, diskVars, listVars, lock, pc, reply, uidMap,
                   limits, faults, diverged>>

\* Limiter.UpdateUser(added, deleted): the deleted users leave, the added ones
\* enter; then the sync is over.
UpdateLimiter(p) ==
    /\ p \in Syncer /\ pc[p] = "addUsers" /\ job[p].todo = {}
    /\ limits' = Refresh(Drop(limits, job[p].del), job[p].add)
    /\ job' = [job EXCEPT ![p] = NoJob]
    /\ Return(p)
    /\ UNCHANGED <<panelVars, diskVars, listVars, reply, uidMap, proxy,
                   faults, diverged>>

\* DelUsers or AddUsersWithContext returns an error or notices a cancelled
\* context; the rest of the sync is skipped.
ApplyFails(p) ==
    /\ p \in Syncer
    /\ \/ pc[p] \in {"delete", "addUsers"} /\ job[p].todo # {}
       \/ pc[p] = "addIDs" /\ job[p].add # {}
    /\ Fault
    /\ diverged' = TRUE
    /\ job' = [job EXCEPT ![p] = NoJob]
    /\ Return(p)
    /\ UNCHANGED <<panelVars, diskVars, listVars, reply, coreVars>>

-----------------------------------------------------------------------------
(* Start of the process.                                                   *)

\* Everything that lives in memory as a new process finds it.
Fresh ==
    /\ userList' = Empty /\ userRevision' = 0
    /\ userDeltaSupported' = TRUE /\ userEtag' = NoUser
    /\ lock' = "free"
    /\ pc' = [p \in Proc |-> IF p = Boot THEN "load" ELSE "idle"]
    /\ reply' = [p \in Proc |-> NoReply]
    /\ job' = [p \in Proc |-> NoJob]
    /\ uidMap' = Empty /\ proxy' = {} /\ limits' = Empty
    /\ diverged' = FALSE
    /\ UNCHANGED <<panelVars, diskVars>>

Crash == Fault /\ Fresh

\* The warm start needs a readable file with users and a revision.
LoadState ==
    /\ pc[Boot] = "load"
    /\ Goto(Boot, IF file.users # Empty /\ file.rev > 0 THEN "warm" ELSE "cold")
    /\ UNCHANGED <<panelVars, diskVars, listVars, lock, reply, job, coreVars,
                   faults, diverged>>

\* Any other error of the warm request falls back to a cold start.
WarmRequestFails ==
    /\ pc[Boot] = "warm" /\ reply[Boot] = NoReply
    /\ Fault
    /\ Goto(Boot, "cold")
    /\ UNCHANGED <<panelVars, diskVars, listVars, lock, reply, job, coreVars,
                   diverged>>

\* A full answer replaces everything; a difference is applied to the saved
\* users of a warm start, or taken alone on a cold one.
BootApplyDelta ==
    LET r == reply[Boot]
        base == IF pc[Boot] = "warm" THEN file.users ELSE Empty
    IN
    /\ pc[Boot] \in {"warm", "cold"} /\ r # NoReply
    /\ userRevision' = r.rev
    /\ userList' = IF r.kind = "full" THEN snap[r.rev]
                   ELSE ApplyUserDelta(base, snap[r.rev], r.del, r.ups)
    /\ reply' = [reply EXCEPT ![Boot] = NoReply]
    /\ Goto(Boot, "save")
    /\ UNCHANGED <<panelVars, diskVars, userDeltaSupported, userEtag, lock,
                   job, coreVars, faults, diverged>>

BootApplyList ==
    /\ pc[Boot] = "list" /\ reply[Boot] # NoReply
    /\ userList' = snap[reply[Boot].rev] /\ userEtag' = snap[reply[Boot].rev]
    /\ reply' = [reply EXCEPT ![Boot] = NoReply]
    /\ Goto(Boot, "activate")
    /\ UNCHANGED <<panelVars, diskVars, userRevision, userDeltaSupported, lock,
                   job, coreVars, faults, diverged>>

\* activatePreparedStart: AddLimiter, AddNode, then AddUsers.
Activate ==
    /\ pc[Boot] = "activate" /\ userList # Empty
    /\ limits' = userList
    /\ job' = [job EXCEPT ![Boot] = Diff({}, Users(userList), {})]
    /\ Goto(Boot, "addIDs")
    /\ UNCHANGED <<panelVars, diskVars, listVars, lock, reply, uidMap, proxy,
                   faults, diverged>>

\* startTasks and startRealtime: the syncers may run.
Started ==
    /\ pc[Boot] = "addUsers" /\ job[Boot].todo = {}
    /\ Goto(Boot, "up")
    /\ job' = [job EXCEPT ![Boot] = NoJob]
    /\ UNCHANGED <<panelVars, diskVars, listVars, lock, reply, coreVars,
                   faults, diverged>>

\* prepareStart refuses to start without users; the start is tried again.
StartWithoutUsers ==
    /\ pc[Boot] = "activate" /\ userList = Empty
    /\ Fresh
    /\ UNCHANGED faults

\* Any other error of the start ends it.
StartFails ==
    /\ \/ pc[Boot] \in {"cold", "list"} /\ reply[Boot] = NoReply
       \/ pc[Boot] \in {"activate", "addIDs", "addUsers"}
    /\ Fault
    /\ Fresh

-----------------------------------------------------------------------------

\* The first start on the machine, or one that finds the file an earlier process
\* saved.
Init ==
    /\ rev = 1
    /\ \E t \in Table \ {Empty} :
          /\ snap = [r \in 0 .. MaxRev |-> IF r = 1 THEN t ELSE Empty]
          /\ file \in {NoFile, [rev |-> 1, users |-> t]}
    /\ tmp = NoFile
    /\ userList = Empty /\ userRevision = 0
    /\ userDeltaSupported = TRUE /\ userEtag = NoUser
    /\ lock = "free"
    /\ pc = [p \in Proc |-> IF p = Boot THEN "load" ELSE "idle"]
    /\ reply = [p \in Proc |-> NoReply]
    /\ job = [p \in Proc |-> NoJob]
    /\ uidMap = Empty /\ proxy = {} /\ limits = Empty
    /\ faults = 0
    /\ diverged = FALSE

\* Steps both the boot and the syncers take.
Ask(p) ==
    \/ GetFull(p)
    \/ \E D, U \in SUBSET Uuid : GetDelta(p, D, U)
    \/ DeltaNotSupported(p)

Save(p) == SaveOpen(p) \/ SaveWrite(p) \/ SaveRename(p)

AddUsers(p) == AddUserIDs(p) \/ \E u \in Uuid : AddUser(p, u)

\* The body of executeNodeUserSync after it has the lock.
SyncStep(p) ==
    \/ Ask(p) \/ NotModified(p)
    \/ ApplyFull(p) \/ ApplyDelta(p) \/ ApplyList(p)
    \/ Save(p)
    \/ ApplyUpdatedUsers(p)
    \/ \E u \in Uuid : RemoveUser(p, u)
    \/ ForgetUser(p) \/ UsersDeleted(p)
    \/ AddUsers(p) \/ UpdateLimiter(p)

BootStep ==
    \/ LoadState \/ Ask(Boot) \/ BootApplyDelta \/ BootApplyList \/ Save(Boot)
    \/ Activate \/ AddUsers(Boot) \/ Started \/ StartWithoutUsers

FaultStep ==
    \/ Crash \/ WarmRequestFails \/ StartFails \/ SaveFails(Boot)
    \/ \E p \in Syncer : RequestFails(p) \/ SaveFails(p) \/ ApplyFails(p)

Next ==
    \/ \E u \in Uuid, i \in Info \cup {NoUser} : PanelChange(u, i)
    \/ \E p \in Syncer : Lock(p) \/ SyncStep(p)
    \/ BootStep
    \/ FaultStep

Spec == Init /\ [][Next]_vars

\* The start runs to its end, a sync that has the lock runs to its end, and
\* the periodic task calls executeNodeUserSync again and again.
Fairness ==
    /\ WF_vars(BootStep)
    /\ \A p \in Syncer : WF_vars(SyncStep(p))
    /\ WF_vars(Lock(Periodic))

FairSpec == Spec /\ Fairness

-----------------------------------------------------------------------------
(* Properties.                                                             *)

Location == {"idle", "load", "warm", "cold", "delta", "list", "save", "write",
             "rename", "activate", "update", "delete", "forget", "addIDs",
             "addUsers", "up"}
Job == [del : SUBSET Uuid, add : SUBSET Uuid, upd : SUBSET Uuid,
        todo : SUBSET Uuid, cur : SUBSET Uuid]

\* Every variable has the shape the code gives it.
TypeOK ==
    /\ rev \in 1 .. MaxRev /\ snap \in [0 .. MaxRev -> Table]
    /\ file \in Saved \cup {NoFile, Torn} /\ tmp \in Saved \cup {NoFile, Torn}
    /\ userList \in Table /\ userRevision \in 0 .. MaxRev
    /\ userDeltaSupported \in BOOLEAN /\ userEtag \in Table \cup {NoUser}
    /\ lock \in Syncer \cup {"free"}
    /\ pc \in [Proc -> Location]
    /\ reply \in [Proc -> Reply] /\ job \in [Proc -> Job]
    /\ uidMap \in Table /\ proxy \in SUBSET Uuid /\ limits \in Table
    /\ faults \in 0 .. MaxFaults /\ diverged \in BOOLEAN

\* The table t has every user that revision r of the panel has, with the same
\* record.
Covers(t, r) == \A u \in Users(snap[r]) : t[u] = snap[r][u]

\* No user is missing: the controller's list, while it is kept by differences,
\* has every user of the panel at the controller's revision, and so has the
\* state file, which is never half written, at its own revision.  Two syncers,
\* crashes in the middle of a save and answers that arrive late make this hard.
NoUserMissing ==
    /\ userDeltaSupported => Covers(userList, userRevision)
    /\ file # Torn
    /\ file # NoFile => Covers(file.users, file.rev)

\* The panel has not taken the last user off the node so far.
NeverEmptied == \A r \in 1 .. rev : snap[r] # Empty

\* Until the panel empties the node, the controller's list and the state file
\* are exactly the panel's tables at their revisions: no deleted user stays
\* behind, which every later difference relies on.
ExactSnapshot ==
    NeverEmptied =>
        /\ userDeltaSupported => userList = snap[userRevision]
        /\ file # NoFile => file.users = snap[file.rev]

\* A user the proxy accepts has a uid, whatever fails and at every step, so
\* that its traffic is never dropped as that of uid 0 (GetUserTrafficSlice).
ProxyUserHasUID == proxy \subseteq Users(uidMap)

\* Between two syncs the core and the limiter hold exactly the controller's
\* list, unless an apply step failed since the process started.
AppliedBetweenSyncs ==
    (pc[Boot] = "up" /\ lock = "free" /\ ~diverged) =>
        uidMap = userList /\ limits = userList /\ proxy = Users(userList)

\* The saved revision never goes back, across crashes and restarts: a late
\* answer is never saved over a newer one.
SavedRevisionGrows == [][file'.rev >= file.rev]_vars

\* The node serves exactly the panel's current users.
Current ==
    /\ pc[Boot] = "up" /\ lock = "free"
    /\ uidMap = snap[rev] /\ limits = snap[rev] /\ proxy = Users(snap[rev])

\* Every change of the panel reaches the core and the limiter, unless the panel
\* empties the node or an apply step fails: lost answers, failed saves, crashes
\* and the fall back to the full list only delay it.
Converges == []<>(Current \/ diverged \/ ~NeverEmptied)

\* "warm start from local cache (revision + user list), then catch up via
\* delta": the list a start hands to the core is the panel's table at the
\* revision it starts from.
StartCatchesUp ==
    (pc[Boot] \in {"save", "write", "rename", "activate"} /\ userDeltaSupported)
        => userList = snap[userRevision]

=============================================================================
