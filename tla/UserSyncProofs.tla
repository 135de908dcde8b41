--------------------------- MODULE UserSyncProofs ---------------------------
(***************************************************************************)
(* Machine-checked proofs about UserSync, for any number of users, syncers,*)
(* revisions and faults.                                                   *)
(***************************************************************************)
EXTENDS UserSync, TLAPS

-----------------------------------------------------------------------------
(* The inductive invariant, in layers.                                     *)

SyncLocation == {"idle", "delta", "list", "save", "write", "rename", "update",
                 "delete", "forget", "addIDs", "addUsers"}
BootLocation == {"load", "warm", "cold", "list", "save", "write", "rename",
                 "activate", "addIDs", "addUsers", "up"}
\* Where differences are known to be supported; the list is only fetched
\* when they are not.
DeltaLocation == {"load", "warm", "cold", "delta", "save", "write", "rename"}

\* Who runs: a syncer is inside executeNodeUserSync exactly while it has the
\* lock, and nobody has the lock while the process starts.
ControlInv ==
    /\ \A p \in Syncer : pc[p] \in SyncLocation /\ (pc[p] # "idle" <=> lock = p)
    /\ pc[Boot] \in BootLocation
    /\ pc[Boot] # "up" => lock = "free"
    /\ \A p \in Proc : /\ pc[p] \in DeltaLocation => userDeltaSupported
                       /\ pc[p] = "list" => ~userDeltaSupported

\* The table t is what revision r of the panel says: complete, and exact until
\* the panel empties the node.
Matches(t, r) ==
    Covers(t, r) /\ (NeverEmptied => t = snap[r])

\* Nothing is known of the panel at revision 0.
PanelInv == snap[0] = Empty

\* A pending answer was asked by whoever runs, is a correct difference from the
\* revision it was asked from, and the warm start has something to start from.
ReplyInv ==
    /\ \A p \in Proc :
         reply[p] # NoReply =>
           /\ pc[p] \in {"delta", "warm", "cold", "list"}
           /\ reply[p].kind # "none"
           /\ reply[p].rev \in 1 .. rev
           /\ reply[p].kind = "delta" =>
                /\ pc[p] # "list"
                /\ DeltaContract(Since(p), reply[p].rev,
                                 reply[p].del, reply[p].ups)
    /\ pc[Boot] = "warm" => file.rev > 0

\* The controller's list is what the panel said at the controller's revision.
ListInv ==
    /\ userRevision <= rev
    /\ userDeltaSupported => Matches(userList, userRevision)

\* The state file and, once it is written, the temporary file hold a pair the
\* panel could have answered.
GoodState(f) == f \in Saved /\ f.rev <= rev /\ Matches(f.users, f.rev)
FileInv ==
    /\ file = NoFile \/ GoodState(file)
    /\ \A p \in Proc : pc[p] = "rename" => GoodState(tmp)

SnapshotInv == PanelInv /\ ReplyInv /\ ListInv /\ FileInv

\* What is known of the locals of the sync or start p.
JobOf(p) ==
    LET j == job[p] IN
    /\ pc[p] \in {"idle", "delta", "list", "load", "warm", "cold", "activate", "up"}
           => j = NoJob
    /\ p = Boot /\ pc[p] \in {"save", "write", "rename"} => j = NoJob
    /\ j.add \subseteq Users(userList) /\ j.upd \subseteq Users(userList)
    /\ pc[p] = "forget" => j.cur \cap proxy = {}
    /\ pc[p] = "addUsers" => j.todo \subseteq Users(uidMap)

\* Users are added with a uid and lose it only after the proxy let them go.
JobInv ==
    /\ \A p \in Proc : JobOf(p)
    /\ proxy \subseteq Users(uidMap)

-----------------------------------------------------------------------------
(* Type correctness.                                                       *)

\* The list operations of the controller yield tables and differences.
LEMMA JobType ==
    /\ NoJob \in Job /\ NoReply \in Reply /\ Empty \in Table
    /\ \A old, new \in Table, D, U \in SUBSET Uuid :
          /\ ApplyUserDelta(old, new, D, U) \in Table
          /\ DeltaJob(old, D, U) \in Job
          /\ CompareUserList(old, new) \in Job
  BY ConstantsAssumption
     DEF Diff, NoJob, Job, NoReply, Reply, Empty, Table, ApplyUserDelta, DeltaJob,
         CompareUserList, Users

\* The process starts well typed.
LEMMA TypeInit == Init => TypeOK
<1> SUFFICES ASSUME Init PROVE TypeOK
  OBVIOUS
<1>1. snap \in [0 .. MaxRev -> Table] /\ rev \in 1 .. MaxRev
  BY ConstantsAssumption, JobType DEF Init
<1>2. pc \in [Proc -> Location]
  BY DEF Init, Location, Boot
<1>3. reply \in [Proc -> Reply] /\ job \in [Proc -> Job]
  BY JobType DEF Init
<1>4. userDeltaSupported \in BOOLEAN /\ diverged \in BOOLEAN
  BY Zenon DEF Init
<1>5. file \in Saved \cup {NoFile, Torn}
  <2>1. PICK t \in Table : file \in {NoFile, [rev |-> 1, users |-> t]}
    BY DEF Init
  <2>2. [rev |-> 1, users |-> t] \in Saved
    BY ConstantsAssumption DEF Saved
  <2> QED BY <2>1, <2>2
<1>6. /\ tmp \in Saved \cup {NoFile, Torn}
      /\ userList \in Table /\ userRevision \in 0 .. MaxRev
      /\ userEtag \in Table \cup {NoUser}
      /\ lock \in Syncer \cup {"free"}
      /\ uidMap \in Table /\ proxy \in SUBSET Uuid /\ limits \in Table
      /\ faults \in 0 .. MaxFaults
  BY JobType, ConstantsAssumption DEF Init
<1> QED
  BY <1>1, <1>2, <1>3, <1>4, <1>5, <1>6, Zenon DEF TypeOK

\* Type correctness is preserved by every step.
LEMMA TypeNext == TypeOK /\ [Next]_vars => TypeOK'
<1> SUFFICES ASSUME TypeOK, [Next]_vars PROVE TypeOK'
  OBVIOUS
<1> USE ConstantsAssumption, JobType
<1>panel. ASSUME NEW u \in Uuid, NEW i \in Info \cup {NoUser}, PanelChange(u, i)
          PROVE  TypeOK'
  BY <1>panel DEF TypeOK, PanelChange, Table, diskVars, listVars, coreVars
<1>lock. ASSUME NEW p \in Syncer, Lock(p) PROVE TypeOK'
  BY <1>lock DEF TypeOK, Lock, Goto, Location, Proc, panelVars, diskVars,
                 listVars, coreVars
<1>ask. ASSUME NEW p \in Proc, Ask(p) PROVE TypeOK'
  <2>1. CASE GetFull(p)
    BY <2>1 DEF TypeOK, GetFull, Reply, NoReply, panelVars, diskVars, listVars,
                coreVars
  <2>2. ASSUME NEW D \in SUBSET Uuid, NEW U \in SUBSET Uuid, GetDelta(p, D, U)
        PROVE  TypeOK'
    BY <2>2 DEF TypeOK, GetDelta, Reply, panelVars, diskVars, listVars, coreVars
  <2>3. CASE DeltaNotSupported(p)
    BY <2>3 DEF TypeOK, DeltaNotSupported, Goto, Location, panelVars, diskVars,
                coreVars
  <2> QED BY <1>ask, <2>1, <2>2, <2>3 DEF Ask
<1>save. ASSUME NEW p \in Proc, Save(p) \/ SaveFails(p) PROVE TypeOK'
  BY <1>save DEF TypeOK, Save, SaveOpen, SaveWrite, SaveRename, SaveFails, Fault,
                 AfterSave, Goto, Location, Saved, panelVars, diskVars,
                 listVars, coreVars
<1>apply. ASSUME NEW p \in Syncer, ApplyFull(p) \/ ApplyDelta(p) \/ ApplyList(p)
          PROVE  TypeOK'
  <2> p \in Proc /\ reply[p] \in Reply
    BY DEF TypeOK, Proc
  <2> snap[reply[p].rev] \in Table /\ reply[p].rev \in 0 .. MaxRev
    BY DEF TypeOK, Reply
  <2>1. CASE ApplyFull(p)
    BY <2>1 DEF TypeOK, ApplyFull, Goto, Location, panelVars, diskVars, coreVars
  <2>2. CASE ApplyDelta(p)
    <3> reply[p].del \in SUBSET Uuid /\ reply[p].ups \in SUBSET Uuid
      BY DEF Reply
    <3> QED BY <2>2 DEF TypeOK, ApplyDelta, Goto, Location, panelVars, diskVars,
                        coreVars
  <2>3. CASE ApplyList(p)
    BY <2>3 DEF TypeOK, ApplyList, Goto, Location, panelVars, diskVars, coreVars
  <2> QED BY <1>apply, <2>1, <2>2, <2>3
<1>tables. \A S \in SUBSET Uuid, t \in Table :
              Refresh(t, S) \in Table /\ Drop(t, S) \in Table
  BY DEF TypeOK, Refresh, Drop, Table
<1>push. ASSUME NEW p \in Proc,
                \/ ApplyUpdatedUsers(p) \/ ForgetUser(p) \/ UsersDeleted(p)
                \/ \E u \in Uuid : RemoveUser(p, u)
                \/ AddUsers(p) \/ UpdateLimiter(p)
         PROVE  TypeOK'
  <2> job[p] \in Job
    BY DEF TypeOK
  <2>1. CASE ApplyUpdatedUsers(p)
    BY <2>1, <1>tables DEF TypeOK, ApplyUpdatedUsers, Goto, Location, Job,
                panelVars, diskVars, listVars
  <2>2. CASE ForgetUser(p)
    BY <2>2, <1>tables DEF TypeOK, ForgetUser, Goto, Location, Job, panelVars,
                diskVars, listVars
  <2>3. CASE UsersDeleted(p)
    BY <2>3 DEF TypeOK, UsersDeleted, Goto, Location, panelVars, diskVars,
                listVars, coreVars
  <2>4. ASSUME NEW u \in Uuid, RemoveUser(p, u) PROVE TypeOK'
    BY <2>4 DEF TypeOK, RemoveUser, Goto, Location, Job, panelVars, diskVars,
                listVars
  <2>5. CASE AddUserIDs(p)
    BY <2>5, <1>tables DEF TypeOK, AddUserIDs, Goto, Location, Job, panelVars,
                diskVars, listVars
  <2>6. ASSUME NEW u \in Uuid, AddUser(p, u) PROVE TypeOK'
    BY <2>6 DEF TypeOK, AddUser, Job, panelVars, diskVars, listVars
  <2>7. CASE UpdateLimiter(p)
    BY <2>7, <1>tables DEF TypeOK, UpdateLimiter, Return, Goto, Location, Job,
                panelVars, diskVars, listVars
  <2> QED BY <1>push, <2>1, <2>2, <2>3, <2>4, <2>5, <2>6, <2>7 DEF AddUsers
<1>back. ASSUME NEW p \in Syncer,
                NotModified(p) \/ RequestFails(p) \/ ApplyFails(p)
         PROVE  TypeOK'
  <2>1. diverged' \in BOOLEAN
    BY <1>back, Zenon DEF TypeOK, NotModified, RequestFails, ApplyFails
  <2>2. CASE NotModified(p) \/ RequestFails(p)
    BY <2>2 DEF TypeOK, NotModified, RequestFails, Return, Goto, Fault, Proc,
                Location, panelVars, diskVars, listVars, coreVars
  <2>3. CASE ApplyFails(p)
    <3>1. /\ UNCHANGED <<panelVars, diskVars, listVars, reply, coreVars>>
          /\ Return(p) /\ Fault /\ job' = [job EXCEPT ![p] = NoJob]
      BY <2>3 DEF ApplyFails
    <3> QED BY <2>1, <3>1 DEF TypeOK, Return, Goto, Fault, Proc, Location,
                panelVars, diskVars, listVars, coreVars
  <2> QED BY <1>back, <2>2, <2>3
<1>fresh. ASSUME Fresh, faults' \in 0 .. MaxFaults PROVE TypeOK'
  <2>1. pc' \in [Proc -> Location]
    BY <1>fresh DEF Fresh, Location, Boot
  <2>2. reply' \in [Proc -> Reply] /\ job' \in [Proc -> Job]
    BY <1>fresh DEF Fresh
  <2>3. userDeltaSupported' \in BOOLEAN /\ diverged' \in BOOLEAN
    BY <1>fresh, Zenon DEF Fresh
  <2>4. /\ snap' = snap /\ rev' = rev /\ file' = file /\ tmp' = tmp
        /\ userList' \in Table /\ userRevision' \in 0 .. MaxRev
        /\ userEtag' \in Table \cup {NoUser}
        /\ lock' \in Syncer \cup {"free"}
        /\ uidMap' \in Table /\ proxy' \in SUBSET Uuid /\ limits' \in Table
    BY <1>fresh DEF Fresh, panelVars, diskVars
  <2> QED BY <1>fresh, <2>1, <2>2, <2>3, <2>4 DEF TypeOK
<1>restart. ASSUME Crash \/ StartWithoutUsers \/ StartFails PROVE TypeOK'
  BY <1>restart, <1>fresh DEF TypeOK, Crash, StartWithoutUsers, StartFails, Fault
<1>boot. ASSUME LoadState \/ WarmRequestFails \/ BootApplyDelta \/ BootApplyList
                \/ Activate \/ Started
         PROVE  TypeOK'
  <2> Boot \in Proc /\ reply[Boot] \in Reply
    BY DEF TypeOK, Proc
  <2> snap[reply[Boot].rev] \in Table /\ reply[Boot].rev \in 0 .. MaxRev
    BY DEF TypeOK, Reply
  <2>1. CASE LoadState \/ WarmRequestFails
    BY <2>1 DEF TypeOK, LoadState, WarmRequestFails, Goto, Fault, Location,
                panelVars, diskVars, listVars, coreVars
  <2>2. CASE BootApplyDelta
    <3>1. file.users \in Table
      BY DEF TypeOK, Saved, NoFile, Torn
    <3>2. reply[Boot].del \in SUBSET Uuid /\ reply[Boot].ups \in SUBSET Uuid
      BY DEF Reply
    <3>3. userList' \in Table
      BY <2>2, <3>1, <3>2 DEF BootApplyDelta
    <3> QED BY <2>2, <3>3 DEF TypeOK, BootApplyDelta, Goto, Location, panelVars,
                    diskVars, coreVars
  <2>3. CASE BootApplyList
    BY <2>3 DEF TypeOK, BootApplyList, Goto, Location, panelVars, diskVars,
                coreVars
  <2>4. CASE Activate \/ Started
    <3>1. Diff({}, Users(userList), {}) \in Job
      BY DEF Diff, Job, Users
    <3> QED BY <2>4, <3>1 DEF TypeOK, Activate, Started, Goto, Location,
                    panelVars, diskVars, listVars, coreVars
  <2> QED BY <1>boot, <2>1, <2>2, <2>3, <2>4
<1>same. CASE UNCHANGED vars
  BY <1>same DEF TypeOK, vars, panelVars, diskVars, listVars, coreVars
<1> QED
  <2>1. ASSUME NEW p \in Syncer, SyncStep(p) PROVE TypeOK'
    BY <2>1, <1>ask, <1>save, <1>apply, <1>push, <1>back DEF SyncStep, Proc
  <2>2. CASE BootStep
    BY <2>2, <1>ask, <1>save, <1>push, <1>restart, <1>boot DEF BootStep, Proc
  <2>3. CASE FaultStep
    BY <2>3, <1>save, <1>back, <1>restart, <1>boot DEF FaultStep, Proc
  <2> QED BY <2>1, <2>2, <2>3, <1>panel, <1>lock, <1>same DEF Next

\* Every reachable state is well typed.
THEOREM TypeCorrect == Spec => []TypeOK
  BY TypeInit, TypeNext, PTL DEF Spec

-----------------------------------------------------------------------------
(* Who runs.                                                               *)

\* No syncer runs when the process starts.
LEMMA ControlInit == Init => ControlInv
  BY ConstantsAssumption
     DEF Init, ControlInv, Proc, Boot, SyncLocation, BootLocation, DeltaLocation

\* The steps of a running sync or start that move its pc and keep the lock.
LEMMA ControlMove ==
    ASSUME TypeOK, ControlInv, NEW p \in Proc, NEW where,
           Goto(p, where), lock' = lock,
           userDeltaSupported' = userDeltaSupported,
           p = Boot => pc[p] # "up" /\ where \in BootLocation,
           p # Boot => /\ pc[p] # "idle" /\ where \in SyncLocation \ {"idle"},
           where \in DeltaLocation => userDeltaSupported, where # "list"
    PROVE  ControlInv'
  BY ConstantsAssumption
     DEF TypeOK, ControlInv, Goto, Proc, Boot, SyncLocation, BootLocation, DeltaLocation

\* The end of a sync.
LEMMA ControlReturn ==
    ASSUME TypeOK, ControlInv, NEW p \in Syncer, pc[p] # "idle", Return(p),
           userDeltaSupported' = userDeltaSupported
    PROVE  ControlInv'
  BY ConstantsAssumption
     DEF TypeOK, ControlInv, Return, Goto, Proc, Boot, SyncLocation, BootLocation, DeltaLocation

\* The lock discipline is preserved by every step.
LEMMA ControlNext == TypeOK /\ ControlInv /\ [Next]_vars => ControlInv'
<1> SUFFICES ASSUME TypeOK, ControlInv, [Next]_vars PROVE ControlInv'
  OBVIOUS
<1> USE ConstantsAssumption
<1>ids. Boot \in Proc /\ Boot \notin Syncer /\ Syncer \subseteq Proc
  BY DEF Proc, Boot
<1>keep. ASSUME UNCHANGED <<pc, lock, userDeltaSupported>> PROVE ControlInv'
  BY <1>keep DEF ControlInv
<1>lock. ASSUME NEW p \in Syncer, Lock(p) PROVE ControlInv'
  <2>1. userDeltaSupported' = userDeltaSupported
    BY <1>lock DEF Lock, listVars
  <2> QED
    BY <1>lock, <2>1 DEF TypeOK, ControlInv, Lock, Goto, Proc, Boot,
                         SyncLocation, BootLocation, DeltaLocation
<1>ask. ASSUME NEW p \in Proc, Ask(p) PROVE ControlInv'
  <2>1. CASE GetFull(p)
    BY <2>1, <1>keep DEF GetFull, listVars
  <2>2. ASSUME NEW D \in SUBSET Uuid, NEW U \in SUBSET Uuid, GetDelta(p, D, U)
        PROVE  ControlInv'
    BY <2>2, <1>keep DEF GetDelta, listVars
  <2>3. CASE DeltaNotSupported(p)
    BY <2>3 DEF TypeOK, ControlInv, DeltaNotSupported, AskingDelta, Goto, Proc,
                Boot, SyncLocation, BootLocation, DeltaLocation
  <2> QED BY <1>ask, <2>1, <2>2, <2>3 DEF Ask
<1>save. ASSUME NEW p \in Proc, Save(p) \/ SaveFails(p) PROVE ControlInv'
  BY <1>save, <1>ids, ControlMove
     DEF ControlInv, Save, SaveOpen, SaveWrite, SaveRename, SaveFails, AfterSave,
         listVars, SyncLocation, BootLocation, DeltaLocation
<1>apply. ASSUME NEW p \in Syncer, ApplyFull(p) \/ ApplyDelta(p) \/ ApplyList(p)
          PROVE  ControlInv'
  BY <1>apply, <1>ids, ControlMove
     DEF ControlInv, ApplyFull, ApplyDelta, ApplyList, SyncLocation, DeltaLocation
<1>push. ASSUME NEW p \in Proc,
                \/ ApplyUpdatedUsers(p) \/ ForgetUser(p) \/ UsersDeleted(p)
                \/ \E u \in Uuid : RemoveUser(p, u)
                \/ AddUsers(p)
         PROVE  ControlInv'
  <2>1. ASSUME NEW u \in Uuid, AddUser(p, u) PROVE ControlInv'
    BY <2>1, <1>keep DEF AddUser, listVars
  <2>2. CASE AddUserIDs(p)
    BY <2>2, <1>ids, ControlMove
       DEF ControlInv, AddUserIDs, listVars, SyncLocation, BootLocation, DeltaLocation
  <2>3. CASE \/ ApplyUpdatedUsers(p) \/ ForgetUser(p) \/ UsersDeleted(p)
             \/ \E u \in Uuid : RemoveUser(p, u)
    <3>1. p # Boot
      BY <2>3 DEF ControlInv, BootLocation, ApplyUpdatedUsers, ForgetUser,
                  UsersDeleted, RemoveUser
    <3> QED BY <2>3, <3>1, ControlMove
               DEF ApplyUpdatedUsers, ForgetUser, UsersDeleted, RemoveUser,
                   listVars, SyncLocation, DeltaLocation
  <2> QED BY <1>push, <2>1, <2>2, <2>3 DEF AddUsers
<1>back. ASSUME NEW p \in Syncer,
                \/ NotModified(p) \/ RequestFails(p) \/ ApplyFails(p)
                \/ UpdateLimiter(p)
         PROVE  ControlInv'
  BY <1>back, ControlReturn
     DEF NotModified, RequestFails, ApplyFails, UpdateLimiter, listVars
<1>restart. ASSUME Crash \/ StartWithoutUsers \/ StartFails PROVE ControlInv'
  <2>1. Fresh
    BY <1>restart DEF Crash, StartWithoutUsers, StartFails
  <2>2. /\ lock' = "free" /\ userDeltaSupported'
        /\ pc' = [p \in Proc |-> IF p = Boot THEN "load" ELSE "idle"]
    BY <2>1 DEF Fresh
  <2> QED BY <2>2 DEF ControlInv, Proc, Boot, SyncLocation, BootLocation, DeltaLocation
<1>boot. ASSUME LoadState \/ WarmRequestFails \/ BootApplyDelta \/ BootApplyList
                \/ Activate \/ Started
         PROVE  ControlInv'
  <2>1. CASE BootApplyDelta \/ BootApplyList \/ Activate \/ Started
    BY <2>1, <1>ids, ControlMove
       DEF ControlInv, BootApplyDelta, BootApplyList, Activate, Started, listVars,
           BootLocation, DeltaLocation
  <2>2. CASE WarmRequestFails
    BY <2>2, <1>ids, ControlMove
       DEF ControlInv, WarmRequestFails, listVars, BootLocation, DeltaLocation
  <2>3. CASE LoadState
    BY <2>3, <1>ids, ControlMove DEF ControlInv, LoadState, listVars, BootLocation, DeltaLocation
  <2> QED BY <1>boot, <2>1, <2>2, <2>3
<1>panel. ASSUME NEW u \in Uuid, NEW i \in Info \cup {NoUser}, PanelChange(u, i)
          PROVE  ControlInv'
  BY <1>panel, <1>keep DEF PanelChange, listVars
<1>same. CASE UNCHANGED vars
  BY <1>same, <1>keep DEF vars, listVars
<1> QED
  <2>1. ASSUME NEW p \in Syncer, SyncStep(p) PROVE ControlInv'
    BY <2>1, <1>ids, <1>ask, <1>save, <1>apply, <1>push, <1>back DEF SyncStep
  <2>2. CASE BootStep
    BY <2>2, <1>ids, <1>ask, <1>save, <1>push, <1>restart, <1>boot DEF BootStep
  <2>3. CASE FaultStep
    BY <2>3, <1>ids, <1>save, <1>back, <1>restart, <1>boot DEF FaultStep
  <2> QED BY <2>1, <2>2, <2>3, <1>panel, <1>lock, <1>same DEF Next

-----------------------------------------------------------------------------
(* The controller's list and the state file are snapshots of the panel.    *)

\* A correct difference takes a table of revision s to the table of revision r:
\* what applyUserDelta relies on.
LEMMA DeltaCorrect ==
    ASSUME TypeOK, NEW s \in 0 .. MaxRev, NEW r \in 0 .. MaxRev,
           NEW D \in SUBSET Uuid, NEW U \in SUBSET Uuid, NEW old \in Table,
           DeltaContract(s, r, D, U), Matches(old, s)
    PROVE  Matches(ApplyUserDelta(old, snap[r], D, U), r)
<1> DEFINE new == ApplyUserDelta(old, snap[r], D, U)
<1>1. snap[s] \in Table /\ snap[r] \in Table
  BY DEF TypeOK
<1>2. Covers(new, r)
  BY <1>1 DEF Covers, Matches, DeltaContract, ApplyUserDelta, Users, Table
<1>3. ASSUME NeverEmptied PROVE new = snap[r]
  <2>1. old = snap[s]
    BY <1>3 DEF Matches
  <2>2. \A u \in Uuid : new[u] = snap[r][u]
    BY <1>1, <2>1 DEF DeltaContract, ApplyUserDelta, Users, Table
  <2>3. new = [u \in Uuid |-> new[u]] /\ snap[r] = [u \in Uuid |-> snap[r][u]]
    BY <1>1 DEF ApplyUserDelta, Table
  <2> QED BY <2>2, <2>3
<1> QED BY <1>2, <1>3 DEF Matches

\* At most one of the start and the syncers is running.
Running(p) == pc[p] # (IF p = Boot THEN "up" ELSE "idle")

\* userSyncMu and the order of the start keep two goroutines from running at once.
LEMMA Alone ==
    ASSUME ControlInv, NEW p \in Proc, NEW q \in Proc, Running(p), Running(q)
    PROVE  p = q
  BY ConstantsAssumption DEF ControlInv, Running, Proc, Boot

\* What each variable is changed by.
LEMMA Frames ==
    ASSUME [Next]_vars
    PROVE  /\ \/ UNCHANGED panelVars
              \/ \E u \in Uuid, i \in Info \cup {NoUser} : PanelChange(u, i)
           /\ \/ UNCHANGED file
              \/ \E p \in Proc : SaveRename(p)
           /\ \/ UNCHANGED listVars
              \/ Fresh
              \/ \E p \in Proc : DeltaNotSupported(p)
              \/ \E p \in Syncer : ApplyFull(p) \/ ApplyDelta(p) \/ ApplyList(p)
              \/ BootApplyDelta \/ BootApplyList
<1> USE DEF panelVars, diskVars, listVars
<1>ids. Boot \in Proc /\ Syncer \subseteq Proc
  BY DEF Proc
<1> DEFINE Kept ==
       /\ UNCHANGED panelVars /\ UNCHANGED file /\ UNCHANGED listVars
<1>ask. ASSUME NEW p \in Proc, Ask(p) PROVE Kept \/ DeltaNotSupported(p)
  BY <1>ask DEF Ask, GetFull, GetDelta
<1>save. ASSUME NEW p \in Proc, Save(p) \/ SaveFails(p)
         PROVE  /\ UNCHANGED panelVars /\ UNCHANGED listVars
                /\ UNCHANGED file \/ SaveRename(p)
  BY <1>save DEF Save, SaveOpen, SaveWrite, SaveRename, SaveFails
<1>push. ASSUME NEW p \in Proc,
                \/ NotModified(p) \/ ApplyUpdatedUsers(p)
                \/ \E u \in Uuid : RemoveUser(p, u)
                \/ ForgetUser(p) \/ UsersDeleted(p) \/ AddUsers(p)
                \/ UpdateLimiter(p) \/ RequestFails(p) \/ ApplyFails(p)
         PROVE  Kept
  BY <1>push DEF NotModified, ApplyUpdatedUsers, RemoveUser, ForgetUser,
                 UsersDeleted, AddUsers, AddUserIDs, AddUser, UpdateLimiter,
                 RequestFails, ApplyFails
<1>boot. ASSUME LoadState \/ Activate \/ Started \/ WarmRequestFails PROVE Kept
  BY <1>boot DEF LoadState, Activate, Started, WarmRequestFails
<1>1. ASSUME NEW u \in Uuid, NEW i \in Info \cup {NoUser}, PanelChange(u, i)
      PROVE  UNCHANGED file /\ UNCHANGED listVars
  BY <1>1 DEF PanelChange
<1>2. ASSUME NEW p \in Syncer, ApplyFull(p) \/ ApplyDelta(p) \/ ApplyList(p)
      PROVE  UNCHANGED file /\ UNCHANGED panelVars
  BY <1>2 DEF ApplyFull, ApplyDelta, ApplyList
<1>3. ASSUME BootApplyDelta \/ BootApplyList \/ Fresh
      PROVE  UNCHANGED file /\ UNCHANGED panelVars
  BY <1>3 DEF BootApplyDelta, BootApplyList, Fresh
<1>4. ASSUME NEW p \in Proc, DeltaNotSupported(p)
      PROVE  UNCHANGED file /\ UNCHANGED panelVars
  BY <1>4 DEF DeltaNotSupported
<1>5. ASSUME NEW p \in Syncer, Lock(p) PROVE Kept
  BY <1>5 DEF Lock
<1>6. CASE UNCHANGED vars
  BY <1>6 DEF vars
<1>7. CASE \E u \in Uuid, i \in Info \cup {NoUser} : PanelChange(u, i)
  BY <1>7, <1>1
<1>8. CASE \E p \in Syncer : Lock(p) \/ SyncStep(p)
  BY <1>8, <1>ids, <1>ask, <1>save, <1>push, <1>2, <1>4, <1>5 DEF SyncStep
<1>9. CASE BootStep
  <2>1. CASE StartWithoutUsers
    BY <2>1, <1>3 DEF StartWithoutUsers
  <2>2. CASE Ask(Boot) \/ Save(Boot) \/ AddUsers(Boot)
    BY <2>2, <1>ids, <1>ask, <1>save, <1>push, <1>4
  <2> QED BY <1>9, <2>1, <2>2, <1>boot, <1>3 DEF BootStep
<1>10. CASE FaultStep
  <2>1. CASE Crash \/ StartFails
    BY <2>1, <1>3 DEF Crash, StartFails
  <2> QED BY <1>10, <2>1, <1>ids, <1>save, <1>push, <1>boot DEF FaultStep
<1> QED BY <1>6, <1>7, <1>8, <1>9, <1>10 DEF Next

\* The empty controller matches revision 0, a state file revision 1.
LEMMA SnapshotInit == Init => SnapshotInv
<1> SUFFICES ASSUME Init PROVE SnapshotInv
  OBVIOUS
<1>1. PICK t \in Table : /\ snap = [r \in 0 .. MaxRev |-> IF r = 1 THEN t ELSE Empty]
                         /\ file \in {NoFile, [rev |-> 1, users |-> t]}
  BY DEF Init
<1>2. snap[0] = Empty /\ snap[1] = t /\ rev = 1
  BY <1>1, ConstantsAssumption DEF Init
<1>3. PanelInv /\ ReplyInv
  BY <1>2 DEF Init, PanelInv, ReplyInv, Proc, Boot
<1>4. ListInv
  <2>1. userList = Empty /\ userRevision = 0
    BY DEF Init
  <2>2. Matches(Empty, 0)
    BY <1>2 DEF Matches, Covers
  <2> QED BY <1>2, <2>1, <2>2 DEF ListInv
<1>5. FileInv
  <2>1. CASE file = NoFile
    BY <2>1 DEF Init, FileInv, Proc, Boot
  <2>2. CASE file = [rev |-> 1, users |-> t]
    <3>1. file \in Saved /\ file.rev = 1 /\ file.users = t
      BY <2>2, ConstantsAssumption DEF Saved
    <3>2. GoodState(file)
      BY <3>1, <1>2 DEF GoodState, Matches, Covers
    <3> QED BY <3>2 DEF Init, FileInv, Proc, Boot
  <2> QED BY <1>1, <2>1, <2>2
<1> QED BY <1>3, <1>4, <1>5 DEF SnapshotInv

\* The panel only appends revisions.
LEMMA SnapGrows ==
    ASSUME TypeOK, [Next]_vars
    PROVE  rev <= rev' /\ \A r \in 0 .. rev : snap'[r] = snap[r]
<1>1. CASE UNCHANGED panelVars
  BY <1>1 DEF TypeOK, panelVars
<1>2. ASSUME NEW u \in Uuid, NEW i \in Info \cup {NoUser}, PanelChange(u, i)
      PROVE  rev <= rev' /\ \A r \in 0 .. rev : snap'[r] = snap[r]
  BY <1>2, ConstantsAssumption DEF TypeOK, PanelChange
<1> QED BY <1>1, <1>2, Frames

\* A panel that has emptied the node has done so for good.
LEMMA EmptiedStays ==
    ASSUME TypeOK, [Next]_vars, NeverEmptied' PROVE NeverEmptied
<1>1. rev \in Nat /\ rev' \in Nat
  <2>1. rev \in Nat
    BY ConstantsAssumption DEF TypeOK
  <2>2. rev' = rev \/ rev' = rev + 1
    BY Frames DEF PanelChange, panelVars
  <2> QED BY <2>1, <2>2
<1> QED BY <1>1, SnapGrows DEF NeverEmptied, Empty

\* No step rewrites a revision the panel has published.
LEMMA PanelNext ==
    ASSUME TypeOK, PanelInv, [Next]_vars PROVE PanelInv'
<1>1. CASE UNCHANGED panelVars
  BY <1>1 DEF PanelInv, panelVars
<1>2. ASSUME NEW u \in Uuid, NEW i \in Info \cup {NoUser}, PanelChange(u, i)
      PROVE  PanelInv'
  BY <1>2, ConstantsAssumption DEF TypeOK, PanelInv, PanelChange
<1> QED BY <1>1, <1>2, Frames

\* An answer that is pending stays what it is until it is applied or dropped.
LEMMA PendingStays ==
    ASSUME TypeOK, ControlInv, ReplyInv, [Next]_vars,
           NEW q \in Proc, reply[q] # NoReply, reply'[q] # NoReply
    PROVE  /\ reply'[q] = reply[q] /\ pc'[q] = pc[q]
           /\ file' = file /\ userRevision' = userRevision
<1> DEFINE Goal == /\ reply'[q] = reply[q] /\ pc'[q] = pc[q]
                   /\ file' = file /\ userRevision' = userRevision
<1> SUFFICES Goal
  OBVIOUS
<1> USE ConstantsAssumption
<1>ids. Boot \in Proc /\ Boot \notin Syncer /\ Syncer \subseteq Proc
  BY DEF Proc, Boot
<1>run. Running(q) /\ pc[q] \in {"delta", "warm", "cold", "list"}
  BY <1>ids DEF ReplyInv, Running, ControlInv
<1>only. ASSUME NEW p \in Proc, Running(p) PROVE p = q
  BY <1>only, <1>run, Alone
<1>lock. ASSUME NEW p \in Syncer, Lock(p) PROVE Goal
  <2>1. p # q
    BY <1>lock, <1>run DEF Lock
  <2> QED BY <2>1, <1>lock DEF TypeOK, Lock, Goto, diskVars, listVars
<1>ask. ASSUME NEW p \in Proc, Ask(p) PROVE Goal
  <2>1. p # q
    BY <1>ask DEF Ask, GetFull, GetDelta, DeltaNotSupported, AskingDelta
  <2>2. Running(p)
    BY <1>ask, <1>ids DEF Ask, GetFull, GetDelta, DeltaNotSupported, AskingDelta,
                          Running
  <2> QED BY <2>1, <2>2, <1>only
<1>work. ASSUME NEW p \in Proc,
                \/ Save(p) \/ SaveFails(p) \/ ApplyUpdatedUsers(p)
                \/ \E u \in Uuid : RemoveUser(p, u)
                \/ ForgetUser(p) \/ UsersDeleted(p)
                \/ AddUserIDs(p) \/ (\E u \in Uuid : AddUser(p, u))
                \/ UpdateLimiter(p) \/ ApplyFails(p)
         PROVE  Goal
  <2>1. pc[p] \in {"save", "write", "rename", "update", "delete", "forget",
                   "addIDs", "addUsers"}
    BY <1>work DEF Save, SaveOpen, SaveWrite, SaveRename, SaveFails,
         ApplyUpdatedUsers, RemoveUser, ForgetUser, UsersDeleted, AddUserIDs,
         AddUser, UpdateLimiter, ApplyFails
  <2> QED BY <2>1, <1>only, <1>run DEF Running
<1>drop. ASSUME NEW p \in Syncer, NotModified(p) \/ RequestFails(p) PROVE Goal
  <2>1. Running(p) /\ p # q
    BY <1>drop, <1>ids DEF NotModified, RequestFails, Running
  <2> QED BY <2>1, <1>only, <1>ids
<1>apply. ASSUME NEW p \in Syncer, ApplyFull(p) \/ ApplyDelta(p) \/ ApplyList(p)
          PROVE  Goal
  <2>1. Running(p) /\ reply'[p] = NoReply
    BY <1>apply, <1>ids DEF TypeOK, ApplyFull, ApplyDelta, ApplyList, Running
  <2> QED BY <2>1, <1>only, <1>ids
<1>fresh. ASSUME Fresh PROVE Goal
  BY <1>fresh DEF Fresh
<1>boot. ASSUME LoadState \/ WarmRequestFails \/ BootApplyDelta \/ BootApplyList
                \/ Activate \/ Started
         PROVE  Goal
  <2>1. Running(Boot)
    BY <1>boot DEF LoadState, WarmRequestFails, BootApplyDelta, BootApplyList,
                   Activate, Started, Running
  <2>2. Boot = q
    BY <2>1, <1>only, <1>ids
  <2>3. reply'[Boot] = NoReply \/ reply[Boot] = NoReply
        \/ pc[Boot] \in {"load", "activate", "addUsers"}
    BY <1>boot, <1>ids DEF TypeOK, LoadState, WarmRequestFails, BootApplyDelta,
                   BootApplyList, Activate, Started
  <2> QED BY <2>2, <2>3, <1>run
<1>panel. ASSUME NEW u \in Uuid, NEW i \in Info \cup {NoUser}, PanelChange(u, i)
          PROVE  Goal
  BY <1>panel DEF PanelChange, diskVars, listVars
<1>same. CASE UNCHANGED vars
  BY <1>same DEF vars, diskVars, listVars
<1> QED
  <2>1. ASSUME NEW p \in Syncer, SyncStep(p) PROVE Goal
    BY <2>1, <1>ids, <1>ask, <1>work, <1>drop, <1>apply DEF SyncStep, AddUsers
  <2>2. CASE BootStep
    BY <2>2, <1>ids, <1>ask, <1>work, <1>fresh, <1>boot
       DEF BootStep, AddUsers, StartWithoutUsers
  <2>3. CASE FaultStep
    BY <2>3, <1>ids, <1>work, <1>drop, <1>fresh, <1>boot
       DEF FaultStep, Crash, StartFails
  <2> QED BY <2>1, <2>2, <2>3, <1>panel, <1>lock, <1>same DEF Next

\* A difference is asked from a revision the panel has.
LEMMA SinceBound ==
    ASSUME TypeOK, ControlInv, SnapshotInv, NEW p \in Proc
    PROVE  Since(p) \in 0 .. rev
<1>1. rev \in 1 .. MaxRev /\ userRevision \in 0 .. MaxRev /\ userRevision <= rev
  BY DEF TypeOK, SnapshotInv, ListInv
<1>2. CASE pc[p] = "warm"
  <2>1. p = Boot
    BY <1>2 DEF ControlInv, SyncLocation, Proc
  <2> QED
    BY <1>1, <1>2, <2>1 DEF SnapshotInv, ReplyInv, FileInv, GoodState, NoFile,
                            Saved, Since
<1>3. CASE pc[p] # "warm"
  BY <1>1, <1>3 DEF Since
<1> QED BY <1>2, <1>3

\* The warm start begins with a usable file, and nobody replaces it meanwhile.
LEMMA WarmNext ==
    ASSUME TypeOK, TypeOK', ControlInv, SnapshotInv, [Next]_vars,
           pc'[Boot] = "warm"
    PROVE  file'.rev > 0
<1> USE ConstantsAssumption
<1>ids. Boot \in Proc /\ Boot \notin Syncer /\ Syncer \subseteq Proc
  BY DEF Proc, Boot
<1>file. file' = file
  <2>1. ASSUME NEW p \in Proc, SaveRename(p) PROVE FALSE
    <3>1. pc[p] = "rename" /\ pc' = [pc EXCEPT ![p] = IF p = Boot THEN "activate"
                                                     ELSE "update"]
      BY <2>1 DEF SaveRename, AfterSave, Goto
    <3>2. p # Boot /\ pc[Boot] = "warm"
      BY <3>1, <1>ids DEF TypeOK
    <3> QED BY <3>1, <3>2, <1>ids, Alone DEF Running
  <2> QED BY <2>1, Frames
<1>1. CASE pc[Boot] = "warm"
  BY <1>1, <1>file DEF SnapshotInv, ReplyInv
<1>2. CASE pc[Boot] # "warm"
  <2>1. LoadState
    <3>1. ASSUME NEW p \in Syncer, Lock(p) \/ SyncStep(p) \/ RequestFails(p)
                                   \/ SaveFails(p) \/ ApplyFails(p)
          PROVE  pc'[Boot] = pc[Boot]
      <4>1. p # Boot /\ p \in Proc
        BY <1>ids
      <4> QED
        BY <3>1, <4>1, <1>ids
           DEF TypeOK, Lock, SyncStep, RequestFails, SaveFails, ApplyFails, Ask,
               GetFull, GetDelta, DeltaNotSupported, NotModified, ApplyFull,
               ApplyDelta, ApplyList, Save, SaveOpen, SaveWrite, SaveRename,
               AfterSave, ApplyUpdatedUsers, RemoveUser, ForgetUser, UsersDeleted,
               AddUsers, AddUserIDs, AddUser, UpdateLimiter, Return, Goto
    <3>2. ASSUME BootStep PROVE LoadState
      BY <3>2, <1>2, <1>ids
         DEF TypeOK, BootStep, Ask, GetFull, GetDelta, DeltaNotSupported,
             BootApplyDelta, BootApplyList, Save, SaveOpen, SaveWrite, SaveRename,
             AfterSave, Activate, AddUsers, AddUserIDs, AddUser, Started,
             StartWithoutUsers, Fresh, Goto
    <3>3. ASSUME Crash \/ WarmRequestFails \/ StartFails \/ SaveFails(Boot)
          PROVE  FALSE
      BY <3>3, <1>2, <1>ids
         DEF TypeOK, Crash, WarmRequestFails, StartFails, SaveFails, AfterSave,
             Fresh, Goto
    <3>4. ASSUME NEW u \in Uuid, NEW i \in Info \cup {NoUser}, PanelChange(u, i)
          PROVE  pc' = pc
      BY <3>4 DEF PanelChange
    <3>5. ~UNCHANGED vars
      BY <1>2 DEF vars
    <3> QED
      BY <1>2, <3>1, <3>2, <3>3, <3>4, <3>5 DEF Next, FaultStep
  <2> QED BY <2>1, <1>2, <1>ids, <1>file DEF TypeOK, LoadState, Goto
<1> QED BY <1>1, <1>2

\* An answer comes from a request.
LEMMA NewReply ==
    ASSUME TypeOK, [Next]_vars,
           NEW q \in Proc, reply[q] = NoReply, reply'[q] # NoReply
    PROVE  GetFull(q) \/ \E D, U \in SUBSET Uuid : GetDelta(q, D, U)
<1>ids. Boot \in Proc /\ Boot \notin Syncer /\ Syncer \subseteq Proc
  BY ConstantsAssumption DEF Proc, Boot
<1> DEFINE Asked == GetFull(q) \/ \E D, U \in SUBSET Uuid : GetDelta(q, D, U)
<1> HIDE DEF Asked
<1>1. ASSUME NEW p \in Proc, Ask(p) PROVE Asked
  <2>1. p = q
    BY <1>1 DEF TypeOK, Ask, GetFull, GetDelta, DeltaNotSupported
  <2>2. ~DeltaNotSupported(p)
    BY DEF DeltaNotSupported
  <2> QED BY <1>1, <2>1, <2>2 DEF Ask, Asked
<1>2. ASSUME NEW p \in Syncer, Lock(p) \/ NotModified(p) \/ RequestFails(p)
               \/ ApplyFails(p) \/ UpdateLimiter(p)
      PROVE  Asked
  BY <1>2 DEF Lock, NotModified, RequestFails, ApplyFails, UpdateLimiter
<1>3. ASSUME NEW p \in Proc,
             \/ Save(p) \/ SaveFails(p) \/ ApplyUpdatedUsers(p)
             \/ \E u \in Uuid : RemoveUser(p, u)
             \/ ForgetUser(p) \/ UsersDeleted(p)
             \/ AddUserIDs(p) \/ (\E u \in Uuid : AddUser(p, u))
      PROVE  Asked
  BY <1>3 DEF Save, SaveOpen, SaveWrite, SaveRename, SaveFails,
     ApplyUpdatedUsers, RemoveUser, ForgetUser, UsersDeleted, AddUserIDs,
     AddUser
<1>4. ASSUME NEW p \in Syncer, ApplyFull(p) \/ ApplyDelta(p) \/ ApplyList(p)
      PROVE  Asked
  BY <1>4 DEF TypeOK, ApplyFull, ApplyDelta, ApplyList
<1>5. ASSUME LoadState \/ WarmRequestFails \/ BootApplyDelta
             \/ BootApplyList \/ Activate \/ Started
      PROVE  Asked
  BY <1>5 DEF TypeOK, LoadState, WarmRequestFails, BootApplyDelta,
                      BootApplyList, Activate, Started
<1>6. ASSUME Fresh PROVE Asked
  BY <1>6 DEF Fresh
<1>7. ASSUME NEW u \in Uuid, NEW i \in Info \cup {NoUser}, PanelChange(u, i)
      PROVE  Asked
  BY <1>7 DEF PanelChange
<1>8. ASSUME UNCHANGED vars PROVE Asked
  BY <1>8 DEF vars
<1>9. ASSUME NEW p \in Syncer, SyncStep(p) PROVE Asked
  BY <1>9, <1>ids, <1>1, <1>2, <1>3, <1>4 DEF SyncStep, AddUsers
<1>10. ASSUME BootStep PROVE Asked
  BY <1>10, <1>ids, <1>1, <1>3, <1>5, <1>6
     DEF BootStep, AddUsers, StartWithoutUsers
<1>11. ASSUME FaultStep PROVE Asked
  BY <1>11, <1>ids, <1>2, <1>3, <1>5, <1>6 DEF FaultStep, Crash, StartFails
<1>12. Asked
  BY <1>2, <1>7, <1>8, <1>9, <1>10, <1>11 DEF Next
<1> QED BY <1>12 DEF Asked

\* A pending answer stays a correct difference from the revision it was asked from:
\* nobody else moves that revision before the answer is applied.
LEMMA ReplyNext ==
    ASSUME TypeOK, TypeOK', ControlInv, SnapshotInv, [Next]_vars
    PROVE  ReplyInv'
<1> USE ConstantsAssumption
<1>ids. Boot \in Proc /\ Boot \notin Syncer /\ Syncer \subseteq Proc
  BY DEF Proc, Boot
<1>rev. rev \in 1 .. MaxRev /\ rev' \in 1 .. MaxRev
  BY DEF TypeOK
<1> DEFINE Good(q) ==
       /\ pc[q] \in {"delta", "warm", "cold", "list"}
       /\ reply[q].kind # "none"
       /\ reply[q].rev \in 1 .. rev
       /\ reply[q].kind = "delta" =>
            /\ pc[q] # "list"
            /\ DeltaContract(Since(q), reply[q].rev, reply[q].del, reply[q].ups)
<1>old. ASSUME NEW q \in Proc, reply[q] # NoReply, reply'[q] # NoReply
        PROVE  Good(q)'
  <2>1. /\ reply'[q] = reply[q] /\ pc'[q] = pc[q]
        /\ file' = file /\ userRevision' = userRevision
    BY <1>old, PendingStays DEF SnapshotInv
  <2>2. Good(q)
    BY <1>old DEF SnapshotInv, ReplyInv
  <2>3. rev <= rev' /\ \A r \in 0 .. rev : snap'[r] = snap[r]
    BY SnapGrows
  <2>4. Since(q)' = Since(q)
    BY <2>1 DEF Since
  <2>5. CASE reply[q].kind # "delta"
    BY <2>1, <2>2, <2>3, <2>5, <1>rev DEF TypeOK
  <2>6. CASE reply[q].kind = "delta"
    <3>1. /\ reply[q].rev \in 1 .. rev
          /\ DeltaContract(Since(q), reply[q].rev, reply[q].del, reply[q].ups)
      BY <2>2, <2>6
    <3>2. Since(q) \in 0 .. rev
      BY SinceBound
    <3>3. snap'[reply[q].rev] = snap[reply[q].rev] /\ snap'[Since(q)] = snap[Since(q)]
      BY <3>1, <3>2, <2>3, <1>rev
    <3>4. DeltaContract(Since(q), reply[q].rev, reply[q].del, reply[q].ups)'
      BY <3>1, <3>3, <2>1, <2>4 DEF DeltaContract, Users
    <3> QED BY <3>4, <2>1, <2>2, <2>3, <1>rev
  <2> QED BY <2>5, <2>6
<1>new. ASSUME NEW q \in Proc, reply[q] = NoReply, reply'[q] # NoReply
        PROVE  Good(q)'
  <2>1. GetFull(q) \/ \E D, U \in SUBSET Uuid : GetDelta(q, D, U)
    BY <1>new, NewReply
  <2>2. CASE GetFull(q)
    BY <2>2, <1>rev DEF TypeOK, GetFull, AskingDelta, panelVars
  <2>3. ASSUME NEW D \in SUBSET Uuid, NEW U \in SUBSET Uuid, GetDelta(q, D, U)
        PROVE  Good(q)'
    <3>1. /\ reply'[q] = [kind |-> "delta", rev |-> rev, del |-> D, ups |-> U]
          /\ pc' = pc /\ rev' = rev /\ snap' = snap /\ file' = file
          /\ userRevision' = userRevision
      BY <2>3 DEF TypeOK, GetDelta, panelVars, diskVars, listVars
    <3>2. Since(q)' = Since(q)
      BY <3>1 DEF Since
    <3>3. DeltaContract(Since(q), reply[q].rev, reply[q].del, reply[q].ups)'
      BY <2>3, <3>1, <3>2 DEF GetDelta, DeltaContract, Users
    <3> QED BY <2>3, <3>1, <3>3, <1>rev DEF GetDelta, AskingDelta
  <2> QED BY <2>1, <2>2, <2>3
<1>warm. pc'[Boot] = "warm" => file'.rev > 0
  BY WarmNext
<1> QED BY <1>old, <1>new, <1>warm DEF ReplyInv

\* A table that matches an existing revision still does after a step.
LEMMA MatchesStays ==
    ASSUME TypeOK, [Next]_vars, NEW t, NEW r \in 0 .. rev, Matches(t, r)
    PROVE  Covers(t, r)' /\ (NeverEmptied' => t = snap'[r])
  BY SnapGrows, EmptiedStays DEF Matches, Covers, Users

\* applyUserDelta and a full answer leave userList matching userRevision.
LEMMA ListNext ==
    ASSUME TypeOK, TypeOK', ControlInv, SnapshotInv, [Next]_vars PROVE ListInv'
<1> USE ConstantsAssumption, JobType
<1>rev. /\ rev \in 1 .. MaxRev /\ rev' \in 1 .. MaxRev /\ rev <= rev'
        /\ userRevision \in 0 .. rev
  BY SnapGrows DEF TypeOK, SnapshotInv, ListInv
<1>1. CASE UNCHANGED listVars
  <2>1. userRevision' = userRevision /\ userList' = userList
        /\ userDeltaSupported' = userDeltaSupported
    BY <1>1 DEF listVars
  <2>2. userDeltaSupported => Matches(userList, userRevision)
    BY DEF SnapshotInv, ListInv
  <2>3. ASSUME userDeltaSupported PROVE Matches(userList, userRevision)'
    BY <2>1, <2>2, <2>3, <1>rev, MatchesStays DEF Matches, Covers, Users
  <2> QED BY <2>1, <2>3, <1>rev DEF ListInv
<1>2. CASE Fresh
  <2>1. userRevision' = 0 /\ userList' = Empty /\ snap' = snap
    BY <1>2 DEF Fresh, panelVars
  <2> QED BY <2>1, <1>rev DEF ListInv, Matches, Covers, Users, SnapshotInv,
                              PanelInv, Empty
<1>3. ASSUME NEW p \in Proc, DeltaNotSupported(p) PROVE ListInv'
  BY <1>3, <1>rev DEF ListInv, DeltaNotSupported
<1>4. ASSUME NEW p \in Syncer, ApplyList(p) PROVE ListInv'
  <2>1. ~userDeltaSupported
    BY <1>4 DEF ApplyList, ControlInv, Proc
  <2> QED BY <1>4, <2>1, <1>rev DEF ListInv, ApplyList
<1>5. ASSUME NEW p \in Syncer, ApplyFull(p) PROVE ListInv'
  <2>1. /\ reply[p].rev \in 1 .. rev /\ snap' = snap /\ rev' = rev
        /\ userRevision' = reply[p].rev
        /\ userList' = IF snap[reply[p].rev] = Empty THEN userList
                       ELSE snap[reply[p].rev]
    BY <1>5 DEF ApplyFull, panelVars, SnapshotInv, ReplyInv, Proc, NoReply
  <2>2. Covers(userList, userRevision)'
    BY <2>1 DEF Covers, Users, Empty
  <2>3. NeverEmptied' => userList' = snap'[userRevision']
    BY <2>1 DEF NeverEmptied
  <2> QED BY <2>1, <2>2, <2>3 DEF ListInv, Matches
<1>6. ASSUME NEW p \in Syncer, ApplyDelta(p) PROVE ListInv'
  <2> DEFINE r == reply[p]
  <2>1. p \in Proc /\ r \in Reply /\ r # NoReply /\ pc[p] = "delta"
    BY <1>6 DEF TypeOK, Proc, ApplyDelta, NoReply
  <2>2. /\ r.rev \in 1 .. rev
        /\ DeltaContract(userRevision, r.rev, r.del, r.ups)
    BY <1>6, <2>1 DEF ApplyDelta, SnapshotInv, ReplyInv, Since
  <2>3. Matches(userList, userRevision)
    BY <2>1 DEF SnapshotInv, ListInv, ControlInv, DeltaLocation
  <2>4. r.del \in SUBSET Uuid /\ r.ups \in SUBSET Uuid /\ r.rev \in 0 .. MaxRev
    BY <2>1 DEF Reply
  <2>5. Matches(ApplyUserDelta(userList, snap[r.rev], r.del, r.ups), r.rev)
    BY <2>2, <2>3, <2>4, <1>rev, DeltaCorrect DEF TypeOK
  <2>6. /\ userList' = ApplyUserDelta(userList, snap[r.rev], r.del, r.ups)
        /\ userRevision' = r.rev /\ snap' = snap /\ rev' = rev
    BY <1>6 DEF ApplyDelta, panelVars
  <2> HIDE DEF r
  <2> QED BY <2>2, <2>5, <2>6 DEF ListInv, Matches, Covers, Users, NeverEmptied
<1>7. CASE BootApplyDelta
  <2> DEFINE r == reply[Boot]
             base == IF pc[Boot] = "warm" THEN file.users ELSE Empty
  <2>1. Boot \in Proc /\ r \in Reply /\ r # NoReply /\ pc[Boot] \in {"warm", "cold"}
    BY <1>7 DEF TypeOK, Proc, BootApplyDelta
  <2>2. /\ r.rev \in 1 .. rev /\ r.kind \in {"full", "delta"}
        /\ r.kind = "delta" => DeltaContract(Since(Boot), r.rev, r.del, r.ups)
    BY <2>1 DEF SnapshotInv, ReplyInv, Reply
  <2>3. base \in Table /\ Matches(base, Since(Boot))
    <3>1. CASE pc[Boot] = "warm"
      BY <3>1 DEF SnapshotInv, ReplyInv, FileInv, GoodState, Saved, NoFile, Since
    <3>2. CASE pc[Boot] = "cold"
      BY <3>2 DEF SnapshotInv, PanelInv, Since, Matches, Covers, Users, Empty
    <3> QED BY <2>1, <3>1, <3>2
  <2>4. r.del \in SUBSET Uuid /\ r.ups \in SUBSET Uuid /\ r.rev \in 0 .. MaxRev
    BY <2>1 DEF Reply
  <2>5. Since(Boot) \in 0 .. MaxRev
    BY <2>1, <1>rev, SinceBound
  <2>6. /\ userList' = IF r.kind = "full" THEN snap[r.rev]
                       ELSE ApplyUserDelta(base, snap[r.rev], r.del, r.ups)
        /\ userRevision' = r.rev /\ snap' = snap /\ rev' = rev
    BY <1>7 DEF BootApplyDelta, panelVars
  <2>7. Matches(userList', r.rev)
    <3>1. CASE r.kind = "full"
      BY <3>1, <2>6 DEF Matches, Covers
    <3>2. CASE r.kind = "delta"
      <4>1. Matches(ApplyUserDelta(base, snap[r.rev], r.del, r.ups), r.rev)
        BY <3>2, <2>2, <2>3, <2>4, <2>5, DeltaCorrect
      <4> QED BY <3>2, <4>1, <2>6
    <3> QED BY <2>2, <3>1, <3>2
  <2> HIDE DEF r
  <2> QED BY <2>2, <2>6, <2>7 DEF ListInv, Matches, Covers, Users, NeverEmptied
<1>8. CASE BootApplyList
  <2>1. ~userDeltaSupported
    BY <1>8 DEF BootApplyList, ControlInv, Proc
  <2> QED BY <1>8, <2>1, <1>rev DEF ListInv, BootApplyList
<1> QED BY <1>1, <1>2, <1>3, <1>4, <1>5, <1>6, <1>7, <1>8, Frames

\* A process is about to rename the file it has just written.
LEMMA BeforeRename ==
    ASSUME TypeOK, ControlInv, [Next]_vars, NEW q \in Proc, pc'[q] = "rename"
    PROVE  SaveWrite(q) \/ (pc[q] = "rename" /\ tmp' = tmp)
<1>ids. Boot \in Proc /\ Boot \notin Syncer /\ Syncer \subseteq Proc
  BY ConstantsAssumption DEF Proc, Boot
<1> DEFINE Goal == SaveWrite(q) \/ (pc[q] = "rename" /\ tmp' = tmp)
<1> HIDE DEF Goal
<1>1. ASSUME NEW p \in Proc, Save(p) PROVE Goal
  <2>1. p = q
    <3>1. CASE pc[q] = "rename"
      BY <1>1, <3>1, <1>ids, Alone
         DEF Save, SaveOpen, SaveWrite, SaveRename, Running
    <3>2. CASE pc[q] # "rename"
      BY <1>1, <3>2
         DEF TypeOK, Save, SaveOpen, SaveWrite, SaveRename, AfterSave, Goto
    <3> QED BY <3>1, <3>2
  <2> QED BY <1>1, <2>1
         DEF TypeOK, Save, SaveOpen, SaveRename, AfterSave, Goto, Goal
<1>2. ASSUME NEW p \in Proc,
             \/ Ask(p) \/ SaveFails(p) \/ ApplyUpdatedUsers(p)
             \/ \E u \in Uuid : RemoveUser(p, u)
             \/ ForgetUser(p) \/ UsersDeleted(p) \/ AddUsers(p)
      PROVE  Goal
  BY <1>2
     DEF TypeOK, Ask, GetFull, GetDelta, DeltaNotSupported, SaveFails,
         AfterSave, ApplyUpdatedUsers, RemoveUser, ForgetUser, UsersDeleted,
         AddUsers, AddUserIDs, AddUser, Goto, diskVars, Goal
<1>3. ASSUME NEW p \in Syncer,
             \/ Lock(p) \/ NotModified(p) \/ RequestFails(p) \/ ApplyFails(p)
             \/ UpdateLimiter(p)
             \/ ApplyFull(p) \/ ApplyDelta(p) \/ ApplyList(p)
      PROVE  Goal
  BY <1>3, <1>ids
     DEF TypeOK, Lock, NotModified, RequestFails, ApplyFails, UpdateLimiter,
         ApplyFull, ApplyDelta, ApplyList, Return, Goto, diskVars, Goal
<1>4. ASSUME LoadState \/ WarmRequestFails \/ BootApplyDelta
             \/ BootApplyList \/ Activate \/ Started
      PROVE  Goal
  BY <1>4, <1>ids
     DEF TypeOK, LoadState, WarmRequestFails, BootApplyDelta, BootApplyList,
         Activate, Started, Goto, diskVars, Goal
<1>5. ~Fresh
  BY DEF Fresh
<1>6. ASSUME NEW u \in Uuid, NEW i \in Info \cup {NoUser}, PanelChange(u, i)
      PROVE  Goal
  BY <1>6 DEF PanelChange, diskVars, Goal
<1>7. ASSUME UNCHANGED vars PROVE Goal
  BY <1>7 DEF vars, diskVars, Goal
<1>8. ASSUME NEW p \in Syncer, SyncStep(p) PROVE Goal
  BY <1>8, <1>ids, <1>1, <1>2, <1>3 DEF SyncStep
<1>9. ASSUME BootStep PROVE Goal
  BY <1>9, <1>ids, <1>1, <1>2, <1>4, <1>5 DEF BootStep, StartWithoutUsers
<1>10. ASSUME FaultStep PROVE Goal
  BY <1>10, <1>ids, <1>2, <1>3, <1>4, <1>5 DEF FaultStep, Crash, StartFails
<1>11. Goal
  BY <1>3, <1>6, <1>7, <1>8, <1>9, <1>10 DEF Next
<1> QED BY <1>11 DEF Goal

\* saveUserSyncState only ever renames a complete, matching pair into place.
LEMMA FileNext ==
    ASSUME TypeOK, TypeOK', ControlInv, SnapshotInv, [Next]_vars PROVE FileInv'
<1> USE ConstantsAssumption
<1>ids. Boot \in Proc /\ Boot \notin Syncer /\ Syncer \subseteq Proc
  BY DEF Proc, Boot
<1>rev. rev \in 1 .. MaxRev /\ rev' \in 1 .. MaxRev /\ rev <= rev'
  BY SnapGrows DEF TypeOK
<1>good. ASSUME NEW f, GoodState(f)
         PROVE  f \in Saved /\ f.rev <= rev' /\ Covers(f.users, f.rev)'
                /\ (NeverEmptied' => f.users = snap'[f.rev])
  <2>1. f \in Saved /\ f.rev \in 0 .. rev /\ Matches(f.users, f.rev)
    BY <1>good DEF GoodState, Saved
  <2> QED BY <2>1, <1>rev, MatchesStays DEF Saved
<1>file. file' = NoFile \/ GoodState(file)'
  <2>1. CASE UNCHANGED file
    BY <2>1, <1>good DEF SnapshotInv, FileInv, GoodState, Matches, Covers, Users
  <2>2. ASSUME NEW p \in Proc, SaveRename(p) PROVE GoodState(file)'
    <3>1. GoodState(tmp) /\ file' = tmp
      BY <2>2 DEF SaveRename, SnapshotInv, FileInv
    <3> QED BY <3>1, <1>good DEF GoodState, Matches, Covers, Users
  <2> QED BY <2>1, <2>2, Frames
<1>tmp. ASSUME NEW q \in Proc, pc'[q] = "rename" PROVE GoodState(tmp)'
  <2>1. CASE SaveWrite(q)
    <3>1. /\ tmp' = [rev |-> userRevision, users |-> userList]
          /\ userRevision' = userRevision /\ userList' = userList
          /\ snap' = snap /\ rev' = rev /\ pc[q] = "write"
      BY <2>1 DEF SaveWrite, listVars, panelVars
    <3>2. Matches(userList, userRevision) /\ userRevision <= rev
      BY <3>1 DEF SnapshotInv, ListInv, ControlInv, DeltaLocation
    <3>3. tmp' \in Saved /\ tmp'.rev = userRevision /\ tmp'.users = userList
      BY <3>1 DEF TypeOK, Saved
    <3> QED BY <3>1, <3>2, <3>3 DEF GoodState, Matches, Covers, Users, NeverEmptied
  <2>2. CASE pc[q] = "rename" /\ tmp' = tmp
    <3>1. GoodState(tmp)
      BY <2>2 DEF SnapshotInv, FileInv
    <3> QED BY <2>2, <3>1, <1>good DEF GoodState, Matches, Covers, Users
  <2>3. SaveWrite(q) \/ (pc[q] = "rename" /\ tmp' = tmp)
    BY <1>tmp, BeforeRename
  <2> QED BY <2>1, <2>2, <2>3
<1> QED BY <1>file, <1>tmp DEF FileInv

\* The invariant is preserved by every step.
LEMMA SnapshotNext ==
    ASSUME TypeOK, TypeOK', ControlInv, SnapshotInv, [Next]_vars
    PROVE  SnapshotInv'
  BY PanelNext, ReplyNext, ListNext, FileNext DEF SnapshotInv

\* The layers together are an invariant of the specification.
LEMMA SnapshotInvariant == Spec => [](TypeOK /\ ControlInv /\ SnapshotInv)
<1>1. Init => TypeOK /\ ControlInv /\ SnapshotInv
  BY TypeInit, ControlInit, SnapshotInit
<1>2. TypeOK /\ ControlInv /\ SnapshotInv /\ [Next]_vars
        => (TypeOK /\ ControlInv /\ SnapshotInv)'
  BY TypeNext, ControlNext, SnapshotNext
<1> QED BY <1>1, <1>2, PTL DEF Spec

\* The controller's list and the state file miss no user of the panel at their
\* revision, and the state file is never half written: for any number of users,
\* syncers, revisions, crashes and failures.
THEOREM UsersComplete == Spec => []NoUserMissing
<1>1. TypeOK /\ ControlInv /\ SnapshotInv => NoUserMissing
  BY DEF TypeOK, SnapshotInv, ListInv, FileInv, GoodState, Matches, NoUserMissing,
         NoFile, Torn, Saved
<1> QED BY <1>1, SnapshotInvariant, PTL

\* Until the panel empties the node, they are exactly the panel's tables.
THEOREM SnapshotsExact == Spec => []ExactSnapshot
<1>1. TypeOK /\ ControlInv /\ SnapshotInv => ExactSnapshot
  BY DEF SnapshotInv, ListInv, FileInv, GoodState, Matches, ExactSnapshot
<1> QED BY <1>1, SnapshotInvariant, PTL

-----------------------------------------------------------------------------
(* Every user the proxy accepts has a uid.                                 *)

\* No user is known when the process starts.
LEMMA JobInit == Init => JobInv
  BY ConstantsAssumption
     DEF Init, JobInv, JobOf, NoJob, Diff, Users, Empty, Proc, Boot

\* While q runs the others have no locals, so that a step of q has to be checked
\* for q alone.
LEMMA JobStep ==
    ASSUME TypeOK, TypeOK', ControlInv, JobInv, NEW q \in Proc, Running(q),
           \A p \in Proc \ {q} : pc'[p] = pc[p] /\ job'[p] = job[p],
           JobOf(q)', proxy' \subseteq Users(uidMap)'
    PROVE  JobInv'
<1>1. ASSUME NEW p \in Proc, p # q PROVE JobOf(p)'
  <2>1. ~Running(p)
    BY <1>1, Alone
  <2>2. pc[p] \in {"idle", "up"}
    BY <2>1 DEF Running
  <2>3. job[p] = NoJob
    BY <2>2 DEF JobInv, JobOf
  <2>4. pc'[p] \in {"idle", "up"} /\ job'[p] = NoJob
    BY <1>1, <2>2, <2>3
  <2> QED BY <2>4 DEF JobOf, NoJob, Diff
<1> QED BY <1>1 DEF JobInv

\* Steps of a sync or a start that leave its locals, the list and the core alone.
LEMMA JobKept ==
    ASSUME TypeOK, TypeOK', ControlInv, JobInv, NEW q \in Proc, Running(q),
           \A p \in Proc \ {q} : pc'[p] = pc[p],
           UNCHANGED <<job, uidMap, proxy>>,
           \/ pc'[q] \in {"save", "write", "rename", "update"}
                 /\ userList' = userList /\ q # Boot
           \/ pc'[q] = "addIDs" /\ userList' = userList
           \/ job[q] = NoJob /\ pc'[q] \notin {"forget", "addUsers"}
    PROVE  JobInv'
<1>1. JobOf(q)
  BY DEF JobInv
<1>2. JobOf(q)'
  BY <1>1 DEF JobOf, NoJob, Diff, Users
<1> QED BY <1>2, JobStep DEF JobInv, Users

\* What applyUserDelta and compareUserList report as added or updated is in the
\* new list.
LEMMA NewUsersListed ==
    ASSUME NEW old \in Table, NEW new \in Table,
           NEW D \in SUBSET Uuid, NEW U \in SUBSET Uuid
    PROVE  /\ U \subseteq Users(new) =>
                LET l == ApplyUserDelta(old, new, D, U) IN
                /\ DeltaJob(old, D, U).add \subseteq Users(l)
                /\ DeltaJob(old, D, U).upd \subseteq Users(l)
           /\ CompareUserList(old, new).add \subseteq Users(new)
           /\ CompareUserList(old, new).upd \subseteq Users(new)
<1>1. /\ DeltaJob(old, D, U).add \subseteq U /\ DeltaJob(old, D, U).upd \subseteq U
      /\ CompareUserList(old, new).add \subseteq Users(new)
      /\ CompareUserList(old, new).upd \subseteq Users(new)
  BY DEF DeltaJob, CompareUserList, Diff
<1>2. ASSUME U \subseteq Users(new)
      PROVE  U \subseteq Users(ApplyUserDelta(old, new, D, U))
  <2>1. \A u \in U : ApplyUserDelta(old, new, D, U)[u] = new[u]
    BY DEF ApplyUserDelta
  <2> QED BY <1>2, <2>1 DEF Users
<1> QED BY <1>1, <1>2, Zenon

\* Every step keeps it.
LEMMA JobNext ==
    ASSUME TypeOK, TypeOK', ControlInv, SnapshotInv, JobInv, [Next]_vars
    PROVE  JobInv'
<1> USE ConstantsAssumption
<1>ids. Boot \in Proc /\ Boot \notin Syncer /\ Syncer \subseteq Proc
  BY DEF Proc, Boot
<1>panel. ASSUME NEW u \in Uuid, NEW i \in Info \cup {NoUser}, PanelChange(u, i)
          PROVE  JobInv'
  BY <1>panel DEF PanelChange, JobInv, JobOf, Users, listVars, coreVars
<1>same. CASE UNCHANGED vars
  BY <1>same DEF vars, JobInv, JobOf, Users, listVars, coreVars
<1>lock. ASSUME NEW q \in Syncer, Lock(q) PROVE JobInv'
  <2>1. job[q] = NoJob
    BY <1>lock, <1>ids DEF Lock, JobInv, JobOf
  <2>2. ASSUME NEW p \in Proc PROVE JobOf(p)'
    <3>1. JobOf(p)
      BY DEF JobInv
    <3>2. CASE p = q
      BY <3>2, <2>1, <1>lock DEF TypeOK, Lock, Goto, JobOf, NoJob, Diff
    <3>3. CASE p # q
      BY <3>1, <3>3, <1>lock
         DEF TypeOK, Lock, Goto, JobOf, Users, listVars, coreVars
    <3> QED BY <3>2, <3>3
  <2> QED BY <2>2, <1>lock DEF Lock, JobInv, Users, coreVars
<1>ask. ASSUME NEW q \in Proc, Ask(q) PROVE JobInv'
  <2>1. Running(q) /\ job[q] = NoJob
    BY <1>ask DEF Ask, GetFull, GetDelta, DeltaNotSupported, AskingDelta, Running,
                  JobInv, JobOf, Boot
  <2>2. /\ \A p \in Proc \ {q} : pc'[p] = pc[p]
        /\ UNCHANGED <<job, uidMap, proxy>>
        /\ pc'[q] \notin {"forget", "addUsers"}
    BY <1>ask DEF TypeOK, Ask, GetFull, GetDelta, DeltaNotSupported, AskingDelta,
                  Goto, coreVars
  <2> QED BY <2>1, <2>2, JobKept
<1>save. ASSUME NEW q \in Proc, Save(q) \/ SaveFails(q) PROVE JobInv'
  <2>1. Running(q)
    BY <1>save DEF Save, SaveOpen, SaveWrite, SaveRename, SaveFails, Running, Boot
  <2>2. /\ \A p \in Proc \ {q} : pc'[p] = pc[p]
        /\ UNCHANGED <<job, uidMap, proxy, userList>>
        /\ pc'[q] \in {"write", "rename", "update", "activate"}
        /\ pc'[q] = "activate" => q = Boot
    BY <1>save DEF TypeOK, Save, SaveOpen, SaveWrite, SaveRename, SaveFails,
                   AfterSave, Goto, listVars, coreVars
  <2>3. q = Boot => job[q] = NoJob
    BY <1>save DEF Save, SaveOpen, SaveWrite, SaveRename, SaveFails, JobInv, JobOf
  <2> QED BY <2>1, <2>2, <2>3, JobKept
<1>back. ASSUME NEW q \in Syncer, NotModified(q) \/ RequestFails(q) PROVE JobInv'
  <2>1. Running(q) /\ job[q] = NoJob
    BY <1>back, <1>ids DEF NotModified, RequestFails, Running, JobInv, JobOf, Boot
  <2>2. /\ \A p \in Proc \ {q} : pc'[p] = pc[p]
        /\ UNCHANGED <<job, uidMap, proxy>>
        /\ pc'[q] = "idle"
    BY <1>back, <1>ids DEF TypeOK, NotModified, RequestFails, Return, Goto, coreVars
  <2> QED BY <2>1, <2>2, <1>ids, JobKept
<1>apply. ASSUME NEW q \in Syncer, ApplyFull(q) \/ ApplyDelta(q) \/ ApplyList(q)
          PROVE  JobInv'
  <2> q \in Proc /\ q # Boot /\ reply[q] \in Reply
    BY <1>ids DEF TypeOK
  <2>1. Running(q)
    BY <1>apply DEF ApplyFull, ApplyDelta, ApplyList, Running, Boot
  <2>2. /\ \A p \in Proc \ {q} : pc'[p] = pc[p] /\ job'[p] = job[p]
        /\ pc'[q] \in {"save", "update"}
        /\ UNCHANGED <<uidMap, proxy>>
    BY <1>apply DEF TypeOK, ApplyFull, ApplyDelta, ApplyList, Goto, coreVars
  <2>3. snap[reply[q].rev] \in Table /\ userList \in Table
    BY DEF TypeOK, Reply
  <2>4. job'[q].add \subseteq Users(userList') /\ job'[q].upd \subseteq Users(userList')
    <3>1. CASE ApplyFull(q) \/ ApplyList(q)
      <4>1. CASE snap[reply[q].rev] = Empty
        BY <3>1, <4>1 DEF TypeOK, ApplyFull, ApplyList, NoJob, Diff
      <4>2. CASE snap[reply[q].rev] # Empty
        <5>1. /\ job'[q] = CompareUserList(userList, snap[reply[q].rev])
              /\ userList' = snap[reply[q].rev]
          BY <3>1, <4>2 DEF TypeOK, ApplyFull, ApplyList
        <5> QED BY <5>1, <2>3, NewUsersListed
      <4> QED BY <4>1, <4>2
    <3>2. CASE ApplyDelta(q)
      <4>1. reply[q].ups \subseteq Users(snap[reply[q].rev])
        <5>1. reply[q] # NoReply /\ reply[q].kind = "delta"
          BY <3>2 DEF ApplyDelta, NoReply
        <5> QED BY <5>1 DEF SnapshotInv, ReplyInv, DeltaContract
      <4>2. reply[q].del \in SUBSET Uuid /\ reply[q].ups \in SUBSET Uuid
        BY DEF Reply
      <4>3. /\ job'[q] = DeltaJob(userList, reply[q].del, reply[q].ups)
            /\ userList' = ApplyUserDelta(userList, snap[reply[q].rev], reply[q].del,
                                          reply[q].ups)
        BY <3>2 DEF TypeOK, ApplyDelta
      <4> QED BY <4>1, <4>2, <4>3, <2>3, NewUsersListed
    <3> QED BY <1>apply, <3>1, <3>2
  <2>5. JobOf(q)'
    BY <2>2, <2>4 DEF JobOf, Users
  <2>6. proxy' \subseteq Users(uidMap)'
    BY <2>2 DEF JobInv, Users
  <2> QED BY <2>1, <2>2, <2>5, <2>6, JobStep
<1>push. ASSUME NEW q \in Proc,
                \/ ApplyUpdatedUsers(q) \/ ForgetUser(q)
                \/ \E u \in Uuid : RemoveUser(q, u)
                \/ AddUsers(q)
         PROVE  JobInv'
  <2>j. /\ JobOf(q) /\ proxy \subseteq Users(uidMap) /\ job[q] \in Job
        /\ uidMap \in Table /\ userList \in Table
    BY DEF JobInv, TypeOK
  <2>r. Running(q)
    BY <1>push DEF ApplyUpdatedUsers, ForgetUser, RemoveUser, AddUsers, AddUserIDs,
                   AddUser, Running, Boot
  <2>o. /\ \A p \in Proc \ {q} : pc'[p] = pc[p] /\ job'[p] = job[p]
        /\ userList' = userList
    BY <1>push DEF TypeOK, ApplyUpdatedUsers, ForgetUser, RemoveUser, AddUsers,
                   AddUserIDs, AddUser, Goto, listVars
  <2>1. CASE ApplyUpdatedUsers(q)
    <3>1. /\ pc'[q] = "delete" /\ proxy' = proxy
          /\ uidMap' = Refresh(uidMap, job[q].upd)
          /\ job'[q].add = job[q].add /\ job'[q].upd = job[q].upd
      BY <2>1, <2>j DEF TypeOK, ApplyUpdatedUsers, Goto, Job
    <3>2. Users(uidMap) \subseteq Users(uidMap')
      BY <3>1, <2>j DEF JobOf, Refresh, Users, Table, Job
    <3> QED BY <3>1, <3>2, <2>j, <2>r, <2>o, JobStep DEF JobOf, Users
  <2>2. ASSUME NEW u \in Uuid, RemoveUser(q, u) PROVE JobInv'
    <3>1. /\ pc'[q] = "forget" /\ proxy' = proxy \ {u} /\ uidMap' = uidMap
          /\ job'[q].add = job[q].add /\ job'[q].upd = job[q].upd
          /\ job'[q].cur = {u}
      BY <2>2, <2>j DEF TypeOK, RemoveUser, Goto, Job
    <3> QED BY <3>1, <2>j, <2>r, <2>o, JobStep DEF JobOf, Users
  <2>3. CASE ForgetUser(q)
    <3>1. /\ pc[q] = "forget" /\ pc'[q] = "delete" /\ proxy' = proxy
          /\ uidMap' = Drop(uidMap, job[q].cur)
          /\ job'[q].add = job[q].add /\ job'[q].upd = job[q].upd
      BY <2>3, <2>j DEF TypeOK, ForgetUser, Goto, Job
    <3>2. proxy' \subseteq Users(uidMap')
      BY <3>1, <2>j DEF JobOf, Drop, Users, Table
    <3> QED BY <3>1, <3>2, <2>j, <2>r, <2>o, JobStep DEF JobOf, Users
  <2>4. CASE AddUserIDs(q)
    <3>1. /\ pc'[q] = "addUsers" /\ proxy' = proxy
          /\ uidMap' = Refresh(uidMap, job[q].add)
          /\ job'[q].add = job[q].add /\ job'[q].upd = job[q].upd
          /\ job'[q].todo = job[q].add
      BY <2>4, <2>j DEF TypeOK, AddUserIDs, Goto, Job
    <3>2. /\ Users(uidMap) \subseteq Users(uidMap')
          /\ job[q].add \subseteq Users(uidMap')
      BY <3>1, <2>j DEF JobOf, Refresh, Users, Table, Job
    <3> QED BY <3>1, <3>2, <2>j, <2>r, <2>o, JobStep DEF JobOf, Users
  <2>5. ASSUME NEW u \in Uuid, AddUser(q, u) PROVE JobInv'
    <3>1. /\ pc[q] = "addUsers" /\ pc'[q] = "addUsers" /\ u \in job[q].todo
          /\ proxy' = proxy \cup {u} /\ uidMap' = uidMap
          /\ job'[q].add = job[q].add /\ job'[q].upd = job[q].upd
          /\ job'[q].todo = job[q].todo \ {u}
      BY <2>5, <2>j DEF TypeOK, AddUser, Job
    <3> QED BY <3>1, <2>j, <2>r, <2>o, JobStep DEF JobOf, Users
  <2> QED BY <1>push, <2>1, <2>2, <2>3, <2>4, <2>5 DEF AddUsers
<1>deleted. ASSUME NEW q \in Proc, UsersDeleted(q) PROVE JobInv'
  <2>1. Running(q)
    BY <1>deleted DEF UsersDeleted, Running, Boot
  <2>2. /\ \A p \in Proc \ {q} : pc'[p] = pc[p]
        /\ UNCHANGED <<job, uidMap, proxy, userList>> /\ pc'[q] = "addIDs"
    BY <1>deleted DEF TypeOK, UsersDeleted, Goto, listVars, coreVars
  <2> QED BY <2>1, <2>2, JobKept
<1>over. ASSUME NEW q \in Proc,
                \/ q \in Syncer /\ (UpdateLimiter(q) \/ ApplyFails(q))
                \/ q = Boot /\ Started
         PROVE  JobInv'
  <2>1. Running(q)
    BY <1>over, <1>ids DEF UpdateLimiter, ApplyFails, Started, Running, Boot
  <2>2. /\ \A p \in Proc \ {q} : pc'[p] = pc[p] /\ job'[p] = job[p]
        /\ job'[q] = NoJob /\ pc'[q] \in {"idle", "up"}
        /\ UNCHANGED <<uidMap, proxy>>
    BY <1>over DEF TypeOK, UpdateLimiter, ApplyFails, Started, Return, Goto, coreVars
  <2>3. JobOf(q)'
    BY <2>2 DEF JobOf, NoJob, Diff
  <2>4. proxy' \subseteq Users(uidMap)'
    BY <2>2 DEF JobInv, Users
  <2> QED BY <2>1, <2>2, <2>3, <2>4, JobStep
<1>boot. ASSUME LoadState \/ WarmRequestFails \/ BootApplyDelta \/ BootApplyList
         PROVE  JobInv'
  <2>1. Running(Boot) /\ job[Boot] = NoJob
    BY <1>boot, <1>ids DEF LoadState, WarmRequestFails, BootApplyDelta,
                           BootApplyList, Running, JobInv, JobOf
  <2>2. /\ \A p \in Proc \ {Boot} : pc'[p] = pc[p]
        /\ UNCHANGED <<job, uidMap, proxy>>
        /\ pc'[Boot] \notin {"forget", "addUsers"}
    BY <1>boot, <1>ids DEF TypeOK, LoadState, WarmRequestFails, BootApplyDelta,
                           BootApplyList, Goto, coreVars
  <2> QED BY <2>1, <2>2, <1>ids, JobKept
<1>activate. ASSUME Activate PROVE JobInv'
  <2>1. Running(Boot)
    BY <1>activate DEF Activate, Running
  <2>2. /\ \A p \in Proc \ {Boot} : pc'[p] = pc[p] /\ job'[p] = job[p]
        /\ job'[Boot] = Diff({}, Users(userList), {}) /\ pc'[Boot] = "addIDs"
        /\ UNCHANGED <<uidMap, proxy, userList>>
    BY <1>activate, <1>ids DEF TypeOK, Activate, Goto, listVars
  <2>3. JobOf(Boot)'
    BY <2>2 DEF JobOf, Diff, Users
  <2>4. proxy' \subseteq Users(uidMap)'
    BY <2>2 DEF JobInv, Users
  <2> QED BY <2>1, <2>2, <2>3, <2>4, <1>ids, JobStep
<1>fresh. ASSUME Fresh PROVE JobInv'
  BY <1>fresh DEF Fresh, JobInv, JobOf, NoJob, Diff
<1>1. ASSUME NEW q \in Syncer, SyncStep(q) PROVE JobInv'
  BY <1>1, <1>ids, <1>ask, <1>save, <1>back, <1>apply, <1>push, <1>deleted, <1>over
     DEF SyncStep
<1>2. ASSUME BootStep PROVE JobInv'
  BY <1>2, <1>ids, <1>ask, <1>save, <1>push, <1>over, <1>boot, <1>activate, <1>fresh
     DEF BootStep, StartWithoutUsers
<1>3. ASSUME FaultStep PROVE JobInv'
  BY <1>3, <1>ids, <1>save, <1>back, <1>over, <1>boot, <1>fresh
     DEF FaultStep, Crash, StartFails
<1> QED BY <1>panel, <1>same, <1>lock, <1>1, <1>2, <1>3 DEF Next

\* A user the proxy accepts has a uid at every step of every sync, start, failure
\* and crash: the order of DelUsers and AddUsers in the core is right.
THEOREM UIDsKnown == Spec => []ProxyUserHasUID
<1>1. Init => TypeOK /\ ControlInv /\ SnapshotInv /\ JobInv
  BY TypeInit, ControlInit, SnapshotInit, JobInit
<1>2. (TypeOK /\ ControlInv /\ SnapshotInv /\ JobInv) /\ [Next]_vars
        => (TypeOK /\ ControlInv /\ SnapshotInv /\ JobInv)'
  BY TypeNext, ControlNext, SnapshotNext, JobNext
<1>3. JobInv => ProxyUserHasUID
  BY DEF JobInv, ProxyUserHasUID
<1> QED BY <1>1, <1>2, <1>3, PTL DEF Spec

-----------------------------------------------------------------------------
(* The saved revision never goes back.                                     *)

\* Nothing is on its way to the state file that is older than the file.
OrderInv ==
    /\ \A p \in Proc : reply[p] # NoReply =>
          userRevision <= reply[p].rev /\ file.rev <= reply[p].rev
    /\ \A p \in Proc : pc[p] = "rename" => tmp.rev = userRevision
    /\ pc[Boot] \notin {"load", "warm", "cold", "list"} /\ userDeltaSupported =>
          file.rev <= userRevision

\* At the beginning there is no answer and no file.
LEMMA OrderInit == Init => OrderInv
  BY ConstantsAssumption DEF Init, OrderInv, Proc, Boot

\* The start leaves the phase in which it asks with an answer only.
LEMMA BootLeaves ==
    ASSUME TypeOK, [Next]_vars,
           pc[Boot] \in {"load", "warm", "cold", "list"},
           pc'[Boot] \notin {"load", "warm", "cold", "list"}
    PROVE  BootApplyDelta \/ BootApplyList
<1> DEFINE Goal == BootApplyDelta \/ BootApplyList
<1> SUFFICES Goal
  OBVIOUS
<1>ids. Boot \in Proc /\ Boot \notin Syncer /\ Syncer \subseteq Proc
  BY ConstantsAssumption DEF Proc, Boot
<1>1. ASSUME NEW p \in Syncer, Lock(p) \/ SyncStep(p) \/ RequestFails(p)
                               \/ SaveFails(p) \/ ApplyFails(p)
      PROVE  FALSE
  <2>1. pc'[Boot] = pc[Boot]
    BY <1>1, <1>ids
       DEF TypeOK, Lock, SyncStep, Ask, GetFull, GetDelta, DeltaNotSupported,
           NotModified, ApplyFull, ApplyDelta, ApplyList, Save, SaveOpen, SaveWrite,
           SaveRename, AfterSave, ApplyUpdatedUsers, RemoveUser, ForgetUser,
           UsersDeleted, AddUsers, AddUserIDs, AddUser, UpdateLimiter, RequestFails,
           SaveFails, ApplyFails, Return, Goto
  <2> QED BY <2>1
<1>2. CASE BootStep
  BY <1>2, <1>ids
     DEF TypeOK, BootStep, LoadState, Ask, GetFull, GetDelta, DeltaNotSupported,
         Save, SaveOpen, SaveWrite, SaveRename, Activate, AddUsers, AddUserIDs,
         AddUser, Started, StartWithoutUsers, Goto
<1>3. ~(Crash \/ WarmRequestFails \/ StartFails \/ SaveFails(Boot))
  BY <1>ids DEF TypeOK, Crash, WarmRequestFails, StartFails, SaveFails, Fresh, Goto
<1>4. \A u \in Uuid, i \in Info \cup {NoUser} : ~PanelChange(u, i)
  BY DEF PanelChange
<1>5. ~UNCHANGED vars
  BY DEF vars
<1> QED BY <1>1, <1>2, <1>3, <1>4, <1>5 DEF Next, FaultStep

\* Every step keeps it.
LEMMA OrderNext ==
    ASSUME TypeOK, TypeOK', ControlInv, SnapshotInv, OrderInv, [Next]_vars
    PROVE  OrderInv'
<1> USE ConstantsAssumption
<1>ids. Boot \in Proc /\ Boot \notin Syncer /\ Syncer \subseteq Proc
  BY DEF Proc, Boot
<1>int. /\ rev \in 1 .. MaxRev /\ userRevision \in 0 .. MaxRev /\ userRevision <= rev
        /\ file.rev \in Int /\ file.rev <= rev
  BY DEF TypeOK, SnapshotInv, ListInv, FileInv, GoodState, NoFile, Saved
<1>replies. ASSUME NEW q \in Proc, reply'[q] # NoReply
            PROVE  userRevision' <= reply'[q].rev /\ file'.rev <= reply'[q].rev
  <2>1. CASE reply[q] # NoReply
    <3>1. /\ reply'[q] = reply[q] /\ file' = file /\ userRevision' = userRevision
      BY <1>replies, <2>1, PendingStays DEF SnapshotInv
    <3> QED BY <2>1, <3>1 DEF OrderInv
  <2>2. CASE reply[q] = NoReply
    <3>1. GetFull(q) \/ \E D, U \in SUBSET Uuid : GetDelta(q, D, U)
      BY <1>replies, <2>2, NewReply
    <3>2. reply'[q].rev = rev /\ file' = file /\ userRevision' = userRevision
      BY <3>1 DEF TypeOK, GetFull, GetDelta, diskVars, listVars
    <3> QED BY <3>2, <1>int
  <2> QED BY <2>1, <2>2
<1>rename. ASSUME NEW q \in Proc, pc'[q] = "rename" PROVE tmp'.rev = userRevision'
  <2>1. CASE SaveWrite(q)
    BY <2>1 DEF SaveWrite, listVars
  <2>2. CASE pc[q] = "rename" /\ tmp' = tmp
    <3>1. Running(q)
      BY <2>2 DEF Running
    <3>2. userRevision' = userRevision
      <4>1. ~Fresh
        BY <1>rename DEF Fresh
      <4>2. ASSUME NEW p \in Proc, Running(p) PROVE pc[p] = "rename"
        BY <2>2, <3>1, <4>2, Alone
      <4>3. ASSUME NEW p \in Syncer, ApplyFull(p) \/ ApplyDelta(p) \/ ApplyList(p)
            PROVE  FALSE
        BY <4>2, <4>3, <1>ids DEF ApplyFull, ApplyDelta, ApplyList, Running
      <4>4. ~BootApplyDelta /\ ~BootApplyList
        BY <4>2, <1>ids DEF BootApplyDelta, BootApplyList, Running
      <4>5. ASSUME NEW p \in Proc, DeltaNotSupported(p)
            PROVE  userRevision' = userRevision
        BY <4>5 DEF DeltaNotSupported
      <4> QED BY <4>1, <4>3, <4>4, <4>5, Frames DEF listVars
    <3> QED BY <2>2, <3>2 DEF OrderInv
  <2> QED BY <1>rename, <2>1, <2>2, BeforeRename
<1>list. ASSUME pc'[Boot] \notin {"load", "warm", "cold", "list"}, userDeltaSupported'
         PROVE  file'.rev <= userRevision'
  <2>1. CASE pc[Boot] \in {"load", "warm", "cold", "list"}
    <3>1. BootApplyDelta \/ BootApplyList
      BY <1>list, <2>1, BootLeaves
    <3>2. ~BootApplyList
      BY <1>list, <1>ids DEF BootApplyList, ControlInv
    <3>3. BootApplyDelta
      BY <3>1, <3>2
    <3>4. /\ userRevision' = reply[Boot].rev /\ file' = file /\ reply[Boot] # NoReply
      BY <3>3 DEF BootApplyDelta, diskVars
    <3> QED BY <3>4, <1>ids DEF OrderInv
  <2>2. CASE pc[Boot] \notin {"load", "warm", "cold", "list"}
    <3>1. ~Fresh
      BY <1>list, <1>ids DEF Fresh
    <3>2. ~BootApplyDelta /\ ~BootApplyList
      BY <2>2 DEF BootApplyDelta, BootApplyList
    <3>3. \A p \in Proc : ~DeltaNotSupported(p)
      BY <1>list, Zenon DEF DeltaNotSupported
    <3>4. ASSUME NEW p \in Syncer, ApplyFull(p) \/ ApplyDelta(p) \/ ApplyList(p)
          PROVE  file'.rev <= userRevision'
      <4>1. ~ApplyList(p)
        BY <1>list, <1>ids DEF ApplyList, ControlInv
      <4>2. /\ userRevision' = reply[p].rev /\ file' = file /\ reply[p] # NoReply
        BY <3>4, <4>1 DEF ApplyFull, ApplyDelta, diskVars, NoReply
      <4> QED BY <4>2, <1>ids DEF OrderInv
    <3>5. ASSUME UNCHANGED listVars PROVE file'.rev <= userRevision'
      <4>1. userRevision' = userRevision /\ userDeltaSupported' = userDeltaSupported
        BY <3>5 DEF listVars
      <4>2. file.rev <= userRevision
        BY <1>list, <2>2, <4>1 DEF OrderInv
      <4>3. ASSUME NEW p \in Proc, SaveRename(p) PROVE file'.rev <= userRevision'
        <5>1. file' = tmp /\ tmp.rev = userRevision
          BY <4>3 DEF SaveRename, OrderInv
        <5> QED BY <5>1, <4>1, <1>int
      <4> QED BY <4>1, <4>2, <4>3, Frames
    <3> QED BY <3>1, <3>2, <3>3, <3>4, <3>5, Frames
  <2> QED BY <2>1, <2>2
<1> QED BY <1>replies, <1>rename, <1>list DEF OrderInv

\* The revision in the state file never goes back, over syncs that fail, crashes
\* and restarts: no late answer is saved over a newer one.
THEOREM RevisionGrows == Spec => SavedRevisionGrows
<1> DEFINE IInv == TypeOK /\ ControlInv /\ SnapshotInv /\ OrderInv
<1>1. Init => IInv
  BY TypeInit, ControlInit, SnapshotInit, OrderInit
<1>2. IInv /\ [Next]_vars => IInv'
  BY TypeNext, ControlNext, SnapshotNext, OrderNext
<1>3. IInv /\ [Next]_vars => [file'.rev >= file.rev]_vars
  <2> SUFFICES ASSUME IInv, [Next]_vars PROVE file'.rev >= file.rev
    OBVIOUS
  <2>1. file.rev \in Int /\ userRevision \in Int
    BY DEF TypeOK, NoFile, Torn, Saved
  <2>2. ASSUME NEW p \in Proc, SaveRename(p) PROVE file'.rev >= file.rev
    <3>1. file' = tmp /\ tmp.rev = userRevision
      BY <2>2 DEF SaveRename, OrderInv
    <3>2. userDeltaSupported
      BY <2>2 DEF SaveRename, ControlInv, DeltaLocation
    <3>3. pc[Boot] \notin {"load", "warm", "cold", "list"}
      <4>1. Running(p) /\ Boot \in Proc
        BY <2>2 DEF SaveRename, Running, Proc
      <4>2. Running(Boot) => p = Boot
        BY <4>1, Alone
      <4> QED BY <2>2, <4>2 DEF SaveRename, Running
    <3> QED BY <2>1, <3>1, <3>2, <3>3 DEF OrderInv
  <2> QED BY <2>1, <2>2, Frames
<1> QED BY <1>1, <1>2, <1>3, PTL DEF Spec, SavedRevisionGrows

-----------------------------------------------------------------------------
(* Between two syncs the core and the limiter hold the controller's list.  *)

\* Core and limiter agree with the controller's list on the uuid u.
Synced(u) ==
    /\ uidMap[u] = userList[u] /\ limits[u] = userList[u]
    /\ u \in proxy <=> userList[u] # NoUser

\* The uuids that are still to be brought in are those deleted and added.
AfterUpdate(j, u) ==
    /\ u \notin j.del \cup j.add => Synced(u)
    /\ u \in j.del \ j.add => userList[u] = NoUser

Gone(u) == u \notin proxy /\ uidMap[u] = NoUser

\* How far the sync p has brought the core and the limiter.
SyncProgress(p) ==
    LET j == job[p] IN
    /\ pc[p] \in {"delta", "list"} => \A u \in Uuid : Synced(u)
    /\ pc[p] \in {"save", "write", "rename", "update"} =>
         \A u \in Uuid :
            /\ u \notin j.del \cup j.add \cup j.upd => Synced(u)
            /\ u \in j.upd => u \in proxy /\ u \notin j.del \cup j.add
            /\ u \in j.del \ j.add => userList[u] = NoUser
    /\ pc[p] \in {"delete", "forget"} =>
         /\ j.todo \subseteq j.del
         /\ pc[p] = "forget" => j.cur \subseteq j.todo
         /\ \A u \in Uuid :
              AfterUpdate(j, u) /\ (u \in j.del \ j.todo => Gone(u))
    /\ pc[p] = "addIDs" =>
         \A u \in Uuid : AfterUpdate(j, u) /\ (u \in j.del => Gone(u))
    /\ pc[p] = "addUsers" =>
         /\ j.todo \subseteq j.add
         /\ \A u \in Uuid :
              /\ AfterUpdate(j, u)
              /\ u \in j.del \ j.add => Gone(u)
              /\ u \in j.add => uidMap[u] = userList[u]
              /\ u \in j.add \ j.todo => u \in proxy

\* How far the start has brought them.
BootProgress ==
    /\ pc[Boot] \in {"load", "warm", "cold", "list", "save", "write", "rename",
                     "activate", "addIDs"} => uidMap = Empty /\ proxy = {}
    /\ pc[Boot] \in {"addIDs", "addUsers"} => limits = userList
    /\ pc[Boot] = "addIDs" => job[Boot].add = Users(userList)
    /\ pc[Boot] = "addUsers" =>
          uidMap = userList /\ proxy \cup job[Boot].todo = Users(userList)

\* Unless an apply step failed, whoever runs is in the middle of bringing the core
\* and the limiter to the list, and if nobody runs they are there.
AppliedInv ==
    /\ pc[Boot] # "up" => BootProgress
    /\ (pc[Boot] = "up" /\ ~diverged) =>
          /\ lock = "free" => \A u \in Uuid : Synced(u)
          /\ \A p \in Syncer : lock = p => SyncProgress(p)

\* The process starts with nothing.
LEMMA AppliedInit == Init => AppliedInv
  BY ConstantsAssumption DEF Init, AppliedInv, BootProgress, Proc, Boot

\* What is known while syncer q runs.
LEMMA SyncNow ==
    ASSUME ControlInv, AppliedInv, NEW q \in Syncer, pc[q] # "idle"
    PROVE  /\ lock = q /\ pc[Boot] = "up"
           /\ ~diverged => SyncProgress(q)
<1>1. lock = q /\ pc[Boot] = "up"
  BY ConstantsAssumption DEF ControlInv
<1> QED BY <1>1 DEF AppliedInv

\* What a step of the running syncer q has to establish.
LEMMA SyncFrame ==
    ASSUME ControlInv, AppliedInv, NEW q \in Syncer, pc[q] # "idle",
           pc'[Boot] = pc[Boot],
           ~diverged' =>
              \/ lock' = q /\ SyncProgress(q)'
              \/ lock' = "free" /\ \A u \in Uuid : Synced(u)'
    PROVE  AppliedInv'
<1>1. pc'[Boot] = "up"
  BY SyncNow
<1>2. q # "free"
  BY ConstantsAssumption
<1>3. ASSUME ~diverged', lock' = "free" PROVE \A u \in Uuid : Synced(u)'
  BY <1>2, <1>3
<1>4. ASSUME ~diverged', NEW p \in Syncer, lock' = p PROVE SyncProgress(p)'
  BY <1>4, ConstantsAssumption
<1> QED BY <1>1, <1>3, <1>4 DEF AppliedInv

\* The list operations and the differences they report fit together: a uuid in no
\* difference is as before, an updated one was and is listed, a deleted one that is
\* not added again has left.
LEMMA DeltaExact ==
    ASSUME NEW old \in Table, NEW new \in Table, NEW D \in SUBSET Uuid,
           NEW U \in SUBSET Uuid, NEW u \in Uuid
    PROVE  LET j == DeltaJob(old, D, U)
               l == ApplyUserDelta(old, new, D, U)
           IN  /\ u \notin j.del \cup j.add \cup j.upd => l[u] = old[u]
               /\ u \in j.upd => u \in Users(old) /\ u \notin j.del \cup j.add
               /\ u \in j.del \ j.add => l[u] = NoUser
<1>1. /\ DeltaJob(old, D, U).del = D \cap Users(old)
      /\ DeltaJob(old, D, U).add = U \ (Users(old) \ D)
      /\ DeltaJob(old, D, U).upd = U \cap (Users(old) \ D)
  BY DEF DeltaJob, Diff
<1>2. ApplyUserDelta(old, new, D, U)[u] =
         IF u \in U THEN new[u] ELSE IF u \in D THEN NoUser ELSE old[u]
  BY DEF ApplyUserDelta
<1>3. u \in Users(old) <=> old[u] # NoUser
  BY DEF Users
<1> QED BY <1>1, <1>2, <1>3

\* The same of the differences compareUserList finds between two lists.
LEMMA CompareExact ==
    ASSUME NEW old \in Table, NEW new \in Table, NEW u \in Uuid
    PROVE  LET j == CompareUserList(old, new)
           IN  /\ u \notin j.del \cup j.add \cup j.upd => new[u] = old[u]
               /\ u \in j.upd => u \in Users(old) /\ u \notin j.del \cup j.add
               /\ u \in j.del \ j.add => new[u] = NoUser
<1>1. /\ CompareUserList(old, new).del = Users(old) \ Users(new)
      /\ CompareUserList(old, new).add = Users(new) \ Users(old)
      /\ CompareUserList(old, new).upd =
            {v \in Users(old) \cap Users(new) : old[v] # new[v]}
  BY DEF CompareUserList, Diff
<1>2. \A t \in Table : u \in Users(t) <=> t[u] # NoUser
  BY DEF Users
<1> QED BY <1>1, <1>2

\* Applying an answer to the list: what is not in the differences stays applied.
LEMMA AppliedByAnswer ==
    ASSUME TypeOK, TypeOK', ControlInv, SnapshotInv, AppliedInv,
           NEW q \in Syncer, ApplyFull(q) \/ ApplyDelta(q) \/ ApplyList(q)
    PROVE  AppliedInv'
<1>ids. q \in Proc /\ q # Boot /\ Boot \in Proc
  BY ConstantsAssumption DEF Proc, Boot
<1>1. /\ pc[q] \in {"delta", "list"} /\ pc'[q] \in {"save", "update"}
      /\ pc'[Boot] = pc[Boot]
      /\ UNCHANGED <<lock, uidMap, limits, proxy, diverged>>
  BY <1>ids DEF TypeOK, ApplyFull, ApplyDelta, ApplyList, Goto, coreVars
<1>2. /\ reply[q] \in Reply /\ userList \in Table /\ snap[reply[q].rev] \in Table
      /\ reply[q].del \in SUBSET Uuid /\ reply[q].ups \in SUBSET Uuid
  BY <1>ids DEF TypeOK, Reply
<1>3. \/ /\ userList' = userList /\ job'[q] = NoJob
      \/ /\ userList' = snap[reply[q].rev]
         /\ job'[q] = CompareUserList(userList, snap[reply[q].rev])
      \/ /\ userList' = ApplyUserDelta(userList, snap[reply[q].rev], reply[q].del,
                                       reply[q].ups)
         /\ job'[q] = DeltaJob(userList, reply[q].del, reply[q].ups)
  BY <1>ids DEF TypeOK, ApplyFull, ApplyDelta, ApplyList
<1>4. ASSUME ~diverged' PROVE SyncProgress(q)'
  <2>1. \A u \in Uuid : Synced(u)
    BY <1>1, <1>4, SyncNow DEF SyncProgress
  <2>2. ASSUME NEW u \in Uuid
        PROVE  LET j == job'[q] IN
               /\ u \notin j.del \cup j.add \cup j.upd => Synced(u)'
               /\ u \in j.upd => u \in proxy' /\ u \notin j.del \cup j.add
               /\ u \in j.del \ j.add => userList'[u] = NoUser
    <3>1. /\ u \notin job'[q].del \cup job'[q].add \cup job'[q].upd
                => userList'[u] = userList[u]
          /\ u \in job'[q].upd
                => u \in Users(userList) /\ u \notin job'[q].del \cup job'[q].add
          /\ u \in job'[q].del \ job'[q].add => userList'[u] = NoUser
      <4>1. CASE userList' = userList /\ job'[q] = NoJob
        BY <4>1 DEF NoJob, Diff
      <4> DEFINE new == snap[reply[q].rev]
      <4>2. CASE /\ userList' = new
                 /\ job'[q] = CompareUserList(userList, new)
        <5>1. LET j == CompareUserList(userList, new)
              IN  /\ u \notin j.del \cup j.add \cup j.upd => new[u] = userList[u]
                  /\ u \in j.upd => u \in Users(userList) /\ u \notin j.del \cup j.add
                  /\ u \in j.del \ j.add => new[u] = NoUser
          BY <1>2, CompareExact
        <5> QED BY <4>2, <5>1
      <4>3. CASE /\ userList' = ApplyUserDelta(userList, new, reply[q].del, reply[q].ups)
                 /\ job'[q] = DeltaJob(userList, reply[q].del, reply[q].ups)
        <5> DEFINE l == ApplyUserDelta(userList, new, reply[q].del, reply[q].ups)
        <5>1. LET j == DeltaJob(userList, reply[q].del, reply[q].ups)
              IN  /\ u \notin j.del \cup j.add \cup j.upd => l[u] = userList[u]
                  /\ u \in j.upd => u \in Users(userList) /\ u \notin j.del \cup j.add
                  /\ u \in j.del \ j.add => l[u] = NoUser
          BY <1>2, DeltaExact
        <5> QED BY <4>3, <5>1
      <4> QED BY <4>1, <4>2, <4>3, <1>3
    <3>2. Synced(u)
      BY <2>1
    <3> QED BY <3>1, <3>2, <1>1 DEF Synced, Users
  <2> QED BY <2>2, <1>1 DEF SyncProgress
<1>5. lock' = q
  BY <1>1, SyncNow
<1> QED BY <1>1, <1>4, <1>5, SyncFrame

\* Steps that leave list, core and limiter alone.
LEMMA AppliedKept ==
    ASSUME TypeOK, ControlInv, AppliedInv, NEW q \in Syncer, pc[q] # "idle",
           pc'[Boot] = pc[Boot],
           UNCHANGED <<userList, uidMap, limits, proxy, diverged, job>>,
           \/ /\ lock' = lock
              /\ \/ pc[q] = "delta" /\ pc'[q] \in {"delta", "list"}
                 \/ pc[q] = "list" /\ pc'[q] = "list"
                 \/ /\ pc[q] \in {"save", "write", "rename"}
                    /\ pc'[q] \in {"write", "rename", "update"}
                 \/ pc[q] = "delete" /\ pc'[q] = "addIDs" /\ job[q].todo = {}
           \/ lock' = "free" /\ pc[q] \in {"delta", "list"}
    PROVE  AppliedInv'
<1>1. ASSUME ~diverged PROVE SyncProgress(q)
  BY <1>1, SyncNow
<1>2. ASSUME NEW u \in Uuid PROVE (Synced(u)' <=> Synced(u)) /\ (Gone(u)' <=> Gone(u))
  BY DEF Synced, Gone
<1>3. ASSUME NEW u \in Uuid PROVE AfterUpdate(job[q], u)' <=> AfterUpdate(job[q], u)
  BY <1>2 DEF AfterUpdate
<1>4. CASE lock' = lock
  <2>1. ASSUME ~diverged PROVE SyncProgress(q)'
    <3>1. SyncProgress(q)
      BY <1>1, <2>1
    <3>2. CASE pc[q] \in {"delta", "list"}
      BY <3>1, <3>2, <1>2, <1>4, SyncNow, ConstantsAssumption DEF SyncProgress
    <3>3. CASE pc[q] \in {"save", "write", "rename"}
      BY <3>1, <3>3, <1>2, <1>4, SyncNow, ConstantsAssumption DEF SyncProgress
    <3>4. CASE pc[q] = "delete"
      BY <3>1, <3>4, <1>2, <1>3, <1>4, SyncNow, ConstantsAssumption DEF SyncProgress
    <3> QED BY <3>2, <3>3, <3>4, <1>4, SyncNow, ConstantsAssumption
  <2>2. lock' = q
    BY <1>4, SyncNow
  <2> QED BY <2>1, <2>2, SyncFrame
<1>5. CASE lock' = "free" /\ pc[q] \in {"delta", "list"}
  <2>1. ASSUME ~diverged PROVE \A u \in Uuid : Synced(u)'
    BY <1>1, <1>2, <1>5, <2>1 DEF SyncProgress
  <2> QED BY <1>5, <2>1, SyncFrame
<1> QED BY <1>4, <1>5

\* Every push of a sync brings core and limiter one step closer.
LEMMA AppliedByPush ==
    ASSUME TypeOK, TypeOK', ControlInv, JobInv, AppliedInv, NEW q \in Syncer,
           \/ ApplyUpdatedUsers(q) \/ ForgetUser(q)
           \/ \E u \in Uuid : RemoveUser(q, u)
           \/ AddUsers(q) \/ UpdateLimiter(q)
    PROVE  AppliedInv'
<1>ids. q \in Proc /\ q # Boot /\ Boot \in Proc
  BY ConstantsAssumption DEF Proc, Boot
<1>ty. /\ job[q] \in Job /\ uidMap \in Table /\ userList \in Table /\ limits \in Table
       /\ JobOf(q)
  BY <1>ids DEF TypeOK, JobInv
<1>1. /\ pc[q] # "idle" /\ pc'[Boot] = pc[Boot]
      /\ UNCHANGED <<userList, diverged>>
  BY <1>ids DEF TypeOK, ApplyUpdatedUsers, ForgetUser, RemoveUser, AddUsers,
     AddUserIDs, AddUser, UpdateLimiter, Return, Goto, listVars
<1>2. lock = q
  BY <1>1, SyncNow
<1>old. ASSUME ~diverged' PROVE SyncProgress(q)
  BY <1>1, <1>old, SyncNow
<1>update. CASE ApplyUpdatedUsers(q)
  <2>1. /\ pc[q] = "update" /\ pc'[q] = "delete" /\ lock' = lock /\ proxy' = proxy
        /\ limits' = Refresh(limits, job[q].upd) /\ uidMap' = Refresh(uidMap, job[q].upd)
        /\ job'[q].del = job[q].del /\ job'[q].add = job[q].add
        /\ job'[q].todo = job[q].del
    BY <1>update, <1>ids, <1>ty DEF TypeOK, ApplyUpdatedUsers, Goto, Job
  <2>2. ASSUME ~diverged', NEW u \in Uuid PROVE AfterUpdate(job[q], u)'
    <3>1. /\ u \notin job[q].del \cup job[q].add \cup job[q].upd => Synced(u)
          /\ u \in job[q].upd => u \in proxy /\ u \notin job[q].del \cup job[q].add
          /\ u \in job[q].del \ job[q].add => userList[u] = NoUser
      BY <2>1, <2>2, <1>old DEF SyncProgress
    <3>2. /\ limits'[u] = IF u \in job[q].upd THEN userList[u] ELSE limits[u]
          /\ uidMap'[u] = IF u \in job[q].upd THEN userList[u] ELSE uidMap[u]
      BY <2>1 DEF Refresh
    <3>3. u \in job[q].upd => userList[u] # NoUser
      BY <1>ty DEF JobOf, Users
    <3> QED BY <3>1, <3>2, <3>3, <2>1, <1>1 DEF AfterUpdate, Synced
  <2>3. ASSUME ~diverged' PROVE SyncProgress(q)'
    BY <2>1, <2>2, <2>3 DEF SyncProgress
  <2> QED BY <1>1, <1>2, <2>1, <2>3, SyncFrame
<1>remove. ASSUME NEW v \in Uuid, RemoveUser(q, v) PROVE AppliedInv'
  <2>1. /\ pc[q] = "delete" /\ pc'[q] = "forget" /\ lock' = lock /\ v \in job[q].todo
        /\ proxy' = proxy \ {v} /\ limits' = limits /\ uidMap' = uidMap
        /\ job'[q].del = job[q].del /\ job'[q].add = job[q].add
        /\ job'[q].todo = job[q].todo /\ job'[q].cur = {v}
    BY <1>remove, <1>ids, <1>ty DEF TypeOK, RemoveUser, Goto, Job
  <2>2. ASSUME ~diverged'
        PROVE  job[q].todo \subseteq job[q].del
    BY <2>1, <2>2, <1>old DEF SyncProgress
  <2>3. ASSUME ~diverged', NEW u \in Uuid
        PROVE  /\ AfterUpdate(job[q], u)'
               /\ u \in job[q].del \ job[q].todo => Gone(u)'
    <3>1. AfterUpdate(job[q], u) /\ (u \in job[q].del \ job[q].todo => Gone(u))
      BY <2>1, <2>3, <1>old DEF SyncProgress
    <3> QED BY <3>1, <2>1, <2>2, <2>3, <1>1 DEF AfterUpdate, Synced, Gone
  <2>4. ASSUME ~diverged' PROVE SyncProgress(q)'
    BY <2>1, <2>2, <2>3, <2>4 DEF SyncProgress
  <2> QED BY <1>1, <1>2, <2>1, <2>4, SyncFrame
<1>forget. CASE ForgetUser(q)
  <2>1. /\ pc[q] = "forget" /\ pc'[q] = "delete" /\ lock' = lock
        /\ proxy' = proxy /\ limits' = limits /\ uidMap' = Drop(uidMap, job[q].cur)
        /\ job'[q].del = job[q].del /\ job'[q].add = job[q].add
        /\ job'[q].todo = job[q].todo \ job[q].cur
    BY <1>forget, <1>ids, <1>ty DEF TypeOK, ForgetUser, Goto, Job
  <2>2. ASSUME ~diverged'
        PROVE  job[q].todo \subseteq job[q].del /\ job[q].cur \subseteq job[q].todo
    BY <2>1, <2>2, <1>old DEF SyncProgress
  <2>3. ASSUME ~diverged', NEW u \in Uuid
        PROVE  /\ AfterUpdate(job[q], u)'
               /\ u \in job[q].del \ (job[q].todo \ job[q].cur) => Gone(u)'
    <3>1. AfterUpdate(job[q], u) /\ (u \in job[q].del \ job[q].todo => Gone(u))
      BY <2>1, <2>3, <1>old DEF SyncProgress
    <3>2. uidMap'[u] = IF u \in job[q].cur THEN NoUser ELSE uidMap[u]
      BY <2>1 DEF Drop
    <3>3. u \in job[q].cur => u \notin proxy
      BY <2>1, <1>ty DEF JobOf
    <3> QED BY <3>1, <3>2, <3>3, <2>1, <2>2, <2>3, <1>1 DEF AfterUpdate, Synced, Gone
  <2>4. ASSUME ~diverged' PROVE SyncProgress(q)'
    BY <2>1, <2>2, <2>3, <2>4 DEF SyncProgress
  <2> QED BY <1>1, <1>2, <2>1, <2>4, SyncFrame
<1>ids2. CASE AddUserIDs(q)
  <2>1. /\ pc[q] = "addIDs" /\ pc'[q] = "addUsers" /\ lock' = lock
        /\ proxy' = proxy /\ limits' = limits /\ uidMap' = Refresh(uidMap, job[q].add)
        /\ job'[q].del = job[q].del /\ job'[q].add = job[q].add
        /\ job'[q].todo = job[q].add
    BY <1>ids2, <1>ids, <1>ty DEF TypeOK, AddUserIDs, Goto, Job
  <2>2. ASSUME ~diverged', NEW u \in Uuid
        PROVE  /\ AfterUpdate(job[q], u)'
               /\ u \in job[q].del \ job[q].add => Gone(u)'
               /\ u \in job[q].add => uidMap'[u] = userList'[u]
    <3>1. AfterUpdate(job[q], u) /\ (u \in job[q].del => Gone(u))
      BY <2>1, <2>2, <1>old DEF SyncProgress
    <3>2. uidMap'[u] = IF u \in job[q].add THEN userList[u] ELSE uidMap[u]
      BY <2>1 DEF Refresh
    <3> QED BY <3>1, <3>2, <2>1, <1>1 DEF AfterUpdate, Synced, Gone
  <2>3. ASSUME ~diverged' PROVE SyncProgress(q)'
    BY <2>1, <2>2, <2>3 DEF SyncProgress
  <2> QED BY <1>1, <1>2, <2>1, <2>3, SyncFrame
<1>add. ASSUME NEW v \in Uuid, AddUser(q, v) PROVE AppliedInv'
  <2>1. /\ pc[q] = "addUsers" /\ pc'[q] = "addUsers" /\ lock' = lock
        /\ v \in job[q].todo
        /\ proxy' = proxy \cup {v} /\ limits' = limits /\ uidMap' = uidMap
        /\ job'[q].del = job[q].del /\ job'[q].add = job[q].add
        /\ job'[q].todo = job[q].todo \ {v}
    BY <1>add, <1>ids, <1>ty DEF TypeOK, AddUser, Job
  <2>2. ASSUME ~diverged' PROVE job[q].todo \subseteq job[q].add
    BY <2>1, <2>2, <1>old DEF SyncProgress
  <2>3. ASSUME ~diverged', NEW u \in Uuid
        PROVE  /\ AfterUpdate(job[q], u)'
               /\ u \in job[q].del \ job[q].add => Gone(u)'
               /\ u \in job[q].add => uidMap'[u] = userList'[u]
               /\ u \in job[q].add \ (job[q].todo \ {v}) => u \in proxy'
    <3>1. /\ AfterUpdate(job[q], u)
          /\ u \in job[q].del \ job[q].add => Gone(u)
          /\ u \in job[q].add => uidMap[u] = userList[u]
          /\ u \in job[q].add \ job[q].todo => u \in proxy
      BY <2>1, <2>3, <1>old DEF SyncProgress
    <3> QED BY <3>1, <2>1, <2>2, <2>3, <1>1 DEF AfterUpdate, Synced, Gone
  <2>4. ASSUME ~diverged' PROVE SyncProgress(q)'
    BY <2>1, <2>2, <2>3, <2>4 DEF SyncProgress
  <2> QED BY <1>1, <1>2, <2>1, <2>4, SyncFrame
<1>limiter. CASE UpdateLimiter(q)
  <2>1. /\ pc[q] = "addUsers" /\ job[q].todo = {} /\ lock' = "free"
        /\ limits' = Refresh(Drop(limits, job[q].del), job[q].add)
        /\ uidMap' = uidMap /\ proxy' = proxy
    BY <1>limiter DEF UpdateLimiter, Return
  <2>2. ASSUME ~diverged', NEW u \in Uuid PROVE Synced(u)'
    <3>1. /\ AfterUpdate(job[q], u)
          /\ u \in job[q].del \ job[q].add => Gone(u)
          /\ u \in job[q].add => uidMap[u] = userList[u] /\ u \in proxy
      BY <2>1, <2>2, <1>old DEF SyncProgress
    <3>2. limits'[u] = IF u \in job[q].add THEN userList[u]
                       ELSE IF u \in job[q].del THEN NoUser ELSE limits[u]
      BY <2>1 DEF Refresh, Drop
    <3>3. u \in job[q].add => userList[u] # NoUser
      BY <1>ty DEF JobOf, Users
    <3> QED BY <3>1, <3>2, <3>3, <2>1, <1>1 DEF AfterUpdate, Synced, Gone
  <2> QED BY <1>1, <2>1, <2>2, SyncFrame
<1> QED BY <1>update, <1>remove, <1>forget, <1>ids2, <1>add, <1>limiter DEF AddUsers

\* Every step keeps AppliedInv.
LEMMA AppliedNext ==
    ASSUME TypeOK, TypeOK', ControlInv, SnapshotInv, JobInv, AppliedInv, [Next]_vars
    PROVE  AppliedInv'
<1> USE ConstantsAssumption
<1>ids. Boot \in Proc /\ Boot \notin Syncer /\ Syncer \subseteq Proc
  BY DEF Proc, Boot
<1>still. ASSUME UNCHANGED <<listVars, lock, pc, job, coreVars, diverged>>
          PROVE  AppliedInv'
  <2>1. ASSUME NEW u \in Uuid PROVE (Synced(u)' <=> Synced(u)) /\ (Gone(u)' <=> Gone(u))
    BY <1>still DEF Synced, Gone, listVars, coreVars
  <2>2. BootProgress' <=> BootProgress
    BY <1>still DEF BootProgress, Users, listVars, coreVars
  <2>3. ASSUME NEW p \in Syncer PROVE SyncProgress(p)' <=> SyncProgress(p)
    <3>1. ASSUME NEW u \in Uuid PROVE AfterUpdate(job[p], u)' <=> AfterUpdate(job[p], u)
      BY <2>1, <1>still DEF AfterUpdate, listVars
    <3> QED BY <2>1, <3>1, <1>still DEF SyncProgress, listVars, coreVars
  <2> QED BY <2>1, <2>2, <2>3, <1>still DEF AppliedInv
<1>fresh. ASSUME Fresh PROVE AppliedInv'
  BY <1>fresh, <1>ids DEF Fresh, AppliedInv, BootProgress
<1>lock. ASSUME NEW q \in Syncer, Lock(q) PROVE AppliedInv'
  <2>1. /\ lock = "free" /\ lock' = q /\ pc[Boot] = "up" /\ pc'[Boot] = "up"
        /\ pc'[q] \in {"delta", "list"}
        /\ UNCHANGED <<userList, uidMap, limits, proxy, diverged>>
    BY <1>lock, <1>ids DEF TypeOK, Lock, Goto, listVars, coreVars
  <2>2. ASSUME ~diverged' PROVE SyncProgress(q)'
    <3>1. \A u \in Uuid : Synced(u)
      BY <2>1, <2>2 DEF AppliedInv
    <3>2. \A u \in Uuid : Synced(u)'
      BY <2>1, <3>1 DEF Synced
    <3> QED BY <2>1, <3>2 DEF SyncProgress
  <2> QED BY <2>1, <2>2 DEF AppliedInv
<1>quiet. ASSUME NEW q \in Syncer,
                 \/ Ask(q) \/ Save(q) \/ SaveFails(q) \/ UsersDeleted(q)
                 \/ NotModified(q) \/ RequestFails(q)
          PROVE  AppliedInv'
  <2>1. CASE Ask(q)
    <3>1. CASE DeltaNotSupported(q)
      <4>1. pc[q] = "delta"
        BY <3>1 DEF DeltaNotSupported, AskingDelta, ControlInv, SyncLocation
      <4>2. /\ pc'[q] = "list" /\ pc'[Boot] = pc[Boot] /\ lock' = lock
            /\ UNCHANGED <<userList, uidMap, limits, proxy, diverged, job>>
        BY <3>1, <1>ids DEF TypeOK, DeltaNotSupported, Goto, coreVars
      <4> QED BY <4>1, <4>2, AppliedKept
    <3>2. CASE ~DeltaNotSupported(q)
      <4>1. UNCHANGED <<listVars, lock, pc, job, coreVars, diverged>>
        BY <2>1, <3>2 DEF Ask, GetFull, GetDelta
      <4> QED BY <4>1, <1>still
    <3> QED BY <3>1, <3>2
  <2>2. CASE Save(q) \/ SaveFails(q)
    <3>1. /\ pc[q] \in {"save", "write", "rename"}
          /\ pc'[q] \in {"write", "rename", "update"}
          /\ pc'[Boot] = pc[Boot] /\ lock' = lock
          /\ UNCHANGED <<userList, uidMap, limits, proxy, diverged, job>>
      BY <2>2, <1>ids DEF TypeOK, Save, SaveOpen, SaveWrite, SaveRename, SaveFails,
                          AfterSave, Goto, listVars, coreVars
    <3> QED BY <3>1, AppliedKept
  <2>3. CASE UsersDeleted(q)
    <3>1. /\ pc[q] = "delete" /\ pc'[q] = "addIDs" /\ job[q].todo = {}
          /\ pc'[Boot] = pc[Boot] /\ lock' = lock
          /\ UNCHANGED <<userList, uidMap, limits, proxy, diverged, job>>
      BY <2>3, <1>ids DEF TypeOK, UsersDeleted, Goto, listVars, coreVars
    <3> QED BY <3>1, AppliedKept
  <2>4. CASE NotModified(q) \/ RequestFails(q)
    <3>1. /\ pc[q] \in {"delta", "list"} /\ lock' = "free" /\ pc'[Boot] = pc[Boot]
          /\ UNCHANGED <<userList, uidMap, limits, proxy, diverged, job>>
      BY <2>4, <1>ids DEF TypeOK, NotModified, RequestFails, Return, Goto, listVars,
                          coreVars
    <3> QED BY <3>1, AppliedKept
  <2> QED BY <1>quiet, <2>1, <2>2, <2>3, <2>4
<1>fails. ASSUME NEW q \in Syncer, ApplyFails(q) PROVE AppliedInv'
  <2>1. pc[q] # "idle" /\ pc'[Boot] = pc[Boot] /\ diverged'
    BY <1>fails, <1>ids DEF TypeOK, ApplyFails, Return, Goto
  <2> QED BY <2>1, SyncFrame
<1>boot. ASSUME pc[Boot] # "up", pc'[Boot] # "up", BootProgress' PROVE AppliedInv'
  BY <1>boot DEF AppliedInv
<1>prepare. ASSUME LoadState \/ WarmRequestFails \/ BootApplyDelta \/ BootApplyList
                   \/ Ask(Boot) \/ Save(Boot) \/ SaveFails(Boot)
            PROVE  AppliedInv'
  <2> DEFINE Early == {"load", "warm", "cold", "list", "save", "write", "rename",
                       "activate"}
  <2>1. pc[Boot] \in Early
    BY <1>prepare, <1>ids
       DEF LoadState, WarmRequestFails, BootApplyDelta, BootApplyList, Ask, GetFull,
           GetDelta, DeltaNotSupported, AskingDelta, Save, SaveOpen, SaveWrite,
           SaveRename, SaveFails, ControlInv, BootLocation
  <2>2. pc'[Boot] \in Early /\ UNCHANGED <<uidMap, proxy>>
    BY <1>prepare, <1>ids, <2>1
       DEF TypeOK, LoadState, WarmRequestFails, BootApplyDelta, BootApplyList, Ask,
           GetFull, GetDelta, DeltaNotSupported, Save, SaveOpen, SaveWrite, SaveRename,
           SaveFails, AfterSave, Goto, coreVars
  <2>3. uidMap = Empty /\ proxy = {}
    BY <2>1 DEF AppliedInv, BootProgress
  <2>4. BootProgress'
    BY <2>2, <2>3 DEF BootProgress, Empty
  <2> QED BY <2>1, <2>2, <2>4, <1>boot
<1>activate. ASSUME Activate PROVE AppliedInv'
  <2>1. /\ pc[Boot] = "activate" /\ pc'[Boot] = "addIDs" /\ limits' = userList
        /\ job'[Boot] = Diff({}, Users(userList), {})
        /\ UNCHANGED <<userList, uidMap, proxy>>
    BY <1>activate, <1>ids DEF TypeOK, Activate, Goto, listVars
  <2>2. uidMap = Empty /\ proxy = {}
    BY <2>1 DEF AppliedInv, BootProgress
  <2>3. BootProgress'
    BY <2>1, <2>2 DEF BootProgress, Diff, Users, Empty
  <2> QED BY <2>1, <2>3, <1>boot
<1>add. ASSUME AddUsers(Boot) PROVE AppliedInv'
  <2>ty. /\ job[Boot] \in Job /\ uidMap \in Table /\ userList \in Table
         /\ userList' = userList /\ limits' = limits
    BY <1>add, <1>ids DEF TypeOK, AddUsers, AddUserIDs, AddUser, listVars
  <2>1. CASE AddUserIDs(Boot)
    <3>1. /\ pc[Boot] = "addIDs" /\ pc'[Boot] = "addUsers" /\ proxy' = proxy
          /\ uidMap' = Refresh(uidMap, job[Boot].add)
          /\ job'[Boot].todo = job[Boot].add
      BY <2>1, <1>ids, <2>ty DEF TypeOK, AddUserIDs, Goto, Job
    <3>2. /\ uidMap = Empty /\ proxy = {} /\ limits = userList
          /\ job[Boot].add = Users(userList)
      BY <3>1 DEF AppliedInv, BootProgress
    <3>3. uidMap' = userList
      <4>1. \A u \in Uuid : uidMap'[u] = userList[u]
        BY <3>1, <3>2 DEF Refresh, Users, Empty
      <4>2. /\ uidMap' = [u \in Uuid |-> uidMap'[u]]
            /\ userList = [u \in Uuid |-> userList[u]]
        BY DEF TypeOK, Table
      <4> QED BY <4>1, <4>2
    <3>4. BootProgress'
      BY <3>1, <3>2, <3>3, <2>ty DEF BootProgress, Users
    <3> QED BY <3>1, <3>4, <1>boot
  <2>2. ASSUME NEW v \in Uuid, AddUser(Boot, v) PROVE AppliedInv'
    <3>1. /\ pc[Boot] = "addUsers" /\ pc'[Boot] = "addUsers" /\ v \in job[Boot].todo
          /\ proxy' = proxy \cup {v} /\ uidMap' = uidMap
          /\ job'[Boot].todo = job[Boot].todo \ {v}
      BY <2>2, <1>ids, <2>ty DEF TypeOK, AddUser, Job
    <3>2. /\ uidMap = userList /\ limits = userList
          /\ proxy \cup job[Boot].todo = Users(userList)
      BY <3>1 DEF AppliedInv, BootProgress
    <3>3. BootProgress'
      BY <3>1, <3>2, <2>ty DEF BootProgress, Users
    <3> QED BY <3>1, <3>3, <1>boot
  <2> QED BY <1>add, <2>1, <2>2 DEF AddUsers
<1>started. ASSUME Started PROVE AppliedInv'
  <2>1. /\ pc[Boot] = "addUsers" /\ job[Boot].todo = {} /\ pc'[Boot] = "up"
        /\ UNCHANGED <<userList, uidMap, limits, proxy, lock>>
    BY <1>started, <1>ids DEF TypeOK, Started, Goto, listVars, coreVars
  <2>2. uidMap = userList /\ limits = userList /\ proxy = Users(userList)
    BY <2>1 DEF AppliedInv, BootProgress
  <2>3. \A u \in Uuid : Synced(u)'
    BY <2>1, <2>2 DEF Synced, Users
  <2>4. lock' = "free"
    BY <2>1 DEF ControlInv
  <2> QED BY <2>1, <2>3, <2>4 DEF AppliedInv
<1>panel. ASSUME NEW u \in Uuid, NEW i \in Info \cup {NoUser}, PanelChange(u, i)
          PROVE  AppliedInv'
  BY <1>panel, <1>still DEF PanelChange
<1>same. CASE UNCHANGED vars
  BY <1>same, <1>still DEF vars
<1>1. ASSUME NEW q \in Syncer, SyncStep(q) PROVE AppliedInv'
  BY <1>1, <1>quiet, AppliedByAnswer, AppliedByPush DEF SyncStep
<1>2. ASSUME BootStep PROVE AppliedInv'
  BY <1>2, <1>prepare, <1>activate, <1>add, <1>started, <1>fresh
     DEF BootStep, StartWithoutUsers
<1>3. ASSUME FaultStep PROVE AppliedInv'
  BY <1>3, <1>prepare, <1>quiet, <1>fails, <1>fresh DEF FaultStep, Crash, StartFails
<1> QED BY <1>panel, <1>same, <1>lock, <1>1, <1>2, <1>3 DEF Next

\* Whenever no sync runs, the core's uids, the users the proxy accepts and the
\* limiter are exactly the controller's list, unless an apply step failed since the
\* process started: for any number of users and any answers the panel gives.
THEOREM CoreFollowsList == Spec => []AppliedBetweenSyncs
<1> DEFINE IInv == TypeOK /\ ControlInv /\ SnapshotInv /\ JobInv /\ AppliedInv
<1>1. Init => IInv
  BY TypeInit, ControlInit, SnapshotInit, JobInit, AppliedInit
<1>2. IInv /\ [Next]_vars => IInv'
  BY TypeNext, ControlNext, SnapshotNext, JobNext, AppliedNext
<1>3. IInv => AppliedBetweenSyncs
  <2> SUFFICES ASSUME IInv, pc[Boot] = "up", lock = "free", ~diverged
               PROVE  uidMap = userList /\ limits = userList /\ proxy = Users(userList)
    BY DEF AppliedBetweenSyncs
  <2>1. \A u \in Uuid : Synced(u)
    BY DEF AppliedInv
  <2>2. /\ \A u \in Uuid : uidMap[u] = userList[u] /\ limits[u] = userList[u]
        /\ \A u \in Uuid : u \in proxy <=> userList[u] # NoUser
    BY <2>1 DEF Synced
  <2>3. /\ uidMap = [u \in Uuid |-> uidMap[u]] /\ limits = [u \in Uuid |-> limits[u]]
        /\ userList = [u \in Uuid |-> userList[u]] /\ proxy \subseteq Uuid
    BY DEF TypeOK, Table
  <2>4. proxy = Users(userList)
    BY <2>2, <2>3 DEF Users
  <2> QED BY <2>2, <2>3, <2>4
<1> QED BY <1>1, <1>2, <1>3, PTL DEF Spec
=============================================================================
