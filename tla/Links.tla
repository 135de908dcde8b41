------------------------------- MODULE Links --------------------------------
(***************************************************************************)
(* The connections of one user, and what becomes of them when the user is  *)
(* deleted.                                                                *)
(*                                                                         *)
(* getLink and DispatchLink register each connection in the user's         *)
(* LinkManager, which the first connection creates; DelUsers takes the     *)
(* user off the inbound, closes everything in the LinkManager and drops it *)
(* from the map.  Both sides use several steps and no common lock.         *)
(*                                                                         *)
(* A LinkManager holds one direction of a connection only.  getLink        *)
(* registers both ends of the uplink pipe.  DispatchLink registers the     *)
(* downlink's writer and a CounterReader, which has no Interrupt, so that  *)
(* its uplink is read on.  Once CloseAll has closed what is registered the *)
(* connection is "half": the other direction goes on until the handlers of *)
(* the core end the connection.                                            *)
(*                                                                         *)
(* Every step of the code is keyed by the user's email and DelUsers goes   *)
(* through its users one by one, so that one user stands for all.          *)
(***************************************************************************)
EXTENDS Integers, FiniteSets

CONSTANTS
    Link,       \* bound: connections at a time
    Manager,    \* bound: LinkManager objects
    NoManager,        \* no LinkManager
    MaxLife     \* bound: times the user is deleted and added again

ASSUME LinksAssumption ==
    NoManager \notin Manager /\ MaxLife \in Nat

VARIABLES
    proxy,      \* the inbound accepts the user
    known,      \* the limiter knows the user
    life,       \* number of times the user was deleted
    managers,   \* the user's entry of LinkManagers
    links,      \* LinkManager.links of each manager
    used,       \* managers that were created
    place,         \* where each connection is
    mine,       \* the LinkManager it holds
    since,      \* the life of the user it was authenticated in
    del,        \* where the sync's DelUsers and AddUsers are
    target,     \* the LinkManager that DelUsers closes
    batch,      \* the links CloseAll took and has not closed yet
    late,       \* history: connections registered when nobody would look
    orphans     \* history: managers another one was stored over

connVars == <<place, mine, since>>
delVars  == <<del, target, batch>>
userVars == <<proxy, known, life>>
linksVars == <<userVars, managers, links, used, connVars, delVars, late, orphans>>

-----------------------------------------------------------------------------
(* getLink and DispatchLink for connection c.                              *)

MoveOn(c, where) == place' = [place EXCEPT ![c] = where]

\* The inbound authenticates the connection.
Accept(c) ==
    /\ place[c] = "none" /\ proxy
    /\ MoveOn(c, "check")
    /\ since' = [since EXCEPT ![c] = life]
    /\ UNCHANGED <<userVars, managers, links, used, mine, delVars, late, orphans>>

\* CheckLimit lets it through: the limiter has to know the user.
CheckLimit(c) ==
    /\ place[c] = "check" /\ known
    /\ MoveOn(c, "load")
    /\ UNCHANGED <<userVars, managers, links, used, mine, since, delVars, late,
                   orphans>>

\* The limiter is gone, or CheckLimit rejects: an unknown user, or too many
\* devices.  The pipes are closed.
Reject(c) ==
    /\ place[c] = "check"
    /\ MoveOn(c, "closed")
    /\ UNCHANGED <<userVars, managers, links, used, mine, since, delVars, late,
                   orphans>>

\* LinkManagers.Load; without an entry a new LinkManager is made.
LoadManager(c) ==
    /\ place[c] = "load"
    /\ IF managers # NoManager
          THEN /\ MoveOn(c, "add")
               /\ mine' = [mine EXCEPT ![c] = managers]
               /\ UNCHANGED used
          ELSE \E m \in Manager \ used :
                  /\ MoveOn(c, "store")
                  /\ mine' = [mine EXCEPT ![c] = m]
                  /\ used' = used \cup {m}
    /\ UNCHANGED <<userVars, managers, links, since, delVars, late, orphans>>

\* LinkManagers.Store, whatever was stored in between.
StoreManager(c) ==
    /\ place[c] = "store"
    /\ managers' = mine[c]
    /\ orphans' = orphans \cup ({managers} \ {NoManager})
    /\ MoveOn(c, "add")
    /\ UNCHANGED <<userVars, links, used, mine, since, delVars, late>>

\* Nobody will close what is added to manager m now: DelUsers has seen it
\* empty, or has not found it, or the user was deleted before.
TooLate(c) ==
    \/ since[c] < life - 1
    \/ since[c] < life /\ \/ del \notin {"load", "closeAll", "closing"}
                          \/ del # "load" /\ target # mine[c]

\* AddLink.
AddLink(c) ==
    /\ place[c] = "add"
    /\ links' = [links EXCEPT ![mine[c]] = @ \cup {c}]
    /\ late' = IF TooLate(c) THEN late \cup {c} ELSE late
    /\ MoveOn(c, "open")
    /\ UNCHANGED <<userVars, managers, used, mine, since, delVars, orphans>>

\* ManagedWriter.Close.
CloseWriter(c) ==
    /\ MoveOn(c, "closed")
    /\ links' = [links EXCEPT ![mine[c]] = @ \ {c}]

\* The connection ends: routedDispatch finds no outbound, or the outbound
\* handler or the client is done.
EndLink(c) ==
    /\ place[c] \in {"open", "half"}
    /\ CloseWriter(c)
    /\ UNCHANGED <<userVars, managers, used, mine, since, delVars, late, orphans>>

\* A closed connection is forgotten and its place is free for another one.
Forget(c) ==
    /\ place[c] = "closed" /\ c \notin batch
    /\ MoveOn(c, "none")
    /\ mine' = [mine EXCEPT ![c] = NoManager]
    /\ since' = [since EXCEPT ![c] = 0]
    /\ late' = late \ {c}
    /\ UNCHANGED <<userVars, managers, links, used, delVars, orphans>>

\* The garbage collector takes a manager nobody refers to.
Collect(m) ==
    /\ m \in used /\ managers # m /\ target # m
    /\ \A c \in Link : mine[c] # m
    /\ used' = used \ {m}
    /\ orphans' = orphans \ {m}
    /\ UNCHANGED <<userVars, managers, links, connVars, delVars, late>>

-----------------------------------------------------------------------------
(* The sync: DelUsers, UpdateUser and AddUsers.                            *)

\* Faulty variant: the user stays on the inbound.
KeepUser ==
    /\ del = "idle" /\ proxy /\ known /\ life < MaxLife
    /\ life' = life + 1
    /\ del' = "load"
    /\ UNCHANGED <<proxy, known, managers, links, used, connVars, target, batch,
                   late, orphans>>

\* RemoveUser, the uid and the counter.
RemoveUser ==
    /\ del = "idle" /\ proxy /\ known /\ life < MaxLife
    /\ proxy' = FALSE
    /\ life' = life + 1
    /\ del' = "load"
    /\ UNCHANGED <<known, managers, links, used, connVars, target, batch, late,
                   orphans>>

LoadTarget ==
    /\ del = "load"
    /\ target' = managers
    /\ del' = IF managers = NoManager THEN "limiter" ELSE "closeAll"
    /\ UNCHANGED <<userVars, managers, links, used, connVars, batch, late, orphans>>

\* The head of CloseAll's loop: take all links, or return.
CloseAll ==
    /\ del = "closeAll"
    /\ IF links[target] = {}
          THEN del' = "drop" /\ UNCHANGED <<links, batch>>
          ELSE /\ batch' = links[target]
               /\ links' = [links EXCEPT ![target] = {}]
               /\ del' = "closing"
    /\ UNCHANGED <<userVars, managers, used, connVars, target, late, orphans>>

\* Close the writer and interrupt the reader of one link, unless it has ended:
\* that closes the direction the LinkManager holds and leaves the other one.
CloseOne(c) ==
    /\ del = "closing" /\ c \in batch
    /\ batch' = batch \ {c}
    /\ MoveOn(c, IF place[c] = "open" THEN "half" ELSE place[c])
    /\ links' = [links EXCEPT ![mine[c]] = @ \ {c}]
    /\ UNCHANGED <<userVars, managers, used, mine, since, del, target, late, orphans>>

\* Faulty variant: CloseAll makes one round only.
ClosedOnce ==
    /\ del = "closing" /\ batch = {}
    /\ del' = "drop"
    /\ UNCHANGED <<userVars, managers, links, used, connVars, target, batch, late,
                   orphans>>

ClosedBatch ==
    /\ del = "closing" /\ batch = {}
    /\ del' = "closeAll"
    /\ UNCHANGED <<userVars, managers, links, used, connVars, target, batch, late,
                   orphans>>

\* LinkManagers.Delete.
DropManager ==
    /\ del = "drop"
    /\ managers' = NoManager
    /\ target' = NoManager
    /\ del' = "limiter"
    /\ UNCHANGED <<userVars, links, used, connVars, batch, late, orphans>>

\* Limiter.UpdateUser, after the core.
ForgetLimits ==
    /\ del = "limiter"
    /\ known' = FALSE
    /\ del' = "idle"
    /\ UNCHANGED <<proxy, life, managers, links, used, connVars, target, batch,
                   late, orphans>>

\* A later sync adds the user again: the core first, then the limiter.
AddUsers ==
    /\ del = "idle" /\ ~proxy
    /\ proxy' = TRUE
    /\ UNCHANGED <<known, life, managers, links, used, connVars, delVars, late,
                   orphans>>

AddLimits ==
    /\ del = "idle" /\ proxy /\ ~known
    /\ known' = TRUE
    /\ UNCHANGED <<proxy, life, managers, links, used, connVars, delVars, late,
                   orphans>>

-----------------------------------------------------------------------------

LinksInit ==
    /\ proxy = TRUE /\ known = TRUE /\ life = 0
    /\ managers = NoManager /\ links = [m \in Manager |-> {}] /\ used = {}
    /\ place = [c \in Link |-> "none"] /\ mine = [c \in Link |-> NoManager]
    /\ since = [c \in Link |-> 0]
    /\ del = "idle" /\ target = NoManager /\ batch = {}
    /\ late = {} /\ orphans = {}

Dispatch(c) ==
    \/ CheckLimit(c) \/ Reject(c) \/ LoadManager(c) \/ StoreManager(c) \/ AddLink(c)
    \/ Forget(c)

Delete ==
    \/ LoadTarget \/ CloseAll \/ ClosedBatch \/ DropManager \/ ForgetLimits
    \/ \E c \in Link : CloseOne(c)

LinksNext ==
    \/ \E c \in Link : Accept(c) \/ Dispatch(c) \/ EndLink(c)
    \/ \E m \in Manager : Collect(m)
    \/ RemoveUser \/ Delete \/ AddUsers \/ AddLimits

LinksSpec == LinksInit /\ [][LinksNext]_linksVars

\* The goroutine of a connection and the sync run; no connection has to end.
FairLinksSpec ==
    /\ LinksSpec
    /\ WF_linksVars(Delete)
    /\ \A c \in Link : WF_linksVars(Dispatch(c))
    /\ \A m \in Manager : WF_linksVars(Collect(m))

-----------------------------------------------------------------------------
(* Properties.                                                             *)

\* Every variable has the shape the code gives it, and no code path uses a nil
\* LinkManager.
LinksTypeOK ==
    /\ proxy \in BOOLEAN /\ known \in BOOLEAN /\ life \in 0 .. MaxLife
    /\ managers \in Manager \cup {NoManager} /\ links \in [Manager -> SUBSET Link]
    /\ used \subseteq Manager
    /\ place \in [Link -> {"none", "check", "load", "store", "add", "open", "half",
                         "closed"}]
    /\ mine \in [Link -> Manager \cup {NoManager}] /\ since \in [Link -> 0 .. MaxLife]
    /\ del \in {"idle", "load", "closeAll", "closing", "drop", "limiter"}
    /\ target \in Manager \cup {NoManager} /\ batch \subseteq Link
    /\ late \subseteq Link /\ orphans \subseteq Manager
    /\ \A c \in Link : place[c] \in {"store", "add", "open", "half"}
                        => mine[c] # NoManager
    /\ del \in {"closeAll", "closing"} => target # NoManager

\* The deletion the connection was authenticated before is through with it, and
\* it carries data in both directions still.
Outlived(c) ==
    place[c] = "open" /\ since[c] < life
        /\ (since[c] < life - 1 \/ del \notin {"load", "closeAll", "closing"})

\* DelUsers leaves no connection of a deleted user whole, also none that
\* registers while CloseAll closes others: the direction that its LinkManager
\* holds is closed.  For a link of getLink that is the uplink, for one of
\* DispatchLink, whose CounterReader cannot be interrupted, the downlink; the
\* property claims nothing of the other direction.  The exceptions are a
\* connection that registers after CloseAll saw its manager empty, and one whose
\* LinkManager was overwritten because two first connections found none.
DeletedUserCut ==
    \A c \in Link : Outlived(c) => c \in late \/ mine[c] \in orphans

\* DelUsers returns although connections come and go while CloseAll loops:
\* the inbound accepts no more of them by then.
DeletionEnds == (del = "load") ~> (del = "idle")

=============================================================================
