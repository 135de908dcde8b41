# kelinode: a TLA+ model of the node

kelinode (`v2node`) runs Xray inbounds for the nodes that one or more panels give to a
machine. It keeps users, limits and configuration in step with the panel, counts traffic
and reports it, and looks after some things around the core: HY2 port redirects, a
subscription proxy, an edge daemon. This directory holds TLA+ modules of the parts in
which order, concurrency and failure decide whether the program is right, the TLC runs
that check them and TLAPS proofs of every safety property of the runs that pass.

`PROJECT.json` is the index: components, runs, the map from each definition to the
source lines it models, a mutant for each property, hazards, findings, theorems.
Paths below are relative to `src/`.

    tlc -workers 2 -config UserSync.cfg MCUserSync         # one run
    tlapm UserSyncProofs.tla                                # the proofs of a module

## 1. Inventory

| Component | State | Operations | What is hard |
|---|---|---|---|
| Controller, user sync (`node/controller.go`, `task.go`, `user_delta.go`, `user_sync_state.go`) | user list, revision, state file, delta support, etag | start (warm, cold), periodic sync, realtime sync, save, apply to core and limiter | two syncers, crash between file operations, failure half way through an apply, the empty list; a controller that takes over while the old one still syncs |
| Traffic (`node/user.go`, `edge_traffic.go`, `core/user.go`, `common/counter`) | counters per tag and user, edge daemon's bytes | count, slice, roll back, drain, restore, unified report, legacy push | connections add while a report swaps, lost answers, two controllers while one is replaced |
| Limiter (`limiter/limiter.go`) | user limits, pending devices, reported devices, alive lists, buckets | CheckLimit, UpdateUser, UpdateUserInfo, online report and commit, alive pull | no common lock; check and store are apart |
| Server loop and node manager (`cmd/server.go`, `node/node.go`, `machine.go`, `machine_profiles.go`, `conf/watch.go`) | controllers, failures, core, ReloadCh | start, reload, reconcile, retry, periodic reconcile, watch | partial failure, changes during a reload, a client that reports a change once |
| Realtime (`node/realtime.go`, `machine_realtime.go`) | connection, sendCh, two worker channels | dial, hello, read, ping, enqueue, work, receipt, Close | full channels, reconnection, cancellation against a blocking read |
| Dispatcher links (`core/app/dispatcher`) | LinkManagers and their links | register, end, CloseAll, DelUsers | registration races deletion |
| HY2 port forward (`node/port_forward*.go`, `cmd/rules.go`) | nat tables, plan, published status | build rules, repair, clean up, inspect | another process on the same table, crash between commands, overlapping ranges |
| Subscription proxy (`agent/subproxy/manager.go`) | main and challenge server, fingerprint, status, certificate files | Apply, Close, setError | late errors of replaced servers, a shutdown before the listener exists |
| Periodic task (`common/task/task.go`) | running, stop channel, execution token | Start, tick, time out, Close | Close against a tick, a timeout or an execution; the token that must come back |
| Edge control (`cmd/edge.go`, `node/edge_sidecar.go`) | daemon's nodes and sidecars | apply, fall back | upserts that are served late, twice or never; traffic and users are modelled |
| Certificates, builders, configuration, status, scripts | | | not modelled, see section 8 |

How they meet:

- The **server loop** owns one **core** and the **node manager**, which owns one
  **controller** per node. A controller owns three or four periodic **tasks** and a
  **realtime client** with two workers.
- A controller reaches the panel through its client and the core through
  AddNode, AddUsers, DelUsers and GetUserTrafficSlice.
- Connections run in the core's **dispatcher**. They call the **limiter**, the
  **link managers** and the **traffic counters**, which sync and report change
  from the other side.
- Tasks, realtime messages, the config watcher and tickers ask for a reload
  through **ReloadCh**, which holds one message; nobody waits to send.
- After each start or reconcile the node manager repairs the **port forward**
  rules; the reload loop calls **Apply** of the subscription proxy.

What makes each of them right, in one line:

- *User sync*: the list is the panel's table at the revision it carries; core and
  limiter follow the list; the file survives any crash.
- *Takeover*: whatever a closed controller still does, the one in its place serves
  its own list.
- *Task*: one execution at a time, and after Close none that can do harm.
- *Traffic*: no byte is lost and none counted twice, except in the named cases.
- *Limiter*: concurrent checks exceed a limit by a known amount only; an address
  passes uncounted only for a user for whom this or another node reported it; each
  device is reported.
- *Node manager*: slots, tasks and inbounds agree after every reload; no change is
  forgotten; a node is interrupted only for a change of its own or of the profile
  that lists it first.
- *Realtime*: a dropped invalidation loses no change; a receipt is true but in two
  named cases; Close ends, unless nobody ends the read it waits for.
- *Links*: deleting a user closes the registered direction of each of its connections.
- *Port forward*: no port goes to two nodes; the tables end up exact; rules of
  others stay.
- *Subscription proxy*: the status is true; no listener is lost; an outage is
  reported.

## 2. Modules

Each component has a module, an `MC` module that instantiates it, and its cfgs.
State, actions and code correspond as follows (`map` has the lines).

**UserSync** - one controller and its panel. Variables carry the names of the
fields (`userList`, `userRevision`, `userDeltaSupported`, `userEtag`, `uidMap`);
`file` and `tmp` are the state file and its temporary. A sync is a sequence of
steps: `Lock`, `GetDelta` or `GetFull`, `ApplyFull`/`ApplyDelta`/`ApplyList`,
`SaveOpen`/`SaveWrite`/`SaveRename`, `ApplyUpdatedUsers`, `RemoveUser` and
`ForgetUser` per deleted user, `AddUserIDs`, `AddUser`, `UpdateLimiter`. The start
(`Boot`) is `LoadState`, `BootApply...`, save, `Activate`. `Crash` may come between
any two. The panel is external: it numbers its tables, and `DeltaContract` says
what a difference from a revision must contain, no more.

**Task** - `common/task`: `Start`, `Tick`, `Begin`, `Expire`, `Finish`, `Close` on
the record of one Task (running, token, execution, the two ways its context ends).
**Job** is the abstract specification: what a user of a Task may rely on.

**Takeover** - composes Task with what two controllers of one node share: the state
file and `path.tmp` (a writer keeps the file it opened, whatever its name becomes),
the tag's inbound, `uidMap`, the sidecar of the edge daemon. `StartReplacing` is
`Create`, `Ask`, save, `CloseOld`, `DelOld`, `Activate` and, for a sidecar, the
upsert; it runs beside the old controller's sync (`SyncBegin` ... `SyncEnd`), which
Close only cancels. `robbed`, `cut` and `behind` are histories of the three named
exceptions. Users are added and deleted here, their records do not matter; UserSync
has those.

**TrafficReport** - `getLink` in steps (a connection keeps the pointer it looked
up), the report task of up to two controllers, the edge daemon. `carried`, `gaps`
and `dups` are histories: what was carried, and the users for whom a named
exception occurred.

**Limiter** - `CheckLimit`, `CommitOnlineDeviceReport` and the updates in steps, each
one access to a shared map or a few whose order no property tells apart. Device maps are
objects, because a connection holds a pointer to one after it was removed from
`UserOnlineIP`. The panel's list has the devices of every node: this node's reports add
to it, `OtherNode` adds a device the user has elsewhere (`abroad` is the history of
those), and the panel may forget any (`PanelForget`). `admitted` is what the checks have
promised to count. `orphaned` and `overlapped` are histories of the two races that break
the promises: a device is orphaned if at its store the map was gone, had been found
empty by a commit that was about to delete it, or had been made by a connection that
could still be refused and delete it.

**Machine** - the loop, its reload as a sequence (resolve profiles, fetch nodes,
remove, apply; or close, build, start), the monitors, the watcher, the service
manager. An entry is a profile and a node id; a NodeInfo is a version number. A
member of `Modes` says whether there is machine mode, whether a profile's failure
stops a reload, whether both profiles are machines of one panel, and whether the
nodes listen on a fallback address. Of the entries with one key the candidate is made
from the first in the order of the profiles (`First`); `SameNode` compares the slot's
profile with the candidate's, so a node that another profile comes to list first is
replaced. The watcher drops saves while it cools down (`missed`), the start takes a
node that two profiles list for two (`twice`).

**Realtime** - run, the writers, the callback, the workers, for a node or for a
machine (`InMachine`). What a sync or reload does is in UserSync and Machine: here
it fetches the panel's version, records it (`known`: revision, list, response hash)
and then acts on it (`seen`). The action may fail or be cut by its context after the
record was made; the next call then finds no news and confirms what the core lacks
(`Behind`). A call cancelled by Close returns nothing and no error, so its message is
confirmed too (`CallCancelled`; `blank` is the history of these).

**Links** - the connections of one user and DelUsers. A LinkManager holds one
direction of a connection: of getLink the uplink pipe, of DispatchLink the downlink's
writer and a CounterReader, which has neither Interrupt nor Close. `CloseOne` therefore
leaves a connection `half`, not closed.

**PortRules** - `buildHysteriaPortForwardRules`, one step for each token and matcher.
`RulesExact` and `RefusalsExact` are its reference definition by sets of ports.

**PortForward** - the repair, cleanup or inspection as a sequence of iptables
commands, for the service and for the `rules` command. A plan is what PortRules
builds.

**SubProxy** - Apply and Close under the manager's lock, and the goroutine of each
http.Server: check for shutdown, listen, register, serve. `given` is the
configuration as Apply gets it, `cfg` what normalizeConfig makes of it: a domain that
is empty or an IPv6 address is looked up at each Apply and becomes the public IPv4
address if there is an answer (`Domains`). The fingerprint is that of `cfg`.

Modules meet by what they leave to each other: Realtime and Machine treat a user
sync as UserSync proves it (a sync under the mutex); PortForward takes PortRules's
result as a list of rules; Limiter and TrafficReport model the two halves of one
report. Takeover composes Task, the sync, the start and the sidecar; the others are
not composed into one state space.

## 3. Runs

Passing runs, one for each component:

| Run | Questions | Bounds |
|---|---|---|
| user_sync | are list and file snapshots of one table, is a user ever missing or accepted without uid, do core and limiter follow the list, does the saved revision grow, does each change arrive, also if the panel empties the node? | 2 uuids, 2 records, 2 syncers, 3 revisions, 1 fault |
| takeover | does the new controller serve exactly its list whatever the old sync does, is the state file of two writers a snapshot or unreadable, do the tasks implement Job, is the node served again by the panel's users? | 2 controllers (in turn), 2 users; a core node with 3 revisions or with 2 and a fault; a sidecar with 2 and a fault |
| traffic | is a byte lost or booked twice, is everything reported in the end? | 1 user (and one of another node), 1-2 connections, 1-2 controllers, 1-2 bytes, up to 2 faults |
| limiter | by how much do concurrent checks exceed the limit, may an address pass for a user for whom no node reported it, which devices are lost before they are reported, has the shared bucket the present speed, does a device stay pending? | six setups: 1-2 users, 1-3 addresses, 1-2 connections at a time; devices on other nodes, fixed (up to 2) or coming and going; up to 2 pulls, 1 change, 1 fault |
| machine | do slots, tasks and inbounds agree, is a change forgotten, are routes in the core, is a node stopped that neither changed nor is listed first by another profile, do the served nodes follow the panel? | 2 panels, or 2 machines of one, 1 node each, 2 changes, 1 edit or 2 saves of the file, 2 faults, with and without machine mode, a reload that stops at a profile's error or goes on |
| realtime | are dropped notices made up for, which receipts are true, does Close end and leave no connection unless a read is silent? | channels of 1, 1 version, 1-2 connections, up to 1 fault |
| links | is a connection whole after the deletion, does DelUsers return? | 2 connections, 2 deletions |
| port_rules | are rules and refusals those of the definition by sets? | 4 ports, 3 nodes with one range each, or one node with 3 tokens |
| port_forward | are the tables exact in the end, is the status true, do foreign rules stay? | 2 rules, 1 tool, faults, 1 rules command |
| sub_proxy | is the status true, is a listener lost, for what is a serving proxy restarted, is an outage reported? | a few servers at a time, 2 addresses; five configurations: a named domain, a looked-up one, an IPv6 one, off, invalid |

Five modules have more settings than one instance can cover. Machine has a set `Modes`,
TrafficReport, Limiter, Realtime and Takeover a set `Setups`: `Init` picks a member,
which never changes, and the run covers the union. A member of `Setups` has settings of
the code (`reportMin`, `deviceMin`, `limit`, `udp`, `loose`, `filter`, `machine`) and
bounds (which connections, users and addresses take part, how many bytes, changes,
pulls, faults). The `MC` modules say what each member is for. In Limiter the members
with `reports = FALSE` look only at the time up to the first report;
`EveryDeviceReported` says nothing of them.

Why the bounds are enough to be interesting: two of everything that races (syncers,
connections, controllers, panels, processes); one more object than can be alive at
the same time where pointers matter (`Map`, `Storage`, `Manager`, `MaxServers`);
channels of one, so that full ones occur; three addresses against a bound of two
devices (`PendingBounded`); a fault count that allows a failure, and where the code
recovers in steps a second one during the recovery. Three panel revisions let an
answer be late by one. A crash costs a fault; that the warm start can fail, too,
with one fault, is why UserSync may begin with the file of an earlier process. TLC's
symmetry is used only in user_sync_warm_start, which has no liveness. user_sync and
takeover check liveness and use none; there the initial states leave out those that
differ from another in the names of users, records or controllers only (`MCInit`),
which is sound because nothing else of the model tells the names apart. In Takeover
a controller whose work is over leaves its place to the next one, so two places
stand for any number of takeovers; an old sync that outlives two of them would need
a third.

Deadlock checking is off for Realtime (a closed client stops), SubProxy (a closed
manager stops), PortRules (a function that ends).

The type invariant of every component's module is proved (section 6), so no run spends
its time on it; add it to the INVARIANTS of a cfg to check it.

Every property has a mutant: a plausible mistake at a mapped definition, written
next to it, under which TLC finds the property violated.

## 4. Fairness

Only weak fairness, and only of what the program's schedulers run:

- *UserSync*: a sync that has the mutex goes on, the start goes on, and the
  periodic task comes again: each `Execute` the program gives to a Task returns nil
  (`node/task.go`, `node/user.go`, `node/cert.go`), so no task stops by itself, and
  each request has a timeout. Nothing is assumed of the realtime worker.
- *Takeover*: controllers go on with what they do (a cancelled one, too: it is the
  same goroutine), tasks tick, the daemon serves what it has received, closed
  controllers are collected, and a node without a controller is tried again by the
  retry of Machine. Nothing is assumed of a takeover of a node that runs.
- *TrafficReport*, *Limiter*: the report task comes again; a connection that is
  being set up goes on.
- *Machine*: the loop runs, the retry and the five-minute tickers tick, monitors
  look again, and the service manager restarts the process (`script/install.sh`,
  `Restart=always`).
- *PortForward*: the service manager restarts the process, jobs go on, and the nodes
  are reconciled again. The last is the five-minute ticker of machine mode;
  without it the tables are looked at again only at the next reload, and `Converges`
  says nothing of that.
- *Realtime*: goroutines run and calls end, with an answer or an error. Nothing is
  assumed of the panel: cancelling the context does not close the websocket and a read
  has no deadline, so Close may wait for a connection on which nothing comes and which
  the panel keeps open. `CloseEnds` names that state (`Silent`) and says that it is the
  only one in which Close can stay.
- *Links*: the sync and connections that are being set up go on, and managers that
  nobody refers to are collected. No fairness for connections ending.
- *SubProxy*: Apply ends, goroutines are scheduled. Not that a configuration
  comes or that a taken address becomes free.

The number of faults is bounded, so liveness says: once the faults stop.

## 5. Findings

Each is a run that TLC must violate, with the line of the repository that says
otherwise quoted in `findings`.

- **user_sync_warm_start**: an empty full answer is "no change", yet revision and
  file move on with the old users; a warm start then serves users the panel
  deleted.
- **machine_profile**: if listing a profile's nodes fails while another profile
  answers, Reconcile closes the failed profile's nodes as removed.

Behaviour met while modelling that has no run of its own. The modules contain it;
the properties are stated so that they hold in spite of it:

- CheckLimit counts and stores apart: two connections at a time both use the last
  room (`PendingBounded` has the bound).
- A second report makes the limiter forget the devices of the first, so that a
  device over the limit gets in before the next pull.
- A device stored between the commit's empty check and its Delete, or in a map that
  the connection which made it may still remove, is lost: no map that a report reads
  has it (`orphaned` in `AdmittedCounts`; every other device counts until reported).
- In loose mode an address that another node has alive for a user passes here without
  being counted (`KnownWasReported`, `limiter_test.go`).
- A connection stores a bucket of the old speed after UpdateUserInfo dropped it.
- A node that failed to start and comes back without routes runs with the routes of
  its old version (`RoutesInCore` is about nodes with routes).
- Two profiles of one panel with the same node: Reconcile drops the duplicate, the
  start does not. Closing the second removes the inbound of the first (`twice` in
  Machine's properties).
- If a second machine of one panel comes to list a node before the one it runs for,
  Reconcile replaces the node, and loses it if the new start fails, although neither
  its entry nor its NodeInfo changed (`OnlyChangedNodesStop`).
- A file change while the watcher cools down is not loaded (`missed` in `Converges`
  of Machine); the next change, or a restart, loads it.
- Of a start and the old sync that save at the same time, the older may be renamed
  last, or the file may hold bytes of both: the next start is cold or gets a larger
  difference (`SnapshotsExact` says that it is never a wrong one).
- The old sync's last deletion may take the uid of a user that left and came back,
  after the new controller has added it (`robbed` in `HandedOver`): until the next
  start the user's traffic is not booked.
- A failed upsert of a sidecar is repeated only when the list changes again
  (`behind`). Close never removes a sidecar.
- A Task that is started again after Close could execute twice at a time, because
  Start makes a new token; the program makes a new Task each time, and reloadTask,
  which would not, has no caller.
- A receipt "applied" is not true in two cases that `AppliedReceiptsTrue` names. After
  a sync that failed to apply, or was cut, list and revision have moved on already: the
  next one gets an empty difference and is confirmed (`Behind`). A fetch cancelled by
  Close returns neither data nor an error and is confirmed (`blank`).
- Close of a realtime client waits in a read without a deadline for as long as the
  panel keeps a silent connection (`Silent` in `CloseEnds`).
- After DelUsers one direction of a connection goes on until the handlers of the core
  end it: for getLink the downlink, for DispatchLink the uplink, whose reader cannot be
  interrupted (`DeletedUserCut` is about the registered direction).
- With a domain that is empty or an IPv6 address, a lookup that fails or finds another
  address changes the fingerprint, and a serving proxy is restarted for an unchanged
  configuration (`NoNeedlessRestart`).
- A forced reload that meets a full channel is dropped.

Behaviour the properties name as exceptions, where nothing in the repository
promises otherwise: two first connections of a tag or user overwrite each other's
counter or link manager (`NoByteLost`, `DeletedUserCut`); a push cancelled by Close
counts as sent (`NoByteLost`); a lost answer to the unified report leads to a
second booking (`NoByteTwice`); a failed apply to the core is not retried
(`AppliedBetweenSyncs` has `diverged`); a failed cleanup after port forwarding was
switched off is not retried (`Converges` of PortForward); setError of the
subscription proxy forgets servers without shutting them down (`NoStrayServer`).

## 6. Proofs

For any sets of users, syncers and records, and any number of revisions and faults
(`ConstantsAssumption`: NoUser is no record, the names used for "nobody" and for the
start are no syncers, bounds are numbers), `UserSyncProofs` shows:

| Theorem | Property |
|---|---|
| TypeCorrect | `[]TypeOK` |
| UsersComplete | `[]NoUserMissing` |
| SnapshotsExact | `[]ExactSnapshot` |
| UIDsKnown | `[]ProxyUserHasUID` |
| RevisionGrows | `SavedRevisionGrows` |
| CoreFollowsList | `[]AppliedBetweenSyncs` |

None of these is inductive. The invariant is built in layers, each proved
inductive on top of the ones before it:

1. `TypeOK`.
2. `ControlInv`: whoever is inside a sync has the mutex, nobody has it during the
   start, and the full list is fetched only when differences are not supported.
3. `SnapshotInv` = `PanelInv /\ ReplyInv /\ ListInv /\ FileInv`: a pending answer
   is a correct difference *from the revision its asker still has* (this is where
   the mutex is needed), the list matches its revision, and so do the file and, from
   the write to the rename, the temporary file. It gives UsersComplete and
   SnapshotsExact.
4. `JobInv`: the locals of a sync name listed users only; a uid is removed after
   its user left the proxy and stored before it enters. It gives UIDsKnown.
5. `OrderInv`: no pending answer, no temporary file about to be renamed and no
   list about to be saved is older than the file. It gives RevisionGrows, across
   crashes and the restart that reads the file.
6. `AppliedInv`: while syncer p runs, a uuid in none of its differences is in step
   in list, uid map, proxy and limiter (`Synced`), and each difference is undone
   in the order update, delete, forget, add uid, add user, limiter
   (`SyncProgress`); likewise for the start (`BootProgress`). The lemmas
   `DeltaExact` and `CompareExact` say that the list operations report exactly what
   they change. It gives CoreFollowsList.

For any sets of controllers and users and any bounds (`TakeoverAssumption`: Nil is
neither a controller nor a user), `TakeoverProofs` shows:

| Theorem | Property |
|---|---|
| TypeCorrect | `[]TypeOK` |
| SnapshotsAreExact | `[]SnapshotsExact` |
| HandoverIsClean | `[]HandedOver` |
| TasksImplementJobs | `J!SafeSpec`, the safety half of `TasksAreJobs` |

Types and snapshots are one induction: that a difference consists of users needs
that its asker's revision exists. `SnapInv` says that a list or file without a
revision is empty and every other one is the table of its revision, which is a
revision the panel has had; that whoever is about to save has a revision; and that
a sync that forgets a user has one. The provers get it action by action, and the
actions that touch no list by `ListsKept`. `TaskInv` is what the refinement needs: a
token means that nothing executes, a task is cancelled exactly when it is closed
while executing, and who is being started, or is not there, has no task. `JobStep`
reduces a step of Takeover to the change of one task and its state in Job.

`HandedOver` needs three more layers. `SlotInv`: only the controller in the slot has a
running task and the inbound is its own; a start past the old Close finds nobody there.
`PlaceInv`: where a controller is fits its task and what it still has to delete and
add, and the one in the slot works in its own inbound. `ServeInv`: what the slot's
controller serves half way through a sync is its list with the rest of the difference
undone (`Partly`, `WithID`). A cancelled sync can then reach the inbound of the next
controller only by the uid map, which is what `robbed` records.

For every list of nodes, highest port and multiport limit
(`PortRulesAssumption`: they are numbers, tokens are pairs of integers),
`PortRulesProofs` shows:

| Theorem | Property |
|---|---|
| TypeCorrect | `[]TypeOK` |
| Disjointness | `[]RulesDisjoint` |
| PortsStayFree | `[]ServerPortsFree` |
| RefusalsAreExact | `[]RefusalsExact` |
| RulesAreExact | `[]RulesExact` |

Disjointness and PortsStayFree come from `IInv`: allocated ranges of different targets
are apart (`AllocatedApart`) and free of server ports (`AllocatedFree`), rules stay
within what is allocated (`RulesWithin`), the round's matchers and pending singles
within its ranges, which leave the node's own port out (`RoundWithin`), and what is
emitted was allocated first (`EmitAllocated`).

The exact properties need the other direction too, and no sum or fold: `ExactInv` says
port by port what a step knows. `ScanInv`: the round's ranges contain a port exactly
when one of the tokens read so far does, and the node's own is left out. `CoverInv`:
each of those ports is in a matcher or still waits in `singles`. `AllocInv`: what is
allocated is what the accepted nodes up to this one want. `RuleInv`: each allocated port
has a rule or a matcher of this round that is still to come, and no rule is there twice.
The refusals are part of the induction, since what a later node finds in its way is what
the earlier ones were given.

The same module has the proofs of PortForward (whose `ForwardInit`, `ForwardNext` and
`ForwardSpec` have names of their own for that reason). They hold for tables, plans and
leftovers of any length and any list of tools (`PortForwardAssumption`: rules of others
are not the program's, plans are lists of rules, the tools are a list of different
names, bounds are numbers):

| Theorem | Property |
|---|---|
| ForwardTypes | `[]ForwardTypeOK` |
| RepairIsExact | `[]ServiceExact` |
| OkMeansRepaired | `[]OkIsTrue` |
| ForeignUntouched | `ForeignKept` |

`ServiceExact` speaks of a service at rest. `JobInv`: a job at a command that writes is
a job that writes, and a service that is off or down asks for no rules. `CalmInv`: while
nothing disturbs the service's write, the rules command only looks. `ForwardExact`: then
each tool the job is past holds its rules, and the tool it is at as much as the place
says: what is left to delete at the deletions, nothing at the chain's removal, the first
k - 1 rules at the k-th append. `OkInv`: an ok that the job noted, or published, is true
of its tool, and it noted nothing yet of tools it still has to change. `OkIsTrue`, like
`OkInv`, speaks of the time before the first run of the rules command, which may change
a table after the service looked at it. What the commands do to a table is in lemmas
about `Filter` and `RemoveFirst` (`FilterAppend`, `FilterRemoveHead`,
`FilterRemoveOther`): deleting the first of the program's rules takes the head of the
filtered table and leaves the other rules alone. TLC checked this invariant with two
tools as well as with the one of the run.

`DispatcherProofs` has TrafficReport and Links. For any users and
setups, any number of controllers and any finite sets of connections and storages
(`TrafficAssumption`; they are finite because bytes are added up over storages and
connections are counted):

| Theorem | Property |
|---|---|
| TypeCorrect | `[]TypeOK` |
| NothingLost | `[]NoByteLost` |
| NothingTwice | `[]NoByteTwice` |

Neither property is inductive: what a report puts back must come to rest where the next
report finds it. `TagInv`: a connection that stores a TrafficCounter has a number left
for it. `ReportInv`: what a report holds at each place (`Orderly`), nothing that it is
about to overwrite and exactly what it has still to put back. `OwnInv`: whoever knows a
storage, a counter, a connection, a report's loop or its rollback items, knows it as one
of the same user. `TwiceInv`: what panel, daemon, reports and *all* storages of a user
hold is at most what was carried; `NoByteTwice` counts only the present storage, but a
rollback may go to one that is no longer there. `OneStorage`: a user that none of the
exceptions befell has one storage, and every connection and report uses this one.
`LostInv` is then `NoByteLost`. A step changes one summand of `InFlight` or `Stored`;
that the sum changes by as much is shown once, by the least counterexample, for
`SumFunction` over any finite set.

For any sets of connections and link managers and any number of deletions
(`LinksAssumption`): `LinksTypeCorrect` (`[]LinksTypeOK`), and `DeletionCuts`
(`[]DeletedUserCut`: no connection stays whole; not that both directions end).
`Registered`: an open connection, in both directions, is in the links of its manager or
in CloseAll's hands. `Lives`: during a deletion nobody is authenticated, so each
connection belongs to a life that is over. `Held`: up to the look-up in DelUsers a
connection has the user's manager, and from there to the end of CloseAll the open ones
have the manager CloseAll empties, except the connections that were late or whose
manager was overwritten.

`LimiterProofs`, for any users, limits and speeds and any finite sets of addresses and
of connections being set up (`LimiterAssumption`; the two are finite because the bound
of `PendingBounded` counts them):

| Theorem | Property | Invariant |
|---|---|---|
| TypeCorrect | `[]TypeOK` | `LocalsOK` types the locals of checks, report and pull |
| KnownIsReported | `[]KnownWasReported` | `KnownInv`: old devices and the report in flight were reported by this node, every list of the panel, before and after a pull, by this or another one |
| AdmittedStaysCounted | `[]AdmittedCounts` | `AdmitInv`: while somebody may still remove a user's map (`Removable`), all that is promised of it is orphaned already; what is promised is not reported yet |
| BucketSpeed | `[]BucketHasSpeed` | `BucketInv`: a connection of a user that was not changed meanwhile read the present speed |
| OvershootIsBounded | `[]PendingBounded` | `RoomInv`: up to the first report or pull, new devices that are pending and connections about to store one (`Storing`) together stay within the bound; a check counted at least the devices the panel counts |

All rest on `CheckInv`: which locals a check has at which place, and that the map it
holds is its user's or nobody's.

`MachineProofs`, for any profiles, nodes, modes, versions and number of faults:

| Theorem | Property |
|---|---|
| TypeCorrect | `[]TypeOK` |
| SlotsMatch | `[]SlotsMatchCore` |
| ChangesKept | `[]ChangeNotForgotten` |
| RoutesMatch | `[]RoutesInCore` |
| StopsOnlyChanged | `OnlyChangedNodesStop` |

The properties speak of the loop between reloads, the invariants of every place within
one. `LoopInv`: what the loop has in hand at each place. `CoreInv`: the core serves
exactly the slots not yet closed and those already started (`Served`), with one slot
for each key. `VersionInv`: neither clients nor the loop know a version the panel has
not had. `ToldInv`: a client's version is no older than what runs, and if newer a
reload is signalled, is being done with it, or a failure is recorded. `RouteInv`: a
node that Reconcile starts or replaces has no routes of its own, since others force a
full restart. The last three need `CoreInv`, which needs the process not to have
started one node twice; `twice` is exempt in the four properties for that reason.
`StopsOnlyChanged` says of a node that Reconcile closes that it is no longer wanted, has
another NodeInfo, or runs for a profile that is not the first to list it.

`RealtimeProofs`, for any setups, number of versions and connections and any capacity
of the channels: `TypeCorrect`, and `ReceiptsAreTrue` (`[]AppliedReceiptsTrue`). A
receipt is about the message that started the job, what was acted on is what the panel
answered later. `NewsInv`: no message on the wire, in a channel or in a worker's hand
names a version the panel has not had. `WorkInv`: the answer a worker holds is no older
than its job and than what the node recorded and acted on before; a job that ends
without a failure leaves its version recorded or acted on, or is a cancelled call.
`ReceiptInv`: receipts queued, in a writer's hand or read name a version acted on,
recorded while the node is behind, or confirmed on a cancelled call, and stay so because
`seen`, `known` and `blank` never go back (`NothingUndone`).

`SubProxyProofs`, for any configurations, addresses and numbers of servers and faults:

| Theorem | Property |
|---|---|
| TypeCorrect | `[]TypeOK` |
| StatusIsTrue | `[]StatusTruthful` |
| NoListenerLost | `[]NoStrayServer` |
| RestartsAreNeeded | `NoNeedlessRestart` |

`HoldInv`: the manager holds servers of the right kind that have neither ended nor been
told to shut down, and nothing while Apply is under way; the types need it. `ConfigInv`:
the servers held have the last configuration as it was normalized, a proxy that is being
replaced has another one, and normalizing keeps a domain that is a name. So
`RestartsAreNeeded` holds for every configuration with the exception it states: where
the domain is looked up, another answer is another configuration. `StatusInv`: the
status says so at each place of Apply. `StrayInv` states `NoStrayServer` of every server
that has not ended: it must hold before the server opens its address.

TLC checked every invariant named here on the instances of section 3 before it was
proved.

## 7. Only model-checked

All liveness (`Converges` of four modules, `EventuallyReported`, `EveryDeviceReported`,
`NoticesHandled`, `CloseEnds`, `DeletionEnds`, `OutageReported`, and the fairness that
`TasksAreJobs` adds to `TasksImplementJobs`): fairness and ENABLED are out of the prover's
reach. Every invariant and every action property of the passing runs is proved. The
library's induction theorems, which take an operator, are of no use to the provers
installed here; where a proof needs induction over numbers or sequences (sums in
TrafficReport, filtered tables in PortForward) it takes the set of counterexamples and its
minimum by `WFMin`.

## 8. What is not modelled

- *UserSync*: the realtime URL a handshake may give; the certificate. Two
  controllers on one state file and edge sidecars are in Takeover, without crashes
  and without the full list.
- *Takeover*: the realtime worker, whose sync Close cancels like that of the task; the
  limiter and the traffic of the two controllers (the latter is in TrafficReport);
  changes of the listening address, which make the two inbounds differ.
- *Edge control*: the text of the sidecar's configuration, Health, Reload, and the
  restart of the daemon, after which a sidecar comes back with the next upsert.
- *TrafficReport*: counters lost with the whole core; upload and download as two
  numbers.
- *Limiter*: dynamic speed limits (their setter has no caller); the token bucket
  library.
- *Machine*: a start with nothing but the subscription proxy; the fields of a
  NodeConfig other than profile and id; the order of nodes (any order is taken,
  except that of the profiles where two list one node);
  the protocol as part of the tag; the file changes only while the watcher runs. A
  task still running after Close can only send a signal that is harmless.
- *Realtime*: one client per run; the fingerprint by which
  `machineRealtimeState.Apply` restarts clients; the periodic sync, which would
  hide lost notices.
- *Links*: one user stands for all; how the handlers of the core end the direction that
  CloseAll leaves open.
- *PortForward*: the printed form of a rule (`a:a` is listed as `a`, so the
  inspection reports such a rule as missing); tools that are not installed.
- *SubProxy*: the proxying of a request, the challenge answer files, undecodable
  key files, the status text; that a failed write of a certificate may leave a
  truncated file (`Prepare` keeps the old one; no property depends on it).
- Whole components: configuration decoding, builders of Xray configuration,
  sniffers, certificates, machine status, self update, health, tools and scripts:
  translations, reads and external calls without state that races. `components`
  has a reason for each.

## 9. Plan

Done, in this order: UserSync (the core: what a node serves), TrafficReport,
Limiter, Machine, Realtime, Links, PortRules, PortForward, SubProxy; proofs of
UserSync and PortRules; then Task with Job, Takeover with edge sidecars, the races
of the limiter, two machines of one panel and dropped saves in Machine; proofs of
Takeover's snapshots and of the refinement; then proofs of Takeover's handover, Links,
Limiter, Machine, Realtime and SubProxy, and of the exactness of PortRules; then proofs
of TrafficReport and PortForward.

Left of the model, and why it is not there yet:

- An abstract node ("serves the panel's tables one after the other, each at most a
  fault late") for UserSync: `ExactSnapshot`, `AppliedBetweenSyncs` and `Converges`
  say the same in parts, and the empty full list is an exception to it.
- `machineRealtimeState.Apply` and Realtime composed with Machine through ReloadCh.
- Certificate renewal against a reload: the files are written by the ACME library.

To be proved: `AppliedBetweenSyncs` and `ExactSnapshot` are what a proof of the abstract
node would start from.
