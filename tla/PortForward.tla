----------------------------- MODULE PortForward ----------------------------
(***************************************************************************)
(* The HY2 redirect rules in the nat tables of iptables and ip6tables.     *)
(*                                                                         *)
(* The service repairs the tables after its nodes start, are reconciled or *)
(* are closed; an operator can run the rules command, another process that *)
(* repairs, cleans up or inspects the same tables at the same time.  Every *)
(* step below is one iptables command, atomic under the xtables lock; any  *)
(* of them may fail, and once the ten seconds of the context are over all  *)
(* of them do.  A plan is the list of rules that module PortRules builds.  *)
(* A tool that is not installed is skipped, so Tools are the installed     *)
(* ones; the inspection before a repair has no effect and is left out.     *)
(***************************************************************************)
EXTENDS Integers, SequencesExt

CONSTANTS
    Tools,      \* the tools in the order the code visits them
    Rules,      \* redirect rules that carry the V2NODE-HY2 comment
    Plans,      \* the lists of rules that the panel's nodes ask for
    Foreign,    \* rules of somebody else
    Start,      \* contents a PREROUTING chain may have at first
    MaxFaults,  \* bound: failing commands, timeouts and crashes
    MaxEdits,   \* bound: changes of the plan and of auto_hy2_port_forward
    MaxCli      \* bound: runs of the rules command

\* Rules that older versions left: a jump into the V2NODE-HY2 chain for all
\* of udp, and one for a port range.
Jumps == {"jump", "port_jump"}

ASSUME PortForwardAssumption ==
    /\ Foreign \cap (Rules \cup Jumps) = {}
    /\ <<>> \in Plans /\ Plans \subseteq Seq(Rules)
    /\ Tools \in Seq(STRING) /\ Tools # <<>> /\ IsInjective(Tools)
    /\ Start \subseteq Seq(Rules \cup Jumps \cup Foreign)
    /\ MaxFaults \in Nat /\ MaxEdits \in Nat /\ MaxCli \in Nat

VARIABLES
    table,      \* PREROUTING of each tool
    chain,      \* the old V2NODE-HY2 chain: none, empty or full
    job,        \* the repair, cleanup or inspection of each process
    phase,      \* whether the service's nodes are up
    auto,       \* Node.autoHY2PortForward
    owed,       \* Node.cleanupHY2OnDisable
    published,  \* hysteriaPortForwardStatusState of the service
    plan,       \* what the panel's nodes ask for now
    wanted,     \* RuntimeConfig.AutoHY2PortForward of the file
    faults,     \* number of faults so far
    edits,      \* number of edits so far
    cliRuns,    \* number of runs of the rules command
    calm        \* history: nothing disturbed the service's last write

outside == <<plan, wanted, edits>>
nodeVars == <<phase, auto, owed>>
forwardVars == <<table, chain, job, nodeVars, published, outside, faults, cliRuns, calm>>

Procs == {"service", "rules"}
Tool == ToSet(Tools)

\* Faulty variant: every rule of the chain passes for the program's own.
isAnyRuleSpec(e) == e # "none"

\* The comment, or a jump to the old chain, makes a rule the program's own.
isPortForwardRuleSpec(e) == e \in Rules \cup Jumps

OwnRules == {e \in Rules \cup Jumps \cup Foreign : isPortForwardRuleSpec(e)}

\* The elements of a sequence that are in a set, in their order.
Filter(s, S) ==
    LET f[i \in 0 .. Len(s)] == IF i = 0 THEN <<>>
                                ELSE IF s[i] \in S THEN Append(f[i - 1], s[i]) ELSE f[i - 1]
    IN  f[Len(s)]

Own(t) == Filter(table[t], Rules \cup Jumps)

-----------------------------------------------------------------------------
(* A job visits the tools one by one.                                      *)

Idle == [pc |-> "idle", exp |-> <<>>, writes |-> FALSE, at |-> 1, left |-> <<>>,
         k |-> 1, dead |-> FALSE, st |-> [t \in Tool |-> "none"]]

\* A repair by root deletes and appends; an inspection, and the repair or
\* cleanup of somebody else, only looks.  A cleanup is a repair to no rules.
First(writes) == IF writes THEN "list" ELSE "inspect"
Job(rules, writes) ==
    [Idle EXCEPT !.pc = First(writes), !.exp = rules, !.writes = writes]

T(p) == Tools[job[p].at]
At(p, where) == job[p].pc = where
Goto(p, where) == job' = [job EXCEPT ![p].pc = where]

\* The command runs, or it fails: always when the context is over.
Runs(p) == ~job[p].dead /\ faults' = faults
Fails(p) ==
    \/ job[p].dead /\ faults' = faults
    \/ ~job[p].dead /\ faults < MaxFaults /\ faults' = faults + 1

\* Nothing else than the job's own progress.
Rest == UNCHANGED <<nodeVars, published, outside, cliRuns>>
Calm == calm' = calm
Disturbed(p) == calm' = (calm /\ p # "service")

\* deletePortForwardRules: list the chain and remember the rules to delete,
\* or fall back to deleting the old jump.
List(p) ==
    /\ At(p, "list")
    /\ \/ /\ Runs(p)
          /\ job' = [job EXCEPT ![p].pc = "delete",
                        ![p].left = Filter(table[T(p)], OwnRules)]
          /\ Calm
       \/ Fails(p) /\ Goto(p, "legacy") /\ Disturbed(p)
    /\ UNCHANGED <<table, chain>> /\ Rest

\* -D of one listed rule; its error is ignored.
Delete(p) ==
    /\ At(p, "delete") /\ job[p].left # <<>>
    /\ job' = [job EXCEPT ![p].left = Tail(@)]
    /\ \/ Runs(p) /\ Calm /\ table' = [table EXCEPT ![T(p)] = RemoveFirst(@, Head(job[p].left))]
       \/ Fails(p) /\ Disturbed(p) /\ table' = table
    /\ UNCHANGED chain /\ Rest

DeleteDone(p) ==
    /\ At(p, "delete") /\ job[p].left = <<>>
    /\ Goto(p, "flush") /\ Calm
    /\ UNCHANGED <<table, chain, faults>> /\ Rest

\* The loop that deletes the old jump until there is none or it fails.
DeleteLegacy(p) ==
    /\ At(p, "legacy")
    /\ \/ /\ Runs(p) /\ Contains(table[T(p)], "jump") /\ Calm
          /\ table' = [table EXCEPT ![T(p)] = RemoveFirst(@, "jump")]
          /\ job' = job
       \/ /\ \/ Runs(p) /\ ~Contains(table[T(p)], "jump") /\ Calm
             \/ Fails(p) /\ Disturbed(p)
          /\ Goto(p, "flush") /\ table' = table
    /\ UNCHANGED chain /\ Rest

\* -F of the old chain; an error, as when there is none, is ignored.
FlushChain(p) ==
    /\ At(p, "flush") /\ Goto(p, "drop")
    /\ \/ Runs(p) /\ Calm /\ chain' = [chain EXCEPT ![T(p)] = IF @ = "none" THEN @ ELSE "empty"]
       \/ Fails(p) /\ Disturbed(p) /\ chain' = chain
    /\ UNCHANGED table /\ Rest

\* -X of the old chain: refused when it is not empty or a rule jumps to it.
Drop(p) ==
    /\ At(p, "drop")
    /\ job' = [job EXCEPT ![p].pc = "append", ![p].k = 1]
    /\ LET free == chain[T(p)] = "empty" /\ ToSet(table[T(p)]) \cap Jumps = {}
       IN  \/ Runs(p) /\ Calm /\ chain' = [chain EXCEPT ![T(p)] = IF free THEN "none" ELSE @]
           \/ Fails(p) /\ Disturbed(p) /\ chain' = chain
    /\ UNCHANGED table /\ Rest

NextTool(p, state) ==
    job' = [job EXCEPT ![p].st[T(p)] = state,
                       ![p].pc = IF job[p].at = Len(Tools) THEN "publish"
                                 ELSE First(job[p].writes),
                       ![p].at = IF job[p].at = Len(Tools) THEN 1 ELSE @ + 1]

\* reconcilePortForwardTool appends the rules and stops at the first error.
Append1(p) ==
    /\ At(p, "append") /\ job[p].k <= Len(job[p].exp)
    /\ \/ /\ Runs(p) /\ Calm
          /\ table' = [table EXCEPT ![T(p)] = Append(@, job[p].exp[job[p].k])]
          /\ job' = [job EXCEPT ![p].k = @ + 1]
       \/ Fails(p) /\ Disturbed(p) /\ table' = table /\ NextTool(p, "error")
    /\ UNCHANGED chain /\ Rest

AppendDone(p) ==
    /\ At(p, "append") /\ job[p].k > Len(job[p].exp)
    /\ Goto(p, "inspect") /\ Calm
    /\ UNCHANGED <<table, chain, faults>> /\ Rest

\* Faulty variant: rules that are left over do not count.
DiffersIfMissing(p) == ~(ToSet(job[p].exp) \subseteq ToSet(Own(T(p))))

\* inspectPortForwardTool compares what is listed with what is expected.
Differs(p) == ToSet(Own(T(p))) # ToSet(job[p].exp)

Inspect(p) ==
    /\ At(p, "inspect") /\ Calm
    /\ \/ Runs(p) /\ Differs(p) /\ NextTool(p, "needs_repair")
       \/ Runs(p) /\ ~Differs(p) /\ Goto(p, "chain")
       \/ Fails(p) /\ NextTool(p, "error")
    /\ UNCHANGED <<table, chain>> /\ Rest

\* portForwardChainExists: a command that fails means no chain.
InspectChain(p) ==
    /\ At(p, "chain") /\ Calm
    /\ \/ Runs(p) /\ NextTool(p, IF chain[T(p)] = "none" THEN "ok" ELSE "needs_repair")
       \/ Fails(p) /\ NextTool(p, "ok")
    /\ UNCHANGED <<table, chain>> /\ Rest

\* setHysteriaPortForwardStatus, in the memory of this process.
Publish(p) ==
    /\ At(p, "publish") /\ Goto(p, "idle") /\ Calm
    /\ published' = IF p = "service" THEN job[p].st ELSE published
    /\ UNCHANGED <<table, chain, nodeVars, outside, faults, cliRuns>>

\* The context of a running job ends.
Expire(p) ==
    /\ ~At(p, "idle") /\ ~job[p].dead /\ faults < MaxFaults
    /\ faults' = faults + 1
    /\ job' = [job EXCEPT ![p].dead = TRUE] /\ Calm
    /\ UNCHANGED <<table, chain>> /\ Rest

-----------------------------------------------------------------------------
(* The service's node manager.                                             *)

\* Faulty variant: switching it off does not ask for the cleanup.
SetAutoOnly(on) == [auto |-> on, owed |-> ~on /\ owed]

\* SetAutoHY2PortForward on a node whose flags are auto and owed.
SetAuto(on) == [auto |-> on, owed |-> ~on /\ (auto \/ owed)]

\* reconcileAutoHY2PortForward: repair, one cleanup after it was switched
\* off, or nothing but a status that says disabled.
ReconcileAuto(flags, rules) ==
    /\ auto' = flags.auto
    /\ owed' = FALSE
    /\ IF flags.auto \/ flags.owed
       THEN /\ job' = [job EXCEPT !["service"] =
                          Job(IF flags.auto THEN rules ELSE <<>>, TRUE)]
            /\ calm' = (job["rules"].pc = "idle" \/ ~job["rules"].writes)
            /\ published' = published
       ELSE /\ published' = Idle.st
            /\ UNCHANGED <<job, calm>>
    /\ UNCHANGED <<table, chain, outside, faults, cliRuns>>

\* Faulty variant: the node list of before the reconcile is used.
ReconcileStale ==
    /\ At("service", "idle") /\ phase = "up"
    /\ ReconcileAuto(SetAuto(wanted), job["service"].exp)
    /\ phase' = phase

\* Node.Reconcile of machine mode, on the configuration just loaded.
Reconcile ==
    /\ At("service", "idle") /\ phase = "up"
    /\ ReconcileAuto(SetAuto(wanted), plan)
    /\ phase' = phase

\* Node.Close, in a full reload (which machine mode reaches after the new
\* setting was applied) or at the end: no nodes are left.
CloseNode ==
    /\ At("service", "idle") /\ phase = "up"
    /\ \/ ReconcileAuto([auto |-> auto, owed |-> owed], <<>>)
       \/ ReconcileAuto(SetAuto(wanted), <<>>)
    /\ phase' = "down"

\* A new Node with the file's setting, and its Start.
StartNode ==
    /\ At("service", "idle") /\ phase = "down"
    /\ ReconcileAuto([auto |-> wanted, owed |-> FALSE], plan)
    /\ phase' = "up"

\* The service is killed, wherever it is.
Crash ==
    /\ phase = "up" \/ ~At("service", "idle")
    /\ faults < MaxFaults /\ faults' = faults + 1
    /\ job' = [job EXCEPT !["service"] = Idle]
    /\ phase' = "down" /\ auto' = FALSE /\ owed' = FALSE
    /\ published' = Idle.st /\ calm' = FALSE
    /\ UNCHANGED <<table, chain, outside, cliRuns>>

\* rules repair, cleanup and status; repair and cleanup only look without root.
RunRules ==
    /\ At("rules", "idle") /\ cliRuns < MaxCli /\ cliRuns' = cliRuns + 1
    /\ \E rules \in {plan, <<>>}, root \in BOOLEAN :
          /\ job' = [job EXCEPT !["rules"] = Job(rules, root)]
          /\ calm' = (calm /\ ~root)
    /\ UNCHANGED <<table, chain, nodeVars, published, outside, faults>>

\* The panel's nodes change, or the setting in the file does.
Edit ==
    /\ edits < MaxEdits /\ edits' = edits + 1
    /\ \/ plan' \in Plans \ {plan} /\ wanted' = wanted
       \/ wanted' = ~wanted /\ plan' = plan
    /\ UNCHANGED <<table, chain, job, nodeVars, published, faults, cliRuns, calm>>

ForwardInit ==
    /\ table \in [Tool -> Start]
    /\ chain \in [Tool -> {"none", "full"}]
    /\ \A t \in Tool : ToSet(table[t]) \cap Jumps # {} => chain[t] = "full"
    /\ job = [p \in Procs |-> Idle]
    /\ phase = "down" /\ auto = FALSE /\ owed = FALSE
    /\ published = Idle.st
    /\ plan \in Plans /\ wanted \in BOOLEAN
    /\ faults = 0 /\ edits = 0 /\ cliRuns = 0 /\ calm = FALSE

Command(p) ==
    \/ List(p) \/ Delete(p) \/ DeleteDone(p) \/ DeleteLegacy(p) \/ FlushChain(p) \/ Drop(p)
    \/ Append1(p) \/ AppendDone(p) \/ Inspect(p) \/ InspectChain(p) \/ Publish(p)

ForwardNext ==
    \/ \E p \in Procs : Command(p) \/ Expire(p)
    \/ Reconcile \/ CloseNode \/ StartNode \/ Crash
    \/ RunRules \/ Edit

ForwardSpec == ForwardInit /\ [][ForwardNext]_forwardVars

\* Commands end (the context kills one that does not), a service that was
\* stopped is started again, and machine mode reconciles every five minutes.
FairForwardSpec ==
    /\ ForwardSpec
    /\ \A p \in Procs : WF_forwardVars(Command(p))
    /\ WF_forwardVars(StartNode) /\ WF_forwardVars(Reconcile)

-----------------------------------------------------------------------------
JobType ==
    [pc : {"idle", "list", "delete", "legacy", "flush", "drop", "append",
           "inspect", "chain", "publish"},
     exp : Plans, writes : BOOLEAN, at : 1..Len(Tools), left : Seq(Rules \cup Jumps),
     k : Nat, dead : BOOLEAN,
     st : [Tool -> {"none", "ok", "needs_repair", "error"}]]

\* Every variable keeps its type; what a process is about to delete is one of
\* this program's rules, and it never appends past its list.
ForwardTypeOK ==
    /\ table \in [Tool -> Seq(Rules \cup Jumps \cup Foreign)]
    /\ chain \in [Tool -> {"none", "empty", "full"}]
    /\ job \in [Procs -> JobType]
    /\ \A p \in Procs : job[p].k \in 1..(Len(job[p].exp) + 1)
    /\ phase \in {"up", "down"} /\ auto \in BOOLEAN /\ owed \in BOOLEAN
    /\ published \in [Tool -> {"none", "ok", "needs_repair", "error"}]
    /\ plan \in Plans /\ wanted \in BOOLEAN /\ calm \in BOOLEAN
    /\ faults \in 0..MaxFaults /\ edits \in 0..MaxEdits /\ cliRuns \in 0..MaxCli

ForeignOf(s) == Filter(s, Foreign)
KeepsForeign == \A t \in Tool : ForeignOf(table'[t]) = ForeignOf(table[t])

\* The rules of somebody else stay where they are, in their order, whatever
\* fails and whoever runs at the same time.
ForeignKept == [][KeepsForeign]_table

\* After a repair that nothing disturbed, the tables hold exactly the rules
\* of the service's nodes, each once and in order, and the old chain is gone:
\* whatever an earlier crash, failure, version or process left there.  They
\* hold none while the service is switched off or its nodes are closed.
ServiceExact ==
    calm /\ At("service", "idle") =>
        \A t \in Tool :
            /\ Own(t) = IF phase = "up" /\ auto THEN job["service"].exp ELSE <<>>
            /\ chain[t] = "none"

\* The status that the service publishes says ok only when no rule of the
\* nodes is missing and none is left over, also when commands failed.
OkIsTrue ==
    At("service", "idle") /\ cliRuns = 0 =>
        \A t \in Tool :
            published[t] = "ok" => ToSet(Own(t)) = ToSet(job["service"].exp)

\* Once nothing fails, nobody edits and the rules command has ended, each
\* repair leaves exactly what the panel's nodes ask for, and the service keeps
\* coming back to rest.  (A cleanup that failed is not repeated, so nothing of
\* the kind holds for a service that is switched off.)
Resting == At("service", "idle") /\ phase = "up"
Converges ==
    /\ []<>Resting
    /\ <>[](Resting => auto = wanted /\ (wanted => \A t \in Tool : Own(t) = plan))

=============================================================================
