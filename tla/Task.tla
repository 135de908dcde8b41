-------------------------------- MODULE Task --------------------------------
(***************************************************************************)
(* common/task: the periodic tasks of the controllers.  A Task is started  *)
(* once; its goroutine waits for the timer or for Stop, and executes in a  *)
(* goroutine of its own for which it needs the one token of execToken.     *)
(* (The program makes a new Task for every start; reloadTask, which would  *)
(* close and start tasks, has no caller.)                                  *)
(***************************************************************************)
EXTENDS Naturals

CONSTANT Controller    \* whoever has a task

VARIABLE task          \* the Task of each controller

\* Running, which is also whether Stop is open; the token in execToken; the
\* goroutine that executes; baseCtx; and the deadline of the execution's context.
Tasks == [running : BOOLEAN, token : BOOLEAN,
          exec : {"idle", "launched", "executing"},
          cancelled : BOOLEAN, expired : BOOLEAN]

NoTask == [running |-> FALSE, token |-> FALSE, exec |-> "idle",
           cancelled |-> FALSE, expired |-> FALSE]

\* ctx.Err() of the execution's context.
CtxDone(c) == task[c].cancelled \/ task[c].expired

Start(c) ==
    /\ ~task[c].running
    /\ task' = [task EXCEPT ![c] = [NoTask EXCEPT !.running = TRUE, !.token = TRUE]]

\* The timer fires and run finds Stop open and the token there.  (Otherwise it
\* changes nothing; with Stop closed the goroutine of Start returns.)
Tick(c) ==
    /\ task[c].running /\ task[c].token
    /\ task' = [task EXCEPT ![c].token = FALSE, ![c].exec = "launched"]

\* The goroutine gets to ExecuteWithTimeout.
Begin(c) ==
    /\ task[c].exec = "launched"
    /\ task' = [task EXCEPT ![c].exec = "executing", ![c].expired = FALSE]

\* The timeout of the execution.
Expire(c) ==
    /\ task[c].exec = "executing" /\ ~task[c].expired
    /\ task' = [task EXCEPT ![c].expired = TRUE]

\* Faulty variant: the executions keep their context.
SafeStopNoCancel(t) == [t EXCEPT !.running = FALSE]

\* safeStop: baseCancel and close(Stop).
SafeStop(t) == IF t.running
               THEN [t EXCEPT !.running = FALSE, !.cancelled = TRUE] ELSE t

\* Faulty variant: the token does not come back.
FinishKeepsToken(c, err) ==
    /\ task[c].exec = "executing"
    /\ task' = [task EXCEPT ![c].exec = "idle", ![c].expired = FALSE]

\* Execute returns; an error stops the task, unless its context is done.  The
\* token comes back.
Finish(c, err) ==
    LET t == IF err /\ ~CtxDone(c) THEN SafeStop(task[c]) ELSE task[c] IN
    /\ t.exec = "executing"
    /\ task' = [task EXCEPT ![c] = [t EXCEPT !.exec = "idle", !.token = TRUE,
                                               !.expired = FALSE]]

\* Close does not wait for the execution.
Close(c) == task' = [task EXCEPT ![c] = SafeStop(@)]

=============================================================================
