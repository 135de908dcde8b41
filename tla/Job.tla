-------------------------------- MODULE Job --------------------------------
(***************************************************************************)
(* What common/task promises its users: jobs that are executed again and   *)
(* again while they are open, each one execution at a time.  Closing a job *)
(* does not wait.  An execution that is under way then goes on with a      *)
(* context that is done, and one that was due may still begin, with such a *)
(* context; no other does.  The context is also done when an execution     *)
(* takes too long.                                                         *)
(***************************************************************************)
CONSTANT Worker    \* whoever has a job

VARIABLES
    open,   \* started and not closed
    run     \* "idle", "due", "live", or "dead": its context is done

jobVars == <<open, run>>

Init == /\ open \in [Worker -> BOOLEAN]
        /\ run = [w \in Worker |-> "idle"]

Goes(w, r) == run' = [run EXCEPT ![w] = r]

Open(w) == /\ ~open[w] /\ run[w] = "idle"
           /\ open' = [open EXCEPT ![w] = TRUE] /\ UNCHANGED run

\* The interval is over.
Due(w) == open[w] /\ run[w] = "idle" /\ Goes(w, "due") /\ UNCHANGED open

Begin(w) == /\ run[w] = "due"
            /\ Goes(w, IF open[w] THEN "live" ELSE "dead") /\ UNCHANGED open

Expire(w) == run[w] = "live" /\ Goes(w, "dead") /\ UNCHANGED open

Finish(w) == run[w] \in {"live", "dead"} /\ Goes(w, "idle") /\ UNCHANGED open

Close(w) == /\ open[w] /\ open' = [open EXCEPT ![w] = FALSE]
            /\ Goes(w, IF run[w] = "live" THEN "dead" ELSE run[w])

Next == \E w \in Worker : \/ Open(w) \/ Due(w) \/ Begin(w) \/ Expire(w)
                          \/ Finish(w) \/ Close(w)

\* What never happens ...
SafeSpec == Init /\ [][Next]_jobVars

\* ... and what does: an execution that is due begins, and every execution ends.
Spec == /\ SafeSpec
        /\ \A w \in Worker : WF_jobVars(Begin(w)) /\ WF_jobVars(Finish(w))

=============================================================================
