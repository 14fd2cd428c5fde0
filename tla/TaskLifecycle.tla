--------------------------- MODULE TaskLifecycle ---------------------------
(***************************************************************************)
(* What a durable task promises its submitter, without the clock, leases   *)
(* and retries that implement it: a task waits, runs attempts one at a     *)
(* time, and ends once.  A running task cannot be canceled, a canceled one *)
(* never runs again, and only a running attempt can finish a task.         *)
(***************************************************************************)
EXTENDS Naturals

CONSTANT Task

VARIABLES
    phase,      \* what the task is doing
    attempts    \* how many attempts it was given so far

lifecycleVars == <<phase, attempts>>

Finished == {"succeeded", "failed", "platformFailed"}

Phase == {"absent", "waiting", "running", "canceled"} \cup Finished

Init ==
    /\ phase = [t \in Task |-> "absent"]
    /\ attempts = [t \in Task |-> 0]

Move(t, from, to) == phase[t] = from /\ phase' = [phase EXCEPT ![t] = to]

Submit(t) == Move(t, "absent", "waiting") /\ UNCHANGED attempts

Start(t) ==
    /\ Move(t, "waiting", "running")
    /\ attempts' = [attempts EXCEPT ![t] = @ + 1]

\* The attempt was rejected or lost; the task waits for the next one.
Yield(t) == Move(t, "running", "waiting") /\ UNCHANGED attempts

Finish(t) ==
    /\ \E result \in Finished : Move(t, "running", result)
    /\ UNCHANGED attempts

Cancel(t) == Move(t, "waiting", "canceled") /\ UNCHANGED attempts

Next == \E t \in Task : Submit(t) \/ Start(t) \/ Yield(t) \/ Finish(t) \/ Cancel(t)

Spec == Init /\ [][Next]_lifecycleVars
============================================================================
