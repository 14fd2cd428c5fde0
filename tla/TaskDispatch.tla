---------------------------- MODULE TaskDispatch ----------------------------
(***************************************************************************)
(* The durable dispatch system: scheduler replicas over one task store,    *)
(* each inside a Router process with its task control plane                *)
(* (router/src/task/control.rs) and the attempts it has in flight on       *)
(* Runtimes (router/src/dispatch/dispatcher.rs, actor lane).  Submissions, *)
(* cancels and Router crashes come from outside.                           *)
(*                                                                         *)
(* fate and ranOut are history variables: what each attempt was found to   *)
(* have done, and the leases that have once run out on the store's clock.  *)
(* The clock may be set back, and a lease that ran out be unexpired again. *)
(***************************************************************************)
EXTENDS TaskScheduler, Sequences

CONSTANTS
    Reported,       \* outcomes attempts are found to end with
    SubmitDelay,    \* how far in the future a submission may be due
    QueueCap,       \* capacity of the control event channel
    MaxSetback      \* bound: how often the store clock is set back

ASSUME DispatchAssumption ==
    /\ Reported \subseteq SettledOutcome
    /\ SubmitDelay \subseteq Nat
    /\ QueueCap \in Nat
    /\ MaxSetback \in Nat
    /\ \A x \in Time : x \in Stamp /\ \A d \in SubmitDelay : x + d \in Stamp

\* "none" is the task of a lease that was not handed out.
ASSUME TaskAssumption == "none" \notin Task

VARIABLES
    inflight,   \* inflight[r]: attempts pending in the Router's dispatcher
    queue,      \* queue[r]: control events waiting for the worker
    fate,       \* fate[l]: the task lease l was for and what its attempt did
    ranOut,     \* leases that have expired at some time
    setbacks    \* how often the store clock was set back

clockVars == <<ranOut, setbacks>>

ctlVars == <<inflight, queue, fate>>

vars == <<storeVars, schedVars, ctlVars, clockVars>>

Event(kind, i, outcome) == [kind |-> kind, task |-> i.task, lease |-> i.lease, outcome |-> outcome]

Unknown == [task |-> "none", result |-> "none"]

Init ==
    /\ StoreInit
    /\ SchedInit
    /\ inflight = [r \in Owner |-> {}]
    /\ queue = [r \in Owner |-> <<>>]
    /\ fate = [l \in 1 .. MaxLease |-> Unknown]
    /\ ranOut = {}
    /\ setbacks = 0

----------------------------------------------------------------------------
(* Scheduler steps, with the history of the leases they hand out.          *)

\* History: a claim that went through opens the fate of its lease.
RecordClaim ==
    fate' = IF leases' = leases THEN fate
            ELSE [fate EXCEPT ![leases'] =
                    [task |-> CHOOSE t \in Task : tasks'[t].lease.id = leases', result |-> "none"]]

WithHistory(A) == A /\ RecordClaim /\ UNCHANGED <<inflight, queue, clockVars>>

Schedule(r) == WithHistory(SchedStep(r))

\* An accepted attempt is pending in the dispatcher before the scheduler
\* hears of it; a permanent failure is the attempt's outcome.
AdmitAttempt(r, d) ==
    /\ Admit(r, d)
    /\ inflight' = IF d = "accepted"
                   THEN [inflight EXCEPT ![r] = @ \cup {Item(cur[r].task, cur[r].lease)}]
                   ELSE inflight
    /\ fate' = IF d = "permanent"
               THEN [fate EXCEPT ![cur[r].lease].result = "platformFailed"]
               ELSE fate
    /\ UNCHANGED <<queue, clockVars>>

----------------------------------------------------------------------------
(* The control plane: attempt terminals and the event worker.              *)

EnqueueAlways(r, e) == queue' = [queue EXCEPT ![r] = Append(@, e)]

\* try_send: a full channel drops the event.
Enqueue(r, e) ==
    queue' = IF Len(queue[r]) < QueueCap THEN [queue EXCEPT ![r] = Append(@, e)] ELSE queue

Detach(r, i) ==
    /\ i \in inflight[r]
    /\ inflight' = [inflight EXCEPT ![r] = @ \ {i}]

\* The attempt returned, threw, timed out or was refused by its version.
AttemptEnds(r, i, outcome) ==
    /\ Detach(r, i)
    /\ Enqueue(r, Event("settle", i, outcome))
    /\ fate' = [fate EXCEPT ![i.lease].result = outcome]
    /\ UNCHANGED <<storeVars, schedVars, clockVars>>

\* The actor is upgrading: stop renewing and give the lease back.
AttemptUpgrading(r, i) ==
    /\ Detach(r, i)
    /\ RemoveActiveIf(r, i.task, i.lease)
    /\ Enqueue(r, Event("release", i, "none"))
    /\ UNCHANGED <<storeVars, pc, snow, work, cur, fate, clockVars>>

\* Disconnect, shutdown, protocol loss: stop renewing, wait for the expiry.
AttemptUncertain(r, i) ==
    /\ Detach(r, i)
    /\ RemoveActiveIf(r, i.task, i.lease)
    /\ UNCHANGED <<storeVars, pc, snow, work, cur, queue, fate, clockVars>>

\* What a clock reading from before the last await may be.
ReadEarlier == IF setbacks = 0 THEN 0 .. now ELSE Time

\* handle_event.  The answer is only reported: a rejected or failed call is
\* not tried again.  The release reads the clock before it writes.
HandleEvent(r) ==
    /\ queue[r] # <<>>
    /\ LET e == Head(queue[r])
       IN  \/ e.kind = "settle" /\ Settle(e.task, e.lease, e.outcome)
           \/ /\ e.kind = "release"
              /\ \E x \in ReadEarlier, d \in Delay : Release(e.task, e.lease, x + d)
           \/ UNCHANGED storeVars
    /\ queue' = [queue EXCEPT ![r] = Tail(@)]
    /\ UNCHANGED <<schedVars, inflight, fate, clockVars>>

\* The Router process dies and starts again with nothing in memory.
Crash(r) ==
    /\ pc' = [pc EXCEPT ![r] = "recoverNow"]
    /\ snow' = [snow EXCEPT ![r] = 0]
    /\ work' = [work EXCEPT ![r] = {}]
    /\ cur' = [cur EXCEPT ![r] = NoAttempt]
    /\ active' = [active EXCEPT ![r] = [t \in Task |-> 0]]
    /\ inflight' = [inflight EXCEPT ![r] = {}]
    /\ queue' = [queue EXCEPT ![r] = <<>>]
    /\ UNCHANGED <<storeVars, fate, clockVars>>

----------------------------------------------------------------------------
(* Everybody else.                                                         *)

Submit(t, d) == Create(t, now, now + d) /\ UNCHANGED <<schedVars, ctlVars, clockVars>>

CancelTask(t) == Cancel(t) /\ UNCHANGED <<schedVars, ctlVars, clockVars>>

TimePasses ==
    /\ Tick
    /\ ranOut' = ranOut \cup {tasks[t].lease.id : t \in {u \in Task : LeaseExpired(tasks[u])'}}
    /\ UNCHANGED <<schedVars, ctlVars, setbacks>>

\* The store's clock is a server's wall clock, and may be set back.
ClockSetBack ==
    /\ setbacks < MaxSetback
    /\ Rollback
    /\ setbacks' = setbacks + 1
    /\ UNCHANGED <<schedVars, ctlVars, ranOut>>

Next ==
    \/ \E r \in Owner : Schedule(r) \/ HandleEvent(r) \/ Crash(r)
    \/ \E r \in Owner, d \in Decision : AdmitAttempt(r, d)
    \/ \E r \in Owner : \E i \in inflight[r] :
        \/ \E outcome \in Reported : AttemptEnds(r, i, outcome)
        \/ AttemptUpgrading(r, i)
        \/ AttemptUncertain(r, i)
    \/ \E t \in Task, d \in SubmitDelay : Submit(t, d)
    \/ \E t \in Task : CancelTask(t)
    \/ TimePasses
    \/ ClockSetBack

Spec == Init /\ [][Next]_vars

(***************************************************************************)
(* Fairness.  The scheduler loop and the event worker are spawned for the  *)
(* life of the process and never wait for anything but the store, whose    *)
(* adapter bounds every call, and the admission, which has a deadline; and *)
(* a store that is asked again and again does not fail every time.         *)
(* Time passes, and the clock is set back a bounded number of times.       *)
(* Nothing is assumed of submitters, Runtimes or crashes.                  *)
(***************************************************************************)
StoreAnswers(r) ==
    /\ SF_vars(WithHistory(RecoverNow(r)))
    /\ SF_vars(WithHistory(RecoverScan(r)))
    /\ SF_vars(WithHistory(Recover(r) /\ tasks' # tasks))
    /\ SF_vars(WithHistory(RenewNow(r)))
    /\ SF_vars(WithHistory(RenewLease(r) /\ active' # active))
    /\ SF_vars(WithHistory(ScanNow(r)))
    /\ SF_vars(WithHistory(ScanAdvance(r)))
    /\ SF_vars(WithHistory(ScanFind(r)))
    /\ SF_vars(WithHistory(ClaimDue(r) /\ tasks' # tasks))

FairSpec ==
    /\ Spec
    /\ WF_vars(TimePasses)
    /\ \A r \in Owner :
        /\ WF_vars(Schedule(r))
        /\ WF_vars(\E d \in Decision : AdmitAttempt(r, d))
        /\ WF_vars(HandleEvent(r))
        /\ StoreAnswers(r)

----------------------------------------------------------------------------
(* Properties.                                                             *)

Attempt == [task : Task, lease : 1 .. MaxLease]

ControlEvent ==
    [kind : {"settle"}, task : Task, lease : 1 .. MaxLease, outcome : Reported]
    \cup [kind : {"release"}, task : Task, lease : 1 .. MaxLease, outcome : {"none"}]

SchedTypeOK ==
    /\ pc \in [Owner -> Label]
    /\ snow \in [Owner -> Time]
    /\ work \in [Owner -> SUBSET [task : Task, lease : 0 .. MaxLease]]
    /\ cur \in [Owner -> [task : Task, lease : 1 .. MaxLease, decision : Decision \cup {"none"}]
                        \cup {NoAttempt}]
    /\ active \in [Owner -> [Task -> 0 .. MaxLease]]
    /\ \A r \in Owner :
        /\ pc[r] \in {"admit", "decide"} <=> cur[r] # NoAttempt
        /\ pc[r] = "decide" <=> cur[r].decision # "none"

ControlTypeOK ==
    /\ inflight \in [Owner -> SUBSET Attempt]
    /\ queue \in [Owner -> Seq(ControlEvent)]
    /\ fate \in [1 .. MaxLease -> [task : Task \cup {"none"}, result : Outcome]]
    /\ \A r \in Owner : Len(queue[r]) <= QueueCap

ClockTypeOK ==
    /\ ranOut \subseteq 1 .. MaxLease
    /\ setbacks \in 0 .. MaxSetback

\* Everything a replica or its control plane keeps between two awaits is what
\* the next store call needs, and the event channel stays within its capacity.
DispatchTypeOK == TypeOK /\ SchedTypeOK /\ ControlTypeOK /\ ClockTypeOK

LastLease(t) ==
    LET mine == {l \in 1 .. MaxLease : fate[l].task = t}
    IN  CHOOSE l \in mine : \A k \in mine : k <= l

\* Fencing end to end: the outcome a task ends with is the one found by its
\* last attempt, however late the reports of the earlier attempts arrive and
\* whichever Router they come from.
OutcomeOfLastAttempt ==
    \A t \in Task : tasks[t].state \in Terminal \ {"canceled"} =>
        fate[LastLease(t)].result = tasks[t].terminal

\* l is the lease of t, and has not run out at any time.
Live(t, l) == HoldsLease(tasks[t], l) /\ l \notin ranOut

\* Stale bookkeeping never drops a fresh lease: an attempt that is pending
\* under the current lease, which has never run out, is on its replica's
\* renewal list (once handle_decision has put it there).  A lease that did run
\* out may have been dropped rightly before the clock was set back.
LiveAttemptIsRenewed ==
    \A r \in Owner : \A i \in inflight[r] :
        Live(i.task, i.lease) /\ cur[r].lease # i.lease => active[r][i.task] = i.lease

\* A replica names the lease l of task t: in the renewal, the decision or the
\* control event it is at.
Names(r, t, l) ==
    \/ pc[r] = "renew" /\ Item(t, l) \in work[r]
    \/ pc[r] = "decide" /\ cur[r].task = t /\ cur[r].lease = l
    \/ queue[r] # <<>> /\ Head(queue[r]).task = t /\ Head(queue[r]).lease = l

\* A lease that has not run out is prolonged or ended by its holder alone, and
\* under its own id: not by a recovery that works from an old batch, nor by a
\* late report of an earlier attempt, nor by another replica.
LeaseIsItsHolders ==
    [][\A t \in Task :
          /\ HoldsLease(tasks[t], tasks[t].lease.id)
          /\ tasks'[t].lease # tasks[t].lease
          => Names(tasks[t].lease.owner, t, tasks[t].lease.id)]_vars

\* Platform backoff holds at the store: no attempt is claimed before the
\* task's retry not-before.
RetryPaced ==
    [][\A t \in Task : tasks'[t].gen # tasks[t].gen => tasks[t].rnb <= now]_vars

\* A lease whose attempt was given up without an outcome (forget_now) stays off
\* the renewal list, so that its expiry drives recovery.
ForgottenStaysForgotten ==
    \A r \in Owner, t \in Task, l \in 1 .. MaxLease :
        active[r][t] = l => Item(t, l) \in inflight[r] \/ fate[l].result # "none"

\* Infrastructure recovery: a lease that has run out does not stay in the
\* store, whichever replica held it and whatever became of that replica.
ExpiredLeaseIsRecovered ==
    \A t \in Task : LeaseExpired(tasks[t]) ~> ~LeaseExpired(tasks[t])

\* A task that is due and past its backoff is claimed or canceled (or the
\* model has run out of lease ids).
DueTaskIsClaimed ==
    \A t \in Task : DueReady(t) /\ tasks[t].rnb <= now ~> tasks[t].state # "ready" \/ leases = MaxLease

\* A lease is renewed while its attempt is pending: once the attempt has ended,
\* settlement or lease loss takes the entry off the renewal list.
EndedAttemptIsReleased ==
    \A r \in Owner, t \in Task, l \in 1 .. MaxLease :
        fate[l].result # "none" ~> active[r][t] # l
============================================================================
