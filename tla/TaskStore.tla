----------------------------- MODULE TaskStore -----------------------------
(***************************************************************************)
(* The durable task store (task-control/src/store.rs): the record of every *)
(* task, the store authority clock, and one action per conditional write.  *)
(* The reducer operators translate task-control/src/reducer.rs; the        *)
(* in-memory adapter runs them under its lock and the Mongo adapter runs   *)
(* the same condition as one server-side find_one_and_update.              *)
(*                                                                         *)
(* An adapter call whose condition fails changes nothing and returns a     *)
(* rejection; the classifying operators below name it, because the callers *)
(* (TaskScheduler) branch on it.                                           *)
(***************************************************************************)
EXTENDS Naturals

CONSTANTS
    Task,       \* task ids, chosen by the submitting side
    Owner,      \* scheduler replicas that may hold a lease
    Stamp,      \* timestamps a caller may pass (expiry, due, retry not-before)
    Retention,  \* how long after its creation a record answers status queries
    MaxTime,    \* bound: the store clock stops here
    MaxLease    \* bound: number of claims in a behaviour

ASSUME StoreAssumption ==
    /\ Stamp \subseteq Nat
    /\ Retention \in Nat
    /\ MaxTime \in Nat
    /\ MaxLease \in Nat

VARIABLES
    tasks,      \* the collection: a record for every task id
    now,        \* store authority time
    leases,     \* lease / attempt ids handed out so far
    closed      \* close() was called on the store handle

storeVars == <<tasks, now, leases, closed>>

Time == 0 .. MaxTime

(***************************************************************************)
(* The record.  A task id with no document has state "absent".  A lease    *)
(* carries its id (the attempt id is generated with it and stands or falls *)
(* with it), the owner witness and the expiry; NoLease is Option::None.    *)
(* rnb is retry_not_before, 0 when it was never written.                   *)
(***************************************************************************)
Terminal == {"succeeded", "failed", "platformFailed", "canceled"}

TaskState == {"absent", "scheduled", "ready", "leased"} \cup Terminal

Outcome == {"none", "succeeded", "targetFailed", "platformFailed", "canceled"}

\* Outcomes that reach settle(); cancel() writes "canceled" itself.
SettledOutcome == {"succeeded", "targetFailed", "platformFailed"}

LeaseOf(l, o, x) == [id |-> l, owner |-> o, expiry |-> x]

NoLease == [id |-> 0, owner |-> "none", expiry |-> 0]

Lease == [id : 1 .. MaxLease, owner : Owner, expiry : Nat]

TaskRecord ==
    [state    : TaskState,
     created  : Nat,
     due      : Nat,
     gen      : Nat,
     lease    : Lease \cup {NoLease},
     terminal : Outcome,
     rnb      : Nat]

NoRecord ==
    [state |-> "absent", created |-> 0, due |-> 0, gen |-> 0, lease |-> NoLease,
     terminal |-> "none", rnb |-> 0]

\* The record a submission creates (validate_create admits no other).
NewRecord(created, due) ==
    [state |-> "scheduled", created |-> created, due |-> due, gen |-> 0, lease |-> NoLease,
     terminal |-> "none", rnb |-> 0]

\* TaskOutcome::terminal_state
TerminalState(outcome) ==
    CASE outcome = "succeeded"      -> "succeeded"
      [] outcome = "targetFailed"   -> "failed"
      [] outcome = "platformFailed" -> "platformFailed"
      [] outcome = "canceled"       -> "canceled"

\* Concurrent recoveries and releases keep the latest not-before.
LastWriterRetryNotBefore(existing, next) == next

MergeRetryNotBefore(existing, next) == IF existing > next THEN existing ELSE next

----------------------------------------------------------------------------
(* The reducer: what each call does to the record it finds.                *)

DueNow(rec) == rec.state = "scheduled" /\ rec.due <= now

AdvanceDue(rec) == IF DueNow(rec) THEN [rec EXCEPT !.state = "ready"] ELSE rec

ClaimableBeforeDue(rec, expiry) == rec.state = "ready" /\ expiry > now

Claimable(rec, expiry) ==
    /\ rec.state = "ready"
    /\ rec.due <= now
    /\ expiry > now

Claimed(rec, l, o, expiry) ==
    [rec EXCEPT !.state    = "leased",
                !.gen      = @ + 1,
                !.lease    = LeaseOf(l, o, expiry),
                !.terminal = "none"]

HoldsAnyLease(rec, l) == rec.state = "leased" /\ rec.lease.expiry > now

HoldsLeaseEvenExpired(rec, l) == rec.state = "leased" /\ rec.lease.id = l

\* The lease named by the caller is the current one and has not run out.
HoldsLease(rec, l) ==
    /\ rec.state = "leased"
    /\ rec.lease.id = l
    /\ rec.lease.expiry > now

Renewed(rec, expiry) == [rec EXCEPT !.lease.expiry = expiry]

Settleable(rec, l) == HoldsLease(rec, l) /\ rec.terminal = "none"

SettledUnderOutcomeName(rec, outcome) ==
    [rec EXCEPT !.state = outcome, !.lease = NoLease, !.terminal = outcome]

Settled(rec, outcome) ==
    [rec EXCEPT !.state    = TerminalState(outcome),
                !.lease    = NoLease,
                !.terminal = outcome]

CancelableUnlessLeased(rec) == rec.state \notin {"absent", "leased"}

CancelableUntilTerminal(rec) == rec.state \in {"scheduled", "ready", "leased"}

Cancelable(rec) == rec.state \in {"scheduled", "ready"}

Canceled(rec) ==
    [rec EXCEPT !.state    = "canceled",
                !.lease    = NoLease,
                !.terminal = "canceled"]

LeaseExpired(rec) == rec.state = "leased" /\ rec.lease.expiry <= now

BackToReadyKeepingLease(rec, rnb) ==
    [rec EXCEPT !.state = "ready", !.rnb = MergeRetryNotBefore(@, rnb)]

\* Lease-expiry recovery and provable-rejection release write the same record.
BackToReady(rec, rnb) ==
    [rec EXCEPT !.state = "ready",
                !.lease = NoLease,
                !.rnb   = MergeRetryNotBefore(@, rnb)]

----------------------------------------------------------------------------
(* The rejection a caller sees when the condition fails.                   *)

RenewRejection(rec, l) ==
    CASE rec.state = "absent"                   -> "notFound"
      [] rec.state \in {"scheduled", "ready"}   -> "notLeased"
      [] rec.state \in Terminal                 -> "terminal"
      [] rec.state = "leased" ->
            CASE rec.lease.id # l          -> "staleLease"
              [] rec.lease.id = l /\ rec.lease.expiry <= now -> "expiredLease"
              [] OTHER                     -> "invalidExpiry"

CancelResult(rec) ==
    CASE rec.state = "absent"                 -> "expired"
      [] rec.state \in {"scheduled", "ready"} -> "canceled"
      [] rec.state = "leased"                 -> "alreadyStarted"
      [] OTHER                                -> "alreadyTerminal"

StatusKind(rec) ==
    CASE rec.state = "absent"             -> "expired"
      [] rec.created + Retention < now    -> "expired"
      [] OTHER                            -> rec.state

----------------------------------------------------------------------------
(* The store's operations.                                                 *)

StoreInit ==
    /\ tasks = [t \in Task |-> NoRecord]
    /\ now = 0
    /\ leases = 0
    /\ closed = FALSE

Put(t, rec) == tasks' = [tasks EXCEPT ![t] = rec]

\* create: insert the document; the same id again is answered, not written.
Create(t, created, due) ==
    /\ ~closed
    /\ tasks[t].state = "absent"
    /\ Put(t, NewRecord(created, due))
    /\ UNCHANGED <<now, leases, closed>>

\* scan_due: every due scheduled task becomes ready.
ScanDue ==
    /\ ~closed
    /\ tasks' = [t \in Task |-> AdvanceDue(tasks[t])]
    /\ UNCHANGED <<now, leases, closed>>

Claim(t, o, expiry) ==
    /\ ~closed
    /\ leases < MaxLease
    /\ Claimable(tasks[t], expiry)
    /\ leases' = leases + 1
    /\ Put(t, Claimed(tasks[t], leases + 1, o, expiry))
    /\ UNCHANGED <<now, closed>>

Renew(t, l, expiry) ==
    /\ ~closed
    /\ HoldsLease(tasks[t], l)
    /\ expiry > now
    /\ Put(t, Renewed(tasks[t], expiry))
    /\ UNCHANGED <<now, leases, closed>>

Settle(t, l, outcome) ==
    /\ ~closed
    /\ Settleable(tasks[t], l)
    /\ Put(t, Settled(tasks[t], outcome))
    /\ UNCHANGED <<now, leases, closed>>

Cancel(t) ==
    /\ ~closed
    /\ Cancelable(tasks[t])
    /\ Put(t, Canceled(tasks[t]))
    /\ UNCHANGED <<now, leases, closed>>

RecoverExpiredLease(t, rnb) ==
    /\ ~closed
    /\ LeaseExpired(tasks[t])
    /\ Put(t, BackToReady(tasks[t], rnb))
    /\ UNCHANGED <<now, leases, closed>>

Release(t, l, rnb) ==
    /\ ~closed
    /\ HoldsLease(tasks[t], l)
    /\ Put(t, BackToReady(tasks[t], rnb))
    /\ UNCHANGED <<now, leases, closed>>

Close ==
    /\ closed' = TRUE
    /\ UNCHANGED <<tasks, now, leases>>

----------------------------------------------------------------------------
(* The store authority clock.  It is a server wall clock: it advances, and *)
(* it may also be set back.                                                *)

Tick ==
    /\ now < MaxTime
    /\ now' = now + 1
    /\ UNCHANGED <<tasks, leases, closed>>

Rollback ==
    /\ \E t \in Time : t < now /\ now' = t
    /\ UNCHANGED <<tasks, leases, closed>>

StoreNext ==
    \/ \E t \in Task, created, due \in Stamp : Create(t, created, due)
    \/ ScanDue
    \/ \E t \in Task, o \in Owner, x \in Stamp : Claim(t, o, x)
    \/ \E t \in Task, l \in 1 .. MaxLease, x \in Stamp : Renew(t, l, x)
    \/ \E t \in Task, l \in 1 .. MaxLease, o \in SettledOutcome : Settle(t, l, o)
    \/ \E t \in Task : Cancel(t)
    \/ \E t \in Task, x \in Stamp : RecoverExpiredLease(t, x)
    \/ \E t \in Task, l \in 1 .. MaxLease, x \in Stamp : Release(t, l, x)
    \/ Close
    \/ Tick
    \/ Rollback

StoreSpec == StoreInit /\ [][StoreNext]_storeVars

----------------------------------------------------------------------------
(* Properties.                                                             *)

\* Every record the store can hold is well typed: a stored document always
\* decodes into a TaskRecord (document_to_record).
TypeOK ==
    /\ tasks \in [Task -> TaskRecord]
    /\ now \in Time
    /\ leases \in 0 .. MaxLease
    /\ closed \in BOOLEAN

\* What the reducer's expect() calls rely on: a record carries a lease exactly
\* while it is leased, and a terminal record carries the outcome its state
\* stands for (reducer.rs "leased record carries active lease", "terminal
\* state has terminal").
RecordsConsistent ==
    \A t \in Task :
        /\ tasks[t].state = "leased" <=> tasks[t].lease # NoLease
        /\ tasks[t].state \in Terminal <=> tasks[t].terminal # "none"
        /\ tasks[t].state \in Terminal =>
                tasks[t].state = TerminalState(tasks[t].terminal)

\* Fencing identity: the leases in the store were handed out by distinct
\* claims, so a lease id names one attempt of one task and a caller that
\* presents it cannot act on anything else.
LeaseIdsUnique ==
    \A t \in Task : tasks[t].lease # NoLease =>
        /\ tasks[t].lease.id \in 1 .. leases
        /\ \A u \in Task : tasks[u].lease.id = tasks[t].lease.id => u = t

\* A task id without a document carries nothing over: ids are not recycled.
AbsentIsBlank == \A t \in Task : tasks[t].state = "absent" => tasks[t] = NoRecord

\* The inductive invariant the theorems of TaskStoreProofs rest on.
StoreInv == TypeOK /\ RecordsConsistent /\ LeaseIdsUnique /\ AbsentIsBlank

\* A terminal record is never written again: not by a late settlement, a
\* recovery, a second cancel, a duplicate create or a scan.
TerminalIsFinal ==
    [][\A t \in Task : tasks[t].state \in Terminal => tasks'[t] = tasks[t]]_storeVars

\* No attempt starts before the due time on the store's own clock, also when
\* the clock was set back after the scan that made the task ready.
NoEarlyClaim ==
    [][\A t \in Task :
          tasks'[t].gen # tasks[t].gen => tasks[t].due <= now]_storeVars

\* A lease that has run out can only be recovered: nothing renews, settles or
\* releases it, whether or not a scanner has seen it yet.
ExpiredLeaseIsDead ==
    [][\A t \in Task :
          LeaseExpired(tasks[t]) => tasks'[t] = tasks[t] \/ tasks'[t].state = "ready"]_storeVars

\* The backoff written by concurrent recoveries and releases never moves
\* backwards.
RetryNotBeforeMonotone ==
    [][\A t \in Task : tasks'[t].rnb >= tasks[t].rnb]_storeVars

----------------------------------------------------------------------------
(* The task as its users see it: TaskLifecycle.                            *)

PhaseOf(rec) ==
    CASE rec.state \in {"scheduled", "ready"} -> "waiting"
      [] rec.state = "leased"                 -> "running"
      [] OTHER                                -> rec.state

Lifecycle ==
    INSTANCE TaskLifecycle WITH
        phase    <- [t \in Task |-> PhaseOf(tasks[t])],
        attempts <- [t \in Task |-> tasks[t].gen]

\* The store implements the task state machine of the dispatch architecture:
\* every conditional write is one of its transitions or is invisible.
RefinesLifecycle == Lifecycle!Spec

\* store.rs promises that a record past its retention horizon answers a cancel
\* with "expired", as it answers a status query.
CancelHonoursRetention ==
    \A t \in Task : StatusKind(tasks[t]) = "expired" => CancelResult(tasks[t]) = "expired"
============================================================================
