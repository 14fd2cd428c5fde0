----------------------------- MODULE TaskBatch ------------------------------
(***************************************************************************)
(* The due scan of one scheduler replica over more tasks than its batch    *)
(* holds (scan_once of task-control/src/scheduler/mod.rs), with relative   *)
(* time: what matters of a retry not-before is how far away it is.         *)
(*                                                                         *)
(* TaskScheduler has the replicas, failures and leases; here nothing fails *)
(* but the admission of the tasks whose Runtime is away.                   *)
(***************************************************************************)
EXTENDS BackoffPolicy, Sequences, FiniteSets

CONSTANTS
    NumTasks,       \* due tasks, numbered in the order of due_at
    Away,           \* the numbers of the tasks no Runtime can take: admit answers RejectedProvable
    BatchLimit,     \* batch_limit
    Policy,         \* the RetryBackoffPolicy, one that WithJitter accepts
    MaxGeneration   \* bound: generations told apart; the delay is capped there

Tasks == 1..NumTasks

VARIABLES
    state,      \* "ready", "leased" or "succeeded"
    generation, \* attempt_generation of a task, up to MaxGeneration
    wait,       \* time until its retry_not_before
    batch,      \* the records of the running scan still to be visited
    since       \* time since the scan read the clock

batchVars == <<state, generation, wait, batch, since>>

MaxDelay == Policy.max + Policy.jitter_span

BatchInit ==
    /\ WithJitter(Policy)
    /\ state = [t \in Tasks |-> "ready"]
    /\ generation = [t \in Tasks |-> 0] /\ wait = [t \in Tasks |-> 0]
    /\ batch = <<>> /\ since = 0

Ready == {t \in Tasks : state[t] = "ready"}
Rank(t) == Cardinality({u \in Ready : u <= t})

\* scan_due: the first ready records by due_at, those in backoff among them.
Due ==
    LET n == IF Cardinality(Ready) < BatchLimit THEN Cardinality(Ready) ELSE BatchLimit
    IN [i \in 1..n |-> LET t == CHOOSE u \in Ready : Rank(u) = i
                       IN [task |-> t, inBackoff |-> wait[t] > 0]]

\* now and scan_due (TaskScheduler takes them apart).
Scan ==
    /\ batch = <<>> /\ Ready # {}
    /\ batch' = Due /\ since' = 0
    /\ UNCHANGED <<state, generation, wait>>

\* A record in backoff is passed over.
Skip ==
    /\ batch # <<>> /\ Head(batch).inBackoff
    /\ batch' = Tail(batch)
    /\ UNCHANGED <<state, generation, wait, since>>

Later(t) == IF generation[t] < MaxGeneration THEN generation[t] + 1 ELSE MaxGeneration

\* claim, admit and handle_decision: RejectedProvable releases with a backoff that
\* counts from the clock the scan has read.
ClaimRejected ==
    LET t == Head(batch).task
    IN /\ batch # <<>> /\ ~Head(batch).inBackoff /\ t \in Away
       /\ generation' = [generation EXCEPT ![t] = Later(t)]
       /\ \E seed \in 0..Policy.jitter_span :
             LET jitter == NextMillis(seed, Policy.jitter_span)
                 left == DelayMillis(Policy, Later(t), jitter) - since
             IN wait' = [wait EXCEPT ![t] = IF left > 0 THEN left ELSE 0]
       /\ batch' = Tail(batch)
       /\ UNCHANGED <<state, since>>

\* claim, admit and handle_decision: Accepted.
ClaimAccepted ==
    /\ batch # <<>> /\ ~Head(batch).inBackoff /\ Head(batch).task \notin Away
    /\ state' = [state EXCEPT ![Head(batch).task] = "leased"]
    /\ batch' = Tail(batch)
    /\ UNCHANGED <<generation, wait, since>>

\* The attempt of a leased task ends and is settled.
Settle(t) ==
    /\ state[t] = "leased"
    /\ state' = [state EXCEPT ![t] = "succeeded"]
    /\ UNCHANGED <<generation, wait, batch, since>>

\* The store clock advances.
Tick ==
    /\ wait' = [t \in Tasks |-> IF wait[t] > 0 THEN wait[t] - 1 ELSE 0]
    /\ since' = IF since < MaxDelay THEN since + 1 ELSE since
    /\ UNCHANGED <<state, generation, batch>>

BatchNext == Scan \/ Skip \/ ClaimRejected \/ ClaimAccepted \/ Tick \/ \E t \in Tasks : Settle(t)

\* The loop of run goes on and time passes.
BatchFairness == WF_batchVars(Scan) /\ WF_batchVars(Skip) /\ WF_batchVars(ClaimRejected)
                 /\ WF_batchVars(ClaimAccepted) /\ WF_batchVars(Tick)

BatchSpec == BatchInit /\ [][BatchNext]_batchVars /\ BatchFairness

-----------------------------------------------------------------------------
(* Properties *)

\* A due task that a Runtime can take is attempted, whatever becomes of the tasks that
\* were due before it (mod.rs run: "Keep draining ... until a scan no longer saturates
\* its batch").  Holds while fewer tasks are away than a batch holds.
DueTaskRuns == \A t \in Tasks \ Away : state[t] = "ready" ~> state[t] # "ready"

\* A task that cannot be admitted is tried again, at its capped backoff at the latest, so
\* that it runs once a Runtime comes back (mod.rs scan_once, handle_decision).
RejectedIsRetried ==
  \A t \in Away :
    wait[t] > 0 ~> (batch # <<>> /\ Head(batch).task = t /\ ~Head(batch).inBackoff)
=============================================================================
