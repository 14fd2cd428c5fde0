--------------------------- MODULE TaskScheduler ---------------------------
(***************************************************************************)
(* The scheduler replicas (task-control/src/scheduler/mod.rs).  A replica  *)
(* runs cycles of recover_once, renew_active_leases and scan_once; between *)
(* two awaits of a cycle every other replica, the control plane and the    *)
(* clock may move, so each store call is a step of its own and works with  *)
(* the time and the batch the replica read earlier.                        *)
(*                                                                         *)
(* A store call that changes the store may also lose its answer.  The      *)
(* adapter's retry then meets the changed record (a claim sees its own     *)
(* lease as somebody else's), or every retry fails: the caller goes on as  *)
(* if the call had been refused.  The disjuncts below named "lost" are     *)
(* those runs.                                                             *)
(***************************************************************************)
EXTENDS TaskStore, FiniteSets

CONSTANTS
    LeaseDuration,  \* SchedulerConfig.lease_duration
    Delay,          \* delays the backoff policy may return (jitter is random)
    BatchLimit      \* SchedulerConfig.batch_limit

ASSUME SchedulerAssumption ==
    /\ LeaseDuration \in Nat \ {0}
    /\ Delay \subseteq Nat
    /\ BatchLimit \in Nat \ {0}
    /\ \A x \in Time : x + LeaseDuration \in Stamp /\ \A d \in Delay : x + d \in Stamp

VARIABLES
    pc,         \* pc[r]: the await the replica is at; "recoverNow" is also its resting point
    snow,       \* snow[r]: the store time it last read
    work,       \* work[r]: what the running loop still has to visit
    cur,        \* cur[r]: the attempt it has claimed and is admitting
    active      \* active[r][t]: lease id in active_leases, 0 when there is no entry

schedVars == <<pc, snow, work, cur, active>>

Decision == {"accepted", "rejected", "uncertain", "permanent"}

Item(t, l) == [task |-> t, lease |-> l]

Label ==
    {"recoverNow", "recoverScan", "recover", "renewNow", "renew",
     "scanNow", "scanDue", "scanFind", "claim", "admit", "decide"}

NoAttempt == [task |-> "none", lease |-> 0, decision |-> "none"]

SchedInit ==
    /\ pc = [r \in Owner |-> "recoverNow"]
    /\ snow = [r \in Owner |-> 0]
    /\ work = [r \in Owner |-> {}]
    /\ cur = [r \in Owner |-> NoAttempt]
    /\ active = [r \in Owner |-> [t \in Task |-> 0]]

\* recover_once, renew_active_leases and scan_once each begin by reading the
\* store time, and forget it when they return.
PhaseStart == {"recoverNow", "renewNow", "scanNow"}

Goto(r, label) ==
    /\ pc' = [pc EXCEPT ![r] = label]
    /\ snow' = IF label \in PhaseStart THEN [snow EXCEPT ![r] = 0] ELSE snow

\* Start a loop over items, or skip it when there is nothing to visit.
StartLoop(r, items, loop, after) ==
    /\ work' = [work EXCEPT ![r] = items]
    /\ Goto(r, IF items = {} THEN after ELSE loop)

\* The loop at item i goes on with the next one, or ends.
Visited(r, i, after) ==
    /\ work' = [work EXCEPT ![r] = @ \ {i}]
    /\ Goto(r, IF work[r] = {i} THEN after ELSE pc[r])

ReadNow(r, next) ==
    /\ snow' = [snow EXCEPT ![r] = now]
    /\ pc' = [pc EXCEPT ![r] = next]

\* The batches a sorted, limited query may return: the keys left out are no
\* smaller than those returned.
Batches(S, key(_)) ==
    { B \in SUBSET S :
        /\ Cardinality(B) = IF Cardinality(S) < BatchLimit THEN Cardinality(S) ELSE BatchLimit
        /\ \A t \in B, u \in S \ B : key(t) <= key(u) }

RemoveActiveAnyLease(r, t, l) == active' = [active EXCEPT ![r][t] = 0]

\* remove_active_lease_if: only the entry with this very lease id goes.
RemoveActiveIf(r, t, l) ==
    active' = IF active[r][t] = l THEN [active EXCEPT ![r][t] = 0] ELSE active

----------------------------------------------------------------------------
(* recover_once                                                            *)

RecoverNow(r) ==
    /\ pc[r] = "recoverNow"
    /\ ReadNow(r, "recoverScan")
    /\ UNCHANGED <<storeVars, work, cur, active>>

RecoverScanOwnLeases(r) ==
    /\ pc[r] = "recoverScan"
    /\ \E B \in Batches({t \in Task : LeaseExpired(tasks[t]) /\ active[r][t] = tasks[t].lease.id},
                       LAMBDA t : tasks[t].lease.expiry) :
            StartLoop(r, {Item(t, tasks[t].lease.id) : t \in B}, "recover", "renewNow")
    /\ UNCHANGED <<storeVars, cur, active>>

\* scan_expired_leases: the expired leases of every replica, oldest first.
RecoverScan(r) ==
    /\ pc[r] = "recoverScan"
    /\ \E B \in Batches({t \in Task : LeaseExpired(tasks[t])}, LAMBDA t : tasks[t].lease.expiry) :
            StartLoop(r, {Item(t, tasks[t].lease.id) : t \in B}, "recover", "renewNow")
    /\ UNCHANGED <<storeVars, cur, active>>

RecoverAsScanned(r) ==
    /\ pc[r] = "recover"
    /\ \E i \in work[r] :
        /\ Visited(r, i, "renewNow")
        /\ \E d \in Delay : Put(i.task, BackToReady(tasks[i.task], snow[r] + d))
        /\ RemoveActiveIf(r, i.task, i.lease)
    /\ UNCHANGED <<now, leases, closed, cur>>

Recover(r) ==
    /\ pc[r] = "recover"
    /\ \E i \in work[r] :
        /\ Visited(r, i, "renewNow")
        /\ \/ /\ \E d \in Delay : RecoverExpiredLease(i.task, snow[r] + d)
              /\ \/ RemoveActiveIf(r, i.task, i.lease)
                 \/ UNCHANGED active                    \* lost
           \/ UNCHANGED <<storeVars, active>>           \* rejected or unavailable
    /\ UNCHANGED cur

----------------------------------------------------------------------------
(* renew_active_leases                                                     *)

RenewNow(r) ==
    /\ pc[r] = "renewNow"
    /\ LET leased == {t \in Task : active[r][t] # 0}
       IN  IF leased = {}
           THEN Goto(r, "scanNow") /\ UNCHANGED work
           ELSE /\ ReadNow(r, "renew")
                /\ work' = [work EXCEPT ![r] = {Item(t, active[r][t]) : t \in leased}]
    /\ UNCHANGED <<storeVars, cur, active>>

\* Every rejection but an expiry that is already past means the lease is lost.
LeaseLost(rejection) == rejection # "invalidExpiry"

RenewLease(r) ==
    /\ pc[r] = "renew"
    /\ \E i \in work[r] :
        /\ Visited(r, i, "scanNow")
        /\ \/ Renew(i.task, i.lease, snow[r] + LeaseDuration) /\ UNCHANGED active
           \/ /\ ~HoldsLease(tasks[i.task], i.lease)
              /\ LeaseLost(RenewRejection(tasks[i.task], i.lease))
              /\ RemoveActiveIf(r, i.task, i.lease)
              /\ UNCHANGED storeVars
           \/ UNCHANGED <<storeVars, active>>           \* unavailable
    /\ UNCHANGED cur

----------------------------------------------------------------------------
(* scan_once                                                               *)

ScanNow(r) ==
    /\ pc[r] = "scanNow"
    /\ ReadNow(r, "scanDue")
    /\ UNCHANGED <<storeVars, work, cur, active>>

ScanAdvance(r) ==
    /\ pc[r] = "scanDue"
    /\ ScanDue
    /\ Goto(r, "scanFind")
    /\ UNCHANGED <<work, cur, active>>

DueReady(t) == tasks[t].state = "ready" /\ tasks[t].due <= now

ScanFindAfterBackoff(r) ==
    /\ pc[r] = "scanFind"
    /\ \E B \in Batches({t \in Task : DueReady(t)}, LAMBDA t : tasks[t].due) :
            StartLoop(r, {Item(t, 0) : t \in {u \in B : tasks[u].rnb < snow[r]}},
                      "claim", "recoverNow")
    /\ UNCHANGED <<storeVars, cur, active>>

\* The records still in backoff were returned by the query and count against
\* its limit; the loop passes over them.
ScanFind(r) ==
    /\ pc[r] = "scanFind"
    /\ \E B \in Batches({t \in Task : DueReady(t)}, LAMBDA t : tasks[t].due) :
            StartLoop(r, {Item(t, 0) : t \in {u \in B : tasks[u].rnb <= snow[r]}},
                      "claim", "recoverNow")
    /\ UNCHANGED <<storeVars, cur, active>>

ClaimDue(r) ==
    /\ pc[r] = "claim"
    /\ \E i \in work[r] :
        /\ \A j \in work[r] : tasks[i.task].due <= tasks[j.task].due
        /\ \/ /\ Claim(i.task, r, snow[r] + LeaseDuration)
              /\ cur' = [cur EXCEPT ![r] = [task |-> i.task, lease |-> leases', decision |-> "none"]]
              /\ work' = [work EXCEPT ![r] = @ \ {i}]
              /\ Goto(r, "admit")
           \/ /\ Claim(i.task, r, snow[r] + LeaseDuration)      \* lost
              /\ Visited(r, i, "recoverNow")
              /\ UNCHANGED cur
           \/ /\ Visited(r, i, "recoverNow")                    \* rejected or unavailable
              /\ UNCHANGED <<storeVars, cur>>
    /\ UNCHANGED active

\* admission.admit: what the Router can prove about the attempt.
Admit(r, d) ==
    /\ pc[r] = "admit"
    /\ cur' = [cur EXCEPT ![r].decision = d]
    /\ Goto(r, "decide")
    /\ UNCHANGED <<storeVars, work, active>>

\* handle_decision, then on to the next record of the batch.
Decide(r) ==
    /\ pc[r] = "decide"
    /\ LET t == cur[r].task
           l == cur[r].lease
       IN  \/ /\ cur[r].decision = "accepted"
              /\ active' = [active EXCEPT ![r][t] = l]
              /\ UNCHANGED storeVars
           \/ /\ cur[r].decision = "rejected"
              /\ \/ \E d \in Delay : Release(t, l, snow[r] + d)
                 \/ UNCHANGED storeVars                 \* rejected or unavailable
              /\ RemoveActiveIf(r, t, l)
           \/ /\ cur[r].decision = "uncertain"
              /\ UNCHANGED <<storeVars, active>>
           \/ /\ cur[r].decision = "permanent"
              /\ \/ Settle(t, l, "platformFailed")
                 \/ UNCHANGED storeVars                 \* rejected or unavailable
              /\ RemoveActiveIf(r, t, l)
    /\ cur' = [cur EXCEPT ![r] = NoAttempt]
    /\ Goto(r, IF work[r] = {} THEN "recoverNow" ELSE "claim")
    /\ UNCHANGED work

----------------------------------------------------------------------------
\* A failed now() or scan ends the phase it belongs to.
PhaseAfterFailure ==
    [recoverNow |-> "renewNow", recoverScan |-> "renewNow", renewNow |-> "scanNow",
     scanNow |-> "recoverNow", scanDue |-> "recoverNow", scanFind |-> "recoverNow"]

PhaseFails(r) ==
    /\ pc[r] \in DOMAIN PhaseAfterFailure
    /\ Goto(r, PhaseAfterFailure[pc[r]])
    /\ UNCHANGED <<storeVars, work, cur, active>>

\* The scheduler's own steps; Admit is left to the composition, which knows
\* what an accepted attempt does.
SchedStep(r) ==
    \/ RecoverNow(r) \/ RecoverScan(r) \/ Recover(r)
    \/ RenewNow(r) \/ RenewLease(r)
    \/ ScanNow(r) \/ ScanAdvance(r) \/ ScanFind(r) \/ ClaimDue(r) \/ Decide(r)
    \/ PhaseFails(r)
============================================================================
