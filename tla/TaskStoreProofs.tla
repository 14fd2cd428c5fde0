-------------------------- MODULE TaskStoreProofs --------------------------
(***************************************************************************)
(* Machine-checked proofs about TaskStore, for every set of tasks, owners  *)
(* and timestamps and every bound.  StoreInv is inductive; the action      *)
(* properties and the refinement of TaskLifecycle follow from it.          *)
(***************************************************************************)
EXTENDS TaskStore, TLAPS

\* What the reducer returns for a well-typed record is a well-typed record.
LEMMA ReducerTypes ==
    ASSUME NEW rec \in TaskRecord, NEW l \in 1 .. MaxLease, NEW o \in Owner,
           NEW x \in Nat, NEW created \in Nat, NEW out \in SettledOutcome
    PROVE  /\ NoRecord \in TaskRecord
           /\ NewRecord(created, x) \in TaskRecord
           /\ AdvanceDue(rec) \in TaskRecord
           /\ Claimed(rec, l, o, x) \in TaskRecord
           /\ Settled(rec, out) \in TaskRecord
           /\ Canceled(rec) \in TaskRecord
           /\ BackToReady(rec, x) \in TaskRecord
           /\ rec.lease # NoLease => Renewed(rec, x) \in TaskRecord
<1> USE DEF TaskRecord, TaskState, Terminal, Outcome
<1>1. NoRecord \in TaskRecord /\ NewRecord(created, x) \in TaskRecord
  BY DEF NoRecord, NewRecord
<1>2. AdvanceDue(rec) \in TaskRecord
  BY DEF AdvanceDue
<1>3. Claimed(rec, l, o, x) \in TaskRecord
  <2>1. LeaseOf(l, o, x) \in Lease
    BY DEF LeaseOf, Lease
  <2>2. rec.gen + 1 \in Nat
    OBVIOUS
  <2> QED BY <2>1, <2>2, Zenon DEF Claimed
<1>4. Settled(rec, out) \in TaskRecord
  BY DEF Settled, TerminalState, SettledOutcome
<1>5. Canceled(rec) \in TaskRecord
  BY DEF Canceled
<1>6. BackToReady(rec, x) \in TaskRecord
  BY DEF BackToReady, MergeRetryNotBefore
<1>7. rec.lease # NoLease => Renewed(rec, x) \in TaskRecord
  <2>1. rec.lease # NoLease => [rec.lease EXCEPT !.expiry = x] \in Lease
    BY DEF Lease
  <2> QED BY <2>1 DEF Renewed
<1> QED BY <1>1, <1>2, <1>3, <1>4, <1>5, <1>6, <1>7

\* The initial state satisfies the invariant: no record, no lease.
LEMMA InitStoreInv == StoreInit => StoreInv
<1> SUFFICES ASSUME StoreInit PROVE StoreInv
  OBVIOUS
<1>1. NoRecord \in TaskRecord
  BY DEF NoRecord, TaskRecord, TaskState, Outcome
<1>2. TypeOK
  <2>1. tasks \in [Task -> TaskRecord] /\ closed \in BOOLEAN
    BY <1>1, Zenon DEF StoreInit
  <2>2. now \in Time /\ leases \in 0 .. MaxLease
    BY StoreAssumption DEF StoreInit, Time
  <2> QED BY <2>1, <2>2 DEF TypeOK
<1>3. RecordsConsistent /\ LeaseIdsUnique /\ AbsentIsBlank
  BY DEF StoreInit, RecordsConsistent, LeaseIdsUnique, AbsentIsBlank, NoRecord, Terminal
<1> QED BY <1>2, <1>3 DEF StoreInv

\* A write of one well-typed, self-consistent record that brings in no lease
\* keeps the invariant.
LEMMA PutWithoutLease ==
    ASSUME StoreInv, NEW t \in Task, NEW rec \in TaskRecord, Put(t, rec),
           rec.lease = NoLease, rec.state \notin {"absent", "leased"},
           rec.state \in Terminal <=> rec.terminal # "none",
           rec.state \in Terminal => rec.state = TerminalState(rec.terminal),
           UNCHANGED <<now, leases, closed>>
    PROVE  StoreInv'
<1> USE DEF StoreInv, TypeOK
<1>1. TypeOK'
  BY DEF Put, Time
<1>2. RecordsConsistent'
  BY DEF RecordsConsistent, Put
<1>3. LeaseIdsUnique'
  BY DEF LeaseIdsUnique, Put, NoLease
<1>4. AbsentIsBlank'
  BY DEF AbsentIsBlank, Put
<1> QED BY <1>1, <1>2, <1>3, <1>4

\* Every step of the store preserves the invariant.
LEMMA NextStoreInv == StoreInv /\ [StoreNext]_storeVars => StoreInv'
<1> SUFFICES ASSUME StoreInv, [StoreNext]_storeVars
             PROVE  StoreInv'
  OBVIOUS
<1> USE StoreAssumption
<1>1. ASSUME NEW t \in Task, NEW created \in Stamp, NEW due \in Stamp, Create(t, created, due)
      PROVE  StoreInv'
  <2>1. NewRecord(created, due) \in TaskRecord
    BY DEF NewRecord, TaskRecord, TaskState, Outcome
  <2> QED BY <1>1, <2>1, PutWithoutLease DEF Create, NewRecord, Terminal
<1>2. CASE ScanDue
  <2>1. \A t \in Task : /\ AdvanceDue(tasks[t]) \in TaskRecord
                        /\ AdvanceDue(tasks[t]).lease = tasks[t].lease
                        /\ AdvanceDue(tasks[t]).terminal = tasks[t].terminal
                        /\ \/ AdvanceDue(tasks[t]).state = tasks[t].state
                           \/ /\ AdvanceDue(tasks[t]).state = "ready"
                              /\ tasks[t].state = "scheduled"
    BY DEF AdvanceDue, DueNow, StoreInv, TypeOK, TaskRecord, TaskState
  <2>2. TypeOK'
    BY <1>2, <2>1 DEF ScanDue, StoreInv, TypeOK, Time
  <2>3. RecordsConsistent'
    BY <1>2, <2>1 DEF ScanDue, StoreInv, RecordsConsistent, Terminal
  <2>4. LeaseIdsUnique'
    BY <1>2, <2>1 DEF ScanDue, StoreInv, LeaseIdsUnique
  <2>5. AbsentIsBlank'
    BY <1>2, <2>1 DEF ScanDue, AdvanceDue, DueNow, StoreInv, AbsentIsBlank, TypeOK, TaskRecord
  <2> QED BY <2>2, <2>3, <2>4, <2>5 DEF StoreInv
<1>3. ASSUME NEW t \in Task, NEW o \in Owner, NEW x \in Stamp, Claim(t, o, x)
      PROVE  StoreInv'
  <2> DEFINE rec == Claimed(tasks[t], leases + 1, o, x)
  <2>1. /\ tasks[t] \in TaskRecord
        /\ leases + 1 \in 1 .. MaxLease
        /\ x \in Nat
    BY <1>3 DEF Claim, StoreInv, TypeOK
  <2>2. rec \in TaskRecord
    BY <2>1, ReducerTypes, "succeeded" \in SettledOutcome DEF SettledOutcome
  <2>3. /\ rec.state = "leased" /\ rec.terminal = "none"
        /\ rec.lease.id = leases + 1 /\ rec.lease # NoLease
    BY <2>1 DEF Claimed, TaskRecord, LeaseOf, NoLease
  <2> HIDE DEF rec
  <2>4. tasks' = [tasks EXCEPT ![t] = rec] /\ leases' = leases + 1 /\ UNCHANGED <<now, closed>>
    BY <1>3 DEF Claim, Put, rec
  <2>5. TypeOK'
    BY <2>1, <2>2, <2>4 DEF StoreInv, TypeOK, Time
  <2>6. RecordsConsistent'
    BY <2>3, <2>4 DEF StoreInv, TypeOK, RecordsConsistent, Terminal
  <2>7. LeaseIdsUnique'
    <3>1. \A u \in Task : tasks[u].lease.id \in 0 .. leases
      BY DEF StoreInv, TypeOK, LeaseIdsUnique, NoLease
    <3> QED BY <2>1, <2>3, <2>4, <3>1 DEF StoreInv, TypeOK, LeaseIdsUnique
  <2>8. AbsentIsBlank'
    BY <2>3, <2>4 DEF StoreInv, TypeOK, AbsentIsBlank
  <2> QED BY <2>5, <2>6, <2>7, <2>8 DEF StoreInv
<1>4. ASSUME NEW t \in Task, NEW l \in 1 .. MaxLease, NEW x \in Stamp, Renew(t, l, x)
      PROVE  StoreInv'
  <2> DEFINE rec == Renewed(tasks[t], x)
  <2>1. tasks[t] \in TaskRecord /\ tasks[t].lease # NoLease /\ tasks[t].state = "leased"
    BY <1>4 DEF Renew, HoldsLease, StoreInv, TypeOK, RecordsConsistent
  <2>2. rec \in TaskRecord
    <3>1. [tasks[t].lease EXCEPT !.expiry = x] \in Lease
      BY <2>1 DEF TaskRecord, Lease
    <3> QED BY <2>1, <3>1 DEF Renewed, TaskRecord
  <2>3. /\ rec.state = "leased" /\ rec.terminal = tasks[t].terminal
        /\ rec.lease.id = tasks[t].lease.id /\ rec.lease # NoLease
    BY <2>1, <2>2 DEF Renewed, TaskRecord, Lease, NoLease
  <2> HIDE DEF rec
  <2>4. tasks' = [tasks EXCEPT ![t] = rec] /\ UNCHANGED <<now, leases, closed>>
    BY <1>4 DEF Renew, Put, rec
  <2>5. TypeOK'
    BY <2>2, <2>4 DEF StoreInv, TypeOK, Time
  <2>6. RecordsConsistent'
    BY <2>1, <2>3, <2>4 DEF StoreInv, TypeOK, RecordsConsistent, Terminal
  <2>7. LeaseIdsUnique'
    BY <2>1, <2>3, <2>4 DEF StoreInv, TypeOK, LeaseIdsUnique
  <2>8. AbsentIsBlank'
    BY <2>3, <2>4 DEF StoreInv, TypeOK, AbsentIsBlank
  <2> QED BY <2>5, <2>6, <2>7, <2>8 DEF StoreInv
<1>5. ASSUME NEW t \in Task, NEW l \in 1 .. MaxLease, NEW out \in SettledOutcome, Settle(t, l, out)
      PROVE  StoreInv'
  <2>1. tasks[t] \in TaskRecord
    BY DEF StoreInv, TypeOK
  <2>2. Settled(tasks[t], out) \in TaskRecord
    BY <2>1 DEF Settled, TerminalState, SettledOutcome, TaskRecord, TaskState, Terminal, Outcome
  <2>3. LET rec == Settled(tasks[t], out)
        IN  /\ rec.lease = NoLease /\ rec.terminal = out
            /\ rec.state = TerminalState(out)
    BY <2>1 DEF Settled, TaskRecord
  <2>4. TerminalState(out) \in Terminal /\ out # "none"
    BY DEF TerminalState, SettledOutcome, Terminal
  <2> QED BY <1>5, <2>2, <2>3, <2>4, PutWithoutLease DEF Settle, Terminal
<1>6. ASSUME NEW t \in Task, Cancel(t)
      PROVE  StoreInv'
  <2>1. tasks[t] \in TaskRecord
    BY DEF StoreInv, TypeOK
  <2>2. /\ Canceled(tasks[t]) \in TaskRecord
        /\ Canceled(tasks[t]).lease = NoLease
        /\ Canceled(tasks[t]).state = "canceled"
        /\ Canceled(tasks[t]).terminal = "canceled"
    BY <2>1 DEF Canceled, TaskRecord, TaskState, Terminal, Outcome
  <2>3. "canceled" \in Terminal /\ TerminalState("canceled") = "canceled"
    BY DEF Terminal, TerminalState
  <2> QED BY <1>6, <2>2, <2>3, PutWithoutLease DEF Cancel
<1>7. ASSUME NEW t \in Task, NEW x \in Stamp, tasks[t].state = "leased",
             Put(t, BackToReady(tasks[t], x)), UNCHANGED <<now, leases, closed>>
      PROVE  StoreInv'
  <2>1. tasks[t] \in TaskRecord /\ tasks[t].terminal = "none"
    BY <1>7 DEF StoreInv, TypeOK, RecordsConsistent, Terminal
  <2>2. /\ BackToReady(tasks[t], x) \in TaskRecord
        /\ BackToReady(tasks[t], x).lease = NoLease
        /\ BackToReady(tasks[t], x).state = "ready"
        /\ BackToReady(tasks[t], x).terminal = "none"
    BY <2>1 DEF BackToReady, MergeRetryNotBefore, TaskRecord, TaskState
  <2>3. "ready" \notin Terminal
    BY DEF Terminal
  <2> QED BY <1>7, <2>2, <2>3, PutWithoutLease
<1>8. ASSUME NEW t \in Task, NEW x \in Stamp, RecoverExpiredLease(t, x)
      PROVE  StoreInv'
  BY <1>7, <1>8 DEF RecoverExpiredLease, LeaseExpired
<1>9. ASSUME NEW t \in Task, NEW l \in 1 .. MaxLease, NEW x \in Stamp, Release(t, l, x)
      PROVE  StoreInv'
  BY <1>7, <1>9 DEF Release, HoldsLease
<1>10. CASE Close \/ Tick \/ Rollback \/ UNCHANGED storeVars
  <2>1. tasks' = tasks /\ leases' = leases /\ closed' \in BOOLEAN
    BY <1>10, Zenon DEF Close, Tick, Rollback, storeVars, StoreInv, TypeOK
  <2>2. now' \in Time
    BY <1>10 DEF Close, Tick, Rollback, storeVars, StoreInv, TypeOK, Time
  <2> QED BY <2>1, <2>2, Zenon DEF StoreInv, TypeOK, RecordsConsistent, LeaseIdsUnique,
     AbsentIsBlank
<1> QED
  BY <1>1, <1>2, <1>3, <1>4, <1>5, <1>6, <1>8, <1>9, <1>10 DEF StoreNext

\* Type correctness: every reachable record decodes into a TaskRecord.
THEOREM TypeCorrect == StoreSpec => []TypeOK
BY InitStoreInv, NextStoreInv, PTL DEF StoreSpec, StoreInv

\* The reducer's expect() calls never fire.
THEOREM Consistent == StoreSpec => []RecordsConsistent
BY InitStoreInv, NextStoreInv, PTL DEF StoreSpec, StoreInv

\* A lease id in the store names one attempt of one task.
THEOREM Fenced == StoreSpec => []LeaseIdsUnique
BY InitStoreInv, NextStoreInv, PTL DEF StoreSpec, StoreInv

\* What one store step does to one record: nothing, or one of the reducer's
\* transitions under that transition's condition.
RecordStep(t) ==
    \/ tasks'[t] = tasks[t]
    \/ /\ tasks[t] = NoRecord
       /\ \E created, due \in Stamp : tasks'[t] = NewRecord(created, due)
    \/ DueNow(tasks[t]) /\ tasks'[t] = AdvanceDue(tasks[t])
    \/ \E o \in Owner, x \in Stamp :
          Claimable(tasks[t], x) /\ tasks'[t] = Claimed(tasks[t], leases + 1, o, x)
    \/ \E l \in 1 .. MaxLease, x \in Stamp :
          HoldsLease(tasks[t], l) /\ x > now /\ tasks'[t] = Renewed(tasks[t], x)
    \/ \E l \in 1 .. MaxLease, out \in SettledOutcome :
          HoldsLease(tasks[t], l) /\ tasks'[t] = Settled(tasks[t], out)
    \/ Cancelable(tasks[t]) /\ tasks'[t] = Canceled(tasks[t])
    \/ \E x \in Stamp :
          tasks[t].state = "leased" /\ tasks'[t] = BackToReady(tasks[t], x)

\* A store step is such a step of one record and leaves the others alone,
\* except for the scan, which may advance several.
LEMMA StepEffect ==
    ASSUME StoreInv, [StoreNext]_storeVars, NEW t \in Task
    PROVE  RecordStep(t)
<1>1. tasks \in [Task -> TaskRecord] /\ AbsentIsBlank
  BY DEF StoreInv, TypeOK
<1>2. ASSUME NEW u \in Task, NEW created \in Stamp, NEW due \in Stamp, Create(u, created, due)
      PROVE  RecordStep(t)
  BY <1>1, <1>2 DEF Create, Put, RecordStep, AbsentIsBlank
<1>3. CASE ScanDue
  BY <1>3 DEF ScanDue, RecordStep, AdvanceDue
<1>4. ASSUME NEW u \in Task, NEW o \in Owner, NEW x \in Stamp, Claim(u, o, x)
      PROVE  RecordStep(t)
  BY <1>1, <1>4 DEF Claim, Put, RecordStep
<1>5. ASSUME NEW u \in Task, NEW l \in 1 .. MaxLease, NEW x \in Stamp, Renew(u, l, x)
      PROVE  RecordStep(t)
  BY <1>1, <1>5 DEF Renew, Put, RecordStep
<1>6. ASSUME NEW u \in Task, NEW l \in 1 .. MaxLease, NEW out \in SettledOutcome,
             Settle(u, l, out)
      PROVE  RecordStep(t)
  BY <1>1, <1>6 DEF Settle, Settleable, Put, RecordStep
<1>7. ASSUME NEW u \in Task, Cancel(u)
      PROVE  RecordStep(t)
  BY <1>1, <1>7 DEF Cancel, Put, RecordStep
<1>8. ASSUME NEW u \in Task, NEW x \in Stamp, RecoverExpiredLease(u, x)
      PROVE  RecordStep(t)
  BY <1>1, <1>8 DEF RecoverExpiredLease, LeaseExpired, Put, RecordStep
<1>9. ASSUME NEW u \in Task, NEW l \in 1 .. MaxLease, NEW x \in Stamp, Release(u, l, x)
      PROVE  RecordStep(t)
  BY <1>1, <1>9 DEF Release, HoldsLease, Put, RecordStep
<1>10. CASE Close \/ Tick \/ Rollback \/ UNCHANGED storeVars
  BY <1>10, Zenon DEF Close, Tick, Rollback, storeVars, RecordStep
<1> QED
  BY <1>2, <1>3, <1>4, <1>5, <1>6, <1>7, <1>8, <1>9, <1>10 DEF StoreNext

\* Which fields of a record each transition writes.
LEMMA ReducerFields ==
    ASSUME NEW rec \in TaskRecord, NEW l, NEW o, NEW x, NEW out
    PROVE  /\ AdvanceDue(rec).gen = rec.gen /\ AdvanceDue(rec).rnb = rec.rnb
           /\ AdvanceDue(rec).state = IF DueNow(rec) THEN "ready" ELSE rec.state
           /\ Claimed(rec, l, o, x).gen = rec.gen + 1 /\ Claimed(rec, l, o, x).rnb = rec.rnb
           /\ Claimed(rec, l, o, x).state = "leased"
           /\ Renewed(rec, x).gen = rec.gen /\ Renewed(rec, x).rnb = rec.rnb
           /\ Renewed(rec, x).state = rec.state
           /\ Settled(rec, out).gen = rec.gen /\ Settled(rec, out).rnb = rec.rnb
           /\ Settled(rec, out).state = TerminalState(out)
           /\ Canceled(rec).gen = rec.gen /\ Canceled(rec).rnb = rec.rnb
           /\ Canceled(rec).state = "canceled"
           /\ BackToReady(rec, x).gen = rec.gen
           /\ BackToReady(rec, x).rnb = MergeRetryNotBefore(rec.rnb, x)
           /\ BackToReady(rec, x).state = "ready"
<1>1. /\ AdvanceDue(rec).gen = rec.gen /\ AdvanceDue(rec).rnb = rec.rnb
      /\ AdvanceDue(rec).state = IF DueNow(rec) THEN "ready" ELSE rec.state
  BY DEF AdvanceDue, TaskRecord
<1>2. /\ Claimed(rec, l, o, x).gen = rec.gen + 1 /\ Claimed(rec, l, o, x).rnb = rec.rnb
      /\ Claimed(rec, l, o, x).state = "leased"
  BY DEF Claimed, TaskRecord
<1>3. /\ Renewed(rec, x).gen = rec.gen /\ Renewed(rec, x).rnb = rec.rnb
      /\ Renewed(rec, x).state = rec.state
  BY DEF Renewed, TaskRecord
<1>4. /\ Settled(rec, out).gen = rec.gen /\ Settled(rec, out).rnb = rec.rnb
      /\ Settled(rec, out).state = TerminalState(out)
  BY DEF Settled, TaskRecord
<1>5. /\ Canceled(rec).gen = rec.gen /\ Canceled(rec).rnb = rec.rnb
      /\ Canceled(rec).state = "canceled"
  BY DEF Canceled, TaskRecord
<1>6. /\ BackToReady(rec, x).gen = rec.gen
      /\ BackToReady(rec, x).rnb = MergeRetryNotBefore(rec.rnb, x)
      /\ BackToReady(rec, x).state = "ready"
  BY DEF BackToReady, TaskRecord
<1> QED BY <1>1, <1>2, <1>3, <1>4, <1>5, <1>6

\* What the four action properties say of one record in one step.
LEMMA StepSafe ==
    ASSUME StoreInv, [StoreNext]_storeVars, NEW t \in Task
    PROVE  /\ tasks[t].state \in Terminal => tasks'[t] = tasks[t]
           /\ tasks'[t].gen # tasks[t].gen => tasks[t].due <= now
           /\ LeaseExpired(tasks[t]) =>
                  tasks'[t] = tasks[t] \/ tasks'[t].state = "ready"
           /\ tasks'[t].rnb >= tasks[t].rnb
<1>1. tasks[t] \in TaskRecord /\ now \in Nat
  BY StoreAssumption DEF StoreInv, TypeOK, Time
<1>2. RecordStep(t)
  BY StepEffect
<1>3. tasks[t].state \in Terminal => tasks'[t] = tasks[t]
  BY <1>1, <1>2 DEF RecordStep, Terminal, NoRecord, DueNow, Claimable, HoldsLease, Cancelable
<1>4. tasks'[t].gen # tasks[t].gen => tasks[t].due <= now
  <2>0. /\ AdvanceDue(tasks[t]).gen = tasks[t].gen
        /\ \A x : Renewed(tasks[t], x).gen = tasks[t].gen
        /\ \A out : Settled(tasks[t], out).gen = tasks[t].gen
        /\ Canceled(tasks[t]).gen = tasks[t].gen
        /\ \A x : BackToReady(tasks[t], x).gen = tasks[t].gen
    BY <1>1, ReducerFields
  <2>1. CASE \E l \in 1 .. MaxLease, x \in Stamp :
                HoldsLease(tasks[t], l) /\ x > now /\ tasks'[t] = Renewed(tasks[t], x)
    BY <2>0, <2>1
  <2>2. CASE \E o \in Owner, x \in Stamp :
                Claimable(tasks[t], x) /\ tasks'[t] = Claimed(tasks[t], leases + 1, o, x)
    BY <2>2 DEF Claimable
  <2>3. CASE \E l \in 1 .. MaxLease, out \in SettledOutcome :
                HoldsLease(tasks[t], l) /\ tasks'[t] = Settled(tasks[t], out)
    BY <2>0, <2>3
  <2>4. CASE \E x \in Stamp : tasks[t].state = "leased" /\ tasks'[t] = BackToReady(tasks[t], x)
    BY <2>0, <2>4
  <2>5. CASE tasks[t] = NoRecord /\ \E created, due \in Stamp : tasks'[t] = NewRecord(created, due)
    BY <2>5 DEF NoRecord, NewRecord
  <2>6. CASE \/ tasks'[t] = tasks[t]
             \/ DueNow(tasks[t]) /\ tasks'[t] = AdvanceDue(tasks[t])
             \/ Cancelable(tasks[t]) /\ tasks'[t] = Canceled(tasks[t])
    BY <2>0, <2>6
  <2> QED BY <1>2, <2>1, <2>2, <2>3, <2>4, <2>5, <2>6 DEF RecordStep
<1>5. LeaseExpired(tasks[t]) => tasks'[t] = tasks[t] \/ tasks'[t].state = "ready"
  <2> SUFFICES ASSUME LeaseExpired(tasks[t]) PROVE tasks'[t] = tasks[t] \/ tasks'[t].state = "ready"
    OBVIOUS
  <2>1. tasks[t].state = "leased" /\ \A l : ~HoldsLease(tasks[t], l)
    BY <1>1 DEF LeaseExpired, HoldsLease, TaskRecord, Lease, NoLease
  <2> QED BY <1>1, <1>2, <2>1, ReducerFields
             DEF RecordStep, NoRecord, DueNow, Claimable, Cancelable
<1>6. tasks'[t].rnb >= tasks[t].rnb
  <2>1. tasks[t].rnb \in Nat
    BY <1>1 DEF TaskRecord
  <2>2. ASSUME NEW x \in Stamp, tasks'[t] = BackToReady(tasks[t], x)
        PROVE  tasks'[t].rnb >= tasks[t].rnb
    <3>1. tasks'[t].rnb = MergeRetryNotBefore(tasks[t].rnb, x)
      BY <1>1, <2>2, ReducerFields
    <3> QED BY <2>1, <3>1, StoreAssumption DEF MergeRetryNotBefore
  <2>3. CASE ~ \E x \in Stamp : tasks'[t] = BackToReady(tasks[t], x)
    <3>1. ASSUME NEW created \in Stamp, NEW due \in Stamp,
                 tasks[t] = NoRecord, tasks'[t] = NewRecord(created, due)
          PROVE  tasks'[t].rnb = tasks[t].rnb
      BY <3>1 DEF NoRecord, NewRecord
    <3>2. /\ AdvanceDue(tasks[t]).rnb = tasks[t].rnb
          /\ \A l, o, x : Claimed(tasks[t], l, o, x).rnb = tasks[t].rnb
          /\ \A x : Renewed(tasks[t], x).rnb = tasks[t].rnb
          /\ \A out : Settled(tasks[t], out).rnb = tasks[t].rnb
          /\ Canceled(tasks[t]).rnb = tasks[t].rnb
      BY <1>1, ReducerFields
    <3>3. tasks'[t].rnb = tasks[t].rnb
      BY <1>2, <2>3, <3>1, <3>2 DEF RecordStep
    <3> QED BY <2>1, <3>3
  <2> QED BY <2>2, <2>3
<1> QED BY <1>3, <1>4, <1>5, <1>6

\* Terminal records are final, for every instance.
THEOREM TerminalFinal == StoreSpec => TerminalIsFinal
<1>1. StoreInv /\ [StoreNext]_storeVars =>
        [\A t \in Task : tasks[t].state \in Terminal => tasks'[t] = tasks[t]]_storeVars
  BY StepSafe
<1> QED BY <1>1, InitStoreInv, NextStoreInv, PTL DEF StoreSpec, TerminalIsFinal

\* No attempt before the due time on the store clock, also after a rollback.
THEOREM NotEarly == StoreSpec => NoEarlyClaim
<1>1. StoreInv /\ [StoreNext]_storeVars =>
        [\A t \in Task : tasks'[t].gen # tasks[t].gen => tasks[t].due <= now]_storeVars
  BY StepSafe
<1> QED BY <1>1, InitStoreInv, NextStoreInv, PTL DEF StoreSpec, NoEarlyClaim

\* An expired lease can only be recovered.
THEOREM ExpiredDead == StoreSpec => ExpiredLeaseIsDead
<1>1. StoreInv /\ [StoreNext]_storeVars =>
        [\A t \in Task : LeaseExpired(tasks[t]) =>
            tasks'[t] = tasks[t] \/ tasks'[t].state = "ready"]_storeVars
  BY StepSafe
<1> QED BY <1>1, InitStoreInv, NextStoreInv, PTL DEF StoreSpec, ExpiredLeaseIsDead

\* Backoff never moves backwards.
THEOREM BackoffMonotone == StoreSpec => RetryNotBeforeMonotone
<1>1. StoreInv /\ [StoreNext]_storeVars =>
        [\A t \in Task : tasks'[t].rnb >= tasks[t].rnb]_storeVars
  BY StepSafe
<1> QED BY <1>1, InitStoreInv, NextStoreInv, PTL DEF StoreSpec, RetryNotBeforeMonotone

----------------------------------------------------------------------------
(* The refinement of TaskLifecycle.                                        *)

PhaseMap == [t \in Task |-> PhaseOf(tasks[t])]

AttemptMap == [t \in Task |-> tasks[t].gen]

\* A write of one record changes the abstract state of that task only.
LEMMA PutMaps ==
    ASSUME tasks \in [Task -> TaskRecord], NEW t \in Task, NEW rec, Put(t, rec)
    PROVE  /\ PhaseMap' = [PhaseMap EXCEPT ![t] = PhaseOf(rec)]
           /\ AttemptMap' = [AttemptMap EXCEPT ![t] = rec.gen]
BY DEF Put, PhaseMap, AttemptMap

\* Writes that leave the attempt count alone.
LEMMA PutMove ==
    ASSUME tasks \in [Task -> TaskRecord], NEW t \in Task, NEW rec, Put(t, rec),
           rec.gen = tasks[t].gen
    PROVE  /\ PhaseMap' = [PhaseMap EXCEPT ![t] = PhaseOf(rec)]
           /\ AttemptMap' = AttemptMap
BY PutMaps DEF AttemptMap

\* Every store step is a step of the task state machine or invisible in it.
LEMMA StepRefines ==
    ASSUME StoreInv, [StoreNext]_storeVars
    PROVE  [Lifecycle!Next]_<<PhaseMap, AttemptMap>>
<1> USE DEF Lifecycle!Next, Lifecycle!Move, Lifecycle!Finished
<1> DEFINE Same == PhaseMap' = PhaseMap /\ AttemptMap' = AttemptMap
<1>1. tasks \in [Task -> TaskRecord] /\ AbsentIsBlank
  BY DEF StoreInv, TypeOK
<1>2. ASSUME NEW t \in Task, NEW created \in Stamp, NEW due \in Stamp, Create(t, created, due)
      PROVE  Lifecycle!Submit(t)
  <2>1. /\ NewRecord(created, due).gen = tasks[t].gen
        /\ PhaseOf(tasks[t]) = "absent"
        /\ PhaseOf(NewRecord(created, due)) = "waiting"
    BY <1>1, <1>2 DEF Create, AbsentIsBlank, NoRecord, NewRecord, PhaseOf
  <2> QED BY <1>1, <1>2, <2>1, PutMove DEF Create, Lifecycle!Submit, PhaseMap, AttemptMap
<1>3. CASE ScanDue
  <2>1. \A t \in Task : /\ PhaseOf(AdvanceDue(tasks[t])) = PhaseOf(tasks[t])
                        /\ AdvanceDue(tasks[t]).gen = tasks[t].gen
    BY <1>1, ReducerFields DEF AdvanceDue, DueNow, PhaseOf
  <2> QED BY <1>3, <2>1 DEF ScanDue, PhaseMap, AttemptMap
<1>4. ASSUME NEW t \in Task, NEW o \in Owner, NEW x \in Stamp, Claim(t, o, x)
      PROVE  Lifecycle!Start(t)
  <2> DEFINE rec == Claimed(tasks[t], leases + 1, o, x)
  <2>1. /\ rec.gen = tasks[t].gen + 1
        /\ PhaseOf(tasks[t]) = "waiting"
        /\ PhaseOf(rec) = "running"
    BY <1>1, <1>4, ReducerFields DEF Claim, Claimable, PhaseOf
  <2>2. Put(t, rec)
    BY <1>4 DEF Claim
  <2> HIDE DEF rec
  <2>3. /\ PhaseMap[t] = "waiting"
        /\ PhaseMap' = [PhaseMap EXCEPT ![t] = "running"]
        /\ AttemptMap' = [AttemptMap EXCEPT ![t] = AttemptMap[t] + 1]
    <3>1. PhaseMap[t] = PhaseOf(tasks[t]) /\ AttemptMap[t] = tasks[t].gen
      BY DEF PhaseMap, AttemptMap
    <3> QED BY <1>1, <2>1, <2>2, <3>1, PutMaps
  <2> QED BY <2>3 DEF Lifecycle!Start, PhaseMap, AttemptMap
<1>5. ASSUME NEW t \in Task, NEW l \in 1 .. MaxLease, NEW x \in Stamp, Renew(t, l, x)
      PROVE  Same
  <2>1. /\ Renewed(tasks[t], x).gen = tasks[t].gen
        /\ PhaseOf(Renewed(tasks[t], x)) = PhaseOf(tasks[t])
    BY <1>1, ReducerFields DEF PhaseOf
  <2>2. Put(t, Renewed(tasks[t], x))
    BY <1>5 DEF Renew
  <2>3. /\ PhaseMap' = [PhaseMap EXCEPT ![t] = PhaseOf(tasks[t])]
        /\ AttemptMap' = AttemptMap
    BY <1>1, <2>1, <2>2, PutMove
  <2>4. [PhaseMap EXCEPT ![t] = PhaseOf(tasks[t])] = PhaseMap
    BY DEF PhaseMap
  <2> QED BY <2>3, <2>4
<1>6. ASSUME NEW t \in Task, NEW l \in 1 .. MaxLease, NEW out \in SettledOutcome,
             Settle(t, l, out)
      PROVE  Lifecycle!Finish(t)
  <2> DEFINE rec == Settled(tasks[t], out)
  <2>1. /\ rec.gen = tasks[t].gen
        /\ PhaseOf(tasks[t]) = "running"
        /\ PhaseOf(rec) \in {"succeeded", "failed", "platformFailed"}
    <3>1. rec.gen = tasks[t].gen /\ rec.state = TerminalState(out)
      BY <1>1, ReducerFields
    <3>2. TerminalState(out) \in {"succeeded", "failed", "platformFailed"}
      BY DEF TerminalState, SettledOutcome
    <3> QED BY <1>1, <1>6, <3>1, <3>2 DEF Settle, Settleable, HoldsLease, PhaseOf
  <2>2. Put(t, rec)
    BY <1>6 DEF Settle
  <2> HIDE DEF rec
  <2> QED BY <1>1, <2>1, <2>2, PutMove DEF Lifecycle!Finish, PhaseMap, AttemptMap
<1>7. ASSUME NEW t \in Task, Cancel(t)
      PROVE  Lifecycle!Cancel(t)
  <2>1. /\ Canceled(tasks[t]).gen = tasks[t].gen
        /\ PhaseOf(tasks[t]) = "waiting"
        /\ PhaseOf(Canceled(tasks[t])) = "canceled"
    BY <1>1, <1>7, ReducerFields DEF Cancel, Cancelable, PhaseOf
  <2> QED BY <1>1, <1>7, <2>1, PutMove DEF Cancel, Lifecycle!Cancel, PhaseMap, AttemptMap
<1>8. ASSUME NEW t \in Task, NEW x \in Stamp, tasks[t].state = "leased",
             Put(t, BackToReady(tasks[t], x))
      PROVE  Lifecycle!Yield(t)
  <2>1. /\ BackToReady(tasks[t], x).gen = tasks[t].gen
        /\ PhaseOf(tasks[t]) = "running"
        /\ PhaseOf(BackToReady(tasks[t], x)) = "waiting"
    BY <1>1, <1>8, ReducerFields DEF PhaseOf
  <2> QED BY <1>1, <1>8, <2>1, PutMove DEF Lifecycle!Yield, PhaseMap, AttemptMap
<1>9. ASSUME NEW t \in Task, NEW x \in Stamp, RecoverExpiredLease(t, x)
      PROVE  Lifecycle!Yield(t)
  BY <1>8, <1>9 DEF RecoverExpiredLease, LeaseExpired
<1>10. ASSUME NEW t \in Task, NEW l \in 1 .. MaxLease, NEW x \in Stamp, Release(t, l, x)
       PROVE  Lifecycle!Yield(t)
  BY <1>8, <1>10 DEF Release, HoldsLease
<1>11. CASE Close \/ Tick \/ Rollback \/ UNCHANGED storeVars
  BY <1>11, Zenon DEF Close, Tick, Rollback, storeVars, PhaseMap, AttemptMap
<1> QED
  BY <1>2, <1>3, <1>4, <1>5, <1>6, <1>7, <1>9, <1>10, <1>11 DEF StoreNext

\* The store implements the task state machine, for every instance.
THEOREM Refinement == StoreSpec => RefinesLifecycle
<1>1. StoreInit => Lifecycle!Init
  BY DEF StoreInit, Lifecycle!Init, NoRecord, PhaseOf
<1>2. StoreInv /\ [StoreNext]_storeVars => [Lifecycle!Next]_(Lifecycle!lifecycleVars)
  BY StepRefines DEF PhaseMap, AttemptMap, Lifecycle!lifecycleVars
<1> QED
  BY <1>1, <1>2, InitStoreInv, NextStoreInv, PTL
     DEF StoreSpec, RefinesLifecycle, Lifecycle!Spec

============================================================================
