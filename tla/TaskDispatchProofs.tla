------------------------- MODULE TaskDispatchProofs -------------------------
(***************************************************************************)
(* Theorems about TaskDispatch, for any number of tasks, replicas and      *)
(* leases: it keeps its types, it uses the store only through the store's  *)
(* conditional writes, and so everything TaskStoreProofs proves of the     *)
(* store holds of the whole system; a task ends with what its last attempt *)
(* did; a live attempt is never dropped from the renewal list; and a lease *)
(* is prolonged or ended by its holder alone.  The clock may be set back.  *)
(***************************************************************************)
EXTENDS TaskDispatch, TaskStoreProofs

\* The inductive invariant: the dispatch types, and the store's own invariant,
\* which tells that a lease the store accepts has an id in 1 .. MaxLease.
DispatchInv == StoreInv /\ SchedTypeOK /\ ControlTypeOK /\ ClockTypeOK

\* A lease that a conditional write accepts is one the store handed out.
LEMMA HeldLeaseId ==
    ASSUME StoreInv, NEW t \in Task, NEW l, HoldsLease(tasks[t], l)
    PROVE  l \in 1 .. MaxLease
<1>1. tasks[t] \in TaskRecord /\ tasks[t].lease # NoLease
  BY DEF StoreInv, TypeOK, RecordsConsistent, HoldsLease
<1>2. tasks[t].lease \in Lease
  BY <1>1 DEF TaskRecord
<1> QED
  BY <1>2 DEF Lease, HoldsLease

\* The steps of a scheduler replica are store steps, or leave the store alone.
LEMMA SchedStoreStep ==
    ASSUME DispatchInv, NEW r \in Owner, SchedStep(r)
    PROVE  [StoreNext]_storeVars
<1> USE SchedulerAssumption
<1>1. snow[r] \in Time /\ \A i \in work[r] : i.task \in Task
  BY DEF DispatchInv, SchedTypeOK
<1>2. CASE Recover(r)
  BY <1>1, <1>2 DEF Recover, StoreNext
<1>3. CASE RenewLease(r)
  <2>1. PICK i \in work[r] : Renew(i.task, i.lease, snow[r] + LeaseDuration) \/ UNCHANGED storeVars
    BY <1>3 DEF RenewLease
  <2>2. CASE Renew(i.task, i.lease, snow[r] + LeaseDuration)
    <3>1. i.lease \in 1 .. MaxLease
      BY <1>1, <2>2, HeldLeaseId DEF DispatchInv, Renew
    <3> QED BY <1>1, <2>2, <3>1 DEF StoreNext
  <2> QED BY <2>1, <2>2
<1>4. CASE ScanAdvance(r)
  BY <1>4 DEF ScanAdvance, StoreNext
<1>5. CASE ClaimDue(r)
  BY <1>1, <1>5 DEF ClaimDue, StoreNext
<1>6. CASE Decide(r)
  <2>1. cur[r].task \in Task
    BY <1>6 DEF DispatchInv, SchedTypeOK, Decide
  <2>2. CASE \E d \in Delay : Release(cur[r].task, cur[r].lease, snow[r] + d)
    <3>1. cur[r].lease \in 1 .. MaxLease
      BY <2>1, <2>2, HeldLeaseId DEF DispatchInv, Release
    <3> QED BY <1>1, <2>1, <2>2, <3>1 DEF StoreNext
  <2>3. CASE Settle(cur[r].task, cur[r].lease, "platformFailed")
    <3>1. cur[r].lease \in 1 .. MaxLease
      BY <2>1, <2>3, HeldLeaseId DEF DispatchInv, Settle, Settleable
    <3> QED BY <2>1, <2>3, <3>1 DEF StoreNext, SettledOutcome
  <2> QED BY <1>6, <2>2, <2>3 DEF Decide
<1>7. CASE \/ RecoverNow(r) \/ RecoverScan(r) \/ RenewNow(r) \/ ScanNow(r) \/ ScanFind(r)
           \/ PhaseFails(r)
  BY <1>7 DEF RecoverNow, RecoverScan, RenewNow, ScanNow, ScanFind, PhaseFails
<1> QED
  BY <1>2, <1>3, <1>4, <1>5, <1>6, <1>7 DEF SchedStep

\* Every step of the dispatch system is a store step or leaves the store alone.
LEMMA StoreStep == DispatchInv /\ [Next]_vars => [StoreNext]_storeVars
<1> SUFFICES ASSUME DispatchInv, [Next]_vars
             PROVE  [StoreNext]_storeVars
  OBVIOUS
<1> USE DispatchAssumption
<1>1. ASSUME NEW r \in Owner, Schedule(r)
      PROVE  [StoreNext]_storeVars
  BY <1>1, SchedStoreStep DEF Schedule, WithHistory
<1>2. ASSUME NEW r \in Owner, HandleEvent(r)
      PROVE  [StoreNext]_storeVars
  <2> DEFINE e == Head(queue[r])
  <2>1. e \in ControlEvent
    BY <1>2 DEF DispatchInv, ControlTypeOK, HandleEvent
  <2>2. CASE e.kind = "settle" /\ Settle(e.task, e.lease, e.outcome)
    <3>1. e.task \in Task /\ e.lease \in 1 .. MaxLease /\ e.outcome \in SettledOutcome
      BY <2>1, <2>2 DEF ControlEvent
    <3> QED BY <2>2, <3>1 DEF StoreNext
  <2>3. CASE \E x \in ReadEarlier, d \in Delay : Release(e.task, e.lease, x + d)
    <3>1. e.task \in Task /\ e.lease \in 1 .. MaxLease
      BY <2>1 DEF ControlEvent
    <3>2. ReadEarlier \subseteq Time
      BY StoreAssumption DEF DispatchInv, StoreInv, TypeOK, Time, ReadEarlier
    <3> QED BY <2>3, <3>1, <3>2, SchedulerAssumption DEF StoreNext
  <2> QED BY <1>2, <2>2, <2>3 DEF HandleEvent
<1>3. ASSUME NEW r \in Owner, Crash(r)
      PROVE  [StoreNext]_storeVars
  BY <1>3 DEF Crash
<1>4. ASSUME NEW r \in Owner, NEW d \in Decision, AdmitAttempt(r, d)
      PROVE  [StoreNext]_storeVars
  BY <1>4 DEF AdmitAttempt, Admit
<1>5. ASSUME NEW r \in Owner, NEW i \in inflight[r],
             \/ \E outcome \in Reported : AttemptEnds(r, i, outcome)
             \/ AttemptUpgrading(r, i)
             \/ AttemptUncertain(r, i)
      PROVE  [StoreNext]_storeVars
  BY <1>5 DEF AttemptEnds, AttemptUpgrading, AttemptUncertain
<1>6. ASSUME NEW t \in Task, NEW d \in SubmitDelay, Submit(t, d)
      PROVE  [StoreNext]_storeVars
  BY <1>6 DEF Submit, StoreNext, DispatchInv, StoreInv, TypeOK
<1>7. ASSUME NEW t \in Task, CancelTask(t)
      PROVE  [StoreNext]_storeVars
  BY <1>7 DEF CancelTask, StoreNext
<1>8. CASE TimePasses \/ ClockSetBack
  BY <1>8 DEF TimePasses, ClockSetBack, StoreNext
<1>9. CASE UNCHANGED vars
  BY <1>9 DEF vars
<1> QED
  BY <1>1, <1>2, <1>3, <1>4, <1>5, <1>6, <1>7, <1>8, <1>9 DEF Next

\* Only the steps of the clock move the clock and what is recorded of it.
LEMMA ClockSteps ==
    ASSUME [Next]_vars
    PROVE  TimePasses \/ ClockSetBack \/ (now' = now /\ ranOut' = ranOut /\ setbacks' = setbacks)
<1>1. ASSUME NEW r \in Owner, Schedule(r) PROVE now' = now /\ ranOut' = ranOut /\ setbacks' = setbacks
  <2>1. now' = now
    BY <1>1 DEF Schedule, WithHistory, SchedStep, RecoverNow, RecoverScan, Recover, RenewNow, RenewLease, ScanNow,
            ScanAdvance, ScanFind, ClaimDue, Decide, PhaseFails, RecoverExpiredLease, Renew, ScanDue, Claim,
            Release, Settle, storeVars
  <2> QED BY <1>1, <2>1 DEF Schedule, WithHistory, clockVars
<1>2. ASSUME NEW r \in Owner, HandleEvent(r) \/ Crash(r)
      PROVE  now' = now /\ ranOut' = ranOut /\ setbacks' = setbacks
  BY <1>2 DEF HandleEvent, Crash, Settle, Release, storeVars, clockVars
<1>3. ASSUME NEW r \in Owner, NEW d \in Decision, AdmitAttempt(r, d)
      PROVE  now' = now /\ ranOut' = ranOut /\ setbacks' = setbacks
  BY <1>3 DEF AdmitAttempt, Admit, storeVars, clockVars
<1>4. ASSUME NEW r \in Owner, NEW i \in inflight[r],
             \/ \E outcome \in Reported : AttemptEnds(r, i, outcome)
             \/ AttemptUpgrading(r, i) \/ AttemptUncertain(r, i)
      PROVE  now' = now /\ ranOut' = ranOut /\ setbacks' = setbacks
  BY <1>4 DEF AttemptEnds, AttemptUpgrading, AttemptUncertain, storeVars, clockVars
<1>5. CASE (\E t \in Task, d \in SubmitDelay : Submit(t, d)) \/ (\E t \in Task : CancelTask(t))
  BY <1>5 DEF Submit, CancelTask, Create, Cancel, clockVars
<1>6. CASE UNCHANGED vars
  BY <1>6 DEF vars, storeVars, clockVars
<1> QED BY <1>1, <1>2, <1>3, <1>4, <1>5, <1>6 DEF Next

\* A lease that has run out has an id the store handed out.
LEMMA ClockTypes ==
    ASSUME DispatchInv, [Next]_vars
    PROVE  ClockTypeOK'
<1>1. ClockTypeOK /\ tasks \in [Task -> TaskRecord] /\ RecordsConsistent /\ MaxSetback \in Nat
  BY DispatchAssumption DEF DispatchInv, StoreInv, TypeOK
<1>2. CASE TimePasses
  <2>1. tasks' = tasks /\ setbacks' = setbacks
    BY <1>2 DEF TimePasses, Tick
  <2>2. ASSUME NEW u \in Task, LeaseExpired(tasks[u])' PROVE tasks[u].lease.id \in 1 .. MaxLease
    <3>1. tasks[u].state = "leased" /\ tasks[u] \in TaskRecord
      BY <1>1, <2>1, <2>2 DEF LeaseExpired
    <3>2. tasks[u].lease \in Lease
      BY <1>1, <3>1 DEF RecordsConsistent, TaskRecord
    <3> QED BY <3>2 DEF Lease
  <2>3. ranOut' \subseteq 1 .. MaxLease
    BY <1>1, <1>2, <2>2 DEF TimePasses, ClockTypeOK
  <2> QED BY <1>1, <2>1, <2>3 DEF ClockTypeOK
<1>3. CASE ClockSetBack
  BY <1>1, <1>3 DEF ClockSetBack, ClockTypeOK
<1>4. CASE ranOut' = ranOut /\ setbacks' = setbacks
  BY <1>1, <1>4 DEF ClockTypeOK
<1> QED BY <1>2, <1>3, <1>4, ClockSteps

----------------------------------------------------------------------------
(* Types.                                                                  *)

LoopLabel == Label \ {"admit", "decide"}

WorkType == [Owner -> SUBSET [task : Task, lease : 0 .. MaxLease]]

ActiveType == [Owner -> [Task -> 0 .. MaxLease]]

\* Moving to a label keeps the types of pc and of the time that was read.
LEMMA GotoTypes ==
    ASSUME SchedTypeOK, StoreInv, NEW r \in Owner, NEW label \in Label,
           Goto(r, label) \/ ReadNow(r, label)
    PROVE  /\ pc' = [pc EXCEPT ![r] = label]
           /\ pc' \in [Owner -> Label]
           /\ snow' \in [Owner -> Time]
<1>1. 0 \in Time /\ now \in Time
  BY StoreAssumption DEF StoreInv, TypeOK, Time
<1>2. pc' = [pc EXCEPT ![r] = label] /\ pc' \in [Owner -> Label]
  BY DEF Goto, ReadNow, SchedTypeOK
<1>3. snow' \in [Owner -> Time]
  BY <1>1 DEF Goto, ReadNow, SchedTypeOK
<1> QED BY <1>2, <1>3

\* A step inside the loops of a cycle, away from the admission of an attempt.
LEMMA LoopStep ==
    ASSUME SchedTypeOK, StoreInv, NEW r \in Owner, pc[r] \in LoopLabel,
           NEW label \in LoopLabel, Goto(r, label) \/ ReadNow(r, label),
           work' \in WorkType, active' \in ActiveType, UNCHANGED cur
    PROVE  SchedTypeOK'
<1>1. /\ pc' = [pc EXCEPT ![r] = label]
      /\ pc' \in [Owner -> Label]
      /\ snow' \in [Owner -> Time]
  BY GotoTypes DEF LoopLabel
<1>2. \A q \in Owner :
        /\ pc'[q] \in {"admit", "decide"} <=> pc[q] \in {"admit", "decide"}
        /\ pc'[q] = "decide" <=> pc[q] = "decide"
  BY <1>1 DEF LoopLabel, SchedTypeOK
<1> QED BY <1>1, <1>2 DEF SchedTypeOK, WorkType, ActiveType

\* Taking one entry off a renewal list keeps its type.
LEMMA RemoveTypes ==
    ASSUME SchedTypeOK, NEW r \in Owner, NEW t \in Task, NEW l, RemoveActiveIf(r, t, l)
    PROVE  active' \in ActiveType
BY StoreAssumption DEF RemoveActiveIf, SchedTypeOK, ActiveType

\* Going on with a loop, or starting one, keeps the type of the work list.
LEMMA VisitedTypes ==
    ASSUME SchedTypeOK, NEW r \in Owner, pc[r] \in LoopLabel, NEW i, NEW after \in LoopLabel,
           Visited(r, i, after)
    PROVE  /\ work' \in WorkType
           /\ \E label \in LoopLabel : Goto(r, label)
<1>1. work' \in WorkType
  BY DEF Visited, SchedTypeOK, WorkType
<1>2. \E label \in LoopLabel : Goto(r, label)
  BY DEF Visited
<1> QED BY <1>1, <1>2

LEMMA StartTypes ==
    ASSUME SchedTypeOK, NEW r \in Owner, NEW items \in SUBSET [task : Task, lease : 0 .. MaxLease],
           NEW loop \in LoopLabel, NEW after \in LoopLabel, StartLoop(r, items, loop, after)
    PROVE  /\ work' \in WorkType
           /\ \E label \in LoopLabel : Goto(r, label)
<1>1. work' \in WorkType
  BY DEF StartLoop, SchedTypeOK, WorkType
<1>2. \E label \in LoopLabel : Goto(r, label)
  BY DEF StartLoop
<1> QED BY <1>1, <1>2

\* The id of a lease, or of no lease, is a natural number up to MaxLease.
LEMMA LeaseIdType ==
    ASSUME StoreInv, NEW t \in Task
    PROVE  tasks[t].lease.id \in 0 .. MaxLease
<1>1. tasks[t].lease \in Lease \cup {NoLease}
  BY DEF StoreInv, TypeOK, TaskRecord
<1> QED BY <1>1, StoreAssumption DEF Lease, NoLease

LEMMA SchedTypes ==
    ASSUME DispatchInv, NEW r \in Owner, SchedStep(r)
    PROVE  SchedTypeOK'
<1> USE DEF DispatchInv
<1>0. /\ work \in WorkType /\ active \in ActiveType
      /\ \A i \in work[r] : i.task \in Task
  BY DEF SchedTypeOK, WorkType, ActiveType
<1>1. CASE RecoverNow(r)
  <2>1. pc[r] \in LoopLabel /\ "recoverScan" \in LoopLabel
    BY <1>1 DEF RecoverNow, LoopLabel, Label
  <2> QED BY <1>0, <1>1, <2>1, LoopStep DEF RecoverNow
<1>2. CASE RecoverScan(r)
  <2>1. /\ pc[r] \in LoopLabel
        /\ "recover" \in LoopLabel /\ "renewNow" \in LoopLabel
    BY <1>2 DEF RecoverScan, LoopLabel, Label
  <2>2. PICK B \in SUBSET Task :
            StartLoop(r, {Item(t, tasks[t].lease.id) : t \in B}, "recover", "renewNow")
    BY <1>2 DEF RecoverScan, Batches
  <2>3. {Item(t, tasks[t].lease.id) : t \in B} \in SUBSET [task : Task, lease : 0 .. MaxLease]
    BY LeaseIdType DEF Item
  <2>4. work' \in WorkType /\ \E label \in LoopLabel : Goto(r, label)
    BY <2>1, <2>2, <2>3, StartTypes
  <2> QED BY <1>0, <1>2, <2>1, <2>4, LoopStep DEF RecoverScan
<1>3. CASE Recover(r)
  <2>1. pc[r] \in LoopLabel /\ "renewNow" \in LoopLabel
    BY <1>3 DEF Recover, LoopLabel, Label
  <2>2. PICK i \in work[r] :
            Visited(r, i, "renewNow") /\ (RemoveActiveIf(r, i.task, i.lease) \/ UNCHANGED active)
    BY <1>3 DEF Recover
  <2>3. work' \in WorkType /\ \E label \in LoopLabel : Goto(r, label)
    BY <2>1, <2>2, VisitedTypes
  <2>4. active' \in ActiveType
    BY <1>0, <2>2, RemoveTypes
  <2> QED BY <1>3, <2>1, <2>3, <2>4, LoopStep DEF Recover
<1>4. CASE RenewNow(r)
  <2>1. pc[r] \in LoopLabel /\ "renew" \in LoopLabel /\ "scanNow" \in LoopLabel
    BY <1>4 DEF RenewNow, LoopLabel, Label
  <2>2. work' \in WorkType
    BY <1>4 DEF RenewNow, Item, SchedTypeOK, WorkType
  <2> QED BY <1>0, <1>4, <2>1, <2>2, LoopStep DEF RenewNow
<1>5. CASE RenewLease(r)
  <2>1. pc[r] \in LoopLabel /\ "scanNow" \in LoopLabel
    BY <1>5 DEF RenewLease, LoopLabel, Label
  <2>2. PICK i \in work[r] :
            Visited(r, i, "scanNow") /\ (RemoveActiveIf(r, i.task, i.lease) \/ UNCHANGED active)
    BY <1>5 DEF RenewLease
  <2>3. work' \in WorkType /\ \E label \in LoopLabel : Goto(r, label)
    BY <2>1, <2>2, VisitedTypes
  <2>4. active' \in ActiveType
    BY <1>0, <2>2, RemoveTypes
  <2> QED BY <1>5, <2>1, <2>3, <2>4, LoopStep DEF RenewLease
<1>6. CASE ScanNow(r)
  <2>1. pc[r] \in LoopLabel /\ "scanDue" \in LoopLabel
    BY <1>6 DEF ScanNow, LoopLabel, Label
  <2> QED BY <1>0, <1>6, <2>1, LoopStep DEF ScanNow
<1>7. CASE ScanAdvance(r)
  <2>1. pc[r] \in LoopLabel /\ "scanFind" \in LoopLabel
    BY <1>7 DEF ScanAdvance, LoopLabel, Label
  <2> QED BY <1>0, <1>7, <2>1, LoopStep DEF ScanAdvance
<1>8. CASE ScanFind(r)
  <2>1. pc[r] \in LoopLabel /\ "claim" \in LoopLabel /\ "recoverNow" \in LoopLabel
    BY <1>8 DEF ScanFind, LoopLabel, Label
  <2>2. PICK B \in SUBSET Task : StartLoop(r, {Item(t, 0) : t \in B}, "claim", "recoverNow")
    <3>1. PICK C \in SUBSET Task :
            StartLoop(r, {Item(t, 0) : t \in {u \in C : tasks[u].rnb <= snow[r]}},
                      "claim", "recoverNow")
      BY <1>8 DEF ScanFind, Batches
    <3> QED BY <3>1
  <2>3. {Item(t, 0) : t \in B} \in SUBSET [task : Task, lease : 0 .. MaxLease]
    BY StoreAssumption DEF Item
  <2>4. work' \in WorkType /\ \E label \in LoopLabel : Goto(r, label)
    BY <2>1, <2>2, <2>3, StartTypes
  <2> QED BY <1>0, <1>8, <2>1, <2>4, LoopStep DEF ScanFind
<1>9. CASE ClaimDue(r)
  <2>1. pc[r] \in LoopLabel /\ "recoverNow" \in LoopLabel /\ "admit" \in Label
    BY <1>9 DEF ClaimDue, LoopLabel, Label
  <2>2. PICK i \in work[r] :
          \/ /\ Claim(i.task, r, snow[r] + LeaseDuration)
             /\ cur' = [cur EXCEPT ![r] = [task |-> i.task, lease |-> leases', decision |-> "none"]]
             /\ work' = [work EXCEPT ![r] = @ \ {i}]
             /\ Goto(r, "admit")
          \/ Visited(r, i, "recoverNow") /\ UNCHANGED cur
    BY <1>9 DEF ClaimDue
  <2>3. CASE Visited(r, i, "recoverNow") /\ UNCHANGED cur
    <3>1. work' \in WorkType /\ \E label \in LoopLabel : Goto(r, label)
      BY <2>1, <2>3, VisitedTypes
    <3> QED BY <1>0, <1>9, <2>1, <2>3, <3>1, LoopStep DEF ClaimDue
  <2>4. CASE /\ Claim(i.task, r, snow[r] + LeaseDuration)
             /\ cur' = [cur EXCEPT ![r] = [task |-> i.task, lease |-> leases', decision |-> "none"]]
             /\ work' = [work EXCEPT ![r] = @ \ {i}]
             /\ Goto(r, "admit")
    <3> DEFINE c == [task |-> i.task, lease |-> leases', decision |-> "none"]
    <3>1. leases' \in 1 .. MaxLease
      BY <2>4, StoreAssumption DEF Claim, StoreInv, TypeOK
    <3>2. c \in [task : Task, lease : 1 .. MaxLease, decision : Decision \cup {"none"}]
      BY <1>0, <3>1
    <3>3. c # NoAttempt /\ c.decision = "none"
      BY <3>1 DEF NoAttempt
    <3>4. /\ pc' = [pc EXCEPT ![r] = "admit"]
          /\ pc' \in [Owner -> Label]
          /\ snow' \in [Owner -> Time]
      BY <2>1, <2>4, GotoTypes
    <3>5. cur' = [cur EXCEPT ![r] = c]
      BY <2>4
    <3>6. work' \in WorkType /\ active' \in ActiveType
      BY <1>0, <1>9, <2>4 DEF ClaimDue, SchedTypeOK, WorkType
    <3> HIDE DEF c
    <3> QED BY <3>2, <3>3, <3>4, <3>5, <3>6 DEF SchedTypeOK, WorkType, ActiveType
  <2> QED BY <2>2, <2>3, <2>4
<1>10. CASE Decide(r)
  <2> DEFINE label == IF work[r] = {} THEN "recoverNow" ELSE "claim"
  <2>1. label \in LoopLabel
    BY DEF LoopLabel, Label
  <2>2. /\ pc' = [pc EXCEPT ![r] = label]
        /\ pc' \in [Owner -> Label]
        /\ snow' \in [Owner -> Time]
    BY <1>10, <2>1, GotoTypes DEF Decide, LoopLabel
  <2>3. cur[r].task \in Task /\ cur[r].lease \in 1 .. MaxLease
    BY <1>10 DEF SchedTypeOK, Decide
  <2>4. active' \in ActiveType
    <3>1. CASE active' = [active EXCEPT ![r][cur[r].task] = cur[r].lease]
      BY <2>3, <3>1 DEF SchedTypeOK, ActiveType
    <3>2. CASE RemoveActiveIf(r, cur[r].task, cur[r].lease)
      BY <2>3, <3>2, RemoveTypes
    <3>3. CASE UNCHANGED active
      BY <1>0, <3>3
    <3> QED BY <1>10, <3>1, <3>2, <3>3 DEF Decide
  <2>5. cur' = [cur EXCEPT ![r] = NoAttempt] /\ work' = work
    BY <1>10 DEF Decide
  <2>6. NoAttempt.decision = "none"
    BY DEF NoAttempt
  <2> HIDE DEF label
  <2> QED BY <2>1, <2>2, <2>4, <2>5, <2>6 DEF SchedTypeOK, LoopLabel, ActiveType
<1>11. CASE PhaseFails(r)
  <2>1. pc[r] \in LoopLabel /\ PhaseAfterFailure[pc[r]] \in LoopLabel
    BY <1>11 DEF PhaseFails, PhaseAfterFailure, LoopLabel, Label
  <2> QED BY <1>0, <1>11, <2>1, LoopStep DEF PhaseFails
<1> QED
  BY <1>1, <1>2, <1>3, <1>4, <1>5, <1>6, <1>7, <1>8, <1>9, <1>10, <1>11 DEF SchedStep

\* A scheduler step that hands out a lease leaves it in the store, where the
\* history finds its task.
LEMMA ClaimLeavesLease ==
    ASSUME DispatchInv, NEW r \in Owner, SchedStep(r), leases' # leases
    PROVE  /\ leases' \in 1 .. MaxLease
           /\ \E t \in Task : tasks'[t].lease.id = leases'
<1>1. ClaimDue(r)
  BY DEF SchedStep, RecoverNow, RecoverScan, Recover, RenewNow, RenewLease, ScanNow,
         ScanAdvance, ScanFind, Decide, PhaseFails, RecoverExpiredLease, Renew, ScanDue,
         Release, Settle, storeVars
<1>2. PICK i \in work[r] : Claim(i.task, r, snow[r] + LeaseDuration)
  BY <1>1 DEF ClaimDue, storeVars
<1>3. i.task \in Task
  BY DEF DispatchInv, SchedTypeOK
<1>4. leases' \in 1 .. MaxLease
  BY <1>2, StoreAssumption DEF Claim, DispatchInv, StoreInv, TypeOK
<1>5. tasks[i.task] \in TaskRecord /\ tasks' = [tasks EXCEPT ![i.task] =
                        Claimed(tasks[i.task], leases', r, snow[r] + LeaseDuration)]
  BY <1>2, <1>3 DEF Claim, Put, DispatchInv, StoreInv, TypeOK
<1>6. tasks'[i.task].lease.id = leases'
  BY <1>3, <1>5 DEF Claimed, LeaseOf, TaskRecord, DispatchInv, StoreInv, TypeOK
<1> QED BY <1>3, <1>4, <1>6

\* The outcome of an attempt in the history keeps its type.
LEMMA FateTypes ==
    ASSUME ControlTypeOK, NEW l \in 1 .. MaxLease, NEW o \in Outcome,
           fate' = [fate EXCEPT ![l].result = o]
    PROVE  fate' \in [1 .. MaxLease -> [task : Task \cup {"none"}, result : Outcome]]
BY DEF ControlTypeOK

\* try_send keeps the channel typed and within its capacity.
LEMMA EnqueueTypes ==
    ASSUME ControlTypeOK, NEW r \in Owner, NEW e \in ControlEvent, Enqueue(r, e)
    PROVE  /\ queue' \in [Owner -> Seq(ControlEvent)]
           /\ \A q \in Owner : Len(queue'[q]) <= QueueCap
<1>1. CASE Len(queue[r]) < QueueCap
  <2>1. queue' = [queue EXCEPT ![r] = Append(queue[r], e)]
    BY <1>1 DEF Enqueue
  <2>2. queue[r] \in Seq(ControlEvent) /\ QueueCap \in Nat
    BY DispatchAssumption DEF ControlTypeOK
  <2>3. Append(queue[r], e) \in Seq(ControlEvent) /\ Len(Append(queue[r], e)) <= QueueCap
    BY <1>1, <2>2
  <2> QED BY <2>1, <2>3 DEF ControlTypeOK
<1>2. CASE ~(Len(queue[r]) < QueueCap)
  BY <1>2 DEF Enqueue, ControlTypeOK
<1> QED BY <1>1, <1>2

\* Every step keeps the types.
LEMMA TypeStep == DispatchInv /\ [Next]_vars => SchedTypeOK' /\ ControlTypeOK'
<1> SUFFICES ASSUME DispatchInv, [Next]_vars
             PROVE  SchedTypeOK' /\ ControlTypeOK'
  OBVIOUS
<1> USE DEF DispatchInv
<1>1. ASSUME NEW r \in Owner, Schedule(r)
      PROVE  SchedTypeOK' /\ ControlTypeOK'
  <2>1. SchedStep(r) /\ RecordClaim /\ UNCHANGED <<inflight, queue>>
    BY <1>1 DEF Schedule, WithHistory
  <2>2. SchedTypeOK'
    BY <2>1, SchedTypes
  <2>3. fate' \in [1 .. MaxLease -> [task : Task \cup {"none"}, result : Outcome]]
    <3>1. CASE leases' = leases
      BY <2>1, <3>1 DEF RecordClaim, ControlTypeOK
    <3>2. CASE leases' # leases
      <4> DEFINE u == CHOOSE t \in Task : tasks'[t].lease.id = leases'
      <4>1. leases' \in 1 .. MaxLease /\ u \in Task
        BY <2>1, <3>2, ClaimLeavesLease
      <4>2. fate' = [fate EXCEPT ![leases'] = [task |-> u, result |-> "none"]]
        BY <2>1, <3>2 DEF RecordClaim
      <4> HIDE DEF u
      <4> QED BY <4>1, <4>2 DEF ControlTypeOK, Outcome
    <3> QED BY <3>1, <3>2
  <2> QED BY <2>1, <2>2, <2>3 DEF ControlTypeOK
<1>2. ASSUME NEW r \in Owner, HandleEvent(r)
      PROVE  SchedTypeOK' /\ ControlTypeOK'
  <2>1. queue[r] \in Seq(ControlEvent) /\ queue[r] # <<>> /\ QueueCap \in Nat
    BY <1>2, DispatchAssumption DEF HandleEvent, ControlTypeOK
  <2>2. Tail(queue[r]) \in Seq(ControlEvent) /\ Len(Tail(queue[r])) <= Len(queue[r])
    BY <2>1
  <2>3. queue' = [queue EXCEPT ![r] = Tail(queue[r])]
        /\ UNCHANGED <<schedVars, inflight, fate>>
    BY <1>2 DEF HandleEvent
  <2>4. Len(Tail(queue[r])) <= QueueCap
    BY <2>1, <2>2 DEF ControlTypeOK
  <2>5. ControlTypeOK'
    BY <2>2, <2>3, <2>4 DEF ControlTypeOK
  <2> QED BY <2>3, <2>5 DEF schedVars, SchedTypeOK
<1>3. ASSUME NEW r \in Owner, Crash(r)
      PROVE  SchedTypeOK' /\ ControlTypeOK'
  <2>1. SchedTypeOK'
    <3>1. "recoverNow" \in LoopLabel /\ 0 \in Time /\ 0 \in 0 .. MaxLease
      BY StoreAssumption DEF LoopLabel, Label, Time
    <3>2. pc' \in [Owner -> Label] /\ snow' \in [Owner -> Time]
      BY <1>3, <3>1 DEF Crash, SchedTypeOK, LoopLabel
    <3>3. work' \in WorkType /\ active' \in ActiveType
      BY <1>3, <3>1 DEF Crash, SchedTypeOK, WorkType, ActiveType
    <3>4. pc' = [pc EXCEPT ![r] = "recoverNow"] /\ cur' = [cur EXCEPT ![r] = NoAttempt]
          /\ NoAttempt.decision = "none"
      BY <1>3 DEF Crash, NoAttempt
    <3> QED BY <3>1, <3>2, <3>3, <3>4 DEF SchedTypeOK, LoopLabel, WorkType, ActiveType
  <2>2. queue' = [queue EXCEPT ![r] = <<>>] /\ inflight' = [inflight EXCEPT ![r] = {}]
        /\ UNCHANGED <<fate>>
    BY <1>3 DEF Crash
  <2>3. <<>> \in Seq(ControlEvent) /\ Len(<<>>) <= QueueCap
    BY DispatchAssumption
  <2> QED BY <2>1, <2>2, <2>3 DEF ControlTypeOK
<1>4. ASSUME NEW r \in Owner, NEW d \in Decision, AdmitAttempt(r, d)
      PROVE  SchedTypeOK' /\ ControlTypeOK'
  <2>1. pc[r] = "admit" /\ Goto(r, "decide") /\ cur' = [cur EXCEPT ![r].decision = d]
        /\ UNCHANGED <<work, active, queue>>
    BY <1>4 DEF AdmitAttempt, Admit
  <2>2. cur[r] \in [task : Task, lease : 1 .. MaxLease, decision : Decision \cup {"none"}]
    BY <2>1 DEF SchedTypeOK
  <2>3. SchedTypeOK'
    <3> DEFINE c == [cur[r] EXCEPT !.decision = d]
    <3>1. /\ c \in [task : Task, lease : 1 .. MaxLease, decision : Decision \cup {"none"}]
          /\ c # NoAttempt /\ c.decision # "none"
      BY <2>2 DEF NoAttempt, Decision
    <3>2. cur' = [cur EXCEPT ![r] = c]
      BY <2>1 DEF SchedTypeOK
    <3>3. /\ pc' = [pc EXCEPT ![r] = "decide"]
          /\ pc' \in [Owner -> Label]
          /\ snow' \in [Owner -> Time]
      BY <2>1, GotoTypes DEF Label
    <3> HIDE DEF c
    <3> QED BY <2>1, <3>1, <3>2, <3>3 DEF SchedTypeOK
  <2>4. inflight' \in [Owner -> SUBSET Attempt]
    BY <1>4, <2>2 DEF AdmitAttempt, Item, Attempt, ControlTypeOK
  <2>5. fate' \in [1 .. MaxLease -> [task : Task \cup {"none"}, result : Outcome]]
    <3>1. CASE fate' = [fate EXCEPT ![cur[r].lease].result = "platformFailed"]
      BY <2>2, <3>1, FateTypes DEF Outcome
    <3>2. CASE fate' = fate
      BY <3>2 DEF ControlTypeOK
    <3> QED BY <1>4, <3>1, <3>2 DEF AdmitAttempt
  <2> QED BY <2>1, <2>3, <2>4, <2>5 DEF ControlTypeOK
<1>5. ASSUME NEW r \in Owner, NEW i \in inflight[r]
      PROVE  /\ \A outcome \in Reported :
                    AttemptEnds(r, i, outcome) => SchedTypeOK' /\ ControlTypeOK'
             /\ AttemptUpgrading(r, i) => SchedTypeOK' /\ ControlTypeOK'
             /\ AttemptUncertain(r, i) => SchedTypeOK' /\ ControlTypeOK'
  <2>1. i.task \in Task /\ i.lease \in 1 .. MaxLease
    BY DEF ControlTypeOK, Attempt
  <2>2. Detach(r, i) => inflight' \in [Owner -> SUBSET Attempt]
    BY DEF Detach, ControlTypeOK
  <2>3. ASSUME NEW outcome \in Reported, AttemptEnds(r, i, outcome)
        PROVE  SchedTypeOK' /\ ControlTypeOK'
    <3>1. Event("settle", i, outcome) \in ControlEvent /\ outcome \in Outcome
      BY <2>1, DispatchAssumption DEF Event, ControlEvent, SettledOutcome, Outcome
    <3>2. /\ queue' \in [Owner -> Seq(ControlEvent)]
          /\ \A q \in Owner : Len(queue'[q]) <= QueueCap
      BY <2>3, <3>1, EnqueueTypes DEF AttemptEnds
    <3>3. fate' \in [1 .. MaxLease -> [task : Task \cup {"none"}, result : Outcome]]
      BY <2>1, <2>3, <3>1, FateTypes DEF AttemptEnds
    <3>4. UNCHANGED <<schedVars>>
      BY <2>3 DEF AttemptEnds
    <3>5. SchedTypeOK'
      BY <3>4 DEF schedVars, SchedTypeOK
    <3> QED BY <2>2, <2>3, <3>2, <3>3, <3>4, <3>5 DEF AttemptEnds, ControlTypeOK
  <2>4. ASSUME RemoveActiveIf(r, i.task, i.lease), UNCHANGED <<pc, snow, work, cur>>
        PROVE  SchedTypeOK'
    BY <2>1, <2>4, RemoveTypes DEF SchedTypeOK, ActiveType
  <2>5. ASSUME AttemptUpgrading(r, i)
        PROVE  SchedTypeOK' /\ ControlTypeOK'
    <3>1. Event("release", i, "none") \in ControlEvent
      BY <2>1 DEF Event, ControlEvent
    <3>2. /\ queue' \in [Owner -> Seq(ControlEvent)]
          /\ \A q \in Owner : Len(queue'[q]) <= QueueCap
      BY <2>5, <3>1, EnqueueTypes DEF AttemptUpgrading
    <3> QED BY <2>2, <2>4, <2>5, <3>2 DEF AttemptUpgrading, ControlTypeOK
  <2>6. ASSUME AttemptUncertain(r, i)
        PROVE  SchedTypeOK' /\ ControlTypeOK'
    BY <2>1, <2>2, <2>4, <2>6 DEF AttemptUncertain, ControlTypeOK
  <2> QED BY <2>3, <2>5, <2>6
<1>6. ASSUME UNCHANGED <<schedVars, ctlVars>>
      PROVE  SchedTypeOK' /\ ControlTypeOK'
  BY <1>6 DEF schedVars, ctlVars, SchedTypeOK, ControlTypeOK
<1> QED
  BY <1>1, <1>2, <1>3, <1>4, <1>5, <1>6 DEF Next, Submit, CancelTask, TimePasses, ClockSetBack, vars

LEMMA InitInv == Init => DispatchInv
<1> SUFFICES ASSUME Init PROVE DispatchInv
  OBVIOUS
<1>1. StoreInv
  BY InitStoreInv DEF Init
<1>2. SchedTypeOK
  BY StoreAssumption DEF Init, SchedInit, SchedTypeOK, Label, Time, NoAttempt
<1>3. ControlTypeOK
  BY DispatchAssumption DEF Init, ControlTypeOK, Unknown, Outcome
<1>4. ClockTypeOK
  BY DispatchAssumption DEF Init, ClockTypeOK
<1> QED BY <1>1, <1>2, <1>3, <1>4 DEF DispatchInv

LEMMA NextInv == DispatchInv /\ [Next]_vars => DispatchInv'
BY StoreStep, TypeStep, ClockTypes, NextStoreInv DEF DispatchInv

\* Whatever the replicas, the control planes, the submitters and the crashes
\* do, their state and the store's stay typed and the channel within its cap.
THEOREM DispatchTypeCorrect == Spec => []DispatchTypeOK
BY InitInv, NextInv, PTL DEF Spec, DispatchInv, DispatchTypeOK, StoreInv

\* The dispatch system writes records by the store's conditional writes only.
LEMMA DispatchUsesStore == Spec => StoreSpec
<1>1. Init => StoreInit
  BY DEF Init
<1> QED BY <1>1, InitInv, NextInv, StoreStep, PTL DEF Spec, StoreSpec

\* So what is proved of the store holds end to end: a terminal task is never
\* written again, no attempt is early, an expired lease is dead, and the whole
\* system is a task state machine to its users.
THEOREM DispatchSafe ==
    Spec => TerminalIsFinal /\ NoEarlyClaim /\ ExpiredLeaseIsDead /\ RefinesLifecycle
BY DispatchUsesStore, TerminalFinal, NotEarly, ExpiredDead, Refinement, PTL

----------------------------------------------------------------------------
(* Fencing end to end: the outcome a task ends with is that of its last    *)
(* attempt.  The proof follows a lease from the claim that hands it out to *)
(* the report that carries its outcome to the store.                       *)

\* Attempts nothing is known of yet: being admitted, or pending in a Router.
Pending(r) ==
    inflight[r] \cup (IF pc[r] = "admit" THEN {Item(cur[r].task, cur[r].lease)} ELSE {})

Found(t, o) == [task |-> t, result |-> o]

\* No claim of t after l.
LastOf(t, l) == \A k \in 1 .. MaxLease : fate[k].task = t => k <= l

\* The lease in a record is the last one handed out for its task.
LeaseIsLast ==
    /\ \A l \in 1 .. MaxLease : l > leases => fate[l] = Unknown
    /\ \A t \in Task : tasks[t].lease # NoLease =>
            fate[tasks[t].lease.id].task = t /\ LastOf(t, tasks[t].lease.id)

\* An attempt is pending in one place, and not after it was reported.
PendingUnreported ==
    /\ \A r \in Owner : \A i \in Pending(r) : fate[i.lease] = Found(i.task, "none")
    /\ \A r, q \in Owner : \A i \in Pending(r), j \in Pending(q) : i.lease = j.lease => r = q
    /\ \A r \in Owner : pc[r] = "admit" => Item(cur[r].task, cur[r].lease) \notin inflight[r]

\* A settlement on its way to the store carries what its attempt did.
EventsTrue ==
    \A r \in Owner : \A n \in 1 .. Len(queue[r]) :
        queue[r][n].kind = "settle" =>
            fate[queue[r][n].lease] = Found(queue[r][n].task, queue[r][n].outcome)

FailuresTrue ==
    \A r \in Owner : cur[r].decision = "permanent" =>
        fate[cur[r].lease] = Found(cur[r].task, "platformFailed")

\* A finished task ended with what its last attempt did.
EndsTrue ==
    \A t \in Task : tasks[t].state \in Terminal \ {"canceled"} =>
        \E l \in 1 .. MaxLease : fate[l] = Found(t, tasks[t].terminal) /\ LastOf(t, l)

FencingInv == LeaseIsLast /\ PendingUnreported /\ EventsTrue /\ FailuresTrue /\ EndsTrue

----------------------------------------------------------------------------
(* What a step may do to the history.                                      *)

\* What was found of an attempt stays.
ResultsKept == \A l \in 1 .. MaxLease : fate[l].result # "none" => fate'[l] = fate[l]

\* Besides, no lease is handed out.
FateKept ==
    /\ ResultsKept
    /\ leases' = leases
    /\ \A l \in 1 .. MaxLease : fate'[l].task = fate[l].task
    /\ \A l \in 1 .. MaxLease : l > leases => fate'[l] = fate[l]

\* A task that ends in this step ends with what its current attempt did.
SettlesTruly ==
    \A t \in Task : tasks'[t].state \in Terminal \ {"canceled"} =>
        \/ tasks'[t] = tasks[t]
        \/ /\ tasks[t].lease # NoLease
           /\ fate[tasks[t].lease.id] = Found(t, tasks'[t].terminal)

\* The leases each transition leaves in the record.
LEMMA ReducerLeases ==
    ASSUME NEW rec \in TaskRecord, NEW l, NEW o, NEW x, NEW out
    PROVE  /\ AdvanceDue(rec).lease = rec.lease
           /\ Claimed(rec, l, o, x).lease.id = l
           /\ Renewed(rec, x).lease.id = rec.lease.id
           /\ Settled(rec, out).lease = NoLease
           /\ Canceled(rec).lease = NoLease
           /\ BackToReady(rec, x).lease = NoLease
<1>1. AdvanceDue(rec).lease = rec.lease
  BY DEF AdvanceDue, TaskRecord
<1>2. Claimed(rec, l, o, x).lease.id = l
  BY DEF Claimed, LeaseOf, TaskRecord
<1>3. Renewed(rec, x).lease.id = rec.lease.id
  BY DEF Renewed, TaskRecord, Lease, NoLease
<1>4. Settled(rec, out).lease = NoLease /\ Canceled(rec).lease = NoLease
      /\ BackToReady(rec, x).lease = NoLease
  BY DEF Settled, Canceled, BackToReady, TaskRecord
<1> QED BY <1>1, <1>2, <1>3, <1>4

\* A store step that hands out no lease leaves each record with the lease it
\* had, or with none.
LEMMA LeaseKeptOrGone ==
    ASSUME StoreInv, StoreInv', [StoreNext]_storeVars, leases' = leases, NEW t \in Task,
           tasks'[t].lease # NoLease
    PROVE  tasks[t].lease # NoLease /\ tasks'[t].lease.id = tasks[t].lease.id
<1>1. tasks[t] \in TaskRecord /\ leases \in Nat /\ tasks'[t].lease.id \in 1 .. leases
  BY StoreAssumption DEF StoreInv, TypeOK, LeaseIdsUnique
<1>2. RecordStep(t)
  BY StepEffect
<1>3. CASE tasks'[t] = tasks[t]
  BY <1>3
<1>4. CASE \E created, due \in Stamp : tasks'[t] = NewRecord(created, due)
  BY <1>4 DEF NewRecord
<1>5. CASE tasks'[t] = AdvanceDue(tasks[t])
  BY <1>1, <1>5, ReducerLeases
<1>6. CASE \E o \in Owner, x \in Stamp : tasks'[t] = Claimed(tasks[t], leases + 1, o, x)
  <2>1. PICK o \in Owner, x \in Stamp : tasks'[t] = Claimed(tasks[t], leases + 1, o, x)
    BY <1>6
  <2>2. Claimed(tasks[t], leases + 1, o, x).lease.id = leases + 1
    BY <1>1, ReducerLeases
  <2> QED BY <1>1, <2>1, <2>2
<1>7. CASE \E l \in 1 .. MaxLease, x \in Stamp :
              HoldsLease(tasks[t], l) /\ x > now /\ tasks'[t] = Renewed(tasks[t], x)
  <2>1. tasks'[t].lease.id = tasks[t].lease.id
    BY <1>1, <1>7, ReducerLeases
  <2>2. tasks[t].lease # NoLease
    BY <1>7 DEF HoldsLease, StoreInv, RecordsConsistent
  <2> QED BY <2>1, <2>2
<1>8. CASE \/ \E l \in 1 .. MaxLease, out \in SettledOutcome :
                 HoldsLease(tasks[t], l) /\ tasks'[t] = Settled(tasks[t], out)
           \/ Cancelable(tasks[t]) /\ tasks'[t] = Canceled(tasks[t])
           \/ \E x \in Stamp : tasks[t].state = "leased" /\ tasks'[t] = BackToReady(tasks[t], x)
  BY <1>1, <1>8, ReducerLeases
<1> QED BY <1>2, <1>3, <1>4, <1>5, <1>6, <1>7, <1>8 DEF RecordStep

\* Without a new lease, the lease in a record stays the last of its task.
LEMMA LeaseIsLastKept ==
    ASSUME StoreInv, StoreInv', LeaseIsLast, [StoreNext]_storeVars, FateKept
    PROVE  LeaseIsLast'
<1>1. \A l \in 1 .. MaxLease : (l > leases => fate[l] = Unknown)'
  BY DEF LeaseIsLast, FateKept, Unknown
<1>2. ASSUME NEW t \in Task, tasks'[t].lease # NoLease
      PROVE  fate'[tasks'[t].lease.id].task = t /\ LastOf(t, tasks[t].lease.id)'
  <2>1. tasks[t].lease # NoLease /\ tasks'[t].lease.id = tasks[t].lease.id
    BY <1>2, LeaseKeptOrGone DEF FateKept
  <2>2. tasks[t].lease.id \in 1 .. leases /\ leases \in 0 .. MaxLease
    BY <2>1 DEF StoreInv, LeaseIdsUnique, TypeOK
  <2>3. tasks[t].lease.id \in 1 .. MaxLease
    BY <2>2, StoreAssumption
  <2>4. fate'[tasks'[t].lease.id].task = t
    BY <2>1, <2>3 DEF LeaseIsLast, FateKept
  <2>5. \A k \in 1 .. MaxLease : fate'[k].task = t => k <= tasks'[t].lease.id
    BY <2>1 DEF LeaseIsLast, FateKept, LastOf
  <2> QED BY <2>4, <2>5 DEF LastOf
<1> QED BY <1>1, <1>2 DEF LeaseIsLast

\* A finished task keeps its end, and one that ends truly has the right one.
LEMMA EndsTrueKept ==
    ASSUME StoreInv, StoreInv', LeaseIsLast, EndsTrue, FateKept, SettlesTruly
    PROVE  EndsTrue'
<1> SUFFICES ASSUME NEW t \in Task, tasks'[t].state \in Terminal \ {"canceled"}
             PROVE  \E l \in 1 .. MaxLease :
                        fate'[l] = Found(t, tasks'[t].terminal) /\ LastOf(t, l)'
  BY DEF EndsTrue, Found
<1>1. PICK l \in 1 .. MaxLease :
        fate[l] = Found(t, tasks'[t].terminal) /\ LastOf(t, l)
  <2>1. CASE tasks'[t] = tasks[t]
    BY <2>1 DEF EndsTrue
  <2>2. CASE tasks[t].lease # NoLease /\ fate[tasks[t].lease.id] = Found(t, tasks'[t].terminal)
    <3>1. tasks[t].lease.id \in 1 .. leases /\ leases \in 0 .. MaxLease
      BY <2>2 DEF StoreInv, LeaseIdsUnique, TypeOK
    <3>2. tasks[t].lease.id \in 1 .. MaxLease
      BY <3>1, StoreAssumption
    <3> QED BY <2>2, <3>2 DEF LeaseIsLast
  <2> QED BY <2>1, <2>2 DEF SettlesTruly
<1>2. tasks'[t].terminal # "none"
  BY DEF StoreInv, RecordsConsistent
<1>3. fate'[l] = fate[l]
  BY <1>1, <1>2 DEF FateKept, ResultsKept, Found
<1>4. LastOf(t, l)'
  BY <1>1 DEF FateKept, LastOf
<1> QED BY <1>1, <1>3, <1>4

\* A claim opens the history of its lease, and touches nothing else.
LEMMA ClaimFences ==
    ASSUME DispatchInv, StoreInv', LeaseIsLast, EndsTrue,
           NEW u \in Task, NEW o \in Owner, NEW x, Claim(u, o, x), RecordClaim
    PROVE  /\ leases' \in 1 .. MaxLease
           /\ fate[leases'] = Unknown
           /\ fate' = [fate EXCEPT ![leases'] = Found(u, "none")]
           /\ LeaseIsLast'
           /\ EndsTrue'
<1> USE DEF DispatchInv
<1>1. /\ leases \in Nat /\ leases' = leases + 1 /\ leases' \in 1 .. MaxLease
      /\ tasks \in [Task -> TaskRecord] /\ tasks[u] \in TaskRecord
      /\ tasks' = [tasks EXCEPT ![u] = Claimed(tasks[u], leases', o, x)]
  BY StoreAssumption DEF Claim, Put, StoreInv, TypeOK
<1>2. tasks'[u].lease.id = leases' /\ tasks'[u].state = "leased"
  <2>1. Claimed(tasks[u], leases', o, x).lease.id = leases'
    BY <1>1, ReducerLeases
  <2>2. Claimed(tasks[u], leases', o, x).state = "leased"
    BY <1>1, ReducerFields
  <2> QED BY <1>1, <2>1, <2>2
<1>3. fate[leases'] = Unknown /\ fate[leases'].task = "none"
  BY <1>1 DEF LeaseIsLast, Unknown
<1>4. fate' = [fate EXCEPT ![leases'] = Found(u, "none")]
  <2>1. tasks'[u].lease # NoLease
    BY <1>2 DEF StoreInv, RecordsConsistent
  <2>2. \A t \in Task : tasks'[t].lease.id = leases' => t = u
    BY <1>2, <2>1 DEF StoreInv, LeaseIdsUnique
  <2> DEFINE v == CHOOSE t \in Task : tasks'[t].lease.id = leases'
  <2>3. v = u
    BY <1>2, <2>2
  <2>4. leases' # leases
    BY <1>1
  <2>5. fate' = [fate EXCEPT ![leases'] = [task |-> v, result |-> "none"]]
    BY <2>4 DEF RecordClaim
  <2> HIDE DEF v
  <2> QED BY <2>3, <2>5 DEF Found
<1>5. /\ fate \in [1 .. MaxLease -> [task : Task \cup {"none"}, result : Outcome]]
      /\ fate'[leases'] = Found(u, "none")
      /\ \A l \in 1 .. MaxLease : l # leases' => fate'[l] = fate[l]
  BY <1>1, <1>4 DEF ControlTypeOK
<1>6. ASSUME NEW t \in Task, t # u, NEW l, LastOf(t, l)
      PROVE  LastOf(t, l)'
  BY <1>5, <1>6 DEF LastOf, Found
<1>7. LeaseIsLast'
  <2>1. \A l \in 1 .. MaxLease : l > leases' => fate'[l] = Unknown
    BY <1>1, <1>5 DEF LeaseIsLast
  <2>2. \A k \in 1 .. MaxLease : fate'[k].task = u => k <= leases'
    <3> SUFFICES ASSUME NEW k \in 1 .. MaxLease, fate'[k].task = u, k > leases' PROVE FALSE
      BY <1>1
    <3> QED BY <2>1, TaskAssumption DEF Unknown
  <2>3. fate'[tasks'[u].lease.id].task = u /\ LastOf(u, tasks[u].lease.id)'
    BY <1>2, <1>5, <2>2 DEF LastOf, Found
  <2>4. ASSUME NEW t \in Task, t # u, tasks'[t].lease # NoLease
        PROVE  fate'[tasks'[t].lease.id].task = t /\ LastOf(t, tasks[t].lease.id)'
    <3>1. tasks'[t] = tasks[t]
      BY <1>1, <2>4
    <3>2. tasks[t].lease.id \in 1 .. leases /\ leases <= MaxLease
      BY <2>4, <3>1 DEF StoreInv, LeaseIdsUnique, TypeOK
    <3>3. tasks[t].lease.id \in 1 .. MaxLease /\ tasks[t].lease.id # leases'
      BY <1>1, <3>2, StoreAssumption
    <3>4. fate[tasks[t].lease.id].task = t /\ LastOf(t, tasks[t].lease.id)
      BY <2>4, <3>1 DEF LeaseIsLast
    <3>5. \A k \in 1 .. MaxLease : fate'[k].task = t => k <= tasks[t].lease.id
      BY <1>5, <2>4, <3>4 DEF LastOf, Found
    <3> QED BY <1>5, <3>1, <3>3, <3>4, <3>5 DEF LastOf
  <2> QED BY <2>1, <2>3, <2>4 DEF LeaseIsLast
<1>8. EndsTrue'
  <2> SUFFICES ASSUME NEW t \in Task, tasks'[t].state \in Terminal \ {"canceled"}
               PROVE  \E l \in 1 .. MaxLease :
                          fate'[l] = Found(t, tasks'[t].terminal) /\ LastOf(t, l)'
    BY DEF EndsTrue, Found
  <2>1. t # u /\ tasks'[t] = tasks[t]
    BY <1>1, <1>2 DEF Terminal
  <2>2. PICK l \in 1 .. MaxLease : fate[l] = Found(t, tasks[t].terminal) /\ LastOf(t, l)
    BY <2>1 DEF EndsTrue
  <2>3. l # leases'
    BY <1>3, <2>2, TaskAssumption DEF Found
  <2> QED BY <1>5, <1>6, <2>1, <2>2, <2>3
<1> QED BY <1>1, <1>3, <1>4, <1>7, <1>8

----------------------------------------------------------------------------
(* Attempts and reports.                                                   *)

\* Pending attempts that go away, or stay as they were, disturb nothing.
LEMMA PendingKept ==
    ASSUME PendingUnreported,
           \A q \in Owner : inflight'[q] \subseteq inflight[q],
           \A q \in Owner : pc'[q] = "admit" => pc[q] = "admit" /\ cur'[q] = cur[q],
           \A q \in Owner : \A i \in Pending(q)' : fate'[i.lease] = fate[i.lease]
    PROVE  PendingUnreported'
<1>1. \A q \in Owner : Pending(q)' \subseteq Pending(q)
  BY DEF Pending
<1> QED BY <1>1 DEF PendingUnreported, Found

\* Reports stay true, because an outcome once found is never replaced.
LEMMA EventsKept ==
    ASSUME ControlTypeOK, DispatchAssumption, EventsTrue, ResultsKept,
           \A q \in Owner : \A n \in 1 .. Len(queue'[q]) :
                \/ \E m \in 1 .. Len(queue[q]) : queue'[q][n] = queue[q][m]
                \/ queue'[q][n].kind = "settle" =>
                        fate'[queue'[q][n].lease] = Found(queue'[q][n].task, queue'[q][n].outcome)
    PROVE  EventsTrue'
<1> SUFFICES ASSUME NEW q \in Owner, NEW m \in 1 .. Len(queue[q]), queue[q][m].kind = "settle"
             PROVE  fate'[queue[q][m].lease] = Found(queue[q][m].task, queue[q][m].outcome)
  BY DEF EventsTrue, Found
<1>1. queue[q] \in Seq(ControlEvent)
  BY DEF ControlTypeOK
<1>2. queue[q][m] \in ControlEvent
  BY <1>1
<1>3. queue[q][m].lease \in 1 .. MaxLease /\ queue[q][m].outcome # "none"
  BY <1>2, DispatchAssumption DEF ControlEvent, SettledOutcome
<1>4. fate[queue[q][m].lease] = Found(queue[q][m].task, queue[q][m].outcome)
  BY DEF EventsTrue
<1> QED BY <1>3, <1>4 DEF ResultsKept, Found

\* A permanent failure that is being settled stays the attempt's outcome.
LEMMA FailuresKept ==
    ASSUME SchedTypeOK, FailuresTrue, ResultsKept,
           \A q \in Owner : cur'[q] = cur[q] \/ cur'[q].decision # "permanent"
    PROVE  FailuresTrue'
<1> SUFFICES ASSUME NEW q \in Owner, cur[q].decision = "permanent"
             PROVE  fate'[cur[q].lease] = Found(cur[q].task, "platformFailed")
  BY DEF FailuresTrue, Found
<1>1. cur[q].lease \in 1 .. MaxLease
  BY DEF SchedTypeOK, NoAttempt
<1>2. fate[cur[q].lease] = Found(cur[q].task, "platformFailed")
  BY DEF FailuresTrue
<1> QED BY <1>1, <1>2 DEF ResultsKept, Found

----------------------------------------------------------------------------
(* What the store calls of the actors do to the ends of tasks.             *)

NothingEnds ==
    \A t \in Task : tasks'[t].state \in Terminal \ {"canceled"} => tasks'[t] = tasks[t]

\* Only a settlement finishes a task.
LEMMA OthersEndNothing ==
    ASSUME StoreInv, NEW t \in Task, NEW l, NEW o, NEW x, NEW y,
           \/ Create(t, x, y) \/ ScanDue \/ Claim(t, o, x) \/ Renew(t, l, x) \/ Cancel(t)
           \/ RecoverExpiredLease(t, x) \/ Release(t, l, x) \/ UNCHANGED tasks
    PROVE  NothingEnds
<1>1. tasks \in [Task -> TaskRecord] /\ tasks[t] \in TaskRecord
  BY DEF StoreInv, TypeOK
<1>2. CASE ScanDue
  <2>1. \A u \in Task : tasks[u] \in TaskRecord /\ tasks'[u] = AdvanceDue(tasks[u])
    BY <1>1, <1>2 DEF ScanDue
  <2> QED BY <2>1 DEF NothingEnds, AdvanceDue, Terminal, TaskRecord
<1>3. CASE UNCHANGED tasks
  BY <1>3 DEF NothingEnds
<1>4. ASSUME NEW rec, Put(t, rec), rec.state \notin Terminal \ {"canceled"}
      PROVE  NothingEnds
  BY <1>1, <1>4 DEF Put, NothingEnds
<1>5. NewRecord(x, y).state \notin Terminal \ {"canceled"}
  BY DEF NewRecord, Terminal
<1>6. /\ Claimed(tasks[t], leases + 1, o, x).state = "leased"
      /\ Renewed(tasks[t], x).state = tasks[t].state
      /\ Canceled(tasks[t]).state = "canceled"
      /\ BackToReady(tasks[t], x).state = "ready"
  BY <1>1, ReducerFields
<1>7. CASE Create(t, x, y)
  BY <1>4, <1>5, <1>7 DEF Create
<1>8. CASE Renew(t, l, x)
  BY <1>4, <1>6, <1>8 DEF Renew, HoldsLease, Terminal
<1>9. CASE Claim(t, o, x) \/ Cancel(t) \/ RecoverExpiredLease(t, x) \/ Release(t, l, x)
  BY <1>4, <1>6, <1>9 DEF Claim, Cancel, RecoverExpiredLease, Release, Terminal
<1> QED BY <1>2, <1>3, <1>7, <1>8, <1>9

\* A settlement that carries what its attempt did ends the task truly: the
\* store only takes it under the current lease.
LEMMA TrueSettlement ==
    ASSUME StoreInv, NEW t \in Task, NEW l, NEW o, Settle(t, l, o), fate[l] = Found(t, o)
    PROVE  SettlesTruly
<1>1. tasks \in [Task -> TaskRecord] /\ tasks[t] \in TaskRecord
  BY DEF StoreInv, TypeOK
<1>2. tasks' = [tasks EXCEPT ![t] = Settled(tasks[t], o)] /\ HoldsLease(tasks[t], l)
  BY DEF Settle, Settleable, Put
<1>3. tasks[t].lease.id = l /\ tasks[t].lease # NoLease
  BY <1>2 DEF HoldsLease, StoreInv, RecordsConsistent
<1>4. tasks'[t].terminal = o
  BY <1>1, <1>2 DEF Settled, TaskRecord
<1> QED BY <1>1, <1>2, <1>3, <1>4 DEF SettlesTruly

\* A cycle of a replica moves its own locals; it claims, settles a permanent
\* failure, or ends nothing.
LEMMA SchedEffect ==
    ASSUME DispatchInv, NEW r \in Owner, SchedStep(r)
    PROVE  /\ \A q \in Owner : q # r => pc'[q] = pc[q] /\ cur'[q] = cur[q]
           /\ \/ \E u \in Task :
                    /\ Claim(u, r, snow[r] + LeaseDuration)
                    /\ \/ cur'[r] = NoAttempt
                       \/ cur'[r] = [task |-> u, lease |-> leases', decision |-> "none"]
              \/ /\ leases' = leases /\ cur'[r] = NoAttempt
                 /\ \/ /\ cur[r].decision = "permanent"
                       /\ cur[r].task \in Task
                       /\ Settle(cur[r].task, cur[r].lease, "platformFailed")
                    \/ NothingEnds
<1> USE DEF DispatchInv
<1>1. pc \in [Owner -> Label] /\ \A i \in work[r] : i.task \in Task
  BY DEF SchedTypeOK
<1>2. \A q \in Owner : q # r => pc'[q] = pc[q]
  BY <1>1 DEF SchedStep, RecoverNow, RecoverScan, Recover, RenewNow, RenewLease, ScanNow,
         ScanAdvance, ScanFind, ClaimDue, Decide, PhaseFails, Visited, StartLoop, Goto, ReadNow
<1>3. CASE \/ RecoverNow(r) \/ RecoverScan(r) \/ RenewNow(r) \/ ScanNow(r) \/ ScanFind(r)
           \/ PhaseFails(r)
  <2>1. UNCHANGED <<cur, leases, tasks>> /\ pc[r] \notin {"admit", "decide"}
    BY <1>3 DEF RecoverNow, RecoverScan, RenewNow, ScanNow, ScanFind, PhaseFails,
                PhaseAfterFailure, storeVars
  <2>2. cur[r] = NoAttempt
    BY <2>1 DEF SchedTypeOK
  <2> QED BY <1>2, <2>1, <2>2 DEF NothingEnds
<1>4. CASE Recover(r) \/ RenewLease(r) \/ ScanAdvance(r)
  <2>1. UNCHANGED <<cur, leases>> /\ pc[r] \notin {"admit", "decide"}
    BY <1>4 DEF Recover, RenewLease, ScanAdvance, storeVars, RecoverExpiredLease, Renew, ScanDue
  <2>2. cur[r] = NoAttempt
    BY <2>1 DEF SchedTypeOK
  <2>3. NothingEnds
    <3>1. CASE Recover(r)
      BY <1>1, <3>1, OthersEndNothing DEF Recover, storeVars, NothingEnds
    <3>2. CASE RenewLease(r)
      BY <1>1, <3>2, OthersEndNothing DEF RenewLease, storeVars, NothingEnds
    <3>3. CASE ScanAdvance(r)
      BY <3>3, OthersEndNothing DEF ScanAdvance, NothingEnds
    <3> QED BY <1>4, <3>1, <3>2, <3>3
  <2> QED BY <1>2, <2>1, <2>2, <2>3
<1>5. CASE ClaimDue(r)
  <2>1. cur[r] = NoAttempt
    BY <1>5 DEF SchedTypeOK, ClaimDue
  <2>2. PICK i \in work[r] :
          \/ /\ Claim(i.task, r, snow[r] + LeaseDuration)
             /\ \/ cur' = [cur EXCEPT ![r] = [task |-> i.task, lease |-> leases', decision |-> "none"]]
                \/ UNCHANGED cur
          \/ UNCHANGED <<tasks, leases, cur>>
    BY <1>5 DEF ClaimDue, storeVars
  <2>3. cur \in [Owner -> [task : Task, lease : 1 .. MaxLease, decision : Decision \cup {"none"}]
                        \cup {NoAttempt}]
    BY DEF SchedTypeOK
  <2>4. CASE Claim(i.task, r, snow[r] + LeaseDuration)
                /\ cur' = [cur EXCEPT ![r] = [task |-> i.task, lease |-> leases', decision |-> "none"]]
    BY <1>1, <1>2, <2>3, <2>4
  <2>5. CASE Claim(i.task, r, snow[r] + LeaseDuration) /\ UNCHANGED cur
    BY <1>1, <1>2, <2>1, <2>5
  <2>6. CASE UNCHANGED <<tasks, leases, cur>>
    BY <1>2, <2>1, <2>6 DEF NothingEnds
  <2> QED BY <2>2, <2>4, <2>5, <2>6
<1>6. CASE Decide(r)
  <2>1. /\ cur' = [cur EXCEPT ![r] = NoAttempt] /\ leases' = leases
        /\ cur'[r] = NoAttempt /\ \A q \in Owner : q # r => cur'[q] = cur[q]
    BY <1>6 DEF Decide, storeVars, Release, Settle, SchedTypeOK
  <2>2. cur[r].task \in Task
    BY <1>6 DEF SchedTypeOK, Decide
  <2>3. CASE cur[r].decision = "permanent" /\ Settle(cur[r].task, cur[r].lease, "platformFailed")
    BY <1>2, <2>1, <2>2, <2>3
  <2>4. CASE \E x : Release(cur[r].task, cur[r].lease, x)
    BY <1>2, <2>1, <2>2, <2>4, OthersEndNothing
  <2>5. CASE UNCHANGED storeVars
    BY <1>2, <2>1, <2>5 DEF NothingEnds, storeVars
  <2> QED BY <1>6, <2>3, <2>4, <2>5 DEF Decide
<1> QED BY <1>3, <1>4, <1>5, <1>6 DEF SchedStep

----------------------------------------------------------------------------
(* The invariant is inductive.                                             *)

\* A pending attempt is an attempt of a task under a lease handed out.
LEMMA PendingTypes ==
    ASSUME DispatchInv, NEW r \in Owner, NEW i \in Pending(r)
    PROVE  i \in Attempt /\ i = Item(i.task, i.lease)
<1>1. inflight[r] \subseteq Attempt
  BY DEF DispatchInv, ControlTypeOK
<1>2. pc[r] = "admit" => Item(cur[r].task, cur[r].lease) \in Attempt
  BY DEF DispatchInv, SchedTypeOK, Item, Attempt
<1> QED BY <1>1, <1>2 DEF Pending, Attempt, Item

\* Every event in a channel was there before, or is the one just sent.
LEMMA EnqueuedEvents ==
    ASSUME ControlTypeOK, NEW r \in Owner, NEW e \in ControlEvent, Enqueue(r, e),
           NEW q \in Owner, NEW n \in 1 .. Len(queue'[q])
    PROVE  queue'[q][n] = e \/ \E m \in 1 .. Len(queue[q]) : queue'[q][n] = queue[q][m]
<1>1. queue \in [Owner -> Seq(ControlEvent)] /\ queue[r] \in Seq(ControlEvent)
  BY DEF ControlTypeOK
<1>2. CASE queue'[q] = queue[q]
  BY <1>2
<1>3. CASE q = r /\ queue'[q] = Append(queue[r], e)
  BY <1>1, <1>3
<1> QED BY <1>1, <1>2, <1>3 DEF Enqueue

\* A step that neither hands out a lease nor finds out about an attempt.
LEMMA QuietStep ==
    ASSUME DispatchInv, DispatchInv', FencingInv, [StoreNext]_storeVars,
           leases' = leases, fate' = fate, SettlesTruly,
           \A q \in Owner : inflight'[q] \subseteq inflight[q],
           \A q \in Owner : pc'[q] = "admit" => pc[q] = "admit" /\ cur'[q] = cur[q],
           \A q \in Owner : cur'[q] = cur[q] \/ cur'[q].decision # "permanent",
           \A q \in Owner : \A n \in 1 .. Len(queue'[q]) :
                \/ \E m \in 1 .. Len(queue[q]) : queue'[q][n] = queue[q][m]
                \/ queue'[q][n].kind # "settle"
    PROVE  FencingInv'
<1>1. FateKept /\ ResultsKept
  BY DEF FateKept, ResultsKept
<1>2. LeaseIsLast'
  BY <1>1, LeaseIsLastKept DEF DispatchInv, FencingInv
<1>3. EndsTrue'
  BY <1>1, EndsTrueKept DEF DispatchInv, FencingInv
<1>4. PendingUnreported'
  BY PendingKept DEF FencingInv
<1>5. EventsTrue'
  BY <1>1, EventsKept, DispatchAssumption DEF DispatchInv, FencingInv
<1>6. FailuresTrue'
  BY <1>1, FailuresKept DEF DispatchInv, FencingInv
<1> QED BY <1>2, <1>3, <1>4, <1>5, <1>6 DEF FencingInv

\* A claim makes one attempt pending, in one place.
LEMMA ClaimStep ==
    ASSUME DispatchInv, DispatchInv', FencingInv, NEW r \in Owner, NEW u \in Task, NEW x,
           Claim(u, r, x), RecordClaim, UNCHANGED <<inflight, queue>>,
           \A q \in Owner : q # r => pc'[q] = pc[q] /\ cur'[q] = cur[q],
           \/ cur'[r] = NoAttempt
           \/ cur'[r] = [task |-> u, lease |-> leases', decision |-> "none"]
    PROVE  FencingInv'
<1>1. /\ leases' \in 1 .. MaxLease /\ fate[leases'] = Unknown
      /\ fate' = [fate EXCEPT ![leases'] = Found(u, "none")]
      /\ LeaseIsLast' /\ EndsTrue'
  BY ClaimFences DEF DispatchInv, FencingInv
<1>2. /\ fate'[leases'] = Found(u, "none")
      /\ \A l \in 1 .. MaxLease : l # leases' => fate'[l] = fate[l]
  BY <1>1 DEF DispatchInv, ControlTypeOK
<1>3. ResultsKept
  BY <1>1, <1>2 DEF ResultsKept, Unknown
<1>4. EventsTrue'
  BY <1>3, EventsKept, DispatchAssumption DEF DispatchInv, FencingInv
<1>5. FailuresTrue'
  BY <1>3, FailuresKept DEF DispatchInv, FencingInv, NoAttempt
<1>6. ASSUME NEW q \in Owner, pc'[q] = "admit"
      PROVE  \/ pc[q] = "admit" /\ cur'[q] = cur[q]
             \/ q = r /\ Item(cur'[q].task, cur'[q].lease) = Item(u, leases')
  BY <1>6 DEF DispatchInv, SchedTypeOK
<1>7. ASSUME NEW q \in Owner, NEW i \in Pending(q)
      PROVE  /\ i.lease # leases'
             /\ fate'[i.lease] = Found(i.task, "none")
  <2>1. i \in Attempt /\ fate[i.lease] = Found(i.task, "none")
    BY PendingTypes DEF FencingInv, PendingUnreported
  <2>2. i.task \in Task /\ i.lease \in 1 .. MaxLease
    BY <2>1 DEF Attempt
  <2>3. i.lease # leases'
    BY <1>1, <2>1, <2>2, TaskAssumption DEF Unknown, Found
  <2> QED BY <1>2, <2>1, <2>2, <2>3
<1>8. ASSUME NEW q \in Owner, NEW i \in Pending(q)'
      PROVE  i \in Pending(q) \/ (q = r /\ i = Item(u, leases'))
  BY <1>6, <1>8 DEF Pending
<1>9. PendingUnreported'
  <2>1. \A q \in Owner : \A i \in Pending(q)' : fate'[i.lease] = Found(i.task, "none")
    BY <1>2, <1>7, <1>8 DEF Item
  <2>2. \A p, q \in Owner : \A i \in Pending(p)', j \in Pending(q)' : i.lease = j.lease => p = q
    BY <1>7, <1>8 DEF Item, FencingInv, PendingUnreported
  <2>3. ASSUME NEW q \in Owner, pc'[q] = "admit"
        PROVE  Item(cur'[q].task, cur'[q].lease) \notin inflight'[q]
    <3>1. CASE pc[q] = "admit" /\ cur'[q] = cur[q]
      BY <3>1 DEF FencingInv, PendingUnreported
    <3>2. CASE q = r /\ Item(cur'[q].task, cur'[q].lease) = Item(u, leases')
      <4>1. \A i \in inflight[q] : i.lease # leases'
        BY <1>7 DEF Pending
      <4> QED BY <3>2, <4>1 DEF Item
    <3> QED BY <1>6, <2>3, <3>1, <3>2
  <2> QED BY <2>1, <2>2, <2>3 DEF PendingUnreported, Found, Item
<1> QED BY <1>1, <1>4, <1>5, <1>9 DEF FencingInv

\* The outcome of a pending attempt is found: it is pending no more, and
\* nothing else refers to its lease.
LEMMA FoundStep ==
    ASSUME DispatchInv, DispatchInv', FencingInv, [StoreNext]_storeVars, UNCHANGED storeVars,
           NEW r \in Owner, NEW i \in Pending(r), NEW o \in SettledOutcome,
           fate' = [fate EXCEPT ![i.lease].result = o],
           \A q \in Owner : inflight'[q] \subseteq inflight[q],
           \A q \in Owner : pc'[q] = "admit" => pc[q] = "admit" /\ cur'[q] = cur[q],
           i \notin Pending(r)'
    PROVE  /\ fate'[i.lease] = Found(i.task, o)
           /\ ResultsKept
           /\ LeaseIsLast' /\ EndsTrue' /\ PendingUnreported'
<1>1. i \in Attempt /\ fate[i.lease] = Found(i.task, "none") /\ i.lease \in 1 .. MaxLease
  BY PendingTypes DEF FencingInv, PendingUnreported, Attempt
<1>2. /\ fate'[i.lease] = Found(i.task, o)
      /\ \A l \in 1 .. MaxLease : l # i.lease => fate'[l] = fate[l]
  BY <1>1 DEF DispatchInv, ControlTypeOK, Found
<1>3. i.task # "none"
  BY <1>1, TaskAssumption DEF Attempt
<1>4. FateKept /\ ResultsKept
  BY <1>1, <1>2, <1>3 DEF FateKept, ResultsKept, Found, FencingInv, LeaseIsLast, Unknown, storeVars
<1>5. LeaseIsLast'
  BY <1>4, LeaseIsLastKept DEF DispatchInv, FencingInv
<1>6. EndsTrue'
  BY <1>4, EndsTrueKept DEF DispatchInv, FencingInv, SettlesTruly, storeVars
<1>7. ASSUME NEW q \in Owner, NEW j \in Pending(q)'
      PROVE  fate'[j.lease] = fate[j.lease]
  <2>1. j \in Pending(q)
    BY <1>7 DEF Pending
  <2>2. j.lease \in 1 .. MaxLease /\ j = Item(j.task, j.lease) /\ i = Item(i.task, i.lease)
    BY <2>1, PendingTypes DEF Attempt
  <2>3. ASSUME j.lease = i.lease PROVE FALSE
    <3>1. q = r
      BY <2>1, <2>3 DEF FencingInv, PendingUnreported
    <3>2. fate[j.lease] = Found(j.task, "none")
      BY <2>1 DEF FencingInv, PendingUnreported
    <3>3. j.task = i.task
      BY <1>1, <2>3, <3>2 DEF Found
    <3> QED BY <1>7, <2>2, <2>3, <3>1, <3>3
  <2> QED BY <1>2, <2>2, <2>3
<1>8. PendingUnreported'
  BY <1>7, PendingKept DEF FencingInv
<1> QED BY <1>2, <1>4, <1>5, <1>6, <1>8

\* Every step of every actor keeps the invariant.
LEMMA FencingStep == DispatchInv /\ FencingInv /\ [Next]_vars => FencingInv'
<1> SUFFICES ASSUME DispatchInv, FencingInv, [Next]_vars
             PROVE  FencingInv'
  OBVIOUS
<1>0. DispatchInv' /\ [StoreNext]_storeVars
  BY NextInv, StoreStep
<1>1. NothingEnds => SettlesTruly
  BY DEF NothingEnds, SettlesTruly
<1>2. ASSUME NEW r \in Owner, Schedule(r)
      PROVE  FencingInv'
  <2>1. SchedStep(r) /\ RecordClaim /\ UNCHANGED <<inflight, queue>>
    BY <1>2 DEF Schedule, WithHistory
  <2>2. \A q \in Owner : q # r => pc'[q] = pc[q] /\ cur'[q] = cur[q]
    BY <2>1, SchedEffect
  <2>3. ASSUME NEW u \in Task, Claim(u, r, snow[r] + LeaseDuration),
               \/ cur'[r] = NoAttempt
               \/ cur'[r] = [task |-> u, lease |-> leases', decision |-> "none"]
        PROVE  FencingInv'
    BY <1>0, <2>1, <2>2, <2>3, ClaimStep
  <2>4. ASSUME leases' = leases, cur'[r] = NoAttempt, SettlesTruly
        PROVE  FencingInv'
    <3>1. fate' = fate
      BY <2>1, <2>4 DEF RecordClaim
    <3>2. pc'[r] # "admit" /\ cur'[r].decision # "permanent"
      BY <1>0, <2>4 DEF DispatchInv, SchedTypeOK, NoAttempt
    <3> QED BY <1>0, <2>1, <2>2, <2>4, <3>1, <3>2, QuietStep
  <2>5. ASSUME cur[r].decision = "permanent", cur[r].task \in Task,
               Settle(cur[r].task, cur[r].lease, "platformFailed")
        PROVE  SettlesTruly
    <3>1. fate[cur[r].lease] = Found(cur[r].task, "platformFailed")
      BY <2>5 DEF FencingInv, FailuresTrue
    <3> QED BY <2>5, <3>1, TrueSettlement DEF DispatchInv
  <2> QED BY <1>1, <2>1, <2>3, <2>4, <2>5, SchedEffect
<1>3. ASSUME NEW r \in Owner, HandleEvent(r)
      PROVE  FencingInv'
  <2> DEFINE e == Head(queue[r])
  <2>1. /\ queue \in [Owner -> Seq(ControlEvent)]
        /\ queue[r] \in Seq(ControlEvent) /\ queue[r] # <<>>
    BY <1>3 DEF HandleEvent, DispatchInv, ControlTypeOK
  <2>2. 1 \in 1 .. Len(queue[r]) /\ e = queue[r][1] /\ e \in ControlEvent
    BY <2>1
  <2>3. /\ queue' = [queue EXCEPT ![r] = Tail(queue[r])]
        /\ UNCHANGED <<pc, cur, inflight, fate>> /\ leases' = leases
    BY <1>3 DEF HandleEvent, schedVars, Settle, Release, storeVars
  <2>4. ASSUME NEW q \in Owner, NEW n \in 1 .. Len(queue'[q])
        PROVE  \E m \in 1 .. Len(queue[q]) : queue'[q][n] = queue[q][m]
    <3>1. CASE q = r
      <4>1. queue'[q] = Tail(queue[r])
        BY <2>1, <2>3, <3>1
      <4>2. n + 1 \in 1 .. Len(queue[r]) /\ queue'[q][n] = queue[r][n + 1]
        BY <2>1, <2>4, <4>1
      <4> QED BY <3>1, <4>2
    <3>2. CASE q # r
      BY <2>1, <2>3, <3>2
    <3> QED BY <3>1, <3>2
  <2>5. SettlesTruly
    <3>1. CASE e.kind = "settle" /\ Settle(e.task, e.lease, e.outcome)
      <4>1. fate[e.lease] = Found(e.task, e.outcome) /\ e.task \in Task
        BY <2>2, <3>1 DEF FencingInv, EventsTrue, ControlEvent
      <4> QED BY <3>1, <4>1, TrueSettlement DEF DispatchInv
    <3>2. CASE \E x, d : Release(e.task, e.lease, x + d)
      <4>1. e.task \in Task
        BY <2>2 DEF ControlEvent
      <4> QED BY <1>1, <3>2, <4>1, OthersEndNothing DEF DispatchInv
    <3>3. CASE UNCHANGED storeVars
      BY <3>3 DEF SettlesTruly, storeVars
    <3> QED BY <1>3, <3>1, <3>2, <3>3 DEF HandleEvent
  <2> QED BY <1>0, <2>3, <2>4, <2>5, QuietStep
<1>4. ASSUME NEW r \in Owner, Crash(r)
      PROVE  FencingInv'
  <2>1. /\ UNCHANGED <<tasks, leases, fate>>
        /\ queue' = [queue EXCEPT ![r] = <<>>]
        /\ inflight' = [inflight EXCEPT ![r] = {}]
        /\ pc' = [pc EXCEPT ![r] = "recoverNow"]
        /\ cur' = [cur EXCEPT ![r] = NoAttempt]
    BY <1>4 DEF Crash, storeVars
  <2>2. SettlesTruly
    BY <2>1 DEF SettlesTruly
  <2>3. \A q \in Owner : inflight'[q] \subseteq inflight[q]
    BY <2>1 DEF DispatchInv, ControlTypeOK
  <2>4. \A q \in Owner :
            /\ pc'[q] = "admit" => pc[q] = "admit" /\ cur'[q] = cur[q]
            /\ cur'[q] = cur[q] \/ cur'[q].decision # "permanent"
    BY <2>1 DEF DispatchInv, SchedTypeOK, NoAttempt
  <2>5. ASSUME NEW q \in Owner, NEW n \in 1 .. Len(queue'[q])
        PROVE  \E m \in 1 .. Len(queue[q]) : queue'[q][n] = queue[q][m]
    <3>1. queue'[q] = <<>> \/ queue'[q] = queue[q]
      BY <2>1 DEF DispatchInv, ControlTypeOK
    <3> QED BY <2>5, <3>1
  <2> QED BY <1>0, <2>1, <2>2, <2>3, <2>4, <2>5, QuietStep
<1>5. ASSUME NEW r \in Owner, NEW d \in Decision, AdmitAttempt(r, d)
      PROVE  FencingInv'
  <2> DEFINE i == Item(cur[r].task, cur[r].lease)
  <2>1. /\ pc[r] = "admit" /\ pc' = [pc EXCEPT ![r] = "decide"]
        /\ cur' = [cur EXCEPT ![r].decision = d]
        /\ UNCHANGED <<storeVars, queue>>
    BY <1>5 DEF AdmitAttempt, Admit, Goto
  <2>2. /\ cur[r] \in [task : Task, lease : 1 .. MaxLease, decision : Decision \cup {"none"}]
        /\ cur'[r].task = cur[r].task /\ cur'[r].lease = cur[r].lease /\ cur'[r].decision = d
        /\ pc'[r] = "decide"
        /\ \A q \in Owner : q # r => pc'[q] = pc[q] /\ cur'[q] = cur[q]
    BY <2>1 DEF DispatchInv, SchedTypeOK
  <2>3. i \in Pending(r) /\ i \notin inflight[r] /\ i.lease = cur[r].lease /\ i.task = cur[r].task
    BY <2>1 DEF Pending, FencingInv, PendingUnreported, Item
  <2>4. \A q \in Owner : pc'[q] = "admit" => pc[q] = "admit" /\ cur'[q] = cur[q]
    BY <2>2
  <2>5. SettlesTruly /\ leases' = leases
    BY <2>1 DEF SettlesTruly, storeVars
  <2> HIDE DEF i
  <2>6. CASE d \notin {"accepted", "permanent"}
    <3>1. UNCHANGED <<inflight, fate>>
      BY <1>5, <2>6 DEF AdmitAttempt
    <3>2. \A q \in Owner : cur'[q] = cur[q] \/ cur'[q].decision # "permanent"
      BY <2>2, <2>6
    <3> QED BY <1>0, <2>1, <2>4, <2>5, <3>1, <3>2, QuietStep
  <2>7. CASE d = "permanent"
    <3>1. inflight' = inflight /\ fate' = [fate EXCEPT ![i.lease].result = "platformFailed"]
      BY <1>5, <2>3, <2>7 DEF AdmitAttempt
    <3>2. i \notin Pending(r)'
      BY <2>2, <2>3, <3>1 DEF Pending
    <3>3. /\ fate'[i.lease] = Found(i.task, "platformFailed") /\ ResultsKept
          /\ LeaseIsLast' /\ EndsTrue' /\ PendingUnreported'
      BY <1>0, <2>1, <2>3, <2>4, <3>1, <3>2, FoundStep DEF SettledOutcome
    <3>4. EventsTrue'
      BY <2>1, <3>3, EventsKept, DispatchAssumption DEF DispatchInv, FencingInv
    <3>5. FailuresTrue'
      <4> SUFFICES ASSUME NEW q \in Owner, cur'[q].decision = "permanent"
                   PROVE  fate'[cur'[q].lease] = Found(cur'[q].task, "platformFailed")
        BY DEF FailuresTrue, Found
      <4>1. CASE q = r
        BY <2>2, <2>3, <3>3, <4>1
      <4>2. CASE q # r
        <5>1. cur'[q] = cur[q] /\ fate[cur[q].lease] = Found(cur[q].task, "platformFailed")
          BY <2>2, <4>2 DEF FencingInv, FailuresTrue
        <5>2. cur[q].lease \in 1 .. MaxLease
          BY <5>1 DEF DispatchInv, SchedTypeOK, NoAttempt
        <5> QED BY <3>3, <5>1, <5>2 DEF ResultsKept, Found
      <4> QED BY <4>1, <4>2
    <3> QED BY <3>3, <3>4, <3>5 DEF FencingInv
  <2>8. CASE d = "accepted"
    <3>1. fate' = fate /\ inflight' = [inflight EXCEPT ![r] = @ \cup {i}]
      BY <1>5, <2>8 DEF AdmitAttempt, i
    <3>2. \A q \in Owner : Pending(q)' = Pending(q)
      <4>1. Pending(r)' = inflight[r] \cup {i}
        BY <2>2, <3>1 DEF Pending, DispatchInv, ControlTypeOK
      <4>2. Pending(r) = inflight[r] \cup {i}
        BY <2>1 DEF Pending, i
      <4>3. \A q \in Owner : q # r => Pending(q)' = Pending(q)
        BY <2>2, <3>1 DEF Pending, DispatchInv, ControlTypeOK
      <4> QED BY <4>1, <4>2, <4>3
    <3>3. ASSUME NEW q \in Owner, pc'[q] = "admit"
          PROVE  Item(cur'[q].task, cur'[q].lease) \notin inflight'[q]
      <4>1. q # r
        BY <2>2, <3>3
      <4> QED BY <2>2, <3>1, <3>3, <4>1 DEF FencingInv, PendingUnreported, DispatchInv, ControlTypeOK
    <3>4. PendingUnreported'
      BY <3>1, <3>2, <3>3 DEF FencingInv, PendingUnreported, Found, Item
    <3>5. FateKept /\ ResultsKept
      BY <2>5, <3>1 DEF FateKept, ResultsKept
    <3>6. LeaseIsLast' /\ EndsTrue'
      BY <1>0, <2>5, <3>5, LeaseIsLastKept, EndsTrueKept DEF DispatchInv, FencingInv
    <3>7. EventsTrue'
      BY <2>1, <3>5, EventsKept, DispatchAssumption DEF DispatchInv, FencingInv
    <3>8. \A q \in Owner : cur'[q] = cur[q] \/ cur'[q].decision # "permanent"
      BY <2>2, <2>8
    <3>9. FailuresTrue'
      BY <3>5, <3>8, FailuresKept DEF DispatchInv, FencingInv
    <3> QED BY <3>4, <3>6, <3>7, <3>9 DEF FencingInv
  <2> QED BY <2>6, <2>7, <2>8
<1>6. ASSUME NEW r \in Owner, NEW i \in inflight[r]
      PROVE  /\ \A outcome \in Reported : AttemptEnds(r, i, outcome) => FencingInv'
             /\ AttemptUpgrading(r, i) \/ AttemptUncertain(r, i) => FencingInv'
  <2>1. i \in Pending(r) /\ i \in Attempt /\ i.task \in Task /\ i.lease \in 1 .. MaxLease
    BY PendingTypes DEF Pending, Attempt
  <2>2. ASSUME Detach(r, i)
        PROVE  /\ inflight'[r] = inflight[r] \ {i}
               /\ \A q \in Owner : inflight'[q] \subseteq inflight[q]
    BY <2>2 DEF Detach, DispatchInv, ControlTypeOK
  <2>3. ASSUME NEW outcome \in Reported, AttemptEnds(r, i, outcome)
        PROVE  FencingInv'
    <3> DEFINE e == Event("settle", i, outcome)
    <3>1. /\ UNCHANGED storeVars /\ UNCHANGED <<pc, cur>> /\ Enqueue(r, e)
          /\ fate' = [fate EXCEPT ![i.lease].result = outcome] /\ Detach(r, i)
      BY <2>3 DEF AttemptEnds, schedVars
    <3>2. outcome \in SettledOutcome
      BY DispatchAssumption
    <3>3. i \notin Pending(r)'
      <4>1. pc[r] = "admit" => i # Item(cur[r].task, cur[r].lease)
        BY DEF FencingInv, PendingUnreported
      <4> QED BY <2>2, <3>1, <4>1 DEF Pending
    <3>4. /\ fate'[i.lease] = Found(i.task, outcome) /\ ResultsKept
          /\ LeaseIsLast' /\ EndsTrue' /\ PendingUnreported'
      BY <1>0, <2>1, <2>2, <3>1, <3>2, <3>3, FoundStep
    <3>5. e \in ControlEvent /\ e.task = i.task /\ e.lease = i.lease /\ e.outcome = outcome
      BY <2>1 DEF Event, ControlEvent
    <3> HIDE DEF e
    <3>6. EventsTrue'
      <4>1. \A q \in Owner : \A n \in 1 .. Len(queue'[q]) :
              queue'[q][n] = e \/ \E m \in 1 .. Len(queue[q]) : queue'[q][n] = queue[q][m]
        BY <3>1, <3>5, EnqueuedEvents DEF DispatchInv
      <4> QED BY <3>4, <3>5, <4>1, EventsKept, DispatchAssumption DEF DispatchInv, FencingInv
    <3>7. FailuresTrue'
      BY <3>1, <3>4, FailuresKept DEF DispatchInv, FencingInv
    <3> QED BY <3>4, <3>6, <3>7 DEF FencingInv
  <2>4. ASSUME AttemptUpgrading(r, i) \/ AttemptUncertain(r, i)
        PROVE  FencingInv'
    <3> DEFINE e == Event("release", i, "none")
    <3>1. /\ UNCHANGED <<tasks, leases, pc, cur, fate>> /\ Detach(r, i)
          /\ Enqueue(r, e) \/ UNCHANGED queue
      BY <2>4 DEF AttemptUpgrading, AttemptUncertain, storeVars
    <3>2. e \in ControlEvent /\ e.kind # "settle"
      BY <2>1 DEF Event, ControlEvent
    <3> HIDE DEF e
    <3>3. \A q \in Owner : \A n \in 1 .. Len(queue'[q]) :
            queue'[q][n] = e \/ \E m \in 1 .. Len(queue[q]) : queue'[q][n] = queue[q][m]
      BY <3>1, <3>2, EnqueuedEvents DEF DispatchInv
    <3>4. SettlesTruly
      BY <3>1 DEF SettlesTruly
    <3> QED BY <1>0, <2>2, <3>1, <3>2, <3>3, <3>4, QuietStep
  <2> QED BY <2>3, <2>4
<1>7. ASSUME UNCHANGED <<schedVars, ctlVars>>, NothingEnds, leases' = leases
      PROVE  FencingInv'
  BY <1>0, <1>1, <1>7, QuietStep DEF schedVars, ctlVars
<1>8. ASSUME NEW t \in Task, NEW d \in SubmitDelay, Submit(t, d)
      PROVE  FencingInv'
  BY <1>7, <1>8, OthersEndNothing DEF Submit, Create, DispatchInv
<1>9. ASSUME NEW t \in Task, CancelTask(t)
      PROVE  FencingInv'
  BY <1>7, <1>9, OthersEndNothing DEF CancelTask, Cancel, DispatchInv
<1>10. CASE TimePasses \/ ClockSetBack \/ UNCHANGED vars
  BY <1>7, <1>10 DEF TimePasses, ClockSetBack, Tick, Rollback, NothingEnds, vars, storeVars
<1> QED
  BY <1>2, <1>3, <1>4, <1>5, <1>6, <1>8, <1>9, <1>10 DEF Next

\* Nothing is pending or reported at the start.
LEMMA InitFencing == Init => FencingInv
<1> SUFFICES ASSUME Init PROVE FencingInv
  OBVIOUS
<1>1. /\ \A t \in Task : tasks[t] = NoRecord
      /\ \A l \in 1 .. MaxLease : fate[l] = Unknown
      /\ \A r \in Owner : inflight[r] = {} /\ queue[r] = <<>> /\ pc[r] = "recoverNow"
                          /\ cur[r] = NoAttempt
  BY DEF Init, StoreInit, SchedInit
<1>2. LeaseIsLast /\ EndsTrue
  BY <1>1 DEF LeaseIsLast, EndsTrue, NoRecord, Terminal
<1>3. PendingUnreported
  BY <1>1 DEF PendingUnreported, Pending
<1>4. EventsTrue /\ FailuresTrue
  BY <1>1 DEF EventsTrue, FailuresTrue, NoAttempt
<1> QED BY <1>2, <1>3, <1>4 DEF FencingInv

\* The last lease of a task is the one its end refers to.
LEMMA EndsWithLast == EndsTrue => OutcomeOfLastAttempt
<1> SUFFICES ASSUME EndsTrue, NEW t \in Task, tasks[t].state \in Terminal \ {"canceled"}
             PROVE  fate[LastLease(t)].result = tasks[t].terminal
  BY DEF OutcomeOfLastAttempt
<1> DEFINE mine == {l \in 1 .. MaxLease : fate[l].task = t}
<1>1. PICK l \in 1 .. MaxLease : fate[l] = Found(t, tasks[t].terminal) /\ LastOf(t, l)
  BY DEF EndsTrue
<1>2. l \in mine /\ \A k \in mine : k <= l
  BY <1>1 DEF LastOf, Found
<1>3. \A m \in mine : (\A k \in mine : k <= m) => m = l
  BY <1>2
<1>4. (CHOOSE m \in mine : \A k \in mine : k <= m) = l
  <2> HIDE DEF mine
  <2> QED BY <1>2, <1>3
<1>5. LastLease(t) = l
  BY <1>4 DEF LastLease
<1> QED BY <1>1, <1>5 DEF Found

\* Fencing end to end: however late the reports of earlier attempts arrive,
\* whichever Router they come from, whatever crashes and whatever the store
\* fails to answer, a task ends with what its last attempt did.
THEOREM OutcomeFenced == Spec => []OutcomeOfLastAttempt
<1>1. FencingInv => OutcomeOfLastAttempt
  BY EndsWithLast DEF FencingInv
<1> QED BY <1>1, InitInv, NextInv, InitFencing, FencingStep, PTL DEF Spec
----------------------------------------------------------------------------
(* Stale bookkeeping never drops a fresh lease: LiveAttemptIsRenewed.      *)

\* What a replica has in flight is renewed, while it is live.
LiveAt(r) ==
    \A i \in inflight[r] :
        Live(i.task, i.lease) /\ cur[r].lease # i.lease => active[r][i.task] = i.lease

\* A replica is admitting an attempt of the task the lease was claimed for, and what it
\* has in flight is older, or is that attempt once it was accepted: a cycle claims and
\* admits one task after the other.
AdmittingAt(r) ==
    cur[r] # NoAttempt =>
        /\ fate[cur[r].lease].task = cur[r].task
        /\ \A i \in inflight[r] :
              i.lease < cur[r].lease \/ (i.lease = cur[r].lease /\ cur[r].decision = "accepted")

\* A lease that has run out is known to have.
RanOutInv == \A t \in Task : LeaseExpired(tasks[t]) => tasks[t].lease.id \in ranOut

RenewalInv == RanOutInv /\ \A r \in Owner : LiveAt(r) /\ AdmittingAt(r)

\* A lease in flight was handed out, for the task of the attempt.
LEMMA InflightKnown ==
    ASSUME DispatchInv, FencingInv, NEW r \in Owner, NEW i \in inflight[r]
    PROVE  /\ i.task \in Task /\ i.lease \in 1 .. MaxLease /\ i = Item(i.task, i.lease)
           /\ fate[i.lease].task = i.task /\ i.lease <= leases
<1>1. i \in Pending(r) /\ leases \in Nat
  BY DEF Pending, DispatchInv, StoreInv, TypeOK
<1>2. i.task \in Task /\ i.lease \in 1 .. MaxLease /\ i = Item(i.task, i.lease)
  BY <1>1, PendingTypes DEF Attempt
<1>3. fate[i.lease].task = i.task
  <2>1. fate[i.lease] = Found(i.task, "none")
    BY <1>1 DEF FencingInv, PendingUnreported
  <2> QED BY <2>1 DEF Found
<1>4. i.lease <= leases
  <2> SUFFICES ASSUME i.lease > leases PROVE FALSE
    BY <1>1, <1>2
  <2> QED BY <1>2, <1>3, TaskAssumption DEF FencingInv, LeaseIsLast, Unknown
<1> QED BY <1>2, <1>3, <1>4

\* What a claim and a renewal write.
LEMMA WrittenLeases ==
    ASSUME NEW rec \in TaskRecord, NEW l, NEW o, NEW x
    PROVE  /\ Claimed(rec, l, o, x).lease = LeaseOf(l, o, x)
           /\ Renewed(rec, x).lease = LeaseOf(rec.lease.id, rec.lease.owner, x)
<1>1. Claimed(rec, l, o, x).lease = LeaseOf(l, o, x)
  BY DEF Claimed, TaskRecord
<1>2. PICK k, q, y : rec.lease = LeaseOf(k, q, y)
  BY DEF TaskRecord, Lease, NoLease, LeaseOf
<1>3. Renewed(rec, x).lease = [rec.lease EXCEPT !.expiry = x]
  BY DEF Renewed, TaskRecord
<1>4. Renewed(rec, x).lease = LeaseOf(rec.lease.id, rec.lease.owner, x)
  BY <1>2, <1>3 DEF LeaseOf
<1> QED BY <1>1, <1>4

\* A lease runs out by the passing of time only: it is handed out, and renewed, to a
\* time that is still to come.
LEMMA RanOutStep == DispatchInv /\ RanOutInv /\ [Next]_vars => RanOutInv'
<1> SUFFICES ASSUME DispatchInv, RanOutInv, [Next]_vars, NEW t \in Task, LeaseExpired(tasks[t])'
             PROVE  tasks'[t].lease.id \in ranOut'
  BY DEF RanOutInv
<1>1. /\ StoreInv /\ [StoreNext]_storeVars /\ tasks[t] \in TaskRecord /\ leases \in Nat
      /\ tasks[t].lease.expiry \in Nat /\ now \in Nat
  BY StoreStep, StoreAssumption DEF DispatchInv, StoreInv, TypeOK, Time, TaskRecord, Lease, NoLease
<1>2. tasks'[t].state = "leased" /\ tasks'[t].lease.expiry <= now'
  BY DEF LeaseExpired
<1>3. CASE TimePasses
  <2>1. tasks' = tasks
    BY <1>3 DEF TimePasses, Tick
  <2> QED BY <1>3, <2>1 DEF TimePasses
<1>4. CASE ClockSetBack
  <2>1. tasks' = tasks /\ ranOut' = ranOut /\ now' < now /\ now' \in Nat
    BY <1>4, StoreAssumption DEF ClockSetBack, Rollback, Time
  <2>2. LeaseExpired(tasks[t])
    BY <1>1, <1>2, <2>1 DEF LeaseExpired
  <2> QED BY <2>1, <2>2 DEF RanOutInv
<1>5. CASE now' = now /\ ranOut' = ranOut
  <2>1. RecordStep(t)
    BY <1>1, StepEffect
  <2>2. CASE tasks'[t] = tasks[t]
    BY <1>2, <1>5, <2>2 DEF LeaseExpired, RanOutInv
  <2>3. ASSUME NEW o \in Owner, NEW x \in Stamp, Claimable(tasks[t], x),
               tasks'[t] = Claimed(tasks[t], leases + 1, o, x)
        PROVE  FALSE
    <3>1. tasks'[t].lease.expiry = x /\ x \in Nat /\ x > now
      <4>1. tasks'[t].lease = LeaseOf(leases + 1, o, x)
        BY <1>1, <2>3, WrittenLeases
      <4> QED BY <2>3, <4>1, StoreAssumption DEF Claimable, LeaseOf
    <3> QED BY <1>1, <1>2, <1>5, <3>1
  <2>4. ASSUME NEW l \in 1 .. MaxLease, NEW x \in Stamp, x > now, tasks'[t] = Renewed(tasks[t], x)
        PROVE  FALSE
    <3>1. tasks'[t].lease.expiry = x /\ x \in Nat
      <4>1. tasks'[t].lease = LeaseOf(tasks[t].lease.id, tasks[t].lease.owner, x)
        BY <1>1, <2>4, WrittenLeases
      <4> QED BY <4>1, StoreAssumption DEF LeaseOf
    <3> QED BY <1>1, <1>2, <1>5, <2>4, <3>1
  <2>5. CASE \/ tasks[t] = NoRecord /\ \E created, due \in Stamp : tasks'[t] = NewRecord(created, due)
             \/ DueNow(tasks[t]) /\ tasks'[t] = AdvanceDue(tasks[t])
    <3>1. \A created, due : NewRecord(created, due).state = "scheduled"
      BY DEF NewRecord
    <3>2. DueNow(tasks[t]) => AdvanceDue(tasks[t]).state = "ready"
      BY <1>1, ReducerFields
    <3> QED BY <1>2, <2>5, <3>1, <3>2
  <2>6. ASSUME NEW out \in SettledOutcome, tasks'[t] = Settled(tasks[t], out)
        PROVE  FALSE
    <3>1. tasks'[t].state = TerminalState(out)
      BY <1>1, <2>6, ReducerFields
    <3> QED BY <1>2, <3>1 DEF TerminalState, SettledOutcome
  <2>7. CASE \/ tasks'[t] = Canceled(tasks[t])
             \/ \E x \in Stamp : tasks'[t] = BackToReady(tasks[t], x)
    BY <1>1, <1>2, <2>7, ReducerFields
  <2> QED BY <2>1, <2>2, <2>3, <2>4, <2>5, <2>6, <2>7 DEF RecordStep
<1> QED BY <1>3, <1>4, <1>5, ClockSteps

LEMMA RanOutGrows ==
    ASSUME [Next]_vars
    PROVE  ranOut \subseteq ranOut'
<1>1. CASE TimePasses
  BY <1>1 DEF TimePasses
<1>2. CASE ClockSetBack
  BY <1>2 DEF ClockSetBack
<1> QED BY <1>1, <1>2, ClockSteps

\* A lease that was handed out and is not live never is again, although the clock may
\* be set back: what ran out is not forgotten, and a claim hands out a new lease.
LEMMA LeaseNeverComesBack ==
    ASSUME DispatchInv, RanOutInv, [Next]_vars,
           NEW t \in Task, NEW l \in Nat, l <= leases, Live(t, l)'
    PROVE  Live(t, l)
<1>1. /\ StoreInv /\ [StoreNext]_storeVars /\ tasks[t] \in TaskRecord /\ leases \in Nat /\ now \in Nat
  BY StoreStep, StoreAssumption DEF DispatchInv, StoreInv, TypeOK, Time
<1>2. RecordStep(t)
  BY <1>1, StepEffect
<1>3. tasks'[t].state = "leased" /\ tasks'[t].lease.id = l /\ l \notin ranOut
  BY RanOutGrows DEF Live, HoldsLease
<1> SUFFICES HoldsLease(tasks[t], l)
  BY <1>3 DEF Live
<1>4. CASE tasks'[t] = tasks[t]
  <2>1. tasks[t].lease.expiry \in Nat
    BY <1>1 DEF TaskRecord, Lease, NoLease
  <2>2. ~LeaseExpired(tasks[t])
    BY <1>3, <1>4 DEF RanOutInv
  <2> QED BY <1>1, <1>3, <1>4, <2>1, <2>2 DEF HoldsLease, LeaseExpired
<1>5. ASSUME NEW o \in Owner, NEW x \in Stamp, tasks'[t] = Claimed(tasks[t], leases + 1, o, x)
      PROVE  FALSE
  <2>1. tasks'[t].lease.id = leases + 1
    BY <1>1, <1>5, ReducerLeases
  <2> QED BY <1>1, <1>3, <2>1
<1>6. ASSUME NEW k \in 1 .. MaxLease, NEW x \in Stamp, HoldsLease(tasks[t], k), tasks'[t] = Renewed(tasks[t], x)
      PROVE  HoldsLease(tasks[t], l)
  <2>1. tasks'[t].lease.id = tasks[t].lease.id
    BY <1>1, <1>6, ReducerLeases
  <2> QED BY <1>3, <1>6, <2>1 DEF HoldsLease
<1>7. CASE \/ tasks[t] = NoRecord /\ \E created, due \in Stamp : tasks'[t] = NewRecord(created, due)
           \/ DueNow(tasks[t]) /\ tasks'[t] = AdvanceDue(tasks[t])
  <2>1. \A created, due : NewRecord(created, due).state = "scheduled"
    BY DEF NewRecord
  <2>2. DueNow(tasks[t]) => AdvanceDue(tasks[t]).state = "ready"
    BY <1>1, ReducerFields
  <2>3. tasks'[t].state # "leased"
    BY <1>7, <2>1, <2>2
  <2> QED BY <1>3, <2>3
<1>8. ASSUME NEW out \in SettledOutcome, tasks'[t] = Settled(tasks[t], out)
      PROVE  FALSE
  <2>1. tasks'[t].state = TerminalState(out)
    BY <1>1, <1>8, ReducerFields
  <2> QED BY <1>3, <2>1 DEF TerminalState, SettledOutcome
<1>9. CASE \/ tasks'[t] = Canceled(tasks[t])
           \/ \E x \in Stamp : tasks'[t] = BackToReady(tasks[t], x)
  <2>1. tasks'[t].state # "leased"
    BY <1>1, <1>9, ReducerFields
  <2> QED BY <1>3, <2>1
<1> QED BY <1>2, <1>4, <1>5, <1>6, <1>7, <1>8, <1>9 DEF RecordStep

\* The task a lease was handed out for never changes.
LEMMA FateTaskKept ==
    ASSUME DispatchInv, FencingInv, [Next]_vars, NEW l \in 1 .. MaxLease, fate[l].task # "none"
    PROVE  fate'[l].task = fate[l].task
<1>1. DispatchInv' /\ fate \in [1 .. MaxLease -> [task : Task \cup {"none"}, result : Outcome]]
  BY NextInv DEF DispatchInv, ControlTypeOK
<1>2. ASSUME NEW r \in Owner, Schedule(r) PROVE fate'[l].task = fate[l].task
  <2>1. SchedStep(r) /\ RecordClaim
    BY <1>2 DEF Schedule, WithHistory
  <2>2. ASSUME NEW u \in Task, Claim(u, r, snow[r] + LeaseDuration)
        PROVE  fate'[l].task = fate[l].task
    <3>1. fate[leases'] = Unknown /\ fate' = [fate EXCEPT ![leases'] = Found(u, "none")]
      BY <1>1, <2>1, <2>2, ClaimFences DEF DispatchInv, FencingInv
    <3>2. l # leases'
      BY <3>1 DEF Unknown
    <3> QED BY <1>1, <3>1, <3>2
  <2>3. CASE leases' = leases
    BY <2>1, <2>3 DEF RecordClaim
  <2> QED BY <2>1, <2>2, <2>3, SchedEffect
<1>3. ASSUME NEW r \in Owner, HandleEvent(r) \/ Crash(r) PROVE fate'[l].task = fate[l].task
  BY <1>3 DEF HandleEvent, Crash
<1>4. ASSUME NEW k, NEW o, fate' = [fate EXCEPT ![k].result = o]
      PROVE  fate'[l].task = fate[l].task
  BY <1>1, <1>4
<1>5. ASSUME NEW r \in Owner, NEW d \in Decision, AdmitAttempt(r, d) PROVE fate'[l].task = fate[l].task
  BY <1>4, <1>5 DEF AdmitAttempt
<1>6. ASSUME NEW r \in Owner, NEW i \in inflight[r],
             \/ \E outcome \in Reported : AttemptEnds(r, i, outcome)
             \/ AttemptUpgrading(r, i) \/ AttemptUncertain(r, i)
      PROVE  fate'[l].task = fate[l].task
  BY <1>4, <1>6 DEF AttemptEnds, AttemptUpgrading, AttemptUncertain
<1>7. CASE \/ (\E t \in Task, d \in SubmitDelay : Submit(t, d)) \/ (\E t \in Task : CancelTask(t))
           \/ TimePasses \/ ClockSetBack \/ UNCHANGED vars
  BY <1>7 DEF Submit, CancelTask, TimePasses, ClockSetBack, ctlVars, vars
<1> QED BY <1>2, <1>3, <1>5, <1>6, <1>7 DEF Next

\* A replica whose list and flights only lose what is not live, and whose
\* admission goes on, ends or has not begun, stays as it should be.
LEMMA RenewalKept ==
    ASSUME DispatchInv, FencingInv, RenewalInv, [Next]_vars, NEW r \in Owner,
           inflight'[r] \subseteq inflight[r],
           cur'[r] = cur[r] \/ cur'[r] = NoAttempt,
           \A i \in inflight'[r] :
               Live(i.task, i.lease) /\ cur'[r].lease # i.lease =>
                   \/ active'[r][i.task] = i.lease
                   \/ active'[r][i.task] = active[r][i.task] /\ cur[r].lease # i.lease
    PROVE  LiveAt(r)' /\ AdmittingAt(r)'
<1>1. LiveAt(r) /\ AdmittingAt(r) /\ RanOutInv
  BY DEF RenewalInv
<1>3. LiveAt(r)'
  <2> SUFFICES ASSUME NEW i \in inflight'[r], Live(i.task, i.lease)', cur'[r].lease # i.lease
               PROVE  active'[r][i.task] = i.lease
    BY DEF LiveAt
  <2>1. i \in inflight[r] /\ i.task \in Task /\ i.lease \in Nat /\ i.lease <= leases
    BY InflightKnown
  <2>2. Live(i.task, i.lease)
    BY <1>1, <2>1, LeaseNeverComesBack
  <2> QED BY <1>1, <2>1, <2>2 DEF LiveAt
<1>4. AdmittingAt(r)'
  <2> SUFFICES ASSUME cur'[r] # NoAttempt PROVE AdmittingAt(r)'
    BY DEF AdmittingAt
  <2>1. cur'[r] = cur[r] /\ cur[r].lease \in 1 .. MaxLease /\ cur[r].task \in Task
    BY DEF DispatchInv, SchedTypeOK
  <2>2. fate[cur[r].lease].task = cur[r].task /\ cur[r].task # "none"
    BY <1>1, <2>1, TaskAssumption DEF AdmittingAt
  <2>3. fate'[cur[r].lease].task = cur[r].task
    BY <2>1, <2>2, FateTaskKept
  <2> QED BY <1>1, <2>1, <2>3 DEF AdmittingAt
<1> QED BY <1>3, <1>4

\* Which entries remove_active_lease_if takes off the renewal list.
LEMMA RemoveEffect ==
    ASSUME SchedTypeOK, NEW r \in Owner, NEW t \in Task, NEW l, RemoveActiveIf(r, t, l)
    PROVE  /\ \A q \in Owner : q # r => active'[q] = active[q]
           /\ \A u \in Task : active'[r][u] = active[r][u] \/ (u = t /\ active[r][t] = l)
<1>1. active \in [Owner -> [Task -> 0 .. MaxLease]]
  BY DEF SchedTypeOK
<1> QED BY <1>1 DEF RemoveActiveIf

\* A replica writes its own renewal list only.
LEMMA SchedActive ==
    ASSUME DispatchInv, NEW r \in Owner, SchedStep(r)
    PROVE  \A q \in Owner : q # r => active'[q] = active[q]
<1>1. SchedTypeOK /\ (\A i \in work[r] : i.task \in Task) /\ active \in [Owner -> [Task -> 0 .. MaxLease]]
  BY DEF DispatchInv, SchedTypeOK
<1>2. CASE \/ RecoverNow(r) \/ RecoverScan(r) \/ RenewNow(r) \/ ScanNow(r) \/ ScanFind(r)
           \/ PhaseFails(r) \/ ScanAdvance(r) \/ ClaimDue(r)
  BY <1>2 DEF RecoverNow, RecoverScan, RenewNow, ScanNow, ScanFind, PhaseFails, ScanAdvance, ClaimDue
<1>3. CASE Recover(r)
  BY <1>1, <1>3, RemoveEffect DEF Recover
<1>4. CASE RenewLease(r)
  BY <1>1, <1>4, RemoveEffect DEF RenewLease
<1>5. CASE Decide(r)
  <2>1. cur[r].task \in Task
    BY <1>1, <1>5 DEF Decide, SchedTypeOK
  <2>2. CASE active' = [active EXCEPT ![r][cur[r].task] = cur[r].lease]
    BY <1>1, <2>2
  <2>3. CASE RemoveActiveIf(r, cur[r].task, cur[r].lease)
    BY <1>1, <2>1, <2>3, RemoveEffect
  <2> QED BY <1>5, <2>2, <2>3 DEF Decide
<1> QED BY <1>2, <1>3, <1>4, <1>5 DEF SchedStep
\* A cycle of r takes nothing live off its own list.
LEMMA SchedRenewal ==
    ASSUME DispatchInv, FencingInv, RenewalInv, [Next]_vars, NEW r \in Owner, Schedule(r)
    PROVE  LiveAt(r)' /\ AdmittingAt(r)'
<1>1. SchedStep(r) /\ RecordClaim /\ inflight' = inflight
  BY DEF Schedule, WithHistory
<1>2. /\ SchedTypeOK /\ active \in [Owner -> [Task -> 0 .. MaxLease]]
      /\ \A w \in work[r] : w.task \in Task
      /\ LiveAt(r) /\ AdmittingAt(r) /\ RanOutInv /\ StoreInv /\ tasks \in [Task -> TaskRecord]
  BY DEF DispatchInv, SchedTypeOK, RenewalInv, StoreInv, TypeOK
<1>3. [StoreNext]_storeVars /\ now \in Nat
  BY StoreStep, StoreAssumption DEF DispatchInv, StoreInv, TypeOK, Time
<1>4. \A i \in inflight[r] : /\ i.task \in Task /\ i.lease \in 1 .. MaxLease
                             /\ fate[i.lease].task = i.task /\ i.lease <= leases
  BY InflightKnown
<1>5. CASE \/ RecoverNow(r) \/ RecoverScan(r) \/ RenewNow(r) \/ ScanNow(r) \/ ScanFind(r)
           \/ PhaseFails(r) \/ ScanAdvance(r)
  <2>1. active' = active /\ cur' = cur
    BY <1>5 DEF RecoverNow, RecoverScan, RenewNow, ScanNow, ScanFind, PhaseFails, ScanAdvance
  <2> QED BY <1>1, <2>1, RenewalKept
<1>6. CASE Recover(r)
  <2>1. PICK w \in work[r] : \/ /\ \E d \in Delay : RecoverExpiredLease(w.task, snow[r] + d)
                                /\ RemoveActiveIf(r, w.task, w.lease)
                             \/ UNCHANGED active
    BY <1>6 DEF Recover
  <2>2. cur' = cur
    BY <1>6 DEF Recover
  <2>3. CASE UNCHANGED active
    BY <1>1, <2>2, <2>3, RenewalKept
  <2>4. ASSUME NEW d \in Delay, RecoverExpiredLease(w.task, snow[r] + d), RemoveActiveIf(r, w.task, w.lease)
        PROVE  LiveAt(r)' /\ AdmittingAt(r)'
    <3>1. w.task \in Task /\ LeaseExpired(tasks[w.task])
      BY <1>2, <2>4 DEF RecoverExpiredLease
    <3>2. \A l : ~HoldsLease(tasks[w.task], l)
      <4>1. tasks[w.task].lease.expiry \in Nat
        BY <1>2, <3>1 DEF TaskRecord, Lease, NoLease
      <4> QED BY <1>3, <3>1, <4>1 DEF LeaseExpired, HoldsLease
    <3>3. \A u \in Task : active'[r][u] = active[r][u] \/ (u = w.task /\ active[r][w.task] = w.lease)
      BY <1>2, <2>4, <3>1, RemoveEffect
    <3> QED BY <1>1, <1>4, <2>2, <3>2, <3>3, RenewalKept DEF Live
  <2> QED BY <2>1, <2>3, <2>4
<1>7. CASE RenewLease(r)
  <2>1. PICK w \in work[r] : \/ ~HoldsLease(tasks[w.task], w.lease) /\ RemoveActiveIf(r, w.task, w.lease)
                             \/ UNCHANGED active
    BY <1>7 DEF RenewLease
  <2>2. cur' = cur
    BY <1>7 DEF RenewLease
  <2>3. CASE UNCHANGED active
    BY <1>1, <2>2, <2>3, RenewalKept
  <2>4. CASE ~HoldsLease(tasks[w.task], w.lease) /\ RemoveActiveIf(r, w.task, w.lease)
    <3>1. \A u \in Task : active'[r][u] = active[r][u] \/ (u = w.task /\ active[r][w.task] = w.lease)
      BY <1>2, <2>4, RemoveEffect
    <3>2. ASSUME NEW i \in inflight[r], Live(i.task, i.lease), cur[r].lease # i.lease
          PROVE  active'[r][i.task] = active[r][i.task]
      <4>1. active[r][i.task] = i.lease
        BY <1>2, <3>2 DEF LiveAt
      <4> QED BY <1>4, <2>4, <3>1, <3>2, <4>1 DEF Live
    <3> QED BY <1>1, <2>2, <3>2, RenewalKept
  <2> QED BY <2>1, <2>3, <2>4
<1>8. CASE ClaimDue(r)
  <2>1. active' = active /\ cur[r] = NoAttempt /\ cur[r].lease = 0
    BY <1>2, <1>8 DEF ClaimDue, SchedTypeOK, NoAttempt
  <2>2. CASE cur'[r] = NoAttempt
    BY <1>1, <2>1, <2>2, RenewalKept
  <2>3. ASSUME NEW u \in Task, Claim(u, r, snow[r] + LeaseDuration),
               cur'[r] = [task |-> u, lease |-> leases', decision |-> "none"]
        PROVE  LiveAt(r)' /\ AdmittingAt(r)'
    <3>1. leases \in Nat /\ leases' = leases + 1 /\ StoreInv'
      BY <1>2, <1>3, <2>3, NextStoreInv DEF Claim, StoreInv, TypeOK
    <3>2. leases' \in 1 .. MaxLease /\ fate' = [fate EXCEPT ![leases'] = Found(u, "none")]
      BY <1>1, <2>3, <3>1, ClaimFences DEF FencingInv
    <3>3. fate'[leases'].task = u
      BY <3>2 DEF DispatchInv, ControlTypeOK, Found
    <3>4. cur'[r].lease = leases' /\ cur'[r].task = u
      BY <2>3
    <3>5. AdmittingAt(r)'
      BY <1>1, <1>4, <3>1, <3>3, <3>4 DEF AdmittingAt
    <3>6. LiveAt(r)'
      <4> SUFFICES ASSUME NEW i \in inflight[r], Live(i.task, i.lease)'
                   PROVE  active[r][i.task] = i.lease
        BY <1>1, <2>1 DEF LiveAt
      <4>1. Live(i.task, i.lease)
        BY <1>2, <1>4, LeaseNeverComesBack
      <4>2. i.lease # 0
        BY <1>4
      <4> QED BY <1>2, <2>1, <4>1, <4>2 DEF LiveAt
    <3> QED BY <3>5, <3>6
  <2>4. \/ cur'[r] = NoAttempt
        \/ \E u \in Task : /\ Claim(u, r, snow[r] + LeaseDuration)
                           /\ cur'[r] = [task |-> u, lease |-> leases', decision |-> "none"]
    BY <1>1, SchedEffect
  <2> QED BY <2>2, <2>3, <2>4
<1>9. CASE Decide(r)
  <2>1. /\ cur[r].task \in Task /\ cur[r].lease \in 1 .. MaxLease /\ cur[r] # NoAttempt
        /\ cur'[r] = NoAttempt /\ cur'[r].lease = 0
    BY <1>2, <1>9 DEF Decide, SchedTypeOK, NoAttempt
  <2>2. CASE cur[r].decision = "accepted"
    <3>1. active' = [active EXCEPT ![r][cur[r].task] = cur[r].lease]
      BY <1>9, <2>2 DEF Decide
    <3>2. active'[r][cur[r].task] = cur[r].lease
          /\ \A u \in Task : u # cur[r].task => active'[r][u] = active[r][u]
      BY <1>2, <2>1, <3>1
    <3>3. fate[cur[r].lease].task = cur[r].task
      BY <1>2, <2>1 DEF AdmittingAt
    <3>4. ASSUME NEW i \in inflight[r], Live(i.task, i.lease)
          PROVE  \/ active'[r][i.task] = i.lease
                 \/ active'[r][i.task] = active[r][i.task] /\ cur[r].lease # i.lease
      <4>1. CASE i.lease = cur[r].lease
        BY <1>4, <3>2, <3>3, <4>1
      <4>2. CASE i.lease # cur[r].lease
        <5>1. i.lease < cur[r].lease
          BY <1>2, <2>1, <4>2 DEF AdmittingAt
        <5>2. i.task # cur[r].task
          <6> SUFFICES ASSUME i.task = cur[r].task PROVE FALSE
            OBVIOUS
          <6>1. tasks[i.task].lease # NoLease /\ tasks[i.task].lease.id = i.lease
            BY <1>2, <1>4, <3>4 DEF Live, HoldsLease, StoreInv, RecordsConsistent
          <6>2. LastOf(i.task, i.lease)
            BY <1>4, <6>1 DEF FencingInv, LeaseIsLast
          <6>3. cur[r].lease <= i.lease
            BY <2>1, <3>3, <6>2 DEF LastOf
          <6> QED BY <1>4, <2>1, <5>1, <6>3
        <5> QED BY <1>4, <3>2, <4>2, <5>2
      <4> QED BY <4>1, <4>2
    <3> QED BY <1>1, <2>1, <3>4, RenewalKept
  <2>3. CASE cur[r].decision # "accepted"
    <3>1. UNCHANGED active \/ RemoveActiveIf(r, cur[r].task, cur[r].lease)
      BY <1>9, <2>3 DEF Decide
    <3>2. \A u \in Task : \/ active'[r][u] = active[r][u]
                          \/ u = cur[r].task /\ active[r][cur[r].task] = cur[r].lease
      BY <1>2, <2>1, <3>1, RemoveEffect
    <3>3. ASSUME NEW i \in inflight[r], Live(i.task, i.lease)
          PROVE  active'[r][i.task] = active[r][i.task] /\ cur[r].lease # i.lease
      <4>1. i.lease < cur[r].lease
        BY <1>2, <2>1, <2>3 DEF AdmittingAt
      <4>2. cur[r].lease # i.lease
        BY <1>4, <2>1, <4>1
      <4>3. active[r][i.task] = i.lease
        BY <1>2, <3>3, <4>2 DEF LiveAt
      <4> QED BY <1>4, <3>2, <4>2, <4>3
    <3> QED BY <1>1, <2>1, <3>3, RenewalKept
  <2> QED BY <2>2, <2>3
<1> QED BY <1>1, <1>5, <1>6, <1>7, <1>8, <1>9 DEF SchedStep

\* Every step of every actor keeps live attempts on the renewal lists.
LEMMA RenewalStep == DispatchInv /\ FencingInv /\ RenewalInv /\ [Next]_vars => RenewalInv'
<1> SUFFICES ASSUME DispatchInv, FencingInv, RenewalInv, [Next]_vars, NEW r \in Owner
             PROVE  LiveAt(r)' /\ AdmittingAt(r)'
  BY RanOutStep DEF RenewalInv
<1>1. /\ SchedTypeOK /\ ControlTypeOK /\ LiveAt(r) /\ AdmittingAt(r)
      /\ inflight \in [Owner -> SUBSET Attempt]
      /\ pc \in [Owner -> Label]
      /\ cur \in [Owner -> [task : Task, lease : 1 .. MaxLease, decision : Decision \cup {"none"}]
                          \cup {NoAttempt}]
      /\ active \in [Owner -> [Task -> 0 .. MaxLease]]
  BY DEF DispatchInv, SchedTypeOK, ControlTypeOK, RenewalInv
<1>2. ASSUME active'[r] = active[r], cur'[r] = cur[r],
             inflight'[r] \subseteq inflight[r]
      PROVE  LiveAt(r)' /\ AdmittingAt(r)'
  BY <1>2, RenewalKept
<1>3. ASSUME NEW q \in Owner, Schedule(q) PROVE LiveAt(r)' /\ AdmittingAt(r)'
  <2>1. CASE q = r
    BY <1>3, <2>1, SchedRenewal
  <2>2. CASE q # r
    <3>1. SchedStep(q) /\ inflight' = inflight
      BY <1>3 DEF Schedule, WithHistory
    <3>2. active'[r] = active[r] /\ cur'[r] = cur[r]
      BY <2>2, <3>1, SchedActive, SchedEffect
    <3> QED BY <1>2, <3>1, <3>2
  <2> QED BY <2>1, <2>2
<1>4. ASSUME NEW q \in Owner, HandleEvent(q) PROVE LiveAt(r)' /\ AdmittingAt(r)'
  BY <1>2, <1>4 DEF HandleEvent, schedVars
<1>5. ASSUME NEW q \in Owner, Crash(q) PROVE LiveAt(r)' /\ AdmittingAt(r)'
  <2>1. CASE q = r
    <3>1. inflight'[r] = {} /\ cur'[r] = NoAttempt
      BY <1>1, <1>5, <2>1 DEF Crash
    <3> QED BY <3>1, RenewalKept
  <2>2. CASE q # r
    <3>1. inflight'[r] = inflight[r] /\ cur'[r] = cur[r] /\ active'[r] = active[r]
      BY <1>1, <1>5, <2>2 DEF Crash
    <3> QED BY <1>2, <3>1
  <2> QED BY <2>1, <2>2
<1>6. ASSUME NEW q \in Owner, NEW d \in Decision, AdmitAttempt(q, d)
      PROVE  LiveAt(r)' /\ AdmittingAt(r)'
  <2>1. /\ pc[q] = "admit" /\ active' = active /\ tasks' = tasks /\ now' = now /\ ranOut' = ranOut
        /\ cur' = [cur EXCEPT ![q].decision = d]
    BY <1>6 DEF AdmitAttempt, Admit, storeVars, clockVars
  <2>2. CASE q # r
    <3>1. inflight'[r] = inflight[r] /\ cur'[r] = cur[r]
      BY <1>1, <1>6, <2>1, <2>2 DEF AdmitAttempt
    <3> QED BY <1>2, <2>1, <3>1
  <2>3. CASE q = r
    <3>1. /\ cur[r] # NoAttempt /\ cur[r].decision = "none"
          /\ cur[r] \in [task : Task, lease : 1 .. MaxLease, decision : Decision \cup {"none"}]
      BY <1>1, <2>1, <2>3 DEF SchedTypeOK
    <3>2. cur'[r].lease = cur[r].lease /\ cur'[r].task = cur[r].task /\ cur'[r].decision = d
      BY <1>1, <2>1, <2>3, <3>1
    <3>3. \A i \in inflight'[r] : i \in inflight[r] \/ (d = "accepted" /\ i.lease = cur[r].lease)
      BY <1>1, <1>6, <2>3 DEF AdmitAttempt, Item
    <3>4. \A i \in inflight[r] : i.lease < cur[r].lease /\ i.lease # cur[r].lease
      <4>1. \A i \in inflight[r] : i.lease < cur[r].lease
        BY <1>1, <3>1 DEF AdmittingAt
      <4> QED BY <3>1, <4>1, InflightKnown
    <3>5. fate'[cur[r].lease].task = cur[r].task
      <4>1. fate[cur[r].lease].task = cur[r].task /\ cur[r].task # "none" /\ cur[r].lease \in 1 .. MaxLease
        BY <1>1, <3>1, TaskAssumption DEF AdmittingAt
      <4> QED BY <4>1, FateTaskKept
    <3>6. AdmittingAt(r)'
      BY <3>2, <3>3, <3>4, <3>5 DEF AdmittingAt
    <3>7. LiveAt(r)'
      <4> SUFFICES ASSUME NEW i \in inflight'[r], Live(i.task, i.lease)', cur'[r].lease # i.lease
                   PROVE  active'[r][i.task] = i.lease
        BY DEF LiveAt
      <4>1. i \in inflight[r] /\ Live(i.task, i.lease) /\ cur[r].lease # i.lease
        BY <2>1, <3>2, <3>3 DEF Live, HoldsLease
      <4> QED BY <1>1, <2>1, <4>1 DEF LiveAt
    <3> QED BY <3>6, <3>7
  <2> QED BY <2>2, <2>3
<1>7. ASSUME NEW q \in Owner, NEW i \in inflight[q],
             \/ \E outcome \in Reported : AttemptEnds(q, i, outcome)
             \/ AttemptUpgrading(q, i) \/ AttemptUncertain(q, i)
      PROVE  LiveAt(r)' /\ AdmittingAt(r)'
  <2>1. cur' = cur /\ inflight' = [inflight EXCEPT ![q] = @ \ {i}]
    BY <1>7 DEF AttemptEnds, AttemptUpgrading, AttemptUncertain, Detach, schedVars
  <2>2. UNCHANGED active \/ RemoveActiveIf(q, i.task, i.lease)
    BY <1>7 DEF AttemptEnds, AttemptUpgrading, AttemptUncertain, schedVars
  <2>3. /\ inflight'[r] \subseteq inflight[r] /\ (q = r => inflight'[r] = inflight[r] \ {i})
    BY <1>1, <2>1
  <2>4. i.task \in Task /\ i = Item(i.task, i.lease)
    BY InflightKnown
  <2>5. CASE q # r \/ UNCHANGED active
    <3>1. active'[r] = active[r]
      BY <1>1, <2>2, <2>4, <2>5, RemoveEffect
    <3> QED BY <1>2, <2>1, <2>3, <3>1
  <2>6. CASE q = r /\ RemoveActiveIf(q, i.task, i.lease)
    <3>1. \A u \in Task : active'[r][u] = active[r][u] \/ (u = i.task /\ active[r][i.task] = i.lease)
      BY <1>1, <2>4, <2>6, RemoveEffect
    <3>2. ASSUME NEW j \in inflight'[r], Live(j.task, j.lease), cur[r].lease # j.lease
          PROVE  active'[r][j.task] = active[r][j.task]
      <4>1. j \in inflight[r] /\ j # i
        BY <2>3, <2>6, <3>2
      <4>2. j.task \in Task /\ j = Item(j.task, j.lease)
        BY <4>1, InflightKnown
      <4>3. active[r][j.task] = j.lease
        BY <1>1, <3>2, <4>1 DEF LiveAt
      <4>4. CASE j.task = i.task
        <5>1. j.lease # i.lease
          BY <2>4, <4>1, <4>2, <4>4
        <5> QED BY <3>1, <4>2, <4>3, <4>4, <5>1
      <4>5. CASE j.task # i.task
        BY <3>1, <4>2, <4>5
      <4> QED BY <4>4, <4>5
    <3> QED BY <2>1, <2>3, <3>2, RenewalKept
  <2> QED BY <2>2, <2>5, <2>6
<1>8. CASE \/ (\E t \in Task, d \in SubmitDelay : Submit(t, d)) \/ (\E t \in Task : CancelTask(t))
           \/ TimePasses \/ ClockSetBack \/ UNCHANGED vars
  BY <1>2, <1>8 DEF Submit, CancelTask, TimePasses, ClockSetBack, schedVars, ctlVars, vars
<1> QED BY <1>3, <1>4, <1>5, <1>6, <1>7, <1>8 DEF Next

\* Stale bookkeeping never drops a fresh lease: an attempt pending under the current
\* lease, which has never run out, is on the renewal list of its replica, whatever recoveries, lost
\* renewals, late terminals and decisions did in between.
THEOREM LiveAttemptsRenewed == Spec => []LiveAttemptIsRenewed
<1>1. Init => RenewalInv
  BY DEF Init, StoreInit, SchedInit, RenewalInv, RanOutInv, LeaseExpired, NoRecord, LiveAt, AdmittingAt
<1>2. RenewalInv => LiveAttemptIsRenewed
  BY DEF RenewalInv, LiveAt, LiveAttemptIsRenewed
<1> QED BY <1>1, <1>2, InitInv, NextInv, InitFencing, FencingStep, RenewalStep, PTL DEF Spec
----------------------------------------------------------------------------
(* A lease belongs to its holder: LeaseIsItsHolders.  The store compares   *)
(* lease ids only.  What makes the id enough is that everything a Router   *)
(* keeps of a lease, in its renewal list, its admission, its attempts and  *)
(* its control events, goes back to a claim of its own scheduler.          *)

\* A lease id r has kept for t: while t has that lease, r is its owner.
Owned(r, t, l) == l = 0 \/ (l <= leases /\ (tasks[t].lease.id = l => tasks[t].lease.owner = r))

\* What a step does to the lease of a task: nothing, takes it, or one of two.
ClaimedBy(r, t) ==
    /\ pc[r] = "claim" /\ Schedule(r) /\ leases' = leases + 1
    /\ tasks'[t].lease = LeaseOf(leases + 1, r, snow[r] + LeaseDuration)

RenewedBy(r, t) ==
    /\ pc[r] = "renew" /\ Schedule(r) /\ leases' = leases
    /\ \E i \in work[r] : i.task = t /\ HoldsLease(tasks[t], i.lease)
    /\ tasks'[t].lease = LeaseOf(tasks[t].lease.id, tasks[t].lease.owner, snow[r] + LeaseDuration)

LeaseStep(t) ==
    \/ tasks'[t].lease = tasks[t].lease
    \/ tasks'[t].lease = NoLease
    \/ \E r \in Owner : ClaimedBy(r, t) \/ RenewedBy(r, t)

\* Every conditional write but a claim and a renewal keeps a lease or takes it.
LEMMA QuietWrite ==
    ASSUME StoreInv, NEW t \in Task, NEW u \in Task, NEW rec,
           \/ \E created, due : rec = NewRecord(created, due)
           \/ \E out : rec = Settled(tasks[u], out)
           \/ rec = Canceled(tasks[u])
           \/ \E x : rec = BackToReady(tasks[u], x),
           Put(u, rec)
    PROVE  LeaseStep(t)
<1>1. tasks \in [Task -> TaskRecord]
  BY DEF StoreInv, TypeOK
<1>2. rec.lease = NoLease
  <2>1. CASE \E created, due : rec = NewRecord(created, due)
    BY <2>1 DEF NewRecord
  <2>2. CASE \E out : rec = Settled(tasks[u], out)
    BY <1>1, <2>2, ReducerLeases
  <2>3. CASE rec = Canceled(tasks[u])
    BY <1>1, <2>3, ReducerLeases
  <2>4. CASE \E x : rec = BackToReady(tasks[u], x)
    BY <1>1, <2>4, ReducerLeases
  <2> QED BY <2>1, <2>2, <2>3, <2>4
<1>3. tasks'[t] = IF t = u THEN rec ELSE tasks[t]
  BY <1>1 DEF Put
<1> QED BY <1>2, <1>3 DEF LeaseStep

LEMMA LeaseSteps ==
    ASSUME DispatchInv, [Next]_vars, NEW t \in Task
    PROVE  LeaseStep(t)
<1>1. /\ StoreInv /\ tasks \in [Task -> TaskRecord] /\ tasks[t] \in TaskRecord
      /\ \A r \in Owner : \A i \in work[r] : i.task \in Task
  BY DEF DispatchInv, StoreInv, TypeOK, SchedTypeOK
<1>2. CASE tasks' = tasks
  BY <1>2 DEF LeaseStep
<1>3. ASSUME NEW r \in Owner, Schedule(r) PROVE LeaseStep(t)
  <2>0. SchedStep(r)
    BY <1>3 DEF Schedule, WithHistory
  <2>1. CASE \/ RecoverNow(r) \/ RecoverScan(r) \/ RenewNow(r) \/ ScanNow(r) \/ ScanFind(r)
             \/ PhaseFails(r)
    BY <1>2, <2>1 DEF RecoverNow, RecoverScan, RenewNow, ScanNow, ScanFind, PhaseFails, storeVars
  <2>2. CASE Recover(r)
    <3>1. PICK i \in work[r] : \/ \E d \in Delay : RecoverExpiredLease(i.task, snow[r] + d)
                               \/ tasks' = tasks
      BY <2>2 DEF Recover, storeVars
    <3>2. CASE \E d \in Delay : RecoverExpiredLease(i.task, snow[r] + d)
      BY <1>1, <3>2, QuietWrite DEF RecoverExpiredLease
    <3> QED BY <1>2, <3>1, <3>2
  <2>3. CASE RenewLease(r)
    <3>1. PICK i \in work[r] : Renew(i.task, i.lease, snow[r] + LeaseDuration) \/ tasks' = tasks
      BY <2>3 DEF RenewLease, storeVars
    <3>2. CASE Renew(i.task, i.lease, snow[r] + LeaseDuration)
      <4>1. /\ HoldsLease(tasks[i.task], i.lease) /\ leases' = leases /\ i.task \in Task /\ pc[r] = "renew"
            /\ tasks' = [tasks EXCEPT ![i.task] = Renewed(tasks[i.task], snow[r] + LeaseDuration)]
        BY <1>1, <2>3, <3>2 DEF Renew, Put, RenewLease
      <4>2. CASE t = i.task
        <5>1. tasks'[t] = Renewed(tasks[t], snow[r] + LeaseDuration)
          BY <1>1, <4>1, <4>2
        <5>2. tasks'[t].lease = LeaseOf(tasks[t].lease.id, tasks[t].lease.owner, snow[r] + LeaseDuration)
          BY <1>1, <5>1, WrittenLeases
        <5>3. RenewedBy(r, t)
          BY <1>3, <4>1, <4>2, <5>2 DEF RenewedBy
        <5> QED BY <5>3 DEF LeaseStep
      <4>3. CASE t # i.task
        BY <1>1, <4>1, <4>3 DEF LeaseStep
      <4> QED BY <4>2, <4>3
    <3> QED BY <1>2, <3>1, <3>2
  <2>4. CASE ScanAdvance(r)
    <3>1. tasks'[t] = AdvanceDue(tasks[t])
      BY <2>4 DEF ScanAdvance, ScanDue
    <3>2. tasks'[t].lease = tasks[t].lease
      BY <1>1, <3>1, ReducerLeases
    <3> QED BY <3>2 DEF LeaseStep
  <2>5. CASE ClaimDue(r)
    <3>1. PICK i \in work[r] : Claim(i.task, r, snow[r] + LeaseDuration) \/ tasks' = tasks
      BY <2>5 DEF ClaimDue, storeVars
    <3>2. CASE Claim(i.task, r, snow[r] + LeaseDuration)
      <4>1. /\ leases' = leases + 1 /\ i.task \in Task /\ pc[r] = "claim"
            /\ tasks' = [tasks EXCEPT ![i.task] = Claimed(tasks[i.task], leases + 1, r, snow[r] + LeaseDuration)]
        BY <1>1, <2>5, <3>2 DEF Claim, Put, ClaimDue
      <4>2. CASE t = i.task
        <5>1. tasks'[t] = Claimed(tasks[t], leases + 1, r, snow[r] + LeaseDuration)
          BY <1>1, <4>1, <4>2
        <5>2. tasks'[t].lease = LeaseOf(leases + 1, r, snow[r] + LeaseDuration)
          BY <1>1, <5>1, WrittenLeases
        <5>3. ClaimedBy(r, t)
          BY <1>3, <4>1, <5>2 DEF ClaimedBy
        <5> QED BY <5>3 DEF LeaseStep
      <4>3. CASE t # i.task
        BY <1>1, <4>1, <4>3 DEF LeaseStep
      <4> QED BY <4>2, <4>3
    <3> QED BY <1>2, <3>1, <3>2
  <2>6. CASE Decide(r)
    <3>1. cur[r].task \in Task
      BY <2>6 DEF DispatchInv, SchedTypeOK, Decide
    <3>2. CASE \E x : Release(cur[r].task, cur[r].lease, x)
      BY <1>1, <3>1, <3>2, QuietWrite DEF Release
    <3>3. CASE Settle(cur[r].task, cur[r].lease, "platformFailed")
      BY <1>1, <3>1, <3>3, QuietWrite DEF Settle
    <3> QED BY <1>2, <2>6, <3>2, <3>3 DEF Decide, storeVars
  <2> QED BY <2>0, <2>1, <2>2, <2>3, <2>4, <2>5, <2>6 DEF SchedStep
<1>4. ASSUME NEW r \in Owner, HandleEvent(r) PROVE LeaseStep(t)
  <2>1. PICK e : e = Head(queue[r])
    OBVIOUS
  <2>2. e.task \in Task
    <3>1. queue[r] \in Seq(ControlEvent) /\ queue[r] # <<>>
      BY <1>4 DEF HandleEvent, DispatchInv, ControlTypeOK
    <3>2. e \in ControlEvent
      BY <2>1, <3>1
    <3> QED BY <3>2 DEF ControlEvent
  <2>3. \/ Settle(e.task, e.lease, e.outcome) \/ (\E x : Release(e.task, e.lease, x))
        \/ tasks' = tasks
    BY <1>4, <2>1 DEF HandleEvent, storeVars
  <2>4. CASE Settle(e.task, e.lease, e.outcome)
    BY <1>1, <2>2, <2>4, QuietWrite DEF Settle
  <2>5. CASE \E x : Release(e.task, e.lease, x)
    BY <1>1, <2>2, <2>5, QuietWrite DEF Release
  <2> QED BY <1>2, <2>3, <2>4, <2>5
<1>5. CASE \E u \in Task, d \in SubmitDelay : Submit(u, d)
  BY <1>1, <1>5, QuietWrite DEF Submit, Create
<1>6. CASE \E u \in Task : CancelTask(u)
  BY <1>1, <1>6, QuietWrite DEF CancelTask, Cancel
<1>7. CASE \/ \E r \in Owner : Crash(r) \/ \E d \in Decision : AdmitAttempt(r, d)
           \/ \E r \in Owner : \E i \in inflight[r] :
                \/ \E outcome \in Reported : AttemptEnds(r, i, outcome)
                \/ AttemptUpgrading(r, i)
                \/ AttemptUncertain(r, i)
           \/ TimePasses \/ ClockSetBack \/ UNCHANGED vars
  <2>1. tasks' = tasks
    BY <1>7 DEF Crash, AdmitAttempt, Admit, AttemptEnds, AttemptUpgrading, AttemptUncertain,
                TimePasses, ClockSetBack, Tick, Rollback, vars, storeVars
  <2> QED BY <1>2, <2>1
<1> QED BY <1>3, <1>4, <1>5, <1>6, <1>7 DEF Next
\* Owned in the next state, of an id that need not be.
OwnedNext(r, t, l) == l = 0 \/ (l <= leases' /\ (tasks'[t].lease.id = l => tasks'[t].lease.owner = r))

\* A lease that was kept stays kept: a claim hands out a new id.
LEMMA OwnedKept ==
    ASSUME DispatchInv, [Next]_vars, NEW r \in Owner, NEW t \in Task, NEW l \in Nat, Owned(r, t, l)
    PROVE  OwnedNext(r, t, l)
<1>1. leases \in Nat /\ leases' \in Nat /\ leases' >= leases
  <2>1. [StoreNext]_storeVars /\ leases \in Nat
    BY StoreStep DEF DispatchInv, StoreInv, TypeOK
  <2>2. leases' = leases \/ leases' = leases + 1
    BY <2>1 DEF StoreNext, storeVars, Create, ScanDue, Claim, Renew, Settle, Cancel,
                RecoverExpiredLease, Release, Close, Tick, Rollback
  <2> QED BY <2>1, <2>2
<1>2. SUFFICES ASSUME l # 0, l <= leases, tasks[t].lease.id = l => tasks[t].lease.owner = r,
                      tasks'[t].lease.id = l
               PROVE  tasks'[t].lease.owner = r
  BY <1>1 DEF Owned, OwnedNext
<1>3. CASE tasks'[t].lease = tasks[t].lease
  BY <1>2, <1>3
<1>4. CASE tasks'[t].lease = NoLease
  BY <1>2, <1>4 DEF NoLease
<1>5. CASE \E q \in Owner : ClaimedBy(q, t)
  BY <1>1, <1>2, <1>5 DEF ClaimedBy, LeaseOf
<1>6. CASE \E q \in Owner : RenewedBy(q, t)
  BY <1>2, <1>6 DEF RenewedBy, LeaseOf
<1> QED BY <1>3, <1>4, <1>5, <1>6, LeaseSteps DEF LeaseStep

\* What a step does to what r keeps.
MemoryStep(r) ==
    /\ \A t \in Task : \/ active'[r][t] \in {active[r][t], 0}
                       \/ cur[r] # NoAttempt /\ t = cur[r].task /\ active'[r][t] = cur[r].lease
    /\ \/ cur'[r] = NoAttempt
       \/ cur[r] # NoAttempt /\ cur'[r].task = cur[r].task /\ cur'[r].lease = cur[r].lease
       \/ /\ cur'[r].task \in Task /\ cur'[r].lease = leases + 1
          /\ ClaimedBy(r, cur'[r].task)
    /\ pc'[r] = "renew" => \/ pc[r] = "renew" /\ work'[r] \subseteq work[r]
                           \/ RenewNow(r)

LEMMA StillMemory ==
    ASSUME NEW r \in Owner, pc'[r] = pc[r], snow'[r] = snow[r], work'[r] = work[r], cur'[r] = cur[r],
           active'[r] = active[r]
    PROVE  MemoryStep(r)
BY DEF MemoryStep

LEMMA OwnMemory ==
    ASSUME DispatchInv, NEW r \in Owner, Schedule(r)
    PROVE  MemoryStep(r)
<1>1. SchedStep(r)
  BY DEF Schedule, WithHistory
<1>2. /\ SchedTypeOK /\ pc \in [Owner -> Label] /\ snow \in [Owner -> Time]
      /\ work \in [Owner -> SUBSET [task : Task, lease : 0 .. MaxLease]]
      /\ active \in [Owner -> [Task -> 0 .. MaxLease]]
      /\ cur \in [Owner -> [task : Task, lease : 1 .. MaxLease, decision : Decision \cup {"none"}]
                          \cup {NoAttempt}]
  BY DEF DispatchInv, SchedTypeOK
<1>4. \A t \in Task : \/ active'[r][t] \in {active[r][t], 0}
                      \/ cur[r] # NoAttempt /\ t = cur[r].task /\ active'[r][t] = cur[r].lease
  <2>1. ASSUME NEW u \in Task, NEW l, RemoveActiveIf(r, u, l) PROVE \A t \in Task : active'[r][t] \in {active[r][t], 0}
    BY <1>2, <2>1 DEF RemoveActiveIf
  <2>2. CASE Decide(r)
    <3>1. cur[r] # NoAttempt /\ cur[r].task \in Task
      BY <1>2, <2>2 DEF Decide, SchedTypeOK
    <3>2. \/ active' = [active EXCEPT ![r][cur[r].task] = cur[r].lease]
          \/ RemoveActiveIf(r, cur[r].task, cur[r].lease) \/ active' = active
      BY <2>2 DEF Decide
    <3> QED BY <1>2, <2>1, <3>1, <3>2
  <2>3. CASE Recover(r)
    BY <1>2, <2>1, <2>3 DEF Recover
  <2>4. CASE RenewLease(r)
    BY <1>2, <2>1, <2>4 DEF RenewLease
  <2>5. CASE \/ RecoverNow(r) \/ RecoverScan(r) \/ RenewNow(r) \/ ScanNow(r) \/ ScanFind(r)
             \/ PhaseFails(r) \/ ScanAdvance(r) \/ ClaimDue(r)
    BY <2>5 DEF RecoverNow, RecoverScan, RenewNow, ScanNow, ScanFind, PhaseFails, ScanAdvance, ClaimDue
  <2> QED BY <1>1, <2>2, <2>3, <2>4, <2>5 DEF SchedStep
<1>5. \/ cur'[r] = NoAttempt
      \/ cur[r] # NoAttempt /\ cur'[r].task = cur[r].task /\ cur'[r].lease = cur[r].lease
      \/ /\ cur'[r].task \in Task /\ cur'[r].lease = leases + 1
         /\ ClaimedBy(r, cur'[r].task)
  <2>1. ASSUME NEW u \in Task, Claim(u, r, snow[r] + LeaseDuration),
               cur'[r] = [task |-> u, lease |-> leases', decision |-> "none"]
        PROVE  cur'[r].task \in Task /\ cur'[r].lease = leases + 1 /\ ClaimedBy(r, cur'[r].task)
    <3>1. /\ leases' = leases + 1
          /\ tasks' = [tasks EXCEPT ![u] = Claimed(tasks[u], leases + 1, r, snow[r] + LeaseDuration)]
      BY <2>1 DEF Claim, Put
    <3>2. tasks \in [Task -> TaskRecord] /\ tasks[u] \in TaskRecord
      BY DEF DispatchInv, StoreInv, TypeOK
    <3>3. tasks'[u] = Claimed(tasks[u], leases + 1, r, snow[r] + LeaseDuration)
      BY <3>1, <3>2
    <3>4. tasks'[u].lease = LeaseOf(leases + 1, r, snow[r] + LeaseDuration)
      BY <3>2, <3>3, WrittenLeases
    <3>5. pc[r] = "claim"
      <4>1. cur'[r] # NoAttempt
        BY <2>1, TaskAssumption DEF NoAttempt
      <4>2. CASE \/ RecoverNow(r) \/ RecoverScan(r) \/ Recover(r) \/ RenewNow(r) \/ RenewLease(r)
                 \/ ScanNow(r) \/ ScanFind(r) \/ PhaseFails(r) \/ ScanAdvance(r)
        <5>1. cur' = cur /\ pc[r] \notin {"admit", "decide"}
          BY <4>2 DEF RecoverNow, RecoverScan, Recover, RenewNow, RenewLease, ScanNow, ScanFind,
                      PhaseFails, ScanAdvance, PhaseAfterFailure
        <5> QED BY <1>2, <4>1, <5>1 DEF SchedTypeOK
      <4>3. CASE Decide(r)
        BY <1>2, <4>1, <4>3 DEF Decide
      <4>4. CASE ClaimDue(r)
        BY <4>4 DEF ClaimDue
      <4> QED BY <1>1, <4>2, <4>3, <4>4 DEF SchedStep
    <3> QED BY <2>1, <3>1, <3>4, <3>5 DEF ClaimedBy
  <2> QED BY <1>1, <2>1, SchedEffect
<1>6. ASSUME pc'[r] = "renew"
      PROVE  \/ pc[r] = "renew" /\ work'[r] \subseteq work[r]
             \/ RenewNow(r)
  <2>1. CASE RenewLease(r)
    <3>1. PICK i \in work[r] : Visited(r, i, "scanNow") /\ pc[r] = "renew"
      BY <2>1 DEF RenewLease
    <3>2. work'[r] \subseteq work[r]
      BY <1>2, <3>1 DEF Visited
    <3> QED BY <3>1, <3>2
  <2>2. CASE \/ RecoverNow(r) \/ RecoverScan(r) \/ Recover(r) \/ ScanNow(r) \/ ScanFind(r) \/ PhaseFails(r)
             \/ ScanAdvance(r) \/ ClaimDue(r) \/ Decide(r)
    <3>1. \E label \in Label \ {"renew"} : pc' = [pc EXCEPT ![r] = label]
      <4>1. CASE RecoverNow(r) \/ ScanNow(r) \/ ScanAdvance(r) \/ Decide(r)
        BY <4>1 DEF RecoverNow, ScanNow, ScanAdvance, Decide, Goto, ReadNow, Label
      <4>2. CASE RecoverScan(r)
        BY <4>2 DEF RecoverScan, StartLoop, Goto, Label
      <4>3. CASE ScanFind(r)
        BY <4>3 DEF ScanFind, StartLoop, Goto, Label
      <4>4. CASE Recover(r)
        BY <4>4 DEF Recover, Visited, Goto, Label
      <4>5. CASE ClaimDue(r)
        BY <4>5 DEF ClaimDue, Visited, Goto, Label
      <4>6. CASE PhaseFails(r)
        <5>1. PhaseAfterFailure[pc[r]] \in {"renewNow", "scanNow", "recoverNow"}
          BY <4>6 DEF PhaseFails, PhaseAfterFailure
        <5> QED BY <4>6, <5>1 DEF PhaseFails, Goto, Label
      <4> QED BY <2>2, <4>1, <4>2, <4>3, <4>4, <4>5, <4>6
    <3>2. pc'[r] # "renew"
      BY <1>2, <3>1
    <3> QED BY <1>6, <3>2
  <2> QED BY <1>1, <2>1, <2>2 DEF SchedStep
<1> QED BY <1>4, <1>5, <1>6 DEF MemoryStep

LEMMA MemorySteps ==
    ASSUME DispatchInv, [Next]_vars, NEW r \in Owner
    PROVE  MemoryStep(r)
<1>1. /\ SchedTypeOK /\ pc \in [Owner -> Label] /\ snow \in [Owner -> Time]
      /\ work \in [Owner -> SUBSET [task : Task, lease : 0 .. MaxLease]]
      /\ active \in [Owner -> [Task -> 0 .. MaxLease]]
      /\ cur \in [Owner -> [task : Task, lease : 1 .. MaxLease, decision : Decision \cup {"none"}]
                          \cup {NoAttempt}]
      /\ inflight \in [Owner -> SUBSET Attempt]
  BY DEF DispatchInv, SchedTypeOK, ControlTypeOK
<1>2. ASSUME NEW q \in Owner, Schedule(q) PROVE MemoryStep(r)
  <2>1. CASE q = r
    BY <1>2, <2>1, OwnMemory
  <2>2. CASE q # r
    <3>1. SchedStep(q)
      BY <1>2 DEF Schedule, WithHistory
    <3>2. pc'[r] = pc[r] /\ cur'[r] = cur[r] /\ active'[r] = active[r]
      BY <2>2, <3>1, SchedActive, SchedEffect
    <3>3. snow'[r] = snow[r] /\ work'[r] = work[r]
      BY <1>1, <2>2, <3>1 DEF SchedStep, RecoverNow, RecoverScan, Recover, RenewNow, RenewLease, ScanNow,
         ScanAdvance, ScanFind, ClaimDue, Decide, PhaseFails, Visited, StartLoop, Goto, ReadNow
    <3> QED BY <3>2, <3>3, StillMemory
  <2> QED BY <2>1, <2>2
<1>3. CASE schedVars' = schedVars
  BY <1>3, StillMemory DEF schedVars
<1>4. ASSUME NEW q \in Owner, HandleEvent(q) PROVE MemoryStep(r)
  BY <1>3, <1>4 DEF HandleEvent
<1>5. ASSUME NEW q \in Owner, Crash(q) PROVE MemoryStep(r)
  <2>1. CASE q = r
    <3>1. cur'[r] = NoAttempt /\ pc'[r] = "recoverNow" /\ \A t \in Task : active'[r][t] = 0
      BY <1>1, <1>5, <2>1 DEF Crash
    <3> QED BY <3>1 DEF MemoryStep
  <2>2. CASE q # r
    <3>1. /\ pc'[r] = pc[r] /\ snow'[r] = snow[r] /\ work'[r] = work[r] /\ cur'[r] = cur[r]
          /\ active'[r] = active[r]
      BY <1>1, <1>5, <2>2 DEF Crash
    <3> QED BY <3>1, StillMemory
  <2> QED BY <2>1, <2>2
<1>6. ASSUME NEW q \in Owner, NEW d \in Decision, AdmitAttempt(q, d) PROVE MemoryStep(r)
  <2>1. /\ pc[q] = "admit" /\ pc' = [pc EXCEPT ![q] = "decide"] /\ snow' = snow /\ work' = work
        /\ active' = active /\ cur' = [cur EXCEPT ![q].decision = d]
    BY <1>6 DEF AdmitAttempt, Admit, Goto, PhaseStart
  <2>2. CASE q # r
    <3>1. pc'[r] = pc[r] /\ cur'[r] = cur[r]
      BY <1>1, <2>1, <2>2
    <3> QED BY <2>1, <3>1, StillMemory
  <2>3. CASE q = r
    <3>1. cur[r] # NoAttempt /\ cur[r] \in [task : Task, lease : 1 .. MaxLease, decision : Decision \cup {"none"}]
      BY <1>1, <2>1, <2>3 DEF SchedTypeOK
    <3>2. cur'[r].task = cur[r].task /\ cur'[r].lease = cur[r].lease /\ pc'[r] = "decide"
      BY <1>1, <2>1, <2>3, <3>1
    <3> QED BY <2>1, <3>1, <3>2 DEF MemoryStep
  <2> QED BY <2>2, <2>3
<1>7. ASSUME NEW q \in Owner, NEW i \in inflight[q],
             \/ \E outcome \in Reported : AttemptEnds(q, i, outcome)
             \/ AttemptUpgrading(q, i) \/ AttemptUncertain(q, i)
      PROVE  MemoryStep(r)
  <2>1. UNCHANGED <<pc, snow, work, cur>> /\ (active' = active \/ RemoveActiveIf(q, i.task, i.lease))
    BY <1>7 DEF AttemptEnds, AttemptUpgrading, AttemptUncertain, schedVars
  <2>2. \A t \in Task : active'[r][t] \in {active[r][t], 0}
    BY <1>1, <2>1 DEF RemoveActiveIf
  <2> QED BY <2>1, <2>2 DEF MemoryStep
<1>8. CASE \/ (\E t \in Task, d \in SubmitDelay : Submit(t, d)) \/ (\E t \in Task : CancelTask(t))
           \/ TimePasses \/ ClockSetBack \/ UNCHANGED vars
  BY <1>3, <1>8 DEF Submit, CancelTask, TimePasses, ClockSetBack, vars
<1> QED BY <1>2, <1>4, <1>5, <1>6, <1>7, <1>8 DEF Next
\* What r's Router keeps beside its scheduler: its attempts and their reports.
ReportStep(r) ==
    /\ \A i \in inflight'[r] :
          \/ i \in inflight[r]
          \/ cur[r] # NoAttempt /\ i.task = cur[r].task /\ i.lease = cur[r].lease
    /\ \A n \in 1 .. Len(queue'[r]) :
          \/ \E m \in 1 .. Len(queue[r]) : queue'[r][n] = queue[r][m]
          \/ \E i \in inflight[r] : queue'[r][n].task = i.task /\ queue'[r][n].lease = i.lease

LEMMA StillReports ==
    ASSUME NEW r \in Owner, inflight'[r] \subseteq inflight[r], queue'[r] = queue[r]
    PROVE  ReportStep(r)
<1>1. \A n \in 1 .. Len(queue'[r]) : \E m \in 1 .. Len(queue[r]) : queue'[r][n] = queue[r][m]
  OBVIOUS
<1> QED BY <1>1 DEF ReportStep

LEMMA ReportSteps ==
    ASSUME DispatchInv, [Next]_vars, NEW r \in Owner
    PROVE  ReportStep(r)
<1>1. /\ inflight \in [Owner -> SUBSET Attempt]
      /\ queue \in [Owner -> Seq(ControlEvent)] /\ queue[r] \in Seq(ControlEvent)
  BY DEF DispatchInv, ControlTypeOK
<1>2. CASE inflight' = inflight /\ queue' = queue
  BY <1>2, StillReports
<1>3. ASSUME NEW q \in Owner, HandleEvent(q) PROVE ReportStep(r)
  <2>1. queue[q] # <<>> /\ queue' = [queue EXCEPT ![q] = Tail(queue[q])] /\ inflight' = inflight
    BY <1>3 DEF HandleEvent
  <2>2. CASE q # r
    <3>1. queue'[r] = queue[r]
      BY <1>1, <2>1, <2>2
    <3> QED BY <2>1, <3>1, StillReports
  <2>3. CASE q = r
    <3>1. queue'[r] = Tail(queue[r]) /\ queue[r] # <<>>
      BY <1>1, <2>1, <2>3
    <3>2. \A n \in 1 .. Len(queue'[r]) : n + 1 \in 1 .. Len(queue[r]) /\ queue'[r][n] = queue[r][n + 1]
      BY <1>1, <3>1
    <3> QED BY <2>1, <3>2 DEF ReportStep
  <2> QED BY <2>2, <2>3
<1>4. ASSUME NEW q \in Owner, Crash(q) PROVE ReportStep(r)
  <2>1. CASE q # r
    <3>1. queue'[r] = queue[r] /\ inflight'[r] = inflight[r]
      BY <1>1, <1>4, <2>1 DEF Crash
    <3> QED BY <3>1, StillReports
  <2>2. CASE q = r
    <3>1. queue'[r] = <<>> /\ inflight'[r] = {}
      BY <1>1, <1>4, <2>2 DEF Crash
    <3> QED BY <3>1 DEF ReportStep
  <2> QED BY <2>1, <2>2
<1>5. ASSUME NEW q \in Owner, NEW d \in Decision, AdmitAttempt(q, d) PROVE ReportStep(r)
  <2>1. pc[q] = "admit" /\ queue' = queue
    BY <1>5 DEF AdmitAttempt, Admit
  <2>2. cur[q] # NoAttempt
    BY <2>1 DEF DispatchInv, SchedTypeOK
  <2>3. \A i \in inflight'[r] : i \in inflight[r] \/ (q = r /\ i = Item(cur[q].task, cur[q].lease))
    BY <1>1, <1>5 DEF AdmitAttempt
  <2>4. \A i \in inflight'[r] : \/ i \in inflight[r]
                                \/ cur[r] # NoAttempt /\ i.task = cur[r].task /\ i.lease = cur[r].lease
    BY <2>2, <2>3 DEF Item
  <2>5. \A n \in 1 .. Len(queue'[r]) : \E m \in 1 .. Len(queue[r]) : queue'[r][n] = queue[r][m]
    BY <2>1
  <2> QED BY <2>4, <2>5 DEF ReportStep
<1>6. ASSUME NEW q \in Owner, NEW i \in inflight[q],
             \/ \E outcome \in Reported : AttemptEnds(q, i, outcome)
             \/ AttemptUpgrading(q, i) \/ AttemptUncertain(q, i)
      PROVE  ReportStep(r)
  <2>1. inflight' = [inflight EXCEPT ![q] = @ \ {i}]
    BY <1>6 DEF AttemptEnds, AttemptUpgrading, AttemptUncertain, Detach
  <2>2. inflight'[r] \subseteq inflight[r]
    BY <1>1, <2>1
  <2>3. \/ queue' = queue
        \/ \E kind, outcome : Enqueue(q, Event(kind, i, outcome))
    BY <1>6 DEF AttemptEnds, AttemptUpgrading, AttemptUncertain
  <2>4. CASE queue'[r] = queue[r]
    BY <2>2, <2>4, StillReports
  <2>5. ASSUME NEW kind, NEW outcome, q = r, queue'[r] = Append(queue[r], Event(kind, i, outcome))
        PROVE  ReportStep(r)
    <3>1. Event(kind, i, outcome).task = i.task /\ Event(kind, i, outcome).lease = i.lease
      BY DEF Event
    <3>2. ASSUME NEW n \in 1 .. Len(queue'[r])
          PROVE  \/ \E m \in 1 .. Len(queue[r]) : queue'[r][n] = queue[r][m]
                 \/ \E j \in inflight[r] : queue'[r][n].task = j.task /\ queue'[r][n].lease = j.lease
      <4>1. \/ n \in 1 .. Len(queue[r]) /\ queue'[r][n] = queue[r][n]
            \/ queue'[r][n] = Event(kind, i, outcome)
        BY <1>1, <2>5, <3>2
      <4> QED BY <2>5, <3>1, <4>1
    <3> QED BY <2>2, <3>2 DEF ReportStep
  <2>6. ASSUME NEW kind, NEW outcome, Enqueue(q, Event(kind, i, outcome))
        PROVE  queue'[r] = queue[r] \/ (q = r /\ queue'[r] = Append(queue[r], Event(kind, i, outcome)))
    BY <1>1, <2>6 DEF Enqueue
  <2> QED BY <2>3, <2>4, <2>5, <2>6
<1>7. ASSUME NEW q \in Owner, Schedule(q) PROVE ReportStep(r)
  BY <1>2, <1>7 DEF Schedule, WithHistory
<1>8. CASE \/ (\E t \in Task, d \in SubmitDelay : Submit(t, d)) \/ (\E t \in Task : CancelTask(t))
           \/ TimePasses \/ ClockSetBack \/ UNCHANGED vars
  BY <1>2, <1>8 DEF Submit, CancelTask, TimePasses, ClockSetBack, vars, ctlVars
<1> QED BY <1>3, <1>4, <1>5, <1>6, <1>7, <1>8 DEF Next
\* Everything r's Router keeps of a lease goes back to a claim of r.
KeptAt(r) ==
    /\ \A t \in Task : Owned(r, t, active[r][t])
    /\ cur[r] # NoAttempt => Owned(r, cur[r].task, cur[r].lease)
    /\ pc[r] = "renew" => \A i \in work[r] : i.lease # 0 /\ Owned(r, i.task, i.lease)

ReportedAt(r) ==
    /\ \A i \in inflight[r] : Owned(r, i.task, i.lease)
    /\ \A n \in 1 .. Len(queue[r]) : Owned(r, queue[r][n].task, queue[r][n].lease)

HolderInv == \A r \in Owner : KeptAt(r) /\ ReportedAt(r)

LEMMA KeptStep ==
    ASSUME DispatchInv, HolderInv, [Next]_vars, NEW r \in Owner
    PROVE  KeptAt(r)'
<1>1. MemoryStep(r) /\ KeptAt(r) /\ leases \in Nat
  BY MemorySteps DEF HolderInv, DispatchInv, StoreInv, TypeOK
<1>2. ASSUME cur[r] # NoAttempt PROVE OwnedNext(r, cur[r].task, cur[r].lease)
  <2>1. cur[r].task \in Task /\ cur[r].lease \in Nat
    BY <1>2 DEF DispatchInv, SchedTypeOK
  <2> QED BY <1>1, <1>2, <2>1, OwnedKept DEF KeptAt
<1>3. ASSUME NEW t \in Task PROVE OwnedNext(r, t, active'[r][t])
  <2>1. CASE active'[r][t] = active[r][t]
    <3>1. active[r][t] \in Nat
      BY DEF DispatchInv, SchedTypeOK
    <3> QED BY <1>1, <2>1, <3>1, OwnedKept DEF KeptAt
  <2>2. CASE active'[r][t] = 0
    BY <2>2 DEF OwnedNext
  <2>3. CASE cur[r] # NoAttempt /\ t = cur[r].task /\ active'[r][t] = cur[r].lease
    BY <1>2, <2>3
  <2> QED BY <1>1, <2>1, <2>2, <2>3 DEF MemoryStep
<1>4. ASSUME cur'[r] # NoAttempt PROVE OwnedNext(r, cur'[r].task, cur'[r].lease)
  <2>1. CASE cur[r] # NoAttempt /\ cur'[r].task = cur[r].task /\ cur'[r].lease = cur[r].lease
    BY <1>2, <2>1
  <2>2. CASE cur'[r].task \in Task /\ cur'[r].lease = leases + 1 /\ ClaimedBy(r, cur'[r].task)
    <3>1. PICK u \in Task : u = cur'[r].task
      BY <2>2
    <3>2. leases' = leases + 1 /\ tasks'[u].lease = LeaseOf(leases + 1, r, snow[r] + LeaseDuration)
      BY <2>2, <3>1 DEF ClaimedBy
    <3>3. tasks'[u].lease.owner = r
      BY <3>2 DEF LeaseOf
    <3> QED BY <1>1, <2>2, <3>1, <3>2, <3>3 DEF OwnedNext
  <2> QED BY <1>1, <1>4, <2>1, <2>2 DEF MemoryStep
<1>5. ASSUME pc'[r] = "renew", NEW i \in work'[r] PROVE i.lease # 0 /\ OwnedNext(r, i.task, i.lease)
  <2>1. CASE pc[r] = "renew" /\ work'[r] \subseteq work[r]
    <3>1. i \in work[r] /\ i.lease # 0 /\ Owned(r, i.task, i.lease)
      BY <1>1, <1>5, <2>1 DEF KeptAt
    <3>2. i.task \in Task /\ i.lease \in Nat
      BY <3>1 DEF DispatchInv, SchedTypeOK
    <3> QED BY <3>1, <3>2, OwnedKept
  <2>2. CASE RenewNow(r)
    <3>1. snow \in [Owner -> Time] /\ pc \in [Owner -> Label]
          /\ work \in [Owner -> SUBSET [task : Task, lease : 0 .. MaxLease]]
      BY DEF DispatchInv, SchedTypeOK
    <3>2. {u \in Task : active[r][u] # 0} # {}
      BY <1>5, <2>2, <3>1 DEF RenewNow, Goto
    <3>3. work'[r] = {Item(t, active[r][t]) : t \in {u \in Task : active[r][u] # 0}}
      BY <2>2, <3>1, <3>2 DEF RenewNow, ReadNow
    <3>4. PICK t \in Task : active[r][t] # 0 /\ i.task = t /\ i.lease = active[r][t]
      BY <1>5, <3>3 DEF Item
    <3>5. active'[r][t] = active[r][t]
      BY <2>2 DEF RenewNow
    <3> QED BY <1>3, <3>4, <3>5
  <2> QED BY <1>1, <1>5, <2>1, <2>2 DEF MemoryStep
<1> QED BY <1>3, <1>4, <1>5 DEF KeptAt, Owned, OwnedNext

LEMMA ReportedStep ==
    ASSUME DispatchInv, HolderInv, [Next]_vars, NEW r \in Owner
    PROVE  ReportedAt(r)'
<1>1. ReportStep(r) /\ KeptAt(r) /\ ReportedAt(r)
  BY ReportSteps DEF HolderInv
<1>2. ASSUME NEW i \in inflight[r] PROVE OwnedNext(r, i.task, i.lease)
  <2>1. i.task \in Task /\ i.lease \in Nat
    BY DEF DispatchInv, ControlTypeOK, Attempt
  <2> QED BY <1>1, <2>1, OwnedKept DEF ReportedAt
<1>3. ASSUME NEW m \in 1 .. Len(queue[r]) PROVE OwnedNext(r, queue[r][m].task, queue[r][m].lease)
  <2>1. queue[r] \in Seq(ControlEvent)
    BY DEF DispatchInv, ControlTypeOK
  <2>2. queue[r][m] \in ControlEvent
    BY <1>3, <2>1
  <2>3. queue[r][m].task \in Task /\ queue[r][m].lease \in Nat
    BY <2>2 DEF ControlEvent
  <2> QED BY <1>1, <1>3, <2>3, OwnedKept DEF ReportedAt
<1>4. ASSUME cur[r] # NoAttempt PROVE OwnedNext(r, cur[r].task, cur[r].lease)
  <2>1. cur[r].task \in Task /\ cur[r].lease \in Nat
    BY <1>4 DEF DispatchInv, SchedTypeOK
  <2> QED BY <1>1, <1>4, <2>1, OwnedKept DEF KeptAt
<1>5. \A i \in inflight'[r] : OwnedNext(r, i.task, i.lease)
  BY <1>1, <1>2, <1>4 DEF ReportStep
<1>6. \A n \in 1 .. Len(queue'[r]) : OwnedNext(r, queue'[r][n].task, queue'[r][n].lease)
  BY <1>1, <1>2, <1>3 DEF ReportStep
<1> QED BY <1>5, <1>6 DEF ReportedAt, Owned, OwnedNext

LEMMA HolderStep == DispatchInv /\ HolderInv /\ [Next]_vars => HolderInv'
BY KeptStep, ReportedStep DEF HolderInv

LEMMA InitHolder == Init => HolderInv
<1> SUFFICES ASSUME Init, NEW r \in Owner PROVE KeptAt(r) /\ ReportedAt(r)
  BY DEF HolderInv
<1>1. /\ pc[r] = "recoverNow" /\ cur[r] = NoAttempt /\ \A t \in Task : active[r][t] = 0
      /\ inflight[r] = {} /\ queue[r] = <<>>
  BY DEF Init, SchedInit
<1> QED BY <1>1 DEF KeptAt, ReportedAt, Owned
\* A write by replica r to the live lease of t names that lease.
LEMMA HolderWrites ==
    ASSUME DispatchInv, [Next]_vars, NEW t \in Task,
           HoldsLease(tasks[t], tasks[t].lease.id), tasks'[t].lease # tasks[t].lease
    PROVE  \E r \in Owner : Names(r, t, tasks[t].lease.id)
<1>1. /\ StoreInv /\ tasks \in [Task -> TaskRecord] /\ tasks[t] \in TaskRecord
      /\ tasks[t].state = "leased" /\ tasks[t].lease.expiry \in Nat /\ now \in Nat
      /\ tasks[t].lease.expiry > now
      /\ \A r \in Owner : \A i \in work[r] : i.task \in Task /\ i = Item(i.task, i.lease)
  <2>1. \A r \in Owner : \A i \in work[r] : i.task \in Task /\ i = Item(i.task, i.lease)
    BY DEF DispatchInv, SchedTypeOK, Item
  <2> QED BY <2>1, StoreAssumption DEF DispatchInv, StoreInv, TypeOK, HoldsLease, TaskRecord, Lease, NoLease, Time
<1>2. ASSUME NEW u \in Task, NEW rec, Put(u, rec) PROVE u = t
  BY <1>1, <1>2 DEF Put
<1>3. tasks' # tasks
  OBVIOUS
<1>4. ASSUME NEW r \in Owner, Schedule(r) PROVE Names(r, t, tasks[t].lease.id)
  <2>0. SchedStep(r)
    BY <1>4 DEF Schedule, WithHistory
  <2>1. CASE \/ RecoverNow(r) \/ RecoverScan(r) \/ RenewNow(r) \/ ScanNow(r) \/ ScanFind(r)
             \/ PhaseFails(r)
    BY <1>3, <2>1 DEF RecoverNow, RecoverScan, RenewNow, ScanNow, ScanFind, PhaseFails, storeVars
  <2>2. CASE Recover(r)
    <3>1. PICK i \in work[r], d \in Delay : RecoverExpiredLease(i.task, snow[r] + d)
      BY <1>3, <2>2 DEF Recover, storeVars
    <3>2. i.task = t
      BY <1>1, <1>2, <3>1 DEF RecoverExpiredLease
    <3> QED BY <1>1, <3>1, <3>2 DEF RecoverExpiredLease, LeaseExpired
  <2>3. CASE RenewLease(r)
    <3>1. PICK i \in work[r] : pc[r] = "renew" /\ Renew(i.task, i.lease, snow[r] + LeaseDuration)
      BY <1>3, <2>3 DEF RenewLease, storeVars
    <3>2. i.task = t
      BY <1>1, <1>2, <3>1 DEF Renew
    <3>3. i.lease = tasks[t].lease.id
      BY <3>1, <3>2 DEF Renew, HoldsLease
    <3> QED BY <1>1, <3>1, <3>2, <3>3 DEF Names
  <2>4. CASE ScanAdvance(r)
    <3>1. tasks'[t] = AdvanceDue(tasks[t])
      BY <2>4 DEF ScanAdvance, ScanDue
    <3> QED BY <1>1, <3>1, ReducerLeases
  <2>5. CASE ClaimDue(r)
    <3>1. PICK i \in work[r] : Claim(i.task, r, snow[r] + LeaseDuration)
      BY <1>3, <2>5 DEF ClaimDue, storeVars
    <3>2. i.task = t
      BY <1>1, <1>2, <3>1 DEF Claim
    <3> QED BY <1>1, <3>1, <3>2 DEF Claim, Claimable
  <2>6. CASE Decide(r)
    <3>1. cur[r].task \in Task /\ pc[r] = "decide"
      BY <2>6 DEF DispatchInv, SchedTypeOK, Decide
    <3>2. ASSUME HoldsLease(tasks[cur[r].task], cur[r].lease), NEW rec, Put(cur[r].task, rec)
          PROVE  Names(r, t, tasks[t].lease.id)
      <4>1. cur[r].task = t
        BY <1>2, <3>1, <3>2
      <4> QED BY <3>1, <3>2, <4>1 DEF Names, HoldsLease
    <3>3. CASE \E x : Release(cur[r].task, cur[r].lease, x)
      BY <3>2, <3>3 DEF Release
    <3>4. CASE Settle(cur[r].task, cur[r].lease, "platformFailed")
      BY <3>2, <3>4 DEF Settle, Settleable
    <3> QED BY <1>3, <2>6, <3>3, <3>4 DEF Decide, storeVars
  <2> QED BY <2>0, <2>1, <2>2, <2>3, <2>4, <2>5, <2>6 DEF SchedStep
<1>5. ASSUME NEW r \in Owner, HandleEvent(r) PROVE Names(r, t, tasks[t].lease.id)
  <2>1. queue[r] # <<>> /\ queue[r] \in Seq(ControlEvent)
    BY <1>5 DEF HandleEvent, DispatchInv, ControlTypeOK
  <2>2. PICK e \in ControlEvent : e = Head(queue[r])
    BY <2>1
  <2>3. e.task \in Task
    BY <2>2 DEF ControlEvent
  <2>4. ASSUME HoldsLease(tasks[e.task], e.lease), NEW rec, Put(e.task, rec)
        PROVE  Names(r, t, tasks[t].lease.id)
    <3>1. e.task = t
      BY <1>2, <2>3, <2>4
    <3>2. Head(queue[r]).task = t /\ Head(queue[r]).lease = tasks[t].lease.id
      BY <2>2, <2>4, <3>1 DEF HoldsLease
    <3> QED BY <2>1, <3>2 DEF Names
  <2>5. \/ Settle(e.task, e.lease, e.outcome) \/ (\E x : Release(e.task, e.lease, x))
        \/ tasks' = tasks
    BY <1>5, <2>2 DEF HandleEvent, storeVars
  <2>6. CASE Settle(e.task, e.lease, e.outcome)
    BY <2>4, <2>6 DEF Settle, Settleable
  <2>7. CASE \E x : Release(e.task, e.lease, x)
    BY <2>4, <2>7 DEF Release
  <2> QED BY <1>3, <2>5, <2>6, <2>7
<1>6. ASSUME NEW u \in Task, NEW d \in SubmitDelay, Submit(u, d) PROVE FALSE
  <2>1. u = t
    BY <1>2, <1>6 DEF Submit, Create
  <2> QED BY <1>1, <1>6, <2>1 DEF Submit, Create
<1>7. ASSUME NEW u \in Task, CancelTask(u) PROVE FALSE
  <2>1. u = t
    BY <1>2, <1>7 DEF CancelTask, Cancel
  <2> QED BY <1>1, <1>7, <2>1 DEF CancelTask, Cancel, Cancelable
<1>8. CASE \/ \E r \in Owner : Crash(r) \/ \E d \in Decision : AdmitAttempt(r, d)
           \/ \E r \in Owner : \E i \in inflight[r] :
                \/ \E outcome \in Reported : AttemptEnds(r, i, outcome)
                \/ AttemptUpgrading(r, i)
                \/ AttemptUncertain(r, i)
           \/ TimePasses \/ ClockSetBack \/ UNCHANGED vars
  BY <1>3, <1>8 DEF Crash, AdmitAttempt, Admit, AttemptEnds, AttemptUpgrading, AttemptUncertain,
              TimePasses, ClockSetBack, Tick, Rollback, vars, storeVars
<1> QED BY <1>4, <1>5, <1>6, <1>7, <1>8 DEF Next

\* What a Router names is a lease of its own.
LEMMA NamesOwn ==
    ASSUME DispatchInv, HolderInv, NEW r \in Owner, NEW t \in Task, tasks[t].lease # NoLease,
           Names(r, t, tasks[t].lease.id)
    PROVE  tasks[t].lease.owner = r
<1>1. tasks[t].lease.id # 0
  BY DEF DispatchInv, StoreInv, TypeOK, TaskRecord, Lease
<1>2. KeptAt(r) /\ ReportedAt(r) /\ queue[r] \in Seq(ControlEvent)
  BY DEF HolderInv, DispatchInv, ControlTypeOK
<1>3. CASE pc[r] = "renew" /\ Item(t, tasks[t].lease.id) \in work[r]
  BY <1>1, <1>2, <1>3 DEF KeptAt, Owned, Item
<1>4. CASE pc[r] = "decide" /\ cur[r].task = t /\ cur[r].lease = tasks[t].lease.id
  <2>1. cur[r] # NoAttempt
    BY <1>4 DEF DispatchInv, SchedTypeOK
  <2> QED BY <1>1, <1>2, <1>4, <2>1 DEF KeptAt, Owned
<1>5. CASE queue[r] # <<>> /\ Head(queue[r]).task = t /\ Head(queue[r]).lease = tasks[t].lease.id
  <2>1. 1 \in 1 .. Len(queue[r]) /\ Head(queue[r]) = queue[r][1]
    BY <1>2, <1>5
  <2> QED BY <1>1, <1>2, <1>5, <2>1 DEF ReportedAt, Owned
<1> QED BY <1>3, <1>4, <1>5 DEF Names

\* A lease that has not run out is prolonged or ended by its holder alone and under its own
\* id, whatever recoveries work from old batches, reports come late or replicas crash, and
\* however the clock is set (scheduler/mod.rs recover_once, renew_active_leases and
\* handle_decision, router/src/task/control.rs handle_event).
THEOREM LeasesKeptByHolders == Spec => LeaseIsItsHolders
<1> DEFINE Kept == \A t \in Task :
                       /\ HoldsLease(tasks[t], tasks[t].lease.id)
                       /\ tasks'[t].lease # tasks[t].lease
                       => Names(tasks[t].lease.owner, t, tasks[t].lease.id)
<1>1. DispatchInv /\ HolderInv /\ [Next]_vars => Kept
  <2> SUFFICES ASSUME DispatchInv, HolderInv, [Next]_vars, NEW t \in Task,
                      HoldsLease(tasks[t], tasks[t].lease.id), tasks'[t].lease # tasks[t].lease
               PROVE  Names(tasks[t].lease.owner, t, tasks[t].lease.id)
    OBVIOUS
  <2>1. tasks[t].lease # NoLease
    BY DEF DispatchInv, StoreInv, RecordsConsistent, HoldsLease
  <2>2. PICK r \in Owner : Names(r, t, tasks[t].lease.id)
    BY HolderWrites
  <2>3. tasks[t].lease.owner = r
    BY <2>1, <2>2, NamesOwn
  <2> QED BY <2>2, <2>3
<1>2. DispatchInv /\ HolderInv /\ [Next]_vars => [Kept]_vars
  BY <1>1
<1> QED BY <1>2, InitInv, NextInv, InitHolder, HolderStep, PTL DEF Spec, LeaseIsItsHolders
=============================================================================
