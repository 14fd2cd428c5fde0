------------------------ MODULE TaskSubmissionProofs ------------------------
(***************************************************************************)
(* Theorems about TaskSubmission, for any number of tasks, retries and     *)
(* timestamps: the handlers use the store only through its conditional     *)
(* writes, an accepted submission is durable, and the answer to a cancel   *)
(* is true and stays true.                                                 *)
(***************************************************************************)
EXTENDS TaskSubmission, TaskStoreProofs

Submission ==
    [at : {"idle", "create", "compare", "confirm", "done"}, created : Nat, due : Nat, tries : Nat,
     inserted : BOOLEAN, answer : {"none", "accepted", "rejected", "unavailable"}]

CancelCall ==
    [at : {"idle", "classify", "done"}, tries : Nat,
     answer : {"none", "canceled", "alreadyStarted", "alreadyTerminal", "expired", "notFound",
               "unavailable"}]

HandlerTypes == sub \in [Task -> Submission] /\ can \in [Task -> CancelCall]

\* A record that the handler inserted is the one it built, and only a built record is inserted.
SubmitInv(t) ==
    /\ sub[t].at \in {"create", "compare", "confirm"} => sub[t].created \in Stamp /\ sub[t].due \in Stamp
    /\ sub[t].at = "idle" => ~sub[t].inserted
    /\ sub[t].inserted => /\ tasks[t].state # "absent"
                          /\ tasks[t].created = sub[t].created /\ tasks[t].due = sub[t].due
    /\ sub[t].answer = "accepted" => tasks[t].state # "absent"

CancelInv(t) ==
    /\ tasks[t].state = "leased" => tasks[t].gen > 0
    /\ can[t].answer = "canceled" => tasks[t].state = "canceled"
    /\ can[t].answer = "alreadyStarted" => tasks[t].gen > 0

SubmissionInv == StoreInv /\ HandlerTypes /\ \A t \in Task : SubmitInv(t) /\ CancelInv(t)

----------------------------------------------------------------------------
(* The store under the handlers                                            *)

\* No transition of the reducer changes who submitted what.
LEMMA ReducerKeeps ==
    ASSUME NEW rec \in TaskRecord, NEW l, NEW o, NEW x, NEW out
    PROVE  /\ AdvanceDue(rec).created = rec.created /\ AdvanceDue(rec).due = rec.due
           /\ Claimed(rec, l, o, x).created = rec.created /\ Claimed(rec, l, o, x).due = rec.due
           /\ Renewed(rec, x).created = rec.created /\ Renewed(rec, x).due = rec.due
           /\ Settled(rec, out).created = rec.created /\ Settled(rec, out).due = rec.due
           /\ Canceled(rec).created = rec.created /\ Canceled(rec).due = rec.due
           /\ BackToReady(rec, x).created = rec.created /\ BackToReady(rec, x).due = rec.due
<1>1. AdvanceDue(rec).created = rec.created /\ AdvanceDue(rec).due = rec.due
  BY DEF AdvanceDue, TaskRecord
<1>2. /\ Claimed(rec, l, o, x).created = rec.created /\ Claimed(rec, l, o, x).due = rec.due
      /\ Renewed(rec, x).created = rec.created /\ Renewed(rec, x).due = rec.due
  BY DEF Claimed, Renewed, TaskRecord
<1>3. /\ Settled(rec, out).created = rec.created /\ Settled(rec, out).due = rec.due
      /\ Canceled(rec).created = rec.created /\ Canceled(rec).due = rec.due
      /\ BackToReady(rec, x).created = rec.created /\ BackToReady(rec, x).due = rec.due
  BY DEF Settled, Canceled, BackToReady, TaskRecord
<1> QED BY <1>1, <1>2, <1>3

\* What any step of the store leaves of a record that is there.
LEMMA RecordKept ==
    ASSUME StoreInv, [StoreNext]_storeVars, NEW t \in Task, tasks[t].state # "absent"
    PROVE  /\ tasks'[t].state # "absent"
           /\ tasks'[t].created = tasks[t].created /\ tasks'[t].due = tasks[t].due
           /\ tasks[t].gen > 0 => tasks'[t].gen > 0
           /\ (tasks[t].state = "leased" => tasks[t].gen > 0) => (tasks'[t].state = "leased" => tasks'[t].gen > 0)
           /\ tasks[t].state = "canceled" => tasks'[t].state = "canceled"
<1>1. tasks[t] \in TaskRecord /\ tasks[t].gen \in Nat
  BY DEF StoreInv, TypeOK, TaskRecord
<1>2. RecordStep(t) /\ tasks[t] # NoRecord
  BY StepEffect DEF NoRecord
<1>3. CASE tasks'[t] = tasks[t]
  BY <1>3
<1>4. CASE DueNow(tasks[t]) /\ tasks'[t] = AdvanceDue(tasks[t])
  BY <1>1, <1>4, ReducerFields, ReducerKeeps DEF DueNow
<1>5. ASSUME NEW o \in Owner, NEW x \in Stamp, Claimable(tasks[t], x),
             tasks'[t] = Claimed(tasks[t], leases + 1, o, x)
      PROVE  /\ tasks'[t].state = "leased" /\ tasks'[t].gen > 0 /\ tasks[t].state # "canceled"
             /\ tasks'[t].created = tasks[t].created /\ tasks'[t].due = tasks[t].due
  <2>1. tasks'[t].gen = tasks[t].gen + 1 /\ tasks'[t].state = "leased"
    BY <1>1, <1>5, ReducerFields
  <2>2. tasks'[t].created = tasks[t].created /\ tasks'[t].due = tasks[t].due
    BY <1>1, <1>5, ReducerKeeps
  <2> QED BY <1>1, <1>5, <2>1, <2>2 DEF Claimable
<1>6. ASSUME NEW l \in 1 .. MaxLease, NEW x \in Stamp, HoldsLease(tasks[t], l), x > now,
             tasks'[t] = Renewed(tasks[t], x)
      PROVE  /\ tasks'[t].state = tasks[t].state /\ tasks'[t].gen = tasks[t].gen
             /\ tasks'[t].created = tasks[t].created /\ tasks'[t].due = tasks[t].due
  BY <1>1, <1>6, ReducerFields, ReducerKeeps
<1>7. ASSUME NEW l \in 1 .. MaxLease, NEW out \in SettledOutcome, HoldsLease(tasks[t], l),
             tasks'[t] = Settled(tasks[t], out)
      PROVE  /\ tasks'[t].state \notin {"absent", "leased"} /\ tasks'[t].gen = tasks[t].gen
             /\ tasks[t].state # "canceled"
             /\ tasks'[t].created = tasks[t].created /\ tasks'[t].due = tasks[t].due
  <2>1. tasks'[t].state = TerminalState(out) /\ tasks'[t].gen = tasks[t].gen
        /\ tasks'[t].created = tasks[t].created /\ tasks'[t].due = tasks[t].due
    BY <1>1, <1>7, ReducerFields, ReducerKeeps
  <2>2. TerminalState(out) \notin {"absent", "leased"}
    BY DEF TerminalState, SettledOutcome
  <2> QED BY <1>7, <2>1, <2>2 DEF HoldsLease
<1>8. CASE tasks'[t] = Canceled(tasks[t])
  BY <1>1, <1>8, ReducerFields, ReducerKeeps
<1>9. ASSUME NEW x \in Stamp, tasks[t].state = "leased", tasks'[t] = BackToReady(tasks[t], x)
      PROVE  /\ tasks'[t].state = "ready" /\ tasks'[t].gen = tasks[t].gen
             /\ tasks'[t].created = tasks[t].created /\ tasks'[t].due = tasks[t].due
  BY <1>1, <1>9, ReducerFields, ReducerKeeps
<1> QED BY <1>2, <1>3, <1>4, <1>5, <1>6, <1>7, <1>8, <1>9 DEF RecordStep

\* Whatever the others do to a record, or create, keeps what the handlers know of it.
LEMMA RecordInvKept ==
    ASSUME SubmissionInv, [StoreNext]_storeVars, NEW t \in Task, sub'[t] = sub[t], can'[t] = can[t]
    PROVE  SubmitInv(t)' /\ CancelInv(t)'
<1>1. SubmitInv(t) /\ CancelInv(t) /\ StoreInv
  BY DEF SubmissionInv
<1>2. CASE tasks[t].state # "absent"
  BY <1>1, <1>2, RecordKept DEF SubmitInv, CancelInv
<1>3. CASE tasks[t].state = "absent"
  <2>1. tasks[t] = NoRecord
    BY <1>1, <1>3 DEF StoreInv, AbsentIsBlank
  <2>2. tasks[t].gen = 0
    BY <2>1 DEF NoRecord
  <2>3. tasks'[t] = tasks[t] \/ tasks'[t].state = "scheduled"
    <3>1. RecordStep(t)
      BY <1>1, StepEffect
    <3>2. ASSUME NEW created \in Stamp, NEW due \in Stamp, tasks'[t] = NewRecord(created, due)
          PROVE  tasks'[t].state = "scheduled"
      BY <3>2 DEF NewRecord
    <3> QED BY <1>3, <3>1, <3>2 DEF RecordStep, DueNow, Claimable, HoldsLease, Cancelable
  <2> QED BY <1>1, <1>3, <2>2, <2>3 DEF SubmitInv, CancelInv
<1> QED BY <1>2, <1>3

\* Every step of the handlers is a step of the store, or leaves it alone.
LEMMA SubmissionStoreStep ==
    ASSUME SubmissionInv, [Next]_vars
    PROVE  [StoreNext]_storeVars
<1>1. ASSUME NEW t \in Task, SubmitStep(t) PROVE [StoreNext]_storeVars
  <2>1. CASE InsertTask(t)
    <3>1. sub[t].created \in Stamp /\ sub[t].due \in Stamp
      BY <2>1 DEF InsertTask, SubmissionInv, SubmitInv
    <3> QED BY <2>1, <3>1 DEF InsertTask, StoreNext
  <2>2. CASE ~InsertTask(t)
    BY <1>1, <2>2 DEF SubmitStep, RefuseSubmit, BuildRecord, CompareRecord, ConfirmCommitted
  <2> QED BY <2>1, <2>2
<1>2. ASSUME NEW t \in Task, CancelStep(t) PROVE [StoreNext]_storeVars
  BY <1>2 DEF CancelStep, RefuseCancel, TryCancel, ReadRefused, StoreNext
<1>3. CASE OthersWrite \/ UNCHANGED vars
  BY <1>3 DEF OthersWrite, vars
<1> QED BY <1>1, <1>2, <1>3 DEF Next

----------------------------------------------------------------------------
(* The handlers                                                            *)

\* A handler writes its own state only.
LEMMA SubmitWrites ==
    ASSUME HandlerTypes, NEW t \in Task, NEW rec \in Submission, sub' = [sub EXCEPT ![t] = rec]
    PROVE  sub' \in [Task -> Submission] /\ (\A u \in Task \ {t} : sub'[u] = sub[u]) /\ sub'[t] = rec
BY DEF HandlerTypes

\* The answer to a submission ends its handler, which keeps what it submitted.
LEMMA AnswerSubmitFacts ==
    ASSUME HandlerTypes, NEW t \in Task, NEW a \in {"accepted", "rejected", "unavailable"}, AnswerSubmit(t, a)
    PROVE  /\ sub' \in [Task -> Submission] /\ (\A u \in Task \ {t} : sub'[u] = sub[u])
           /\ sub'[t].at = "done" /\ sub'[t].answer = a /\ sub'[t].inserted = sub[t].inserted
           /\ sub'[t].created = sub[t].created /\ sub'[t].due = sub[t].due
<1>1. sub \in [Task -> Submission] /\ sub[t] \in Submission
  BY DEF HandlerTypes
<1>2. PICK rec \in Submission : /\ sub' = [sub EXCEPT ![t] = rec] /\ rec.at = "done" /\ rec.answer = a
                                /\ rec.inserted = sub[t].inserted
                                /\ rec.created = sub[t].created /\ rec.due = sub[t].due
  <2> DEFINE r == [sub[t] EXCEPT !.at = "done", !.answer = a]
  <2>1. /\ r \in Submission /\ r.at = "done" /\ r.answer = a /\ r.inserted = sub[t].inserted
        /\ r.created = sub[t].created /\ r.due = sub[t].due
    BY <1>1 DEF Submission
  <2>2. sub' = [sub EXCEPT ![t] = r]
    BY <1>1 DEF AnswerSubmit
  <2> HIDE DEF r
  <2> QED BY <2>1, <2>2
<1> QED BY <1>2, SubmitWrites

\* A handler that goes on to its next round trip has answered nothing yet.
LEMMA GotoSubmitFacts ==
    ASSUME HandlerTypes, NEW t \in Task, NEW s \in {"compare", "confirm"}, GotoSubmit(t, s)
    PROVE  /\ sub' \in [Task -> Submission] /\ (\A u \in Task \ {t} : sub'[u] = sub[u])
           /\ sub'[t].at = s /\ sub'[t].answer = sub[t].answer /\ sub'[t].inserted = sub[t].inserted
           /\ sub'[t].created = sub[t].created /\ sub'[t].due = sub[t].due
<1>1. sub \in [Task -> Submission] /\ sub[t] \in Submission
  BY DEF HandlerTypes
<1>2. PICK rec \in Submission : /\ sub' = [sub EXCEPT ![t] = rec] /\ rec.at = s /\ rec.answer = sub[t].answer
                                /\ rec.inserted = sub[t].inserted
                                /\ rec.created = sub[t].created /\ rec.due = sub[t].due
  <2> DEFINE r == [sub[t] EXCEPT !.at = s]
  <2>1. /\ r \in Submission /\ r.at = s /\ r.answer = sub[t].answer /\ r.inserted = sub[t].inserted
        /\ r.created = sub[t].created /\ r.due = sub[t].due
    BY <1>1 DEF Submission
  <2>2. sub' = [sub EXCEPT ![t] = r]
    BY <1>1 DEF GotoSubmit
  <2> HIDE DEF r
  <2> QED BY <2>1, <2>2
<1> QED BY <1>2, SubmitWrites

\* Nor has one whose driver call failed: it retries, or asks for the status.
LEMMA CreateFailsFacts ==
    ASSUME HandlerTypes, NEW t \in Task, NEW b \in BOOLEAN, CreateFails(t, b)
    PROVE  /\ sub' \in [Task -> Submission] /\ (\A u \in Task \ {t} : sub'[u] = sub[u])
           /\ sub'[t].at \in {"create", "confirm"} /\ sub'[t].answer = sub[t].answer
           /\ sub'[t].inserted = (sub[t].inserted \/ b)
           /\ sub'[t].created = sub[t].created /\ sub'[t].due = sub[t].due
<1>1. sub \in [Task -> Submission] /\ sub[t] \in Submission
  BY DEF HandlerTypes
<1>2. PICK s \in {"create", "confirm"} :
         sub' = [sub EXCEPT ![t].at = s, ![t].tries = @ + 1, ![t].inserted = @ \/ b]
  BY DEF CreateFails
<1>3. sub[t].tries \in Nat /\ sub[t].inserted \in BOOLEAN
  BY <1>1 DEF Submission
<1>4. PICK n \in Nat : n = sub[t].tries + 1
  BY <1>3
<1>5. PICK i \in BOOLEAN : i = (sub[t].inserted \/ b)
  BY <1>3, Zenon
<1>6. PICK rec \in Submission : /\ sub' = [sub EXCEPT ![t] = rec] /\ rec.at = s /\ rec.answer = sub[t].answer
                                /\ rec.inserted = i
                                /\ rec.created = sub[t].created /\ rec.due = sub[t].due
  <2> DEFINE r == [sub[t] EXCEPT !.at = s, !.tries = n, !.inserted = i]
  <2>1. /\ r \in Submission /\ r.at = s /\ r.answer = sub[t].answer /\ r.inserted = i
        /\ r.created = sub[t].created /\ r.due = sub[t].due
    BY <1>1 DEF Submission
  <2>2. sub' = [sub EXCEPT ![t] = r]
    BY <1>1, <1>2, <1>4, <1>5
  <2> HIDE DEF r
  <2> QED BY <2>1, <2>2
<1> QED BY <1>2, <1>5, <1>6, SubmitWrites

\* A call that was not applied leaves the handler's knowledge as it was.
LEMMA InsertedStays ==
    ASSUME HandlerTypes, NEW t \in Task
    PROVE  (sub[t].inserted \/ FALSE) = sub[t].inserted
<1>1. sub[t].inserted \in BOOLEAN
  BY DEF HandlerTypes, Submission
<1> QED BY <1>1, Zenon

\* A step of the handler of t keeps SubmitInv(t), whoever else is at work.
LEMMA SubmitStepInv ==
    ASSUME SubmissionInv, NEW t \in Task, SubmitStep(t)
    PROVE  /\ sub' \in [Task -> Submission] /\ can' = can
           /\ \A u \in Task \ {t} : sub'[u] = sub[u] /\ tasks'[u] = tasks[u]
           /\ SubmitInv(t)' /\ CancelInv(t)'
<1>1. HandlerTypes /\ SubmitInv(t) /\ CancelInv(t) /\ tasks \in [Task -> TaskRecord] /\ AbsentIsBlank
  BY DEF SubmissionInv, StoreInv, TypeOK
<1>2. CASE RefuseSubmit(t)
  <2>1. PICK a \in {"rejected", "unavailable"} : AnswerSubmit(t, a)
    BY <1>2 DEF RefuseSubmit
  <2>2. tasks' = tasks /\ can' = can /\ sub[t].at = "idle"
    BY <1>2 DEF RefuseSubmit, storeVars
  <2>3. /\ sub' \in [Task -> Submission] /\ (\A u \in Task \ {t} : sub'[u] = sub[u])
        /\ sub'[t].at = "done" /\ sub'[t].answer = a /\ sub'[t].inserted = sub[t].inserted
        /\ sub'[t].created = sub[t].created /\ sub'[t].due = sub[t].due
    BY <1>1, <2>1, AnswerSubmitFacts
  <2> QED BY <1>1, <2>2, <2>3 DEF SubmitInv, CancelInv
<1>3. ASSUME NEW d \in SubmitDelay, BuildRecord(t, d)
      PROVE  /\ sub' \in [Task -> Submission] /\ can' = can
             /\ \A u \in Task \ {t} : sub'[u] = sub[u] /\ tasks'[u] = tasks[u]
             /\ SubmitInv(t)' /\ CancelInv(t)'
  <2>1. tasks' = tasks /\ can' = can /\ sub[t].at = "idle"
    BY <1>3 DEF BuildRecord, storeVars
  <2>2. now \in Time /\ now \in Nat /\ d \in Nat
    BY StoreAssumption, SubmissionAssumption DEF SubmissionInv, StoreInv, TypeOK, Time
  <2>3. PICK n \in Nat : n = now + d
    BY <2>2
  <2>4. now \in Stamp /\ n \in Stamp
    BY <2>2, <2>3, SubmissionAssumption
  <2>5. sub[t] \in Submission /\ sub \in [Task -> Submission]
    BY <1>1 DEF HandlerTypes
  <2>6. PICK rec \in Submission : /\ sub' = [sub EXCEPT ![t] = rec] /\ rec.at = "create"
                                  /\ rec.answer = sub[t].answer /\ rec.inserted = sub[t].inserted
                                  /\ rec.created = now /\ rec.due = n
    <3> DEFINE r == [sub[t] EXCEPT !.at = "create", !.created = now, !.due = n]
    <3>1. /\ r \in Submission /\ r.at = "create" /\ r.answer = sub[t].answer
          /\ r.inserted = sub[t].inserted /\ r.created = now /\ r.due = n
      BY <2>2, <2>5 DEF Submission
    <3>2. sub' = [sub EXCEPT ![t] = r]
      BY <1>3, <2>3, <2>5 DEF BuildRecord
    <3> HIDE DEF r
    <3> QED BY <3>1, <3>2
  <2>7. sub' \in [Task -> Submission] /\ (\A u \in Task \ {t} : sub'[u] = sub[u]) /\ sub'[t] = rec
    BY <1>1, <2>6, SubmitWrites
  <2> QED BY <1>1, <2>1, <2>4, <2>6, <2>7 DEF SubmitInv, CancelInv
<1>4. CASE InsertTask(t)
  <2>1. can' = can /\ sub[t].at = "create" /\ sub[t].created \in Stamp /\ sub[t].due \in Stamp
    BY <1>1, <1>4 DEF InsertTask, SubmitInv
  <2>2. CASE Create(t, sub[t].created, sub[t].due)
    <3>1. /\ tasks[t] = NoRecord /\ tasks'[t] = NewRecord(sub[t].created, sub[t].due)
          /\ \A u \in Task \ {t} : tasks'[u] = tasks[u]
      BY <1>1, <2>2 DEF Create, Put, AbsentIsBlank
    <3>2. /\ tasks'[t].created = sub[t].created /\ tasks'[t].due = sub[t].due
          /\ tasks'[t].state = "scheduled" /\ tasks[t].state = "absent" /\ tasks[t].gen = 0
      BY <3>1 DEF NewRecord, NoRecord
    <3>3. /\ sub' \in [Task -> Submission] /\ (\A u \in Task \ {t} : sub'[u] = sub[u])
          /\ sub'[t].created = sub[t].created /\ sub'[t].due = sub[t].due /\ sub'[t].at # "idle"
      <4>1. CASE sub' = [sub EXCEPT ![t].at = "done", ![t].answer = "accepted", ![t].inserted = TRUE]
        <5>1. sub[t] \in Submission /\ sub \in [Task -> Submission]
          BY <1>1 DEF HandlerTypes
        <5>2. PICK rec \in Submission : /\ sub' = [sub EXCEPT ![t] = rec] /\ rec.at = "done"
                                        /\ rec.created = sub[t].created /\ rec.due = sub[t].due
          <6> DEFINE r == [sub[t] EXCEPT !.at = "done", !.answer = "accepted", !.inserted = TRUE]
          <6>1. r \in Submission /\ r.at = "done" /\ r.created = sub[t].created /\ r.due = sub[t].due
            BY <5>1 DEF Submission
          <6>2. sub' = [sub EXCEPT ![t] = r]
            BY <4>1, <5>1
          <6> HIDE DEF r
          <6> QED BY <6>1, <6>2
        <5> QED BY <1>1, <5>2, SubmitWrites
      <4>2. CASE CreateFails(t, TRUE)
        BY <1>1, <4>2, CreateFailsFacts
      <4>3. CASE UNCHANGED storeVars
        BY <3>1, <4>3 DEF storeVars, NoRecord, NewRecord
      <4> QED BY <1>4, <4>1, <4>2, <4>3 DEF InsertTask
    <3> QED BY <1>1, <2>1, <3>1, <3>2, <3>3 DEF SubmitInv, CancelInv
  <2>3. CASE ~Create(t, sub[t].created, sub[t].due)
    <3>1. /\ tasks' = tasks
          /\ GotoSubmit(t, "compare") \/ CreateFails(t, FALSE) \/ GotoSubmit(t, "confirm")
      BY <1>4, <2>3 DEF InsertTask, storeVars
    <3>2. /\ sub' \in [Task -> Submission] /\ (\A u \in Task \ {t} : sub'[u] = sub[u])
          /\ sub'[t].at \in {"create", "compare", "confirm"} /\ sub'[t].answer = sub[t].answer
          /\ sub'[t].inserted = sub[t].inserted
          /\ sub'[t].created = sub[t].created /\ sub'[t].due = sub[t].due
      <4>1. CASE GotoSubmit(t, "compare")
        BY <1>1, <4>1, GotoSubmitFacts
      <4>2. CASE GotoSubmit(t, "confirm")
        BY <1>1, <4>2, GotoSubmitFacts
      <4>3. CASE CreateFails(t, FALSE)
        BY <1>1, <4>3, CreateFailsFacts, InsertedStays
      <4> QED BY <3>1, <4>1, <4>2, <4>3
    <3> QED BY <1>1, <2>1, <3>1, <3>2 DEF SubmitInv, CancelInv
  <2> QED BY <2>2, <2>3
<1>5. CASE CompareRecord(t)
  <2>1. tasks' = tasks /\ can' = can /\ sub[t].at = "compare"
    BY <1>5 DEF CompareRecord, storeVars
  <2>2. CASE CreateFails(t, FALSE)
    <3>1. /\ sub' \in [Task -> Submission] /\ (\A u \in Task \ {t} : sub'[u] = sub[u])
          /\ sub'[t].at \in {"create", "confirm"} /\ sub'[t].answer = sub[t].answer
          /\ sub'[t].inserted = sub[t].inserted
          /\ sub'[t].created = sub[t].created /\ sub'[t].due = sub[t].due
      BY <1>1, <2>2, CreateFailsFacts, InsertedStays
    <3> QED BY <1>1, <2>1, <3>1 DEF SubmitInv, CancelInv
  <2>3. CASE ~CreateFails(t, FALSE)
    <3>1. PICK a \in {"accepted", "rejected"} :
             AnswerSubmit(t, a) /\ (a = "accepted" => tasks[t] = NewRecord(sub[t].created, sub[t].due))
      BY <1>5, <2>3 DEF CompareRecord
    <3>2. a = "accepted" => tasks[t].state # "absent"
      BY <3>1 DEF NewRecord
    <3>3. /\ sub' \in [Task -> Submission] /\ (\A u \in Task \ {t} : sub'[u] = sub[u])
          /\ sub'[t].at = "done" /\ sub'[t].answer = a /\ sub'[t].inserted = sub[t].inserted
          /\ sub'[t].created = sub[t].created /\ sub'[t].due = sub[t].due
      BY <1>1, <3>1, AnswerSubmitFacts
    <3> QED BY <1>1, <2>1, <3>2, <3>3 DEF SubmitInv, CancelInv
  <2> QED BY <2>2, <2>3
<1>6. CASE ConfirmCommitted(t)
  <2>1. tasks' = tasks /\ can' = can
    BY <1>6 DEF ConfirmCommitted, storeVars
  <2>2. PICK a \in {"accepted", "unavailable"} :
           AnswerSubmit(t, a) /\ (a = "accepted" => StatusKind(tasks[t]) # "expired")
    BY <1>6 DEF ConfirmCommitted
  <2>3. a = "accepted" => tasks[t].state # "absent"
    BY <2>2 DEF StatusKind
  <2>4. /\ sub' \in [Task -> Submission] /\ (\A u \in Task \ {t} : sub'[u] = sub[u])
        /\ sub'[t].at = "done" /\ sub'[t].answer = a /\ sub'[t].inserted = sub[t].inserted
        /\ sub'[t].created = sub[t].created /\ sub'[t].due = sub[t].due
    BY <1>1, <2>2, AnswerSubmitFacts
  <2> QED BY <1>1, <2>1, <2>3, <2>4 DEF SubmitInv, CancelInv
<1> QED BY <1>2, <1>3, <1>4, <1>5, <1>6 DEF SubmitStep
----------------------------------------------------------------------------
(* The cancel handler                                                      *)

\* What an answer, a failed round trip or a refusal leaves in the handler.
LEMMA CancelWrites ==
    ASSUME HandlerTypes, NEW t \in Task
    PROVE  /\ \A a \in {"canceled", "alreadyStarted", "alreadyTerminal", "expired", "notFound", "unavailable"} :
                AnswerCancel(t, a) => /\ can' \in [Task -> CancelCall] /\ can'[t].answer = a
                                      /\ \A u \in Task \ {t} : can'[u] = can[u]
           /\ CancelFails(t) => /\ can' \in [Task -> CancelCall]
                                /\ can'[t].answer \in {can[t].answer, "unavailable"}
                                /\ \A u \in Task \ {t} : can'[u] = can[u]
           /\ can' = [can EXCEPT ![t].at = "classify"] =>
                 /\ can' \in [Task -> CancelCall] /\ can'[t].answer = can[t].answer
                 /\ \A u \in Task \ {t} : can'[u] = can[u]
<1>1. can \in [Task -> CancelCall] /\ can[t] \in CancelCall
  BY DEF HandlerTypes
<1>2. ASSUME NEW rec \in CancelCall, can' = [can EXCEPT ![t] = rec]
      PROVE  can' \in [Task -> CancelCall] /\ can'[t] = rec /\ \A u \in Task \ {t} : can'[u] = can[u]
  BY <1>1, <1>2
<1>3. ASSUME NEW a \in {"canceled", "alreadyStarted", "alreadyTerminal", "expired", "notFound", "unavailable"},
             AnswerCancel(t, a)
      PROVE  /\ can' \in [Task -> CancelCall] /\ can'[t].answer = a
             /\ \A u \in Task \ {t} : can'[u] = can[u]
  <2> DEFINE r == [can[t] EXCEPT !.at = "done", !.answer = a]
  <2>1. r \in CancelCall /\ r.answer = a
    BY <1>1 DEF CancelCall
  <2>2. can' = [can EXCEPT ![t] = r]
    BY <1>1, <1>3 DEF AnswerCancel
  <2> HIDE DEF r
  <2> QED BY <1>2, <2>1, <2>2
<1>4. ASSUME can' = [can EXCEPT ![t].at = "idle", ![t].tries = @ + 1]
      PROVE  /\ can' \in [Task -> CancelCall] /\ can'[t].answer = can[t].answer
             /\ \A u \in Task \ {t} : can'[u] = can[u]
  <2>1. PICK n \in Nat : n = can[t].tries + 1
    BY <1>1 DEF CancelCall
  <2> DEFINE r == [can[t] EXCEPT !.at = "idle", !.tries = n]
  <2>2. r \in CancelCall /\ r.answer = can[t].answer
    BY <1>1 DEF CancelCall
  <2>3. can' = [can EXCEPT ![t] = r]
    BY <1>1, <1>4, <2>1
  <2> HIDE DEF r
  <2> QED BY <1>2, <2>2, <2>3
<1>5. ASSUME can' = [can EXCEPT ![t].at = "classify"]
      PROVE  /\ can' \in [Task -> CancelCall] /\ can'[t].answer = can[t].answer
             /\ \A u \in Task \ {t} : can'[u] = can[u]
  <2> DEFINE r == [can[t] EXCEPT !.at = "classify"]
  <2>1. r \in CancelCall /\ r.answer = can[t].answer
    BY <1>1 DEF CancelCall
  <2>2. can' = [can EXCEPT ![t] = r]
    BY <1>1, <1>5
  <2> HIDE DEF r
  <2> QED BY <1>2, <2>1, <2>2
<1> QED BY <1>3, <1>4, <1>5 DEF CancelFails

\* A step of the cancel handler of t keeps CancelInv(t).
LEMMA CancelStepInv ==
    ASSUME SubmissionInv, NEW t \in Task, CancelStep(t)
    PROVE  /\ can' \in [Task -> CancelCall] /\ sub' = sub
           /\ \A u \in Task \ {t} : can'[u] = can[u] /\ tasks'[u] = tasks[u]
           /\ SubmitInv(t)' /\ CancelInv(t)'
<1>1. HandlerTypes /\ SubmitInv(t) /\ CancelInv(t) /\ tasks \in [Task -> TaskRecord] /\ StoreInv
  BY DEF SubmissionInv, StoreInv, TypeOK
<1>2. CASE RefuseCancel(t)
  <2>1. tasks' = tasks /\ sub' = sub /\ (AnswerCancel(t, "notFound") \/ AnswerCancel(t, "unavailable"))
    BY <1>2 DEF RefuseCancel, storeVars
  <2>2. /\ can' \in [Task -> CancelCall] /\ can'[t].answer \in {"notFound", "unavailable"}
        /\ \A u \in Task \ {t} : can'[u] = can[u]
    BY <1>1, <2>1, CancelWrites
  <2> QED BY <1>1, <2>1, <2>2 DEF SubmitInv, CancelInv
<1>3. CASE TryCancel(t)
  <2>1. sub' = sub
    BY <1>3 DEF TryCancel
  <2>2. CASE Cancel(t) /\ (AnswerCancel(t, "canceled") \/ CancelFails(t))
    <3>1. /\ tasks'[t] = Canceled(tasks[t]) /\ tasks[t].state # "absent"
          /\ \A u \in Task \ {t} : tasks'[u] = tasks[u]
      BY <1>1, <2>2 DEF Cancel, Cancelable, Put
    <3>2. /\ tasks'[t].state = "canceled" /\ tasks'[t].gen = tasks[t].gen
          /\ tasks'[t].created = tasks[t].created /\ tasks'[t].due = tasks[t].due
      BY <1>1, <3>1, ReducerFields, ReducerKeeps
    <3>3. /\ can' \in [Task -> CancelCall] /\ can'[t].answer \in {can[t].answer, "canceled", "unavailable"}
          /\ \A u \in Task \ {t} : can'[u] = can[u]
      BY <1>1, <2>2, CancelWrites
    <3> QED BY <1>1, <2>1, <3>1, <3>2, <3>3 DEF SubmitInv, CancelInv
  <2>3. CASE /\ UNCHANGED storeVars
             /\ can' = [can EXCEPT ![t].at = "classify"] \/ CancelFails(t)
    <3>1. tasks' = tasks
      BY <2>3 DEF storeVars
    <3>2. /\ can' \in [Task -> CancelCall] /\ can'[t].answer \in {can[t].answer, "unavailable"}
          /\ \A u \in Task \ {t} : can'[u] = can[u]
      BY <1>1, <2>3, CancelWrites
    <3> QED BY <1>1, <2>1, <3>1, <3>2 DEF SubmitInv, CancelInv
  <2> QED BY <1>3, <2>2, <2>3 DEF TryCancel
<1>4. CASE ReadRefused(t)
  <2>1. tasks' = tasks /\ sub' = sub /\ (AnswerCancel(t, ClassifyCancel(tasks[t])) \/ CancelFails(t))
    BY <1>4 DEF ReadRefused, storeVars
  <2>2. /\ ClassifyCancel(tasks[t]) \in {"alreadyStarted", "alreadyTerminal", "expired"}
        /\ ClassifyCancel(tasks[t]) = "alreadyStarted" => tasks[t].state = "leased"
    BY DEF ClassifyCancel
  <2>3. /\ can' \in [Task -> CancelCall]
        /\ can'[t].answer \in {can[t].answer, "unavailable", ClassifyCancel(tasks[t])}
        /\ \A u \in Task \ {t} : can'[u] = can[u]
    BY <1>1, <2>1, <2>2, CancelWrites
  <2> QED BY <1>1, <2>1, <2>2, <2>3 DEF SubmitInv, CancelInv
<1> QED BY <1>2, <1>3, <1>4 DEF CancelStep

----------------------------------------------------------------------------
(* The inductive invariant                                                 *)

LEMMA SubmissionInit == Init => SubmissionInv
<1> SUFFICES ASSUME Init PROVE SubmissionInv
  OBVIOUS
<1>1. StoreInv
  BY InitStoreInv DEF Init
<1>2. HandlerTypes
  BY DEF Init, HandlerTypes, NoSubmission, NoCancel, Submission, CancelCall
<1>3. ASSUME NEW t \in Task PROVE SubmitInv(t) /\ CancelInv(t)
  <2>1. tasks[t] = NoRecord /\ sub[t] = NoSubmission /\ can[t] = NoCancel
    BY DEF Init, StoreInit
  <2> QED BY <2>1 DEF NoRecord, NoSubmission, NoCancel, SubmitInv, CancelInv
<1> QED BY <1>1, <1>2, <1>3 DEF SubmissionInv

LEMMA SubmissionNext == SubmissionInv /\ [Next]_vars => SubmissionInv'
<1> SUFFICES ASSUME SubmissionInv, [Next]_vars PROVE SubmissionInv'
  OBVIOUS
<1>1. [StoreNext]_storeVars /\ StoreInv
  BY SubmissionStoreStep DEF SubmissionInv
<1>2. StoreInv'
  BY <1>1, NextStoreInv
<1>3. sub \in [Task -> Submission] /\ can \in [Task -> CancelCall]
  BY DEF SubmissionInv, HandlerTypes
<1>4. ASSUME NEW t \in Task, SubmitStep(t)
      PROVE  HandlerTypes' /\ \A u \in Task : SubmitInv(u)' /\ CancelInv(u)'
  <2>1. /\ sub' \in [Task -> Submission] /\ can' = can
        /\ \A u \in Task \ {t} : sub'[u] = sub[u] /\ tasks'[u] = tasks[u]
        /\ SubmitInv(t)' /\ CancelInv(t)'
    BY <1>4, SubmitStepInv
  <2>2. ASSUME NEW u \in Task \ {t} PROVE SubmitInv(u)' /\ CancelInv(u)'
    BY <1>1, <2>1, RecordInvKept
  <2> QED BY <1>3, <2>1, <2>2 DEF HandlerTypes
<1>5. ASSUME NEW t \in Task, CancelStep(t)
      PROVE  HandlerTypes' /\ \A u \in Task : SubmitInv(u)' /\ CancelInv(u)'
  <2>1. /\ can' \in [Task -> CancelCall] /\ sub' = sub
        /\ \A u \in Task \ {t} : can'[u] = can[u] /\ tasks'[u] = tasks[u]
        /\ SubmitInv(t)' /\ CancelInv(t)'
    BY <1>5, CancelStepInv
  <2>2. ASSUME NEW u \in Task \ {t} PROVE SubmitInv(u)' /\ CancelInv(u)'
    BY <1>1, <2>1, RecordInvKept
  <2> QED BY <1>3, <2>1, <2>2 DEF HandlerTypes
<1>6. ASSUME OthersWrite \/ UNCHANGED vars
      PROVE  HandlerTypes' /\ \A u \in Task : SubmitInv(u)' /\ CancelInv(u)'
  <2>1. sub' = sub /\ can' = can
    BY <1>6 DEF OthersWrite, vars, callVars
  <2>2. ASSUME NEW u \in Task PROVE SubmitInv(u)' /\ CancelInv(u)'
    BY <1>1, <2>1, RecordInvKept
  <2> QED BY <1>3, <2>1, <2>2 DEF HandlerTypes
<1>7. HandlerTypes' /\ \A u \in Task : SubmitInv(u)' /\ CancelInv(u)'
  BY <1>4, <1>5, <1>6 DEF Next
<1> QED BY <1>2, <1>7 DEF SubmissionInv

\* The handlers reach the store through its conditional writes only, so that
\* whatever is proved of the store holds under them: records stay consistent,
\* leases fenced and terminal states final.
THEOREM SubmissionUsesStore == Spec => StoreSpec /\ TerminalIsFinal /\ RefinesLifecycle
<1>1. Init => StoreInit
  BY DEF Init
<1>2. Spec => StoreSpec
  BY <1>1, SubmissionInit, SubmissionNext, SubmissionStoreStep, PTL DEF Spec, StoreSpec
<1> QED BY <1>2, TerminalFinal, Refinement

\* An accepted submission is durable, also after lost replies and retries and
\* with other submissions under its id: there is a record, and one that the
\* submission inserted stays the one submitted.
THEOREM AcceptedDurable == Spec => []AcceptedIsDurable
<1>1. SubmissionInv => AcceptedIsDurable
  BY DEF SubmissionInv, SubmitInv, AcceptedIsDurable
<1> QED BY <1>1, SubmissionInit, SubmissionNext, PTL DEF Spec

\* The answer to a cancel is true when given and stays true.
THEOREM CancelAnswersTrue == Spec => []CancelAnswerIsTrue
<1>1. SubmissionInv => CancelAnswerIsTrue
  BY DEF SubmissionInv, CancelInv, CancelAnswerIsTrue
<1> QED BY <1>1, SubmissionInit, SubmissionNext, PTL DEF Spec
=============================================================================
