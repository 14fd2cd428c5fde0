--------------------------- MODULE TaskSubmission ---------------------------
(***************************************************************************)
(* The Router's task.submit and task.cancel handlers                       *)
(* (router/src/task/sink.rs) over the Mongo adapter (mongo.rs), whose      *)
(* create and cancel are two round trips each and are retried when a       *)
(* driver call fails (retry.rs).  A failed call may have been applied: the *)
(* reply is what got lost.  Everybody else keeps using the store.          *)
(***************************************************************************)
EXTENDS TaskStore

CONSTANTS
    SubmitDelay,    \* how far in the future a submission may be due
    MaxAttempts     \* TaskRetryPolicy.max_attempts

ASSUME SubmissionAssumption ==
    /\ SubmitDelay \subseteq Nat
    /\ MaxAttempts \in Nat \ {0}
    /\ \A x \in Time : x \in Stamp /\ \A d \in SubmitDelay : x + d \in Stamp

VARIABLES
    sub,    \* sub[t]: the handler of the submission of t
    can     \* can[t]: the handler of a cancel of t

callVars == <<sub, can>>

vars == <<storeVars, callVars>>

NoSubmission ==
    [at |-> "idle", created |-> 0, due |-> 0, tries |-> 0, inserted |-> FALSE, answer |-> "none"]

NoCancel == [at |-> "idle", tries |-> 0, answer |-> "none"]

Init ==
    /\ StoreInit
    /\ sub = [t \in Task |-> NoSubmission]
    /\ can = [t \in Task |-> NoCancel]

----------------------------------------------------------------------------
(* handle_submit                                                           *)

AnswerSubmit(t, answer) == sub' = [sub EXCEPT ![t].at = "done", ![t].answer = answer]

GotoSubmit(t, label) == sub' = [sub EXCEPT ![t].at = label]

\* Target, image, timing or payload is refused before anything is stored, or
\* the store does not tell the time.
RefuseSubmit(t) ==
    /\ sub[t].at = "idle"
    /\ \E answer \in {"rejected", "unavailable"} : AnswerSubmit(t, answer)
    /\ UNCHANGED <<storeVars, can>>

BuildRecord(t, d) ==
    /\ sub[t].at = "idle"
    /\ sub' = [sub EXCEPT ![t].at = "create", ![t].created = now, ![t].due = now + d]
    /\ UNCHANGED <<storeVars, can>>

CreateRetriesForever(t, applied) ==
    sub' = [sub EXCEPT ![t].at = "create", ![t].inserted = @ \/ applied]

\* A transient failure is retried from the start until the attempts or the
\* deadline run out; then the handler asks for the status.
CreateFails(t, applied) ==
    \E next \in {"create", "confirm"} :
        /\ next = "create" => sub[t].tries + 1 < MaxAttempts
        /\ sub' = [sub EXCEPT ![t].at = next, ![t].tries = @ + 1, ![t].inserted = @ \/ applied]

\* insert_one, under a unique _id.
InsertTask(t) ==
    /\ sub[t].at = "create"
    /\ \/ /\ Create(t, sub[t].created, sub[t].due)
          /\ \/ sub' = [sub EXCEPT ![t].at = "done", ![t].answer = "accepted", ![t].inserted = TRUE]
             \/ CreateFails(t, TRUE)
       \/ /\ ~closed
          /\ \/ tasks[t].state # "absent" /\ GotoSubmit(t, "compare")
             \/ CreateFails(t, FALSE)
          /\ UNCHANGED storeVars
       \/ /\ closed
          /\ GotoSubmit(t, "confirm")
          /\ UNCHANGED storeVars
    /\ UNCHANGED can

\* The duplicate key: read the record and compare it with the one submitted.
\* The record of another submission may differ in what the model leaves out.
CompareRecord(t) ==
    /\ sub[t].at = "compare"
    /\ \/ tasks[t] = NewRecord(sub[t].created, sub[t].due) /\ AnswerSubmit(t, "accepted")
       \/ /\ tasks[t] # NewRecord(sub[t].created, sub[t].due) \/ ~sub[t].inserted
          /\ AnswerSubmit(t, "rejected")
       \/ CreateFails(t, FALSE)
    /\ UNCHANGED <<storeVars, can>>

ConfirmUnseen(t) ==
    /\ sub[t].at = "confirm"
    /\ AnswerSubmit(t, "accepted")
    /\ UNCHANGED <<storeVars, can>>

\* Ambiguous acceptance: the status query decides what is answered.
ConfirmCommitted(t) ==
    /\ sub[t].at = "confirm"
    /\ \/ ~closed /\ StatusKind(tasks[t]) # "expired" /\ AnswerSubmit(t, "accepted")
       \/ AnswerSubmit(t, "unavailable")        \* nothing visible, or no answer
    /\ UNCHANGED <<storeVars, can>>

SubmitStep(t) ==
    \/ RefuseSubmit(t)
    \/ \E d \in SubmitDelay : BuildRecord(t, d)
    \/ InsertTask(t) \/ CompareRecord(t) \/ ConfirmCommitted(t)

----------------------------------------------------------------------------
(* handle_cancel                                                           *)

AnswerCancel(t, answer) == can' = [can EXCEPT ![t].at = "done", ![t].answer = answer]

\* A caller has the task reference once its submission was accepted.
HasReference(t) == sub[t].answer = "accepted"

\* The owner is unknown to the active epoch, or the store is closed.
RefuseCancel(t) ==
    /\ can[t].at = "idle" /\ HasReference(t)
    /\ \/ AnswerCancel(t, "notFound")
       \/ closed /\ AnswerCancel(t, "unavailable")
    /\ UNCHANGED <<storeVars, sub>>

CancelFails(t) ==
    \/ /\ can[t].tries + 1 < MaxAttempts
       /\ can' = [can EXCEPT ![t].at = "idle", ![t].tries = @ + 1]
    \/ AnswerCancel(t, "unavailable")

\* find_one_and_update on the cancelable states.
TryCancel(t) ==
    /\ can[t].at = "idle" /\ HasReference(t)
    /\ \/ Cancel(t) /\ (AnswerCancel(t, "canceled") \/ CancelFails(t))
       \/ /\ ~closed
          /\ \/ ~Cancelable(tasks[t]) /\ can' = [can EXCEPT ![t].at = "classify"]
             \/ CancelFails(t)
          /\ UNCHANGED storeVars
    /\ UNCHANGED sub

AnyRecordHasStarted(rec) == IF rec.state = "absent" THEN "expired" ELSE "alreadyStarted"

\* What the second round trip makes of the record it finds.
ClassifyCancel(rec) ==
    CASE rec.state = "absent" -> "expired"
      [] rec.state = "leased" -> "alreadyStarted"
      [] OTHER                -> "alreadyTerminal"

ReadRefused(t) ==
    /\ can[t].at = "classify"
    /\ AnswerCancel(t, ClassifyCancel(tasks[t])) \/ CancelFails(t)
    /\ UNCHANGED <<storeVars, sub>>

CancelStep(t) == RefuseCancel(t) \/ TryCancel(t) \/ ReadRefused(t)

----------------------------------------------------------------------------
\* Everybody else: schedulers, and other submissions.  The Router draws its
\* task ids from a counter that starts again with the process, so a record may
\* be created under this id by another Router, or by this one before a restart.
OthersWrite == StoreNext /\ UNCHANGED callVars

Next ==
    \/ \E t \in Task : SubmitStep(t) \/ CancelStep(t)
    \/ OthersWrite

\* A handler runs to its answer: its driver calls have timeouts.
Spec ==
    /\ Init /\ [][Next]_vars
    /\ \A t \in Task :
        /\ WF_vars(sub[t].at # "idle" /\ SubmitStep(t))
        /\ WF_vars(can[t].at # "idle" /\ CancelStep(t))

----------------------------------------------------------------------------
(* Properties.                                                             *)

\* An accepted submission is durable: the id it was given names a record, also
\* when the acceptance was only confirmed by a status query or met its own
\* record on a retry; and a record this submission inserted stays the one
\* submitted, whoever else submits under the id.
AcceptedIsDurable ==
    \A t \in Task : sub[t].answer = "accepted" =>
        /\ tasks[t].state # "absent"
        /\ sub[t].inserted => tasks[t].created = sub[t].created /\ tasks[t].due = sub[t].due

\* The record behind an accepted submission is the one this submission inserted.
AcceptedIsOwn == \A t \in Task : sub[t].answer = "accepted" => sub[t].inserted

\* Cancel answers are true when given and stay true: "canceled" means that no
\* attempt will run, "alreadyStarted" that one was claimed.
CancelAnswerIsTrue ==
    \A t \in Task :
        /\ can[t].answer = "canceled" => tasks[t].state = "canceled"
        /\ can[t].answer = "alreadyStarted" => tasks[t].gen > 0

\* Every submission the Router has begun to store is answered.
SubmissionIsAnswered == \A t \in Task : sub[t].at = "create" ~> sub[t].at = "done"

\* A definite rejection guarantees that no task was created.
RejectedCreatesNothing ==
    \A t \in Task : sub[t].answer = "rejected" => ~sub[t].inserted

\* alreadyTerminal is the answer for terminal records.
AlreadyTerminalIsTerminal ==
    \A t \in Task : can[t].answer = "alreadyTerminal" => tasks[t].state \in Terminal
============================================================================
