---------------------------- MODULE ActorInvocation ----------------------------
(***************************************************************************)
(* Method calls on an owned actor: the invocation relay                    *)
(* (router/src/actor/invocation.rs), the correlations of the actor frame   *)
(* sink (router/src/supervisor/actor_sink.rs) and the calls that durable   *)
(* tasks make (router/src/task/admission.rs).                              *)
(*                                                                         *)
(* Relay and sink have a mutex each and are called one after the other, so *)
(* a call can be in one of them only.  What a pending entry or correlation *)
(* records is in call; ownership itself is ActorActivation's, here a fence *)
(* comes and goes.  A session that handles a frame reads no other.         *)
(***************************************************************************)
EXTENDS SessionLife, Naturals, FiniteSets

CONSTANTS Actors, Invocations,
          MaxPending,         \* max_concurrency of the relay
          TaskCaller,         \* the caller of a durable task's invocation
          NoCall

Steps == {"found", "relayed", "correlated", "out", "failed", "dropped"}
Call == [step : Steps, actor : Actors, caller : Connections \cup {TaskCaller},
         owner : Connections,   \* owner connection, admitted to settle the call
         target : Replicas]     \* owner_runtime_id of the fence
InvokeFrame == [inv : Invocations, conn : Connections]

ASSUME InvocationAssumption ==
    /\ MaxPending \in Nat \ {0}
    /\ TaskCaller \notin Connections
    /\ NoCall \notin Call

VARIABLES
    fence,     \* owner_runtime_id of the current fence of an actor
    call,      \* method calls and how far their handler is
    pending,   \* calls pending in the relay
    corr,      \* calls with a correlation in the sink
    expired,   \* calls the deadline sweep took from the relay
    settled,   \* calls whose owner settled them, not yet forwarded
    wire,      \* actor.owner.invoke frames at a runtime
    told,      \* terminals sent to the caller of a call
    reported,  \* terminals reported to the task control plane
    cancelled, \* calls their caller cancelled
    closing    \* the closed session the consumer works on

relayVars == <<pending, expired>>
answerVars == <<told, reported, cancelled>>
callVars == <<fence, call, relayVars, corr, settled, wire, answerVars, closing>>
invocationVars == <<lifeVars, callVars>>

InvocationTypeOK ==
    /\ fence \in [Actors -> Replicas \cup {NoReplica}]
    /\ call \in [Invocations -> Call \cup {NoCall}]
    /\ pending \subseteq Invocations /\ Cardinality(pending) <= MaxPending
    /\ corr \subseteq Invocations
    /\ expired \subseteq Invocations
    /\ settled \subseteq Invocations
    /\ wire \subseteq InvokeFrame
    /\ told \in [Invocations -> Nat] /\ reported \in [Invocations -> Nat]
    /\ cancelled \subseteq Invocations
    /\ closing \in Connections \cup {NoConnection}

InvocationInit ==
    /\ LifeInit
    /\ fence = [a \in Actors |-> NoReplica]
    /\ call = [i \in Invocations |-> NoCall]
    /\ pending = {} /\ corr = {} /\ expired = {} /\ settled = {} /\ wire = {} /\ cancelled = {}
    /\ told = [i \in Invocations |-> 0]
    /\ reported = [i \in Invocations |-> 0]
    /\ closing = NoConnection

Of(i) == call[i]
At(i, step) == call[i] # NoCall /\ call[i].step = step
IsTask(i) == call[i] # NoCall /\ call[i].caller = TaskCaller

\* The session of c is inside a handler.
Handling(c) ==
    \/ \E i \in Invocations : /\ call[i] # NoCall /\ call[i].caller = c
                              /\ call[i].step \in {"found", "relayed", "correlated"}
    \/ \E i \in settled : call[i].owner = c
Reads(c) == stage[c] = "registered" /\ ~Handling(c)

\* Ownership of an actor comes and goes (ActorActivation).
FenceChanges(a) ==
    /\ \/ /\ fence[a] = NoReplica
          /\ \E c \in Connections : Selectable(c) /\ fence' = [fence EXCEPT ![a] = bound[c]]
       \/ fence[a] # NoReplica /\ fence' = [fence EXCEPT ![a] = NoReplica]
    /\ UNCHANGED <<lifeVars, call, relayVars, corr, settled, wire, answerVars, closing>>

-----------------------------------------------------------------------------
(* A call: handle_method_frame of an Invoke frame, invoke_actor_method *)

Start(i, step, a, caller, c, r) ==
    call' = [call EXCEPT ![i] = [step |-> step, actor |-> a, caller |-> caller, owner |-> c,
                                 target |-> r]]

StepTo(i, step) == call' = [call EXCEPT ![i].step = step]

\* An Invoke frame: the fence and the current session of its runtime.  Without one
\* the frame is dropped and nothing is recorded.
Find(i, a, caller) ==
    /\ call[i] = NoCall /\ Reads(caller)
    /\ fence[a] # NoReplica /\ current[fence[a]] # NoConnection
    /\ Start(i, "found", a, caller, current[fence[a]], fence[a])
    /\ UNCHANGED <<lifeVars, fence, relayVars, corr, settled, wire, answerVars, closing>>

\* pick_owner_candidate, a function of the actor and the candidates.
OwnerCandidate(candidates) == CHOOSE c \in candidates : TRUE

\* A task attempt: the owner connection is picked before the fence is read, and
\* the fence of a live owner does not change it.
FindForTask(i, a) ==
    /\ call[i] = NoCall /\ fence[a] # NoReplica
    /\ LET candidates == {c \in Connections : Selectable(c)}
       IN /\ candidates # {}
          /\ Start(i, "found", a, TaskCaller, OwnerCandidate(candidates), fence[a])
    /\ UNCHANGED <<lifeVars, fence, relayVars, corr, settled, wire, answerVars, closing>>

\* relay.invoke; a full relay drops the frame, or rejects the attempt.
RelayInvoke(i) ==
    /\ At(i, "found")
    /\ \/ Cardinality(pending) < MaxPending /\ pending' = pending \cup {i} /\ StepTo(i, "relayed")
       \/ Cardinality(pending) >= MaxPending /\ StepTo(i, "dropped") /\ UNCHANGED pending
    /\ UNCHANGED <<lifeVars, fence, expired, corr, settled, wire, answerVars, closing>>

Correlate(i) ==
    /\ At(i, "relayed")
    /\ corr' = corr \cup {i}
    /\ StepTo(i, "correlated")
    /\ UNCHANGED <<lifeVars, fence, relayVars, settled, wire, answerVars, closing>>

\* The invoke frame goes to the owner connection, a task's to the current session
\* of that connection's replica.
InvokeConnection(i) == IF IsTask(i) THEN current[bound[Of(i).owner]] ELSE Of(i).owner

InvokeWritten(i) ==
    /\ At(i, "correlated")
    /\ InvokeConnection(i) # NoConnection /\ Writable(InvokeConnection(i))
    /\ wire' = wire \cup {[inv |-> i, conn |-> InvokeConnection(i)]}
    /\ StepTo(i, "out")
    /\ UNCHANGED <<lifeVars, fence, relayVars, corr, settled, answerVars, closing>>

\* A failed write: the caller's session ends with MalformedFrame and leaves both
\* entries to its consumer; a task's attempt takes them back.
InvokeUnwritten(i) ==
    /\ At(i, "correlated")
    /\ StepTo(i, "failed")
    /\ \/ ~IsTask(i) /\ LifeLeave(Of(i).caller) /\ UNCHANGED <<pending, corr>>
       \/ /\ IsTask(i) /\ UNCHANGED lifeVars
          /\ corr' = corr \ {i} /\ pending' = pending \ {i}
    /\ UNCHANGED <<fence, expired, settled, wire, answerVars, closing>>

-----------------------------------------------------------------------------
(* The end of a call *)

\* A Return, Error or owner failure frame of the runtime that has the invoke.  It
\* settles a correlated pending call of exactly its connection.
OwnerAnswers(f) ==
    /\ Reads(f.conn) /\ bound[f.conn] = Of(f.inv).target
    /\ wire' = wire \ {f}
    /\ \/ /\ f.inv \in corr /\ f.inv \in pending /\ Of(f.inv).owner = f.conn
          /\ pending' = pending \ {f.inv}
          /\ settled' = settled \cup {f.inv}
       \/ /\ ~(f.inv \in corr /\ f.inv \in pending /\ Of(f.inv).owner = f.conn)
          /\ UNCHANGED <<pending, settled>>
    /\ UNCHANGED <<lifeVars, fence, call, expired, corr, answerVars, closing>>

\* A runtime that is not the target of an invoke frame ends its session.
OwnerRefuses(f) ==
    /\ Reads(f.conn) /\ bound[f.conn] # Of(f.inv).target
    /\ wire' = wire \ {f}
    /\ LifeLeave(f.conn)
    /\ UNCHANGED <<fence, call, relayVars, corr, settled, answerVars, closing>>

\* Then the correlation goes and the answer is reported or written to the caller.
Forward(i) ==
    /\ i \in settled
    /\ settled' = settled \ {i}
    /\ corr' = corr \ {i}
    /\ \/ IsTask(i) /\ reported' = [reported EXCEPT ![i] = @ + 1] /\ UNCHANGED told
       \/ /\ ~IsTask(i) /\ Writable(Of(i).caller)
          /\ told' = [told EXCEPT ![i] = @ + 1] /\ UNCHANGED reported
    /\ UNCHANGED <<lifeVars, fence, call, relayVars, wire, cancelled, closing>>

\* The write to the caller fails: the owner's session ends.
ForwardFails(i) ==
    /\ i \in settled /\ ~IsTask(i)
    /\ settled' = settled \ {i}
    /\ corr' = corr \ {i}
    /\ LifeLeave(Of(i).owner)
    /\ UNCHANGED <<fence, call, relayVars, wire, answerVars, closing>>

\* A Cancel frame of the caller; the cancel to the owner may fail and ends the
\* caller's session then.
CallerCancels(i) ==
    /\ At(i, "out") /\ ~IsTask(i) /\ Reads(Of(i).caller)
    /\ i \in corr /\ i \in pending
    /\ pending' = pending \ {i} /\ corr' = corr \ {i}
    /\ cancelled' = cancelled \cup {i}
    /\ LifeLeave(Of(i).caller) \/ (Writable(Of(i).owner) /\ UNCHANGED lifeVars)
    /\ UNCHANGED <<fence, call, expired, settled, wire, told, reported, closing>>

\* Mutation: the calls of durable tasks have no deadline.
DeadlineOfCallers(i) ==
    /\ i \in pending /\ ~IsTask(i)
    /\ pending' = pending \ {i} /\ expired' = expired \cup {i}
    /\ UNCHANGED <<lifeVars, fence, call, corr, settled, wire, answerVars, closing>>

\* The deadline sweep: the relay first, as soon as the call is relayed.
Deadline(i) ==
    /\ i \in pending
    /\ pending' = pending \ {i} /\ expired' = expired \cup {i}
    /\ UNCHANGED <<lifeVars, fence, call, corr, settled, wire, answerVars, closing>>

\* Mutation: the deadline is reported without a look at the correlation.
DeadlineReportedBlindly(i) ==
    /\ i \in expired
    /\ expired' = expired \ {i}
    /\ corr' = corr \ {i}
    /\ reported' = [reported EXCEPT ![i] = IF IsTask(i) THEN @ + 1 ELSE @]
    /\ UNCHANGED <<lifeVars, fence, call, pending, settled, wire, told, cancelled, closing>>

\* then on_relay_deadline: a task learns it if its correlation was still there; a
\* caller gets no frame.
DeadlineReported(i) ==
    /\ i \in expired
    /\ expired' = expired \ {i}
    /\ corr' = corr \ {i}
    /\ reported' = [reported EXCEPT ![i] = IF i \in corr /\ IsTask(i) THEN @ + 1 ELSE @]
    /\ UNCHANGED <<lifeVars, fence, call, pending, settled, wire, told, cancelled, closing>>

-----------------------------------------------------------------------------
(* ActorSessionOwnerConsumer::on_session_closed *)

\* Mutation: only the correlations the session owns are dropped.
CloseOwnedCorrelations(c) ==
    /\ closing = NoConnection /\ c \in inbox
    /\ closing' = c
    /\ LET uncertain == {i \in corr : IsTask(i) /\ Of(i).owner = c}
       IN reported' = [i \in Invocations |-> reported[i] + (IF i \in uncertain THEN 1 ELSE 0)]
    /\ pending' = {i \in pending : Of(i).caller # c}
    /\ corr' = {i \in corr : Of(i).owner # c}
    /\ UNCHANGED <<lifeVars, fence, call, expired, settled, wire, told, cancelled>>

\* on_runtime_session_closed: calls of the session are cancelled, task attempts it
\* owned are uncertain, and no correlation of it stays.
CloseCorrelations(c) ==
    /\ closing = NoConnection /\ c \in inbox
    /\ closing' = c
    /\ LET uncertain == {i \in corr : IsTask(i) /\ Of(i).owner = c}
       IN reported' = [i \in Invocations |-> reported[i] + (IF i \in uncertain THEN 1 ELSE 0)]
    /\ pending' = {i \in pending : Of(i).caller # c}
    /\ corr' = {i \in corr : Of(i).owner # c /\ Of(i).caller # c}
    /\ UNCHANGED <<lifeVars, fence, call, expired, settled, wire, told, cancelled>>

\* relay.on_caller_disconnect and on_owner_disconnect, their results dropped.
ClosePending ==
    /\ closing # NoConnection
    /\ pending' = {i \in pending : /\ Of(i).caller # closing
                                   /\ ~(Of(i).owner = closing /\ Of(i).target = bound[closing])}
    /\ closing' = NoConnection
    /\ LifeConsume(closing)
    /\ UNCHANGED <<fence, call, expired, corr, settled, wire, answerVars>>

SessionMoves(c) == ~Handling(c) /\ LifeStep(c) /\ UNCHANGED callVars

-----------------------------------------------------------------------------

Handler(i) == RelayInvoke(i) \/ Correlate(i) \/ InvokeWritten(i) \/ InvokeUnwritten(i)

InvocationNext ==
    \/ \E a \in Actors : FenceChanges(a)
    \/ \E i \in Invocations :
        \/ \E a \in Actors : FindForTask(i, a) \/ \E c \in Connections : Find(i, a, c)
        \/ Handler(i)
        \/ Forward(i) \/ ForwardFails(i) \/ CallerCancels(i)
        \/ Deadline(i) \/ DeadlineReported(i)
    \/ \E f \in wire : OwnerAnswers(f) \/ OwnerRefuses(f)
    \/ \E c \in Connections : CloseCorrelations(c) \/ SessionMoves(c)
    \/ ClosePending

\* Handlers run to their end, the timer pump ticks, the consumer works its mailbox off.
InvocationFairness ==
    /\ \A i \in Invocations : /\ WF_invocationVars(Handler(i))
                              /\ WF_invocationVars(Forward(i) \/ ForwardFails(i))
                              /\ WF_invocationVars(Deadline(i))
                              /\ WF_invocationVars(DeadlineReported(i))
    /\ \A c \in Connections : WF_invocationVars(CloseCorrelations(c))
    /\ WF_invocationVars(ClosePending)

InvocationSpec == InvocationInit /\ [][InvocationNext]_invocationVars
FairInvocationSpec == InvocationSpec /\ InvocationFairness

-----------------------------------------------------------------------------
(* Properties *)

\* A call ends once: of the answer told to its caller, the report to the task plane and
\* the caller's cancel at most one happens, whichever of answer, deadline, cancel and
\* session close race for it (on_owner_settle, on_relay_deadline,
\* on_runtime_session_closed).  The decision that a task's admission returns itself, after
\* a failed write, is not counted.
EndsOnce ==
    \A i \in Invocations :
        told[i] + reported[i] + Cardinality({i} \cap cancelled) <= 1

\* Once the consumer has processed the terminal of a session nothing is left of the
\* calls it made, in the relay or in the sink (on_runtime_session_closed,
\* relay.on_caller_disconnect): the record is forgotten next.
ClosedCallerIsForgotten ==
    \A c \in Connections : stage[c] = "barrier" /\ c \notin inbox
        => \A i \in pending \cup corr : Of(i).caller # c

\* Relay occupancy returns to zero: a pending call ends, at its deadline at the
\* latest (invocation.rs expire_deadlines).
PendingEnds == \A i \in Invocations : (i \in pending) ~> (i \notin pending)

\* The handler of a call ends and its session reads on (actor_sink.rs, admission.rs
\* invoke_actor_method).
HandlerEnds ==
    \A i \in Invocations :
        (call[i] # NoCall) ~> (call[i] # NoCall /\ call[i].step \in {"out", "failed", "dropped"})

\* The correlation of a call that is out ends with its pending entry.  Violated: an
\* attempt correlated while the consumer of its owner's session is between sink and
\* relay loses its pending entry only, and nothing looks for the correlation again.
CorrelationIsLive ==
    \A i \in corr : At(i, "out") => i \in pending \cup settled \cup expired

\* A caller that stays connected learns how its call ended.  Violated: deadline and
\* owner disconnect drop the caller's terminal.
CallerLearnsOutcome ==
    \A i \in Invocations :
        (i \in pending /\ ~IsTask(i))
            ~> (told[i] = 1 \/ i \in cancelled
                \/ (call[i] # NoCall /\ ~IsTask(i) /\ stage[Of(i).caller] # "registered"))

\* An invoke frame goes to the runtime its fence names.  Violated: a task's goes to
\* the picked candidate.
InvokeReachesOwner == \A f \in wire : bound[f.conn] = Of(f.inv).target

\* A failed write ends the session it was for.  Violated: it ends the session whose
\* frame was being handled.
FailedWriteClosesItsTarget ==
    [][\A i \in Invocations : (At(i, "correlated") /\ At(i, "failed")' /\ ~IsTask(i))
            => stage'[Of(i).caller] = stage[Of(i).caller]]_invocationVars
=============================================================================
