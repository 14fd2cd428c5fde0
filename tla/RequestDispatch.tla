---------------------------- MODULE RequestDispatch ----------------------------
(***************************************************************************)
(* The Router's request dispatcher (router/src/dispatch) and the HTTP side *)
(* of it (router/src/supervisor/http.rs), composed with the runtime        *)
(* sessions: a request is admitted to a session under a permit, its        *)
(* response frames are relayed by the task of that session to the HTTP     *)
(* phase that waits for it, and the close of the session ends it.          *)
(*                                                                         *)
(* The dispatcher is one mutex: submit holds it from the candidate view to *)
(* the insertion of the pending, while the session tasks go on.  Request   *)
(* ids are never reused (new_request_id), so a request is submitted once.  *)
(***************************************************************************)
EXTENDS RuntimeSession

CONSTANTS Requests,         \* request ids
          MaxChunks,        \* bound on the chunks of one stream
          ChannelCapacity,  \* DISPATCH_EVENT_CHANNEL_CAPACITY
          NoPending, NoSubmit

ASSUME RequestAssumption ==
    /\ MaxChunks \in Nat
    /\ ChannelCapacity \in Nat \ {0}
    /\ "RequestDispatcher" \in Consumers
    /\ NoPending \notin [session : Connections, streaming : BOOLEAN]
    /\ NoSubmit \notin [request : Requests, leases : SUBSET Connections,
                        session : Connections, writer : BOOLEAN, valid : BOOLEAN]

VARIABLES
    kind,        \* what was submitted under a request id
    pending,     \* RequestDispatcher::pending
    inFlight,    \* RuntimeAdmissionPool::in_flight
    closed,      \* closed_sessions
    submitting,  \* the submit that holds the dispatcher's lock
    relay,       \* events the request sink of a session has still to deliver
    consumed,    \* the terminal the dispatcher's session consumer works on
    unrelayed,   \* requests it has still to tell of the disconnect
    correlated,  \* PendingHttpRouter entries
    channel,     \* their event channels
    caller,      \* the HTTP phase of a request, or the outcome of a task attempt
    sent,        \* chunks the dispatcher accepted (next_seq, kept after the end)
    body         \* chunks the HTTP phase gave to its client

dispatcherVars == <<pending, inFlight, closed, submitting>>
httpVars == <<correlated, channel, caller, body>>
relayVars == <<relay, consumed, unrelayed>>
requestVars == <<kind, sent, dispatcherVars, httpVars, relayVars>>
vars == <<sessionVars, requestVars>>

\* What stays when the dispatcher asks for the close of a session.
sessionsButClose == <<phase, preAuth, failStop, bindVars, directoryVars, spawned, handles,
                      stopping, queueVars, consumerVars>>

\* A stream is followed chunk by chunk.  A feed is a stream whose chunks nobody
\* counts, and which may go on for ever: an empty chunk is legal and costs
\* nothing against http_max_response_bytes.
Streams == {"stream", "feed"}
HttpKinds == {"unary"} \cup Streams
Kinds == HttpKinds \cup {"task"}
Pending == [session : Connections, streaming : BOOLEAN]
Submit == [request : Requests, leases : SUBSET Connections, session : Connections,
           writer : BOOLEAN, valid : BOOLEAN]
Terminals == {"completed", "failed", "cancelled", "protocolError"}
Events == [type : {"start", "chunk", "end", "error"} \cup Terminals, seq : 0..MaxChunks]
Ended == {"rejected", "answered", "refused", "timedOut", "gone", "succeeded",
          "attemptFailed", "uncertain"}

DispatcherTypeOK ==
    /\ pending \in [Requests -> Pending \cup {NoPending}]
    /\ inFlight \in [Connections -> Nat]
    /\ closed \subseteq Connections
    /\ submitting \in Submit \cup {NoSubmit}

RelayTypeOK ==
    /\ relay \in [Connections -> Seq([request : Requests, event : Events])]
    /\ consumed \in Connections \cup {NoConnection}
    /\ unrelayed \subseteq Requests

HttpTypeOK ==
    /\ kind \in [Requests -> Kinds \cup {"none"}]
    /\ correlated \subseteq Requests
    /\ channel \in [Requests -> Seq(Events)]
    /\ caller \in [Requests -> {"idle", "submitted", "accepted", "waiting"} \cup Ended]
    /\ sent \in [Requests -> 0..MaxChunks]
    /\ body \in [Requests -> Seq(0..MaxChunks)]

RequestTypeOK == DispatcherTypeOK /\ RelayTypeOK /\ HttpTypeOK

RequestInit ==
    /\ SessionInit
    /\ kind = [q \in Requests |-> "none"]
    /\ pending = [q \in Requests |-> NoPending]
    /\ inFlight = [c \in Connections |-> 0]
    /\ closed = {} /\ unrelayed = {} /\ correlated = {}
    /\ submitting = NoSubmit
    /\ relay = [c \in Connections |-> <<>>]
    /\ consumed = NoConnection
    /\ channel = [q \in Requests |-> <<>>]
    /\ caller = [q \in Requests |-> "idle"]
    /\ sent = [q \in Requests |-> 0]
    /\ body = [q \in Requests |-> <<>>]

Event(t) == [type |-> t, seq |-> 0]
Unlocked == submitting = NoSubmit
HasPending(q) == pending[q] # NoPending
SessionOf(q) == pending[q].session

-----------------------------------------------------------------------------
(* The terminal reducer (terminal_locked) *)

\* The pending is detached and its permit released.
Detach(q) ==
    /\ pending' = [pending EXCEPT ![q] = NoPending]
    /\ inFlight' = [inFlight EXCEPT ![SessionOf(q)] = @ - 1]

\* request.cancel is queued without waiting; when the writer is gone or its
\* budget is spent, the exact session is aborted instead.
CancelFrame(c) ==
    \/ c \in writers /\ UNCHANGED cancelReq
    \/ cancelReq' = RequestClose(c)

\* timeout, client_disconnect, caller_abort and backpressure: nothing happens
\* when the pending is already gone.
Cancel(q) ==
    \/ /\ HasPending(q)
       /\ Detach(q)
       /\ CancelFrame(SessionOf(q))
    \/ /\ ~HasPending(q)
       /\ UNCHANGED <<pending, inFlight, cancelReq>>

-----------------------------------------------------------------------------
(* Admission: submit and task_attempt_submit *)

HasCapacity(c) == inFlight[c] < MaxConcurrency

\* The candidate view, without the sessions whose terminal was seen.  A task
\* attempt of a test case admits only the session it prefers.
Leases(only) == {c \in Connections : Candidate(c) /\ c \notin closed} \cap only

Admissible(k) == IF k = "task" THEN {Connections} \cup {{c} : c \in Connections} ELSE {Connections}

\* Refused before a permit is taken: no candidate, or every candidate full.
SubmitRejected(q, k) ==
    /\ Unlocked /\ caller[q] = "idle"
    /\ \E only \in Admissible(k) : \A c \in Leases(only) : ~HasCapacity(c)
    /\ kind' = [kind EXCEPT ![q] = k]
    /\ caller' = [caller EXCEPT ![q] = "rejected"]
    /\ UNCHANGED <<sent, sessionVars, dispatcherVars, correlated, channel, body, relayVars>>

\* Select a candidate with capacity and reserve a permit.  The round-robin
\* cursor and the preference of an ordinary request only choose among them.
SubmitSelect(q, k) ==
    /\ Unlocked /\ caller[q] = "idle"
    /\ \E only \in Admissible(k) : \E c \in Leases(only) :
         /\ HasCapacity(c)
         /\ inFlight' = [inFlight EXCEPT ![c] = @ + 1]
         /\ submitting' = [request |-> q, leases |-> Leases(only), session |-> c,
                           writer |-> FALSE, valid |-> FALSE]
    /\ kind' = [kind EXCEPT ![q] = k]
    /\ caller' = [caller EXCEPT ![q] = "submitted"]
    /\ UNCHANGED <<sent, sessionVars, pending, closed, correlated, channel, body, relayVars>>

Reject ==
    /\ submitting' = NoSubmit
    /\ caller' = [caller EXCEPT ![submitting.request] = "rejected"]

\* The deadline passed after the reservation: the permit goes back.
SubmitExpired ==
    /\ ~Unlocked /\ ~submitting.valid
    /\ Reject
    /\ inFlight' = [inFlight EXCEPT ![submitting.session] = @ - 1]
    /\ UNCHANGED <<kind, sent, sessionVars, pending, closed, correlated, channel, body,
                   relayVars>>

\* revalidate: the record is still there and not cancelled.  Then the frame
\* writer of the session is looked up.
SubmitRevalidated ==
    /\ ~Unlocked /\ ~submitting.valid
    /\ Live(submitting.session)
    /\ submitting' = [submitting EXCEPT !.valid = TRUE, !.writer = submitting.session \in writers]
    /\ UNCHANGED <<kind, sent, sessionVars, pending, inFlight, closed, httpVars, relayVars>>

\* Mutation: the permit of the session that failed is kept.
SubmitReselectedKeeps ==
    /\ ~Unlocked /\ ~submitting.valid
    /\ ~Live(submitting.session)
    /\ \E c \in submitting.leases \ {submitting.session} :
         /\ HasCapacity(c)
         /\ submitting' = [submitting EXCEPT !.session = c, !.valid = TRUE,
                                             !.writer = c \in writers]
         /\ inFlight' = [inFlight EXCEPT ![c] = @ + 1]
    /\ UNCHANGED <<kind, sent, sessionVars, pending, closed, httpVars, relayVars>>

\* Revalidation failed: give the permit back and take any other lease with
\* capacity, which is not revalidated again; without one, fail closed.
SubmitReselected ==
    /\ ~Unlocked /\ ~submitting.valid
    /\ ~Live(submitting.session)
    /\ LET others == {c \in submitting.leases \ {submitting.session} : HasCapacity(c)}
       IN \/ \E c \in others :
               /\ submitting' = [submitting EXCEPT !.session = c, !.valid = TRUE,
                                                   !.writer = c \in writers]
               /\ inFlight' = [inFlight EXCEPT ![submitting.session] = @ - 1, ![c] = @ + 1]
               /\ UNCHANGED caller
          \/ /\ others = {}
             /\ Reject
             /\ inFlight' = [inFlight EXCEPT ![submitting.session] = @ - 1]
    /\ UNCHANGED <<kind, sent, sessionVars, pending, closed, correlated, channel, body,
                   relayVars>>

\* enqueue_locked: request.start is queued and the pending inserted.
SubmitEnqueued ==
    /\ ~Unlocked /\ submitting.valid /\ submitting.writer
    /\ pending' = [pending EXCEPT ![submitting.request] =
                      [session |-> submitting.session, streaming |-> FALSE]]
    /\ submitting' = NoSubmit
    /\ caller' = [caller EXCEPT ![submitting.request] = "accepted"]
    /\ UNCHANGED <<kind, sent, sessionVars, inFlight, closed, correlated, channel, body,
                   relayVars>>

\* enqueue_locked: no writer, or its budget refused the frame.  The permit is
\* released and the session aborted.
SubmitUnwritten ==
    /\ ~Unlocked /\ submitting.valid
    /\ Reject
    /\ inFlight' = [inFlight EXCEPT ![submitting.session] = @ - 1]
    /\ cancelReq' = RequestClose(submitting.session)
    /\ UNCHANGED <<kind, sent, sessionsButClose, pending, closed, correlated, channel, body,
                   relayVars>>

EndSubmit == SubmitExpired \/ SubmitRevalidated \/ SubmitReselected \/ SubmitEnqueued
                \/ SubmitUnwritten

-----------------------------------------------------------------------------
(* Response frames (on_frame, in RequestFrameSink::handle on the task of    *)
(* the session).  A frame of another session than the pending's is ignored. *)

\* The exact-socket fence, on a session whose task reads its next frame.
FrameOf(c, q) ==
    /\ phase[c] = "registered" /\ relay[c] = <<>> /\ Unlocked
    /\ HasPending(q) /\ SessionOf(q) = c

\* The events an HTTP request gets; a task attempt has no HTTP phase.
Relay(c, q, events) ==
    relay' = IF kind[q] = "task" THEN relay
             ELSE [relay EXCEPT ![c] = [i \in DOMAIN events |->
                                          [request |-> q, event |-> events[i]]]]

\* The settlement port is called for a task attempt.
Settle(q, outcome) ==
    caller' = IF kind[q] = "task" THEN [caller EXCEPT ![q] = outcome] ELSE caller

ResponseStart(c, q) ==
    /\ FrameOf(c, q) /\ kind[q] \in Streams /\ ~pending[q].streaming
    /\ pending' = [pending EXCEPT ![q].streaming = TRUE]
    /\ Relay(c, q, <<Event("start")>>)
    /\ UNCHANGED <<kind, sent, sessionVars, inFlight, closed, submitting, httpVars, consumed,
                   unrelayed>>

\* A chunk with the expected number.
ResponseChunk(c, q) ==
    /\ FrameOf(c, q) /\ kind[q] = "stream" /\ pending[q].streaming
    /\ sent[q] < MaxChunks
    /\ sent' = [sent EXCEPT ![q] = @ + 1]
    /\ Relay(c, q, <<[type |-> "chunk", seq |-> sent[q]]>>)
    /\ UNCHANGED <<kind, sessionVars, dispatcherVars, httpVars, consumed, unrelayed>>

\* A chunk of a feed.
FeedChunk(c, q) ==
    /\ FrameOf(c, q) /\ kind[q] = "feed" /\ pending[q].streaming
    /\ Relay(c, q, <<Event("chunk")>>)
    /\ UNCHANGED <<kind, sent, sessionVars, dispatcherVars, httpVars, consumed, unrelayed>>

ResponseEnd(c, q) ==
    /\ FrameOf(c, q)
    /\ kind[q] \in Streams => pending[q].streaming
    /\ Detach(q)
    /\ Relay(c, q, <<Event("end"), Event("completed")>>)
    /\ Settle(q, "succeeded")
    /\ UNCHANGED <<kind, sent, sessionVars, closed, submitting, correlated, channel, body,
                   consumed, unrelayed>>

\* response.error, or request.cancel with a known reason.
ResponseError(c, q) ==
    /\ FrameOf(c, q)
    /\ Detach(q)
    /\ \/ Relay(c, q, <<Event("error"), Event("failed")>>)
       \/ Relay(c, q, <<Event("cancelled")>>)
    /\ Settle(q, "attemptFailed")
    /\ UNCHANGED <<kind, sent, sessionVars, closed, submitting, correlated, channel, body,
                   consumed, unrelayed>>

\* Any other frame: out of phase, out of order, with a payload it must not have.
ResponseViolation(c, q) ==
    /\ FrameOf(c, q)
    /\ Cancel(q)
    /\ Relay(c, q, <<Event("protocolError")>>)
    /\ Settle(q, "uncertain")
    /\ UNCHANGED <<kind, sent, sessionsButClose, closed, submitting, correlated, channel, body,
                   consumed, unrelayed>>

-----------------------------------------------------------------------------
(* PendingHttpRouter::deliver *)

Deliverable(q) == q \in correlated /\ Len(channel[q]) < ChannelCapacity

RelayDelivered(c) ==
    /\ relay[c] # <<>>
    /\ LET q == Head(relay[c]).request
       IN /\ Deliverable(q)
          /\ channel' = [channel EXCEPT ![q] = Append(@, Head(relay[c]).event)]
    /\ relay' = [relay EXCEPT ![c] = Tail(@)]
    /\ UNCHANGED <<kind, sent, sessionVars, dispatcherVars, correlated, caller, body, consumed,
                   unrelayed>>

\* Mutation: a frame that cannot be delivered is skipped.
RelaySkipped(c) ==
    /\ relay[c] # <<>>
    /\ ~Deliverable(Head(relay[c]).request)
    /\ relay' = [relay EXCEPT ![c] = Tail(@)]
    /\ UNCHANGED <<kind, sent, sessionVars, dispatcherVars, httpVars, consumed, unrelayed>>

\* No correlation or a full channel: a frame fails the pending by backpressure
\* (the terminal that returns is dropped), a terminal is simply lost.
RelayFailed(c) ==
    /\ relay[c] # <<>>
    /\ LET q == Head(relay[c]).request
       IN /\ ~Deliverable(q)
          /\ \/ /\ Head(relay[c]).event.type \in Terminals
                /\ UNCHANGED <<pending, inFlight, cancelReq>>
             \/ /\ Head(relay[c]).event.type \notin Terminals
                /\ Unlocked
                /\ Cancel(q)
    /\ relay' = [relay EXCEPT ![c] = Tail(@)]
    /\ UNCHANGED <<kind, sent, sessionsButClose, closed, submitting, httpVars, consumed,
                   unrelayed>>

-----------------------------------------------------------------------------
(* The HTTP phase: dispatch_unary, dispatch_test and dispatch_stream *)

\* register, only after submit has returned.
Register(q) ==
    /\ caller[q] = "accepted" /\ kind[q] \in HttpKinds
    /\ correlated' = correlated \cup {q}
    /\ caller' = [caller EXCEPT ![q] = "waiting"]
    /\ UNCHANGED <<kind, sent, sessionVars, dispatcherVars, relayVars, channel, body>>

\* The phase ends and its correlation is unregistered.
Leave(q, outcome) ==
    /\ caller' = [caller EXCEPT ![q] = outcome]
    /\ correlated' = correlated \ {q}
    /\ channel' = [channel EXCEPT ![q] = <<>>]

\* Mutation: the phase waits on when the pending is gone.
AbandonPending(q, outcome) ==
    /\ caller[q] = "waiting" /\ Unlocked /\ HasPending(q)
    /\ Leave(q, outcome)
    /\ Cancel(q)
    /\ UNCHANGED <<kind, sent, sessionsButClose, closed, submitting, relayVars, body>>

\* The client went away, the request timed out, or (a stream) the sink of the
\* body refused an event: the dispatcher is told, whether or not it has a pending.
Abandon(q, outcome) ==
    /\ caller[q] = "waiting" /\ Unlocked
    /\ Leave(q, outcome)
    /\ Cancel(q)
    /\ UNCHANGED <<kind, sent, sessionsButClose, closed, submitting, relayVars, body>>

ClientGone(q) == Abandon(q, "gone")

\* The timer of a unary phase is set once; that of a stream is set again for
\* every event it waits for.
CallerTimeout(q) == Abandon(q, "timedOut")

SinkRefused(q) ==
    /\ kind[q] \in Streams /\ channel[q] # <<>>
    /\ Head(channel[q]).type \in {"start", "chunk", "end"}
    /\ Abandon(q, "refused")

\* An event that ends the phase: the end of a unary response, the completion of
\* a stream, an error or any other terminal.
Answer(q) ==
    /\ caller[q] = "waiting" /\ channel[q] # <<>>
    /\ LET t == Head(channel[q]).type
       IN \/ /\ t = (IF kind[q] = "unary" THEN "end" ELSE "completed")
             /\ Leave(q, "answered")
          \/ /\ t \in {"error", "failed", "cancelled", "protocolError"}
                    \cup (IF kind[q] = "unary" THEN {"completed"} ELSE {})
             /\ Leave(q, "refused")
    /\ UNCHANGED <<kind, sent, sessionVars, dispatcherVars, relayVars, body>>

\* A stream event passed on to the client.
StreamOn(q) ==
    /\ caller[q] = "waiting" /\ kind[q] \in Streams /\ channel[q] # <<>>
    /\ LET e == Head(channel[q])
       IN \/ /\ e.type = "chunk" /\ kind[q] = "stream"
             /\ body' = [body EXCEPT ![q] = Append(@, e.seq)]
          \/ /\ e.type \in {"start", "end"} \cup (IF kind[q] = "feed" THEN {"chunk"} ELSE {})
             /\ UNCHANGED body
    /\ channel' = [channel EXCEPT ![q] = Tail(@)]
    /\ UNCHANGED <<kind, sent, sessionVars, dispatcherVars, relayVars, correlated, caller>>

\* sweep_deadlines: the control plane that tracks a task attempt times it out;
\* nothing happens when its terminal came first.
AttemptTimeout(q) ==
    /\ kind[q] = "task" /\ HasPending(q) /\ Unlocked
    /\ Cancel(q)
    /\ Settle(q, "attemptFailed")
    /\ UNCHANGED <<kind, sent, sessionsButClose, closed, submitting, relayVars, correlated,
                   channel, body>>

-----------------------------------------------------------------------------
(* The dispatcher as a session consumer (DispatcherSessionConsumer) *)

\* Mutation: the pendings are collected without the dispatcher's lock.
SessionClosedUnlocked ==
    /\ consumed = NoConnection
    /\ mailbox["RequestDispatcher"] # <<>>
    /\ LET c == Head(mailbox["RequestDispatcher"])
           lost == {q \in Requests : HasPending(q) /\ SessionOf(q) = c}
       IN /\ consumed' = c
          /\ closed' = closed \cup {c}
          /\ pending' = [q \in Requests |-> IF q \in lost THEN NoPending ELSE pending[q]]
          /\ inFlight' = [inFlight EXCEPT ![c] = @ - Cardinality(lost)]
    /\ UNCHANGED <<kind, sent, sessionVars, submitting, httpVars, relay, unrelayed>>

\* Mutation: the settlement port is not told of the task attempts.
SessionClosedUntold ==
    /\ Unlocked /\ consumed = NoConnection
    /\ mailbox["RequestDispatcher"] # <<>>
    /\ LET c == Head(mailbox["RequestDispatcher"])
           lost == {q \in Requests : HasPending(q) /\ SessionOf(q) = c}
       IN /\ consumed' = c
          /\ closed' = closed \cup {c}
          /\ pending' = [q \in Requests |-> IF q \in lost THEN NoPending ELSE pending[q]]
          /\ inFlight' = [inFlight EXCEPT ![c] = @ - Cardinality(lost)]
          /\ unrelayed' = {q \in lost : kind[q] # "task"}
    /\ UNCHANGED <<kind, sent, sessionVars, submitting, httpVars, relay>>

\* on_session_closed: every pending of the exact session ends, without cancel
\* frames.
SessionClosed ==
    /\ Unlocked /\ consumed = NoConnection
    /\ mailbox["RequestDispatcher"] # <<>>
    /\ LET c == Head(mailbox["RequestDispatcher"])
           lost == {q \in Requests : HasPending(q) /\ SessionOf(q) = c}
       IN /\ consumed' = c
          /\ closed' = closed \cup {c}
          /\ pending' = [q \in Requests |-> IF q \in lost THEN NoPending ELSE pending[q]]
          /\ inFlight' = [inFlight EXCEPT ![c] = @ - Cardinality(lost)]
          /\ unrelayed' = {q \in lost : kind[q] # "task"}
          /\ caller' = [q \in Requests |-> IF q \in lost /\ kind[q] = "task" THEN "uncertain"
                                           ELSE caller[q]]
    /\ UNCHANGED <<kind, sent, sessionVars, submitting, correlated, channel, body, relay>>

\* Their terminals are delivered, or lost when they cannot be.
RelayDisconnect(q) ==
    /\ q \in unrelayed
    /\ unrelayed' = unrelayed \ {q}
    /\ channel' = IF Deliverable(q) THEN [channel EXCEPT ![q] = Append(@, Event("cancelled"))]
                  ELSE channel
    /\ UNCHANGED <<kind, sent, sessionVars, dispatcherVars, correlated, caller, body, relay,
                   consumed>>

\* Mutation: the close is acknowledged before it was handled.
AcknowledgeEarly ==
    /\ ConsumeTerminal("RequestDispatcher")
    /\ consumed' = NoConnection
    /\ UNCHANGED <<kind, sent, dispatcherVars, httpVars, relay, unrelayed>>

\* Then the consumer acknowledges.
Acknowledge ==
    /\ consumed # NoConnection /\ unrelayed = {}
    /\ ConsumeTerminal("RequestDispatcher")
    /\ consumed' = NoConnection
    /\ UNCHANGED <<kind, sent, dispatcherVars, httpVars, relay, unrelayed>>

-----------------------------------------------------------------------------

\* The session layer moves, health observations left out; the task of a session reads no frame and sees no
\* signal while it relays one, and the dispatcher acknowledges by Acknowledge.
SessionMoves ==
    /\ \/ \E c \in Connections :
            (relay[c] = <<>> /\ SessionStep(c)) \/ ConnectionStep(c)
       \/ \E k \in Consumers \ {"RequestDispatcher"} : ConsumeTerminal(k)
       \/ Shutdown
    /\ UNCHANGED requestVars

FrameStep(c, q) ==
    \/ ResponseStart(c, q) \/ ResponseChunk(c, q) \/ FeedChunk(c, q) \/ ResponseEnd(c, q)
    \/ ResponseError(c, q) \/ ResponseViolation(c, q)

RelayStep(c) == RelayDelivered(c) \/ RelayFailed(c)

\* An event of the channel is taken: the sink of the body has a drain timeout.
PhaseStep(q) == SinkRefused(q) \/ Answer(q) \/ StreamOn(q)

CallerStep(q) ==
    \/ Register(q) \/ ClientGone(q) \/ CallerTimeout(q) \/ PhaseStep(q) \/ AttemptTimeout(q)

ConsumerStep == SessionClosed \/ (\E q \in Requests : RelayDisconnect(q)) \/ Acknowledge

RequestNext ==
    \/ SessionMoves
    \/ \E q \in Requests, k \in Kinds : SubmitRejected(q, k) \/ SubmitSelect(q, k)
    \/ EndSubmit
    \/ \E c \in Connections, q \in Requests : FrameStep(c, q)
    \/ \E c \in Connections : RelayStep(c)
    \/ \E q \in Requests : CallerStep(q)
    \/ ConsumerStep

\* No task waits for a peer to go on: submit ends, the sink relays what it
\* accepted, the phase registers, takes its events and times out when none
\* comes, the control plane sweeps its attempts, the consumer goes on, and a
\* closing session task closes.
RequestFairness ==
    /\ WF_vars(EndSubmit)
    /\ WF_vars(ConsumerStep)
    /\ \A c \in Connections :
         /\ WF_vars(RelayStep(c))
         /\ WF_vars(relay[c] = <<>> /\ LeaveOnSignal(c) /\ UNCHANGED requestVars)
         /\ WF_vars(relay[c] = <<>> /\ CloseStep(c) /\ UNCHANGED requestVars)
    /\ \A q \in Requests :
         /\ WF_vars(Register(q)) /\ WF_vars(PhaseStep(q)) /\ WF_vars(AttemptTimeout(q))
         /\ WF_vars(channel[q] = <<>> /\ CallerTimeout(q))

RequestSpec == RequestInit /\ [][RequestNext]_vars /\ RequestFairness

-----------------------------------------------------------------------------
(* Properties *)

\* admission.rs: "a reservation/permit is strictly paired with exactly one
\* release".  The permits of a session are its pendings and the reservation of
\* a running submit, and never exceed runtime.maxConcurrency.
PermitsArePaired ==
    \A c \in Connections :
        /\ inFlight[c] = Cardinality({q \in Requests : HasPending(q) /\ SessionOf(q) = c})
                          + (IF submitting # NoSubmit /\ submitting.session = c THEN 1 ELSE 0)
        /\ inFlight[c] <= MaxConcurrency

\* No pending is left on, or added to, a session whose terminal the dispatcher
\* has processed: nobody would ever end it.
NoPendingOnClosedSession ==
    \A q \in Requests : HasPending(q) => SessionOf(q) \notin closed

\* The close barrier covers the dispatcher: the record of a session stays as
\* long as a request is pending on it.
PendingHasRecord ==
    \A q \in Requests : HasPending(q) => Recorded(SessionOf(q))

\* The client of a stream gets the chunks the Runtime sent, in order and without
\* a gap, whatever the channel drops; a stream that ended well is complete.
StreamIsWhole ==
    \A q \in Requests :
        /\ \A i \in 1..Len(body[q]) : body[q][i] = i - 1
        /\ (kind[q] = "stream" /\ caller[q] = "answered") => Len(body[q]) = sent[q]

\* An accepted HTTP request ends, by a terminal, its deadline or its client (http.rs
\* dispatch_unary, dispatch_stream): a unary one always, a stream unless events
\* keep coming, since each of them sets its timer again.
CallerEnds ==
    \A q \in Requests :
        <>[](kind[q] = "unary" \/ channel[q] = <<>>) =>
            ((caller[q] = "submitted") ~> (caller[q] \in Ended \/ kind[q] = "task"))

\* A request never stays pending for ever once its HTTP phase has ended (dispatcher.rs
\* client_disconnect).
NoOrphanPending ==
    \A q \in Requests : (caller[q] \in Ended) ~> ~HasPending(q)

\* The control plane is told how every accepted task attempt ended: by its
\* response, the loss of its session, a protocol error or its own deadline.
AttemptIsReported ==
    \A q \in Requests :
        (kind[q] = "task" /\ caller[q] = "accepted")
            ~> (caller[q] \in {"succeeded", "attemptFailed", "uncertain"})

-----------------------------------------------------------------------------
(* What the code's comments say and the code does not do *)

\* c-dispatch contract, 7.5: at its deadline a request ends.  Violated: dispatch_stream
\* starts its timer again for every event.
StreamEnds ==
    \A q \in Requests : (caller[q] = "submitted") ~> (caller[q] \in Ended \/ kind[q] = "task")

\* http.rs:113: deliver's "`false` means the channel is full or the HTTP phase is
\* gone".
UndeliveredMeansGone ==
    [][\A c \in Connections :
         (RelayFailed(c) /\ Head(relay[c]).event.type \notin Terminals)
             => LET q == Head(relay[c]).request
                IN Len(channel[q]) = ChannelCapacity \/ caller[q] \in Ended]_vars
=============================================================================
