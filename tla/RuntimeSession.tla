---------------------------- MODULE RuntimeSession ----------------------------
(***************************************************************************)
(* The Router's runtime sessions (router/src/session): one task per        *)
(* physical connection, its handshake, the registration directory, the     *)
(* reserved terminal mailboxes of the session consumers, the close barrier *)
(* and the pre-auth pool.                                                  *)
(*                                                                         *)
(* A connection stands for its connection id and its generation: both are  *)
(* drawn once, from counters that never repeat, so a session epoch is the  *)
(* pair <<bound[c], c>> and is published at most once.  For that reason    *)
(* the registration revision of a record is a function of its connection   *)
(* and is left out.                                                        *)
(***************************************************************************)
EXTENDS Naturals, Sequences, FiniteSets

CONSTANTS Connections,     \* physical connections the peers may open
          Replicas,        \* runtime ids a peer may announce
          Consumers,       \* installed session consumers (manifest)
          MaxConcurrency,  \* runtime.maxConcurrency: pre-auth cap and mailbox capacity
          Lane,            \* the consumer whose view of the sessions is abstracted
          NoReplica, NoConnection, NoRecord

ASSUME SessionAssumption ==
    /\ MaxConcurrency \in Nat \ {0}
    /\ Lane \in Consumers
    /\ NoReplica \notin Replicas
    /\ NoConnection \notin Connections
    /\ NoRecord \notin [routable : BOOLEAN, cancelled : BOOLEAN]

VARIABLES
    phase,      \* handshake phase, then the stage of the close, per connection
    bound,      \* bound_session: the replica the connection announced
    record,     \* sessions_by_epoch
    current,    \* current_by_replica
    preAuth,    \* connections holding a pre-auth permit
    spawned,    \* connections whose task runs but whose handle is not stored yet
    handles,    \* connections whose task handle is stored
    cancelReq,  \* connections whose cancel or shutdown watch has fired
    writers,    \* sessions with a registered frame writer
    facts,      \* sessions with registration facts
    boot, ack,  \* the bootstrap and registered frames in the outbound queue
    writerErr,  \* the error report of the outbound writer task
    mailbox,    \* terminal mailbox of each consumer
    acks,       \* consumers that have acknowledged the close of a connection
    observed,   \* connections with a retained health observation
    failStop,   \* reason the Router asked to fail-stop, or "none"
    stopping    \* SessionLayer::shutdown has been called

bindVars == <<bound, writers, facts>>
directoryVars == <<record, current>>
layerVars == <<spawned, handles, cancelReq, stopping>>
queueVars == <<boot, ack, writerErr>>
consumerVars == <<mailbox, acks, observed>>
sessionVars == <<phase, preAuth, failStop, bindVars, directoryVars, layerVars,
                 queueVars, consumerVars>>

\* The select loop of run_session_task still runs.
OpenPhases == {"accepted", "bootstrapSent", "capabilitiesBound", "registered"}
BoundPhases == {"capabilitiesBound", "registered"}
\* Stages after the loop: writer unregistered, facts removed, barrier waiting,
\* close_session returned, task_finished called.
ClosePhases == {"closed", "writerGone", "factsGone", "barrier", "drained", "finished"}
Phases == {"unused", "refused"} \cup OpenPhases \cup ClosePhases
Frames == {"none", "queued", "written", "lost"}
SessionRecord == [routable : BOOLEAN, cancelled : BOOLEAN]

LayerTypeOK ==
    /\ phase \in [Connections -> Phases]
    /\ bound \in [Connections -> Replicas \cup {NoReplica}]
    /\ record \in [Connections -> SessionRecord \cup {NoRecord}]
    /\ current \in [Replicas -> Connections \cup {NoConnection}]
    /\ preAuth \subseteq Connections
    /\ spawned \subseteq Connections
    /\ handles \subseteq Connections
    /\ cancelReq \subseteq Connections
    /\ writers \subseteq Connections
    /\ facts \subseteq Connections
    /\ failStop \in {"none", "slotFull", "ackTimeout"}
    /\ stopping \in BOOLEAN

QueueTypeOK ==
    /\ boot \in [Connections -> Frames]
    /\ ack \in [Connections -> Frames]
    /\ writerErr \in [Connections -> BOOLEAN]

ConsumerTypeOK ==
    /\ mailbox \in [Consumers -> Seq(Connections)]
    /\ \A k \in Consumers : Len(mailbox[k]) <= MaxConcurrency
    /\ acks \in [Connections -> SUBSET Consumers]
    /\ observed \subseteq Connections

\* One type invariant: every variable holds what the code's types and limits allow.
SessionTypeOK == LayerTypeOK /\ QueueTypeOK /\ ConsumerTypeOK

SessionInit ==
    /\ phase = [c \in Connections |-> "unused"]
    /\ bound = [c \in Connections |-> NoReplica]
    /\ record = [c \in Connections |-> NoRecord]
    /\ current = [r \in Replicas |-> NoConnection]
    /\ preAuth = {} /\ spawned = {} /\ handles = {} /\ cancelReq = {}
    /\ writers = {} /\ facts = {} /\ observed = {}
    /\ boot = [c \in Connections |-> "none"]
    /\ ack = [c \in Connections |-> "none"]
    /\ writerErr = [c \in Connections |-> FALSE]
    /\ mailbox = [k \in Consumers |-> <<>>]
    /\ acks = [c \in Connections |-> {}]
    /\ failStop = "none"
    /\ stopping = FALSE

-----------------------------------------------------------------------------
(* Directory queries and helpers *)

Recorded(c) == record[c] # NoRecord
Live(c) == Recorded(c) /\ ~record[c].cancelled

\* candidates: current, routable, not cancelled; the projection also needs the
\* registration facts of the session.
Candidate(c) ==
    /\ Live(c) /\ record[c].routable
    /\ current[bound[c]] = c
    /\ c \in facts

\* The cancel watch of a connection is reached through the epoch index and the
\* stored handle, and read while the loop of the task runs.
Cancellable(c) == c \in handles /\ bound[c] # NoReplica /\ phase[c] \in OpenPhases

RequestClose(c) == IF Cancellable(c) THEN cancelReq \cup {c} ELSE cancelReq

-----------------------------------------------------------------------------
(* Accepting a connection *)

\* accept: the pre-auth pool is full, the connection is dropped.
AcceptRefused(c) ==
    /\ phase[c] = "unused"
    /\ Cardinality(preAuth) >= MaxConcurrency
    /\ phase' = [phase EXCEPT ![c] = "refused"]
    /\ UNCHANGED <<preAuth, failStop, bindVars, directoryVars, layerVars, queueVars,
                   consumerVars>>

\* accept: take a permit and spawn the task, which queues router.bootstrap.
\* The handle is stored only afterwards, by StoreHandle.
Accept(c) ==
    /\ phase[c] = "unused"
    /\ Cardinality(preAuth) < MaxConcurrency
    /\ preAuth' = preAuth \cup {c}
    /\ phase' = [phase EXCEPT ![c] = "accepted"]
    /\ boot' = [boot EXCEPT ![c] = "queued"]
    /\ spawned' = spawned \cup {c}
    /\ UNCHANGED <<handles, cancelReq, ack, writerErr, failStop, stopping, bindVars,
                   directoryVars, consumerVars>>

StoreHandle(c) ==
    /\ c \in spawned
    /\ spawned' = spawned \ {c}
    /\ handles' = handles \cup {c}
    /\ UNCHANGED <<phase, preAuth, cancelReq, failStop, stopping, bindVars,
                   directoryVars, queueVars, consumerVars>>

-----------------------------------------------------------------------------
(* The outbound writer task.  It drains the queue in order, so the          *)
(* bootstrap frame goes before the registered frame; on an error it reports *)
(* once and ends, and every frame still queued is dropped with its waiter.  *)

WriteFrame(c) ==
    /\ phase[c] \in OpenPhases /\ ~writerErr[c]
    /\ \/ /\ boot[c] = "queued"
          /\ boot' = [boot EXCEPT ![c] = "written"]
          /\ UNCHANGED ack
       \/ /\ boot[c] = "written" /\ ack[c] = "queued"
          /\ ack' = [ack EXCEPT ![c] = "written"]
          /\ UNCHANGED boot
    /\ UNCHANGED <<phase, preAuth, writerErr, failStop, bindVars, directoryVars,
                   layerVars, consumerVars>>

\* A frame waiter completes when its sender is dropped too.
Dropped(frame) == IF frame = "queued" THEN "lost" ELSE frame

\* The failed frame is any queued one, or a business frame of a bound session.
WriterFails(c) ==
    /\ phase[c] \in OpenPhases /\ ~writerErr[c]
    /\ boot[c] = "queued" \/ ack[c] = "queued" \/ c \in writers
    /\ writerErr' = [writerErr EXCEPT ![c] = TRUE]
    /\ boot' = [boot EXCEPT ![c] = Dropped(@)]
    /\ ack' = [ack EXCEPT ![c] = Dropped(@)]
    /\ UNCHANGED <<phase, preAuth, failStop, bindVars, directoryVars, layerVars,
                   consumerVars>>

-----------------------------------------------------------------------------
(* The select loop of the session task *)

\* completed(bootstrap_wait): the waiter resolved, written or dropped.
BootstrapWritten(c) ==
    /\ phase[c] = "accepted"
    /\ boot[c] \in {"written", "lost"}
    /\ phase' = [phase EXCEPT ![c] = "bootstrapSent"]
    /\ UNCHANGED <<preAuth, failStop, bindVars, directoryVars, layerVars, queueVars,
                   consumerVars>>

\* Mutation: the replaced record is not cancelled.
PublishBeside(c, r) ==
    /\ record' = [record EXCEPT ![c] = [routable |-> FALSE, cancelled |-> FALSE]]
    /\ current' = [current EXCEPT ![r] = c]

\* publish_pending: the current record of the replica is cancelled first, then
\* the new record becomes current, not yet routable.
PublishPending(c, r) ==
    /\ record' = [d \in Connections |->
                    IF d = c THEN [routable |-> FALSE, cancelled |-> FALSE]
                    ELSE IF d = current[r] /\ Recorded(d)
                    THEN [record[d] EXCEPT !.cancelled = TRUE]
                    ELSE record[d]]
    /\ current' = [current EXCEPT ![r] = c]

\* CapabilitiesEvent::Bound: register the writer and the facts, publish, close
\* the replaced session, queue the registered ACK; AckLoss when the writer is gone.
BindCapabilities(c, r) ==
    /\ phase[c] = "bootstrapSent"
    /\ bound' = [bound EXCEPT ![c] = r]
    /\ writers' = writers \cup {c}
    /\ facts' = facts \cup {c}
    /\ PublishPending(c, r)
    /\ LET cancelled == IF current[r] # NoConnection THEN RequestClose(current[r]) ELSE cancelReq
       IN \/ /\ ~writerErr[c]
             /\ ack' = [ack EXCEPT ![c] = "queued"]
             /\ phase' = [phase EXCEPT ![c] = "capabilitiesBound"]
             /\ cancelReq' = cancelled
             /\ UNCHANGED <<boot, writerErr>>
          \/ /\ writerErr[c]
             /\ phase' = [phase EXCEPT ![c] = "closed"]
             /\ cancelReq' = cancelled \ {c}
             /\ boot' = [boot EXCEPT ![c] = "none"]
             /\ writerErr' = [writerErr EXCEPT ![c] = FALSE]
             /\ UNCHANGED ack
    /\ UNCHANGED <<preAuth, spawned, handles, failStop, stopping, consumerVars>>

\* mark_registered: false when the record is gone or cancelled.
MarkRegistered(c) ==
    record' = IF Live(c) THEN [record EXCEPT ![c].routable = TRUE] ELSE record

\* completed(ack_wait), again also when the waiter was dropped unwritten.
AckWritten(c) ==
    /\ phase[c] = "capabilitiesBound"
    /\ ack[c] \in {"written", "lost"}
    /\ phase' = [phase EXCEPT ![c] = "registered"]
    /\ MarkRegistered(c)
    /\ preAuth' = preAuth \ {c}
    /\ UNCHANGED <<current, failStop, bindVars, layerVars, queueVars, consumerVars>>

\* runtime.health of a registered session is an observation.
Health(c) ==
    /\ phase[c] = "registered"
    /\ observed' = observed \cup {c}
    /\ UNCHANGED <<phase, preAuth, mailbox, acks, failStop, bindVars, directoryVars,
                   layerVars, queueVars>>

\* The loop ends: its frame waiters, writer report and watch are read no more.
LeaveLoop(c) ==
    /\ phase' = [phase EXCEPT ![c] = "closed"]
    /\ boot' = [boot EXCEPT ![c] = "none"]
    /\ ack' = [ack EXCEPT ![c] = "none"]
    /\ writerErr' = [writerErr EXCEPT ![c] = FALSE]
    /\ cancelReq' = cancelReq \ {c}
    /\ UNCHANGED <<preAuth, spawned, handles, stopping, failStop, bindVars,
                   directoryVars, consumerVars>>

\* Every terminal the peer causes: EOF, read error, text or malformed frame,
\* frame out of phase, changed identity, unknown family, a sink's refusal.
PeerTerminal(c) == phase[c] \in OpenPhases /\ LeaveLoop(c)

\* The bootstrap, capabilities and ACK deadlines; a registered session has none.
Deadline(c) == phase[c] \in OpenPhases \ {"registered"} /\ LeaveLoop(c)

SeeWriterError(c) == phase[c] \in OpenPhases /\ writerErr[c] /\ LeaveLoop(c)

SeeCancel(c) == phase[c] \in OpenPhases /\ c \in cancelReq /\ LeaveLoop(c)

-----------------------------------------------------------------------------
(* Closing *)

UnregisterWriter(c) ==
    /\ phase[c] = "closed"
    /\ phase' = [phase EXCEPT ![c] = "writerGone"]
    /\ writers' = writers \ {c}
    /\ UNCHANGED <<bound, preAuth, facts, failStop, directoryVars, layerVars,
                   queueVars, consumerVars>>

RemoveFacts(c) ==
    /\ phase[c] = "writerGone"
    /\ phase' = [phase EXCEPT ![c] = "factsGone"]
    /\ facts' = facts \ {c}
    /\ UNCHANGED <<bound, preAuth, writers, failStop, directoryVars, layerVars,
                   queueVars, consumerVars>>

HasSlot(k) == Len(mailbox[k]) < MaxConcurrency

Deliver(c, targets) ==
    mailbox' = [k \in Consumers |-> IF k \in targets THEN Append(mailbox[k], c)
                                    ELSE mailbox[k]]

\* begin_close and the terminal deliveries, all slots free: wait for the ACKs.
BeginClose(c) ==
    /\ phase[c] = "factsGone" /\ Recorded(c)
    /\ \A k \in Consumers : HasSlot(k)
    /\ record' = [record EXCEPT ![c].cancelled = TRUE]
    /\ Deliver(c, Consumers)
    /\ phase' = [phase EXCEPT ![c] = "barrier"]
    /\ UNCHANGED <<current, preAuth, acks, observed, failStop, bindVars, layerVars,
                   queueVars>>

\* A slot is full: the deliveries stop there (the consumers before it in
\* manifest order have theirs), nobody waits and the Router fail-stops.
BeginCloseFails(c) ==
    /\ phase[c] = "factsGone" /\ Recorded(c)
    /\ \E k \in Consumers : ~HasSlot(k)
    /\ record' = [record EXCEPT ![c].cancelled = TRUE]
    /\ \E targets \in SUBSET {k \in Consumers : HasSlot(k)} : Deliver(c, targets)
    /\ failStop' = IF failStop = "none" THEN "slotFull" ELSE failStop
    /\ phase' = [phase EXCEPT ![c] = "drained"]
    /\ preAuth' = preAuth \ {c}
    /\ UNCHANGED <<current, acks, observed, bindVars, layerVars, queueVars>>

\* No record: the connection never got as far as publishing one.
CloseUnbound(c) ==
    /\ phase[c] = "factsGone" /\ ~Recorded(c)
    /\ phase' = [phase EXCEPT ![c] = "drained"]
    /\ preAuth' = preAuth \ {c}
    /\ UNCHANGED <<failStop, bindVars, directoryVars, layerVars, queueVars,
                   consumerVars>>

\* One consumer task: take the head terminal, clean up, acknowledge.  The
\* health ledger forgets the observation of the closed session.
ConsumeTerminal(k) ==
    /\ mailbox[k] # <<>>
    /\ mailbox' = [mailbox EXCEPT ![k] = Tail(@)]
    /\ acks' = [acks EXCEPT ![Head(mailbox[k])] = @ \cup {k}]
    /\ observed' = IF k = "HealthLedger" THEN observed \ {Head(mailbox[k])} ELSE observed
    /\ UNCHANGED <<phase, preAuth, failStop, bindVars, directoryVars, layerVars,
                   queueVars>>

\* Mutation: the current entry is left behind.
DeleteOnlyRecord(c) ==
    /\ record' = [record EXCEPT ![c] = NoRecord]
    /\ UNCHANGED current

\* ack_close for every consumer: the last one deletes the record, and the
\* current entry of the replica only if it still points at this session.
DeleteRecord(c) ==
    /\ record' = [record EXCEPT ![c] = NoRecord]
    /\ current' = IF current[bound[c]] = c
                  THEN [current EXCEPT ![bound[c]] = NoConnection] ELSE current

BarrierComplete(c) ==
    /\ phase[c] = "barrier"
    /\ acks[c] = Consumers
    /\ DeleteRecord(c)
    /\ phase' = [phase EXCEPT ![c] = "drained"]
    /\ preAuth' = preAuth \ {c}
    /\ UNCHANGED <<failStop, bindVars, layerVars, queueVars, consumerVars>>

\* The close barrier timed out: fail-stop, the record stays.
BarrierTimeout(c) ==
    /\ phase[c] = "barrier"
    /\ acks[c] # Consumers
    /\ failStop' = IF failStop = "none" THEN "ackTimeout" ELSE failStop
    /\ phase' = [phase EXCEPT ![c] = "drained"]
    /\ preAuth' = preAuth \ {c}
    /\ UNCHANGED <<bindVars, directoryVars, layerVars, queueVars, consumerVars>>

\* task_finished: drop the handle and the epoch index entry, and the ACK
\* receivers with the task.
TaskFinished(c) ==
    /\ phase[c] = "drained"
    /\ phase' = [phase EXCEPT ![c] = "finished"]
    /\ handles' = handles \ {c}
    /\ acks' = [acks EXCEPT ![c] = {}]
    /\ UNCHANGED <<preAuth, spawned, cancelReq, stopping, mailbox, observed, failStop,
                   bindVars, directoryVars, queueVars>>

\* SessionLayer::shutdown: the watch reaches every task already spawned, and
\* the stored handles are drained to be joined.
Shutdown ==
    /\ ~stopping
    /\ stopping' = TRUE
    /\ cancelReq' = cancelReq \cup {c \in Connections : phase[c] \in OpenPhases}
    /\ handles' = {}
    /\ UNCHANGED <<phase, preAuth, spawned, failStop, bindVars, directoryVars,
                   queueVars, consumerVars>>

-----------------------------------------------------------------------------

\* The task leaves its loop on its own: nothing the peer does is needed.
LeaveOnSignal(c) == Deadline(c) \/ SeeWriterError(c) \/ SeeCancel(c)

\* The close, one step after the other; each is enabled in a stage of its own.
CloseStep(c) ==
    \/ UnregisterWriter(c) \/ RemoveFacts(c)
    \/ BeginClose(c) \/ BeginCloseFails(c) \/ CloseUnbound(c)
    \/ BarrierComplete(c) \/ TaskFinished(c)

\* A step of the session task of c, health frames apart.
SessionStep(c) ==
    \/ BootstrapWritten(c)
    \/ \E r \in Replicas : BindCapabilities(c, r)
    \/ AckWritten(c)
    \/ PeerTerminal(c) \/ LeaveOnSignal(c)
    \/ CloseStep(c) \/ BarrierTimeout(c)

\* A step around the session task: the listener and the writer task.
ConnectionStep(c) ==
    AcceptRefused(c) \/ Accept(c) \/ StoreHandle(c) \/ WriteFrame(c) \/ WriterFails(c)

SessionNext ==
    \/ \E c \in Connections : SessionStep(c) \/ Health(c) \/ ConnectionStep(c)
    \/ \E k \in Consumers : ConsumeTerminal(k)
    \/ Shutdown

\* The tasks that only wait for themselves are scheduled: a task whose close was
\* requested sees it, a handshake deadline fires, a closing task goes on and the
\* consumers drain their mailboxes.  Peers, writes and timeouts promise nothing.
SessionFairness ==
    /\ \A c \in Connections :
         /\ WF_sessionVars(LeaveOnSignal(c))
         /\ WF_sessionVars(CloseStep(c))
         /\ WF_sessionVars(StoreHandle(c))
    /\ \A k \in Consumers : WF_sessionVars(ConsumeTerminal(k))

SessionSpec == SessionInit /\ [][SessionNext]_sessionVars /\ SessionFairness

-----------------------------------------------------------------------------
(* Properties *)

\* directory.rs: "one replica has exactly one current session", and "the old
\* finalizer never deletes a replacement".  A record that is not cancelled is
\* the current session of its replica, whatever closes and replacements overlap.
LiveSessionIsCurrent ==
    \A c \in Connections : Live(c) => current[bound[c]] = c

\* The current entry of a replica never outlives its record: a lookup through
\* current_by_replica reaches a session of that replica.
CurrentIsRecorded ==
    \A r \in Replicas : current[r] # NoConnection =>
        Recorded(current[r]) /\ bound[current[r]] = r

\* The close barrier deletes the exact session only once the consumers have let
\* go of it: no health observation remains for a session without a record.
ObservationHasRecord ==
    \A c \in observed : Recorded(c)

\* Once a session's terminal may be in a consumer's hands, no frame can be
\* queued on it any more: the writer is gone before the first delivery.
NoWriterAfterTerminal ==
    \A c \in writers : acks[c] = {} /\ \A k \in Consumers : \A i \in 1..Len(mailbox[k]) :
        mailbox[k][i] # c

\* A pre-auth permit is held through the whole handshake and never longer than
\* the close: registration and the close both release it, in either order, and
\* the pool stays within its limit.
PreAuthIsExact ==
    /\ Cardinality(preAuth) <= MaxConcurrency
    /\ \A c \in Connections :
         /\ phase[c] \in OpenPhases \ {"registered"} => c \in preAuth
         /\ phase[c] \in {"registered", "drained", "finished"} => c \notin preAuth

\* A task whose cancel or shutdown watch fired finishes (task.rs run_session_task).
CloseRequestCompletes ==
    \A c \in Connections :
        (c \in cancelReq /\ phase[c] \in OpenPhases) ~> (phase[c] = "finished")

\* A connection never stays in the handshake: it registers or it ends
\* at the handshake deadline (task.rs run_session_task).
HandshakeEnds ==
    \A c \in Connections :
        (phase[c] = "accepted") ~> (phase[c] \in {"registered", "finished"})

\* A session that left its loop gives its record up, unless the Router
\* fail-stops: the close barrier completes (layer.rs, directory.rs).
ClosedSessionIsForgotten ==
    \A c \in Connections :
        (phase[c] = "closed") ~> (~Recorded(c) \/ failStop # "none")

-----------------------------------------------------------------------------
(* The session layer implements SessionLife towards a consumer *)

StageOf(c) ==
    IF bound[c] = NoReplica THEN "absent"
    ELSE CASE phase[c] = "capabilitiesBound" -> "binding"
           [] phase[c] \in {"drained", "finished"} -> "gone"
           [] OTHER -> phase[c]

Waiting(k) == {c \in Connections : \E i \in 1..Len(mailbox[k]) : mailbox[k][i] = c}

Life == INSTANCE SessionLife
    WITH stage <- [c \in Connections |-> StageOf(c)],
         ready <- {c \in Connections : Recorded(c) /\ record[c].routable},
         inbox <- Waiting(Lane)

\* What the lanes assume of a session is what the session layer does: a session
\* becomes a candidate once, loses its writer and facts before its terminal is
\* delivered, and is forgotten only when the consumer has processed it.
ImplementsLife == Life!LifeSpec

-----------------------------------------------------------------------------
(* What the code's comments say and the code does not do *)

\* directory.rs:117: "the record is not routable until `mark_registered`
\* (registered ACK written)".
RoutableOnlyAfterAck ==
    \A c \in Connections :
        (phase[c] = "registered" /\ Recorded(c) /\ record[c].routable) => ack[c] = "written"

\* consumer.rs:133: "simultaneous close of the full session set never blocks
\* terminal delivery".
TerminalSlotIsReserved == failStop # "slotFull"

\* directory.rs:70-71: the replaced session was "marked cancelled before the new
\* epoch became current. The caller must drive its close barrier."
ReplacedSessionCloses ==
    \A c \in Connections :
        (Recorded(c) /\ record[c].cancelled) ~> (~Recorded(c) \/ failStop # "none")
=============================================================================
