------------------------ MODULE RequestDispatchProofs ------------------------
(***************************************************************************)
(* Theorems about the runtime sessions (RuntimeSession) and the request    *)
(* dispatcher over them (RequestDispatch), for any number of connections,  *)
(* replicas, consumers and requests: one current session per replica, the  *)
(* refinement of SessionLife, the pairing of permits, and that no request  *)
(* is left pending on a session the dispatcher has let go of.              *)
(***************************************************************************)
EXTENDS RequestDispatch, FiniteSetTheorems, TLAPS

-----------------------------------------------------------------------------
(* The invariant of the session layer *)

EndPhases == {"drained", "finished"}
TerminalPhases == {"barrier"} \cup EndPhases

\* A connection has a record from the announcement of its replica to its end; one that
\* is cancelled while its loop runs was replaced.
RecordFollowsPhase ==
    \A c \in Connections :
        /\ bound[c] = NoReplica => ~Recorded(c)
        /\ phase[c] \in BoundPhases => bound[c] # NoReplica
        /\ phase[c] \in {"unused", "refused", "accepted", "bootstrapSent"} => bound[c] = NoReplica
        /\ bound[c] # NoReplica /\ phase[c] \notin EndPhases => Recorded(c)
        /\ phase[c] \in BoundPhases /\ record[c].cancelled => current[bound[c]] # c

\* A terminal is delivered to a consumer at most once, and only at the end of the close.
TerminalIsDeliveredOnce ==
    /\ \A k \in Consumers : \A i, j \in 1..Len(mailbox[k]) : i # j => mailbox[k][i] # mailbox[k][j]
    /\ \A k \in Consumers : \A i \in 1..Len(mailbox[k]) :
          phase[mailbox[k][i]] \in TerminalPhases /\ k \notin acks[mailbox[k][i]]
    /\ \A c \in Connections : acks[c] # {} => phase[c] \in TerminalPhases

SessionInv ==
    /\ SessionTypeOK /\ LiveSessionIsCurrent /\ CurrentIsRecorded
    /\ RecordFollowsPhase /\ TerminalIsDeliveredOnce

\* What others do to the session layer: they ask for the close of a session.
CloseRequested == cancelReq' \subseteq Connections /\ UNCHANGED sessionsButClose

LEMMA SessionInitInv == SessionInit => SessionInv
<1> SUFFICES ASSUME SessionInit PROVE SessionInv
  OBVIOUS
<1> USE SessionAssumption DEF SessionInit
<1>1. SessionTypeOK
  <2>1. LayerTypeOK
    BY DEF LayerTypeOK, Phases
  <2>2. QueueTypeOK
    BY DEF QueueTypeOK, Frames
  <2>3. ConsumerTypeOK
    BY DEF ConsumerTypeOK
  <2> QED
    BY <2>1, <2>2, <2>3 DEF SessionTypeOK
<1>2. LiveSessionIsCurrent /\ CurrentIsRecorded
  BY DEF LiveSessionIsCurrent, CurrentIsRecorded, Live, Recorded
<1>3. RecordFollowsPhase
  BY DEF RecordFollowsPhase, Recorded, BoundPhases, EndPhases
<1>4. TerminalIsDeliveredOnce
  BY DEF TerminalIsDeliveredOnce
<1> QED
  BY <1>1, <1>2, <1>3, <1>4 DEF SessionInv

\* Steps of the listener, the writer task and the frame waiters: no record, no mailbox, and
\* a connection moves only before its announcement.
LEMMA ConnectionFrame ==
    ASSUME \/ \E c \in Connections : ConnectionStep(c) \/ Health(c) \/ BootstrapWritten(c)
           \/ Shutdown \/ CloseRequested \/ UNCHANGED sessionVars
    PROVE  /\ UNCHANGED <<bound, record, current, mailbox, acks>>
           /\ \/ phase' = phase
              \/ \E c \in Connections, p \in {"refused", "accepted", "bootstrapSent"} :
                     /\ phase' = [phase EXCEPT ![c] = p]
                     /\ phase[c] \in {"unused", "accepted"}
BY DEF ConnectionStep, AcceptRefused, Accept, StoreHandle, WriteFrame, WriterFails, Health,
    BootstrapWritten, Shutdown, CloseRequested, sessionsButClose, sessionVars, consumerVars,
    bindVars, directoryVars

LEMMA ConnectionInv ==
    ASSUME SessionInv,
           \/ \E c \in Connections : ConnectionStep(c) \/ Health(c) \/ BootstrapWritten(c)
           \/ Shutdown \/ CloseRequested \/ UNCHANGED sessionVars
    PROVE  SessionInv'
<1> USE SessionAssumption
<1>1. UNCHANGED <<bound, record, current, mailbox, acks>>
  BY ConnectionFrame
<1>2. \/ phase' = phase
      \/ \E c \in Connections, p \in {"refused", "accepted", "bootstrapSent"} :
             /\ phase' = [phase EXCEPT ![c] = p]
             /\ phase[c] \in {"unused", "accepted"}
  BY ConnectionFrame
<1>3. SessionTypeOK'
  <2> USE DEF ConnectionStep, AcceptRefused, Accept, StoreHandle, WriteFrame, WriterFails, Health,
          BootstrapWritten, Shutdown, CloseRequested, sessionsButClose, sessionVars, bindVars,
          directoryVars, layerVars, queueVars, consumerVars, SessionInv, SessionTypeOK
  <2>1. LayerTypeOK'
    <3>1. phase' \in [Connections -> Phases]
      BY <1>2 DEF LayerTypeOK, Phases, OpenPhases
    <3>2. UNCHANGED <<writers, facts, failStop>>
      OBVIOUS
    <3>3. /\ preAuth' \subseteq Connections /\ spawned' \subseteq Connections
          /\ handles' \subseteq Connections /\ cancelReq' \subseteq Connections
          /\ stopping' \in BOOLEAN
      BY DEF LayerTypeOK
    <3> QED
      BY <1>1, <3>1, <3>2, <3>3 DEF LayerTypeOK
  <2>2. QueueTypeOK'
    BY ZenonT(60) DEF QueueTypeOK, Frames, Dropped
  <2>3. ConsumerTypeOK'
    BY DEF ConsumerTypeOK
  <2> QED
    BY <2>1, <2>2, <2>3
<1>4. (LiveSessionIsCurrent /\ CurrentIsRecorded)'
  BY <1>1 DEF SessionInv, LiveSessionIsCurrent, CurrentIsRecorded, Live, Recorded
<1>5. RecordFollowsPhase'
  BY <1>1, <1>2 DEF SessionInv, SessionTypeOK, LayerTypeOK, RecordFollowsPhase, Recorded, BoundPhases, EndPhases
<1>6. TerminalIsDeliveredOnce'
  <2>1. \A c \in Connections : phase[c] \in TerminalPhases => phase'[c] \in TerminalPhases
    BY <1>2 DEF SessionInv, SessionTypeOK, LayerTypeOK, TerminalPhases, EndPhases
  <2>2. \A k \in Consumers : \A i \in 1..Len(mailbox[k]) : mailbox[k][i] \in Connections
    BY DEF SessionInv, SessionTypeOK, ConsumerTypeOK
  <2> QED
    BY <1>1, <2>1, <2>2 DEF SessionInv, TerminalIsDeliveredOnce
<1> QED
  BY <1>3, <1>4, <1>5, <1>6 DEF SessionInv
\* A replaced record is cancelled before the new one becomes current.
LEMMA BindInv ==
    ASSUME SessionInv, NEW c \in Connections, NEW r \in Replicas, BindCapabilities(c, r)
    PROVE  SessionInv'
<1> USE SessionAssumption
<1>1. /\ phase[c] = "bootstrapSent" /\ bound[c] = NoReplica /\ record[c] = NoRecord
  BY DEF BindCapabilities, SessionInv, RecordFollowsPhase, Recorded
<1>2. PICK p \in {"capabilitiesBound", "closed"} : phase' = [phase EXCEPT ![c] = p]
  BY DEF BindCapabilities
<1>3. /\ bound' = [bound EXCEPT ![c] = r] /\ current' = [current EXCEPT ![r] = c]
      /\ UNCHANGED <<mailbox, acks>>
  BY DEF BindCapabilities, PublishPending, consumerVars
<1>4. /\ record' \in [Connections -> SessionRecord \cup {NoRecord}]
      /\ record'[c] # NoRecord /\ record'[c].cancelled = FALSE
      /\ \A d \in Connections \ {c} :
            /\ (record'[d] # NoRecord) <=> (record[d] # NoRecord)
            /\ d # current[r] => record'[d] = record[d]
            /\ d = current[r] /\ record[d] # NoRecord => record'[d].cancelled
            /\ record[d] # NoRecord /\ record[d].cancelled => record'[d].cancelled
  <2>1. \A d \in Connections : record[d] # NoRecord =>
            /\ [record[d] EXCEPT !.cancelled = TRUE] \in SessionRecord
            /\ [record[d] EXCEPT !.cancelled = TRUE].cancelled
    BY DEF SessionInv, SessionTypeOK, LayerTypeOK, SessionRecord
  <2>2. /\ [routable |-> FALSE, cancelled |-> FALSE] \in SessionRecord
        /\ [routable |-> FALSE, cancelled |-> FALSE].cancelled = FALSE
    BY DEF SessionRecord
  <2>3. NoRecord \notin SessionRecord
    BY DEF SessionRecord
  <2>4. record' = [d \in Connections |->
                    IF d = c THEN [routable |-> FALSE, cancelled |-> FALSE]
                    ELSE IF d = current[r] /\ record[d] # NoRecord
                    THEN [record[d] EXCEPT !.cancelled = TRUE]
                    ELSE record[d]]
    BY DEF BindCapabilities, PublishPending, Recorded
  <2>5. record \in [Connections -> SessionRecord \cup {NoRecord}]
    BY DEF SessionInv, SessionTypeOK, LayerTypeOK
  <2> HIDE DEF SessionRecord
  <2>6. record' \in [Connections -> SessionRecord \cup {NoRecord}]
    BY <2>1, <2>2, <2>4, <2>5
  <2>7. record'[c] # NoRecord /\ record'[c].cancelled = FALSE
    BY <2>2, <2>3, <2>4
  <2> QED
    BY <2>1, <2>3, <2>4, <2>5, <2>6, <2>7
<1>5. SessionTypeOK'
  <2>1. LayerTypeOK'
    <3>1. /\ phase' \in [Connections -> Phases] /\ bound' \in [Connections -> Replicas \cup {NoReplica}]
          /\ current' \in [Replicas -> Connections \cup {NoConnection}]
      BY <1>2, <1>3 DEF SessionInv, SessionTypeOK, LayerTypeOK, Phases, OpenPhases, ClosePhases
    <3>2. cancelReq' \subseteq Connections
      BY DEF BindCapabilities, RequestClose, Cancellable, SessionInv, SessionTypeOK, LayerTypeOK
    <3> QED
      BY <1>4, <3>1, <3>2 DEF BindCapabilities, SessionInv, SessionTypeOK, LayerTypeOK
  <2>2. QueueTypeOK'
    BY DEF BindCapabilities, SessionInv, SessionTypeOK, QueueTypeOK, Frames
  <2>3. ConsumerTypeOK'
    BY DEF BindCapabilities, SessionInv, SessionTypeOK, ConsumerTypeOK, consumerVars
  <2> QED
    BY <2>1, <2>2, <2>3 DEF SessionTypeOK
<1>6. LiveSessionIsCurrent'
  <2> SUFFICES ASSUME NEW d \in Connections, record'[d] # NoRecord, ~record'[d].cancelled
               PROVE  current'[bound'[d]] = d
    BY DEF LiveSessionIsCurrent, Live, Recorded
  <2>1. CASE d = c
    BY <2>1, <1>3 DEF SessionInv, SessionTypeOK, LayerTypeOK
  <2>2. CASE d # c
    <3>1. record[d] # NoRecord /\ ~record[d].cancelled /\ d # current[r]
      BY <2>2, <1>4
    <3>2. current[bound[d]] = d /\ bound[d] # NoReplica
      BY <3>1 DEF SessionInv, LiveSessionIsCurrent, Live, Recorded, RecordFollowsPhase
    <3>3. bound[d] # r /\ bound[d] \in Replicas
      BY <3>1, <3>2 DEF SessionInv, SessionTypeOK, LayerTypeOK
    <3> QED
      BY <2>2, <1>3, <3>2, <3>3 DEF SessionInv, SessionTypeOK, LayerTypeOK
  <2> QED
    BY <2>1, <2>2
<1>7. CurrentIsRecorded'
  <2> SUFFICES ASSUME NEW s \in Replicas, current'[s] # NoConnection
               PROVE  record'[current'[s]] # NoRecord /\ bound'[current'[s]] = s
    BY DEF CurrentIsRecorded, Recorded
  <2>1. CASE s = r
    BY <2>1, <1>3, <1>4 DEF SessionInv, SessionTypeOK, LayerTypeOK
  <2>2. CASE s # r
    <3>1. /\ current'[s] = current[s] /\ current[s] \in Connections
          /\ record[current[s]] # NoRecord /\ bound[current[s]] = s
      BY <2>2, <1>3 DEF SessionInv, SessionTypeOK, LayerTypeOK, CurrentIsRecorded, Recorded
    <3>2. current[s] # c
      BY <1>1, <3>1
    <3> QED
      BY <1>3, <1>4, <3>1, <3>2 DEF SessionInv, SessionTypeOK, LayerTypeOK
  <2> QED
    BY <2>1, <2>2
<1>8. RecordFollowsPhase'
  <2> SUFFICES ASSUME NEW d \in Connections
               PROVE  /\ bound'[d] = NoReplica => record'[d] = NoRecord
                      /\ phase'[d] \in BoundPhases => bound'[d] # NoReplica
                      /\ phase'[d] \in {"unused", "refused", "accepted", "bootstrapSent"}
                            => bound'[d] = NoReplica
                      /\ bound'[d] # NoReplica /\ phase'[d] \notin EndPhases => record'[d] # NoRecord
                      /\ phase'[d] \in BoundPhases /\ record'[d].cancelled => current'[bound'[d]] # d
    BY DEF RecordFollowsPhase, Recorded
  <2>1. CASE d = c
    BY <2>1, <1>2, <1>3, <1>4 DEF SessionInv, SessionTypeOK, LayerTypeOK, BoundPhases
  <2>2. CASE d # c
    <3>1. phase'[d] = phase[d] /\ bound'[d] = bound[d]
      BY <2>2, <1>2, <1>3 DEF SessionInv, SessionTypeOK, LayerTypeOK
    <3>2. (record'[d] # NoRecord) <=> (record[d] # NoRecord)
      BY <2>2, <1>4
    <3>3. /\ bound[d] = NoReplica => record[d] = NoRecord
          /\ phase[d] \in BoundPhases => bound[d] # NoReplica
          /\ phase[d] \in {"unused", "refused", "accepted", "bootstrapSent"} => bound[d] = NoReplica
          /\ bound[d] # NoReplica /\ phase[d] \notin EndPhases => record[d] # NoRecord
          /\ phase[d] \in BoundPhases /\ record[d].cancelled => current[bound[d]] # d
      BY DEF SessionInv, RecordFollowsPhase, Recorded
    <3>4. phase[d] \in BoundPhases /\ record'[d].cancelled => current'[bound[d]] # d
      <4> SUFFICES ASSUME phase[d] \in BoundPhases, record'[d].cancelled
                   PROVE  current'[bound[d]] # d
        OBVIOUS
      <4>1. bound[d] \in Replicas
        BY <3>3 DEF SessionInv, SessionTypeOK, LayerTypeOK
      <4>2. CASE bound[d] = r
        BY <2>2, <4>1, <4>2, <1>3 DEF SessionInv, SessionTypeOK, LayerTypeOK
      <4>3. CASE bound[d] # r
        <5>1. d # current[r]
          BY <4>3 DEF SessionInv, CurrentIsRecorded, SessionTypeOK, LayerTypeOK, Recorded
        <5>2. record'[d] = record[d]
          BY <2>2, <5>1, <1>4
        <5> QED
          BY <4>1, <4>3, <5>2, <3>3, <1>3 DEF SessionInv, SessionTypeOK, LayerTypeOK
      <4> QED
        BY <4>2, <4>3
    <3> QED
      BY <3>1, <3>2, <3>3, <3>4
  <2> QED
    BY <2>1, <2>2
<1>9. TerminalIsDeliveredOnce'
  <2>1. \A d \in Connections : phase[d] \in TerminalPhases => phase'[d] \in TerminalPhases
    BY <1>1, <1>2 DEF SessionInv, SessionTypeOK, LayerTypeOK, TerminalPhases, EndPhases
  <2>2. \A k \in Consumers : \A i \in 1..Len(mailbox[k]) : mailbox[k][i] \in Connections
    BY DEF SessionInv, SessionTypeOK, ConsumerTypeOK
  <2> QED
    BY <1>3, <2>1, <2>2 DEF SessionInv, TerminalIsDeliveredOnce
<1> QED
  BY <1>5, <1>6, <1>7, <1>8, <1>9 DEF SessionInv
\* A step that only moves a connection on leaves the directory as it is.
LEMMA MoveInv ==
    ASSUME SessionInv, SessionTypeOK', NEW c \in Connections, NEW p \in Phases,
           phase' = [phase EXCEPT ![c] = p],
           p \notin {"unused", "refused", "accepted", "bootstrapSent"},
           p \in BoundPhases => phase[c] \in BoundPhases,
           phase[c] \in TerminalPhases => p \in TerminalPhases,
           phase[c] \in EndPhases => p \in EndPhases,
           UNCHANGED <<bound, current, mailbox>>,
           acks' \in {acks, [acks EXCEPT ![c] = {}]},
           \A d \in Connections : /\ (record'[d] # NoRecord) <=> (record[d] # NoRecord)
                                  /\ record'[d].cancelled = record[d].cancelled
    PROVE  SessionInv'
<1>1. (LiveSessionIsCurrent /\ CurrentIsRecorded)'
  BY DEF SessionInv, LiveSessionIsCurrent, CurrentIsRecorded, Live, Recorded, SessionTypeOK,
      LayerTypeOK
<1>2. RecordFollowsPhase'
  BY DEF SessionInv, RecordFollowsPhase, Recorded, SessionTypeOK, LayerTypeOK
<1>3. TerminalIsDeliveredOnce'
  <2>1. \A d \in Connections : phase[d] \in TerminalPhases => phase'[d] \in TerminalPhases
    BY DEF SessionInv, SessionTypeOK, LayerTypeOK
  <2>2. \A k \in Consumers : \A i \in 1..Len(mailbox[k]) : mailbox[k][i] \in Connections
    BY DEF SessionInv, SessionTypeOK, ConsumerTypeOK
  <2>3. \A d \in Connections : acks'[d] \subseteq acks[d]
    BY DEF SessionInv, SessionTypeOK, ConsumerTypeOK
  <2> QED
    BY <2>1, <2>2, <2>3 DEF SessionInv, TerminalIsDeliveredOnce
<1> QED
  BY <1>1, <1>2, <1>3 DEF SessionInv

LEMMA AckWrittenInv ==
    ASSUME SessionInv, NEW c \in Connections, AckWritten(c)
    PROVE  SessionInv'
<1> USE SessionAssumption
<1>1. /\ record' \in [Connections -> SessionRecord \cup {NoRecord}]
      /\ \A d \in Connections : /\ (record'[d] # NoRecord) <=> (record[d] # NoRecord)
                                /\ record'[d].cancelled = record[d].cancelled
  <2>1. record \in [Connections -> SessionRecord \cup {NoRecord}]
    BY DEF SessionInv, SessionTypeOK, LayerTypeOK
  <2>2. CASE ~Live(c)
    BY <2>1, <2>2 DEF AckWritten, MarkRegistered
  <2>3. CASE Live(c)
    <3>1. record[c] \in SessionRecord
      BY <2>1, <2>3 DEF Live, Recorded
    <3>2. /\ [record[c] EXCEPT !.routable = TRUE] \in SessionRecord
          /\ [record[c] EXCEPT !.routable = TRUE].cancelled = record[c].cancelled
      BY <3>1 DEF SessionRecord
    <3>3. NoRecord \notin SessionRecord
      BY DEF SessionRecord
    <3>4. record' = [record EXCEPT ![c] = [record[c] EXCEPT !.routable = TRUE]]
      BY <2>3 DEF AckWritten, MarkRegistered
    <3> QED
      BY <2>1, <3>1, <3>2, <3>3, <3>4
  <2> QED
    BY <2>2, <2>3
<1>2. SessionTypeOK'
  BY <1>1 DEF AckWritten, SessionInv, SessionTypeOK, LayerTypeOK, QueueTypeOK, ConsumerTypeOK,
      bindVars, layerVars, queueVars, consumerVars, Phases, OpenPhases
<1> QED
  BY <1>1, <1>2, MoveInv DEF AckWritten, bindVars, consumerVars, Phases, OpenPhases, BoundPhases,
      TerminalPhases, EndPhases

\* The loop ends, the writer and the facts go, the close ends without a barrier, or the
\* task is over.
LEMMA CloseInv ==
    ASSUME SessionInv, NEW c \in Connections,
           \/ PeerTerminal(c) \/ LeaveOnSignal(c) \/ UnregisterWriter(c) \/ RemoveFacts(c)
           \/ CloseUnbound(c) \/ BarrierTimeout(c) \/ TaskFinished(c)
    PROVE  SessionInv'
<1> USE DEF Phases, OpenPhases, ClosePhases, BoundPhases, TerminalPhases, EndPhases
<1> USE SessionAssumption
<1>1. CASE PeerTerminal(c) \/ LeaveOnSignal(c)
  <2>1. LeaveLoop(c) /\ phase[c] \in OpenPhases
    BY <1>1 DEF PeerTerminal, LeaveOnSignal, Deadline, SeeWriterError, SeeCancel
  <2>2. SessionTypeOK'
    BY <2>1 DEF LeaveLoop, SessionInv, SessionTypeOK, LayerTypeOK, QueueTypeOK, ConsumerTypeOK,
        bindVars, directoryVars, consumerVars, Frames
  <2> QED
    BY <2>1, <2>2, MoveInv DEF LeaveLoop, bindVars, directoryVars, consumerVars
<1>2. CASE UnregisterWriter(c) \/ RemoveFacts(c)
  <2>1. SessionTypeOK'
    <3> USE <1>2 DEF UnregisterWriter, RemoveFacts, SessionInv, SessionTypeOK
    <3>1. LayerTypeOK'
      BY DEF LayerTypeOK, directoryVars, layerVars
    <3>2. QueueTypeOK'
      BY DEF QueueTypeOK, queueVars
    <3>3. ConsumerTypeOK'
      BY DEF ConsumerTypeOK, consumerVars
    <3> QED
      BY <3>1, <3>2, <3>3
  <2> QED
    BY <1>2, <2>1, MoveInv DEF UnregisterWriter, RemoveFacts, directoryVars, consumerVars
<1>3. CASE CloseUnbound(c) \/ BarrierTimeout(c)
  <2>1. SessionTypeOK'
    BY <1>3 DEF CloseUnbound, BarrierTimeout, SessionInv, SessionTypeOK, LayerTypeOK, QueueTypeOK,
        ConsumerTypeOK, bindVars, directoryVars, layerVars, queueVars, consumerVars
  <2> QED
    BY <1>3, <2>1, MoveInv DEF CloseUnbound, BarrierTimeout, bindVars, directoryVars, consumerVars
<1>4. CASE TaskFinished(c)
  <2>1. SessionTypeOK'
    BY <1>4 DEF TaskFinished, SessionInv, SessionTypeOK, LayerTypeOK, QueueTypeOK, ConsumerTypeOK,
        bindVars, directoryVars, queueVars
  <2> QED
    BY <1>4, <2>1, MoveInv DEF TaskFinished, bindVars, directoryVars
<1> QED
  BY <1>1, <1>2, <1>3, <1>4

\* begin_close: the terminal is appended to mailboxes that have a slot and no entry of it.
LEMMA BeginCloseInv ==
    ASSUME SessionInv, NEW c \in Connections, BeginClose(c) \/ BeginCloseFails(c)
    PROVE  SessionInv'
<1> USE SessionAssumption
<1>1. PICK targets \in SUBSET {k \in Consumers : HasSlot(k)} : Deliver(c, targets)
  BY DEF BeginClose, BeginCloseFails
<1>2. PICK p \in {"barrier", "drained"} : phase' = [phase EXCEPT ![c] = p]
  BY DEF BeginClose, BeginCloseFails
<1>3. /\ phase[c] = "factsGone" /\ record[c] \in SessionRecord
      /\ record' = [record EXCEPT ![c].cancelled = TRUE]
      /\ UNCHANGED <<bound, current, acks>>
  BY DEF BeginClose, BeginCloseFails, Recorded, SessionInv, SessionTypeOK, LayerTypeOK, bindVars
<1>4. /\ record' \in [Connections -> SessionRecord \cup {NoRecord}]
      /\ record'[c] # NoRecord /\ record'[c].cancelled = TRUE
      /\ \A d \in Connections \ {c} : record'[d] = record[d]
  <2>1. record \in [Connections -> SessionRecord \cup {NoRecord}]
    BY DEF SessionInv, SessionTypeOK, LayerTypeOK
  <2>2. /\ [record[c] EXCEPT !.cancelled = TRUE] \in SessionRecord
        /\ [record[c] EXCEPT !.cancelled = TRUE].cancelled = TRUE
    BY <1>3 DEF SessionRecord
  <2>3. NoRecord \notin SessionRecord
    BY DEF SessionRecord
  <2> QED
    BY <1>3, <2>1, <2>2, <2>3
<1>5. /\ \A k \in Consumers : /\ mailbox'[k] \in Seq(Connections)
                              /\ Len(mailbox'[k]) <= MaxConcurrency
                              /\ mailbox'[k] \in {mailbox[k], Append(mailbox[k], c)}
      /\ mailbox' \in [Consumers -> Seq(Connections)]
  <2>1. \A k \in Consumers : /\ mailbox[k] \in Seq(Connections)
                             /\ Len(mailbox[k]) \in Nat /\ Len(mailbox[k]) <= MaxConcurrency
    BY DEF SessionInv, SessionTypeOK, ConsumerTypeOK
  <2>2. \A k \in Consumers : /\ Append(mailbox[k], c) \in Seq(Connections)
                             /\ Len(Append(mailbox[k], c)) = Len(mailbox[k]) + 1
    BY <2>1
  <2>3. \A k \in targets : k \in Consumers /\ Len(mailbox[k]) < MaxConcurrency
    BY DEF HasSlot
  <2>4. mailbox' = [k \in Consumers |-> IF k \in targets THEN Append(mailbox[k], c) ELSE mailbox[k]]
    BY <1>1 DEF Deliver
  <2>5. mailbox' \in [Consumers -> Seq(Connections)]
    BY <2>1, <2>2, <2>4
  <2>6. \A k \in Consumers : \/ k \in targets /\ mailbox'[k] = Append(mailbox[k], c)
                             \/ mailbox'[k] = mailbox[k]
    BY <2>4
  <2>7. \A k \in Consumers : Len(mailbox'[k]) <= MaxConcurrency
    <3> SUFFICES ASSUME NEW k \in Consumers PROVE Len(mailbox'[k]) <= MaxConcurrency
      OBVIOUS
    <3>1. CASE mailbox'[k] = mailbox[k]
      BY <2>1, <3>1
    <3>2. CASE k \in targets /\ mailbox'[k] = Append(mailbox[k], c)
      BY <2>1, <2>2, <2>3, <3>2
    <3> QED
      BY <2>6, <3>1, <3>2
  <2> QED
    BY <2>1, <2>2, <2>5, <2>6, <2>7
<1>6. SessionTypeOK'
  <2>1. LayerTypeOK'
    BY <1>2, <1>3, <1>4 DEF BeginClose, BeginCloseFails, SessionInv, SessionTypeOK, LayerTypeOK,
        Phases, ClosePhases, bindVars, layerVars
  <2>2. QueueTypeOK'
    BY DEF BeginClose, BeginCloseFails, SessionInv, SessionTypeOK, QueueTypeOK, queueVars
  <2>3. ConsumerTypeOK'
    BY <1>3, <1>5 DEF BeginClose, BeginCloseFails, SessionInv, SessionTypeOK, ConsumerTypeOK
  <2> QED
    BY <2>1, <2>2, <2>3 DEF SessionTypeOK
<1>7. LiveSessionIsCurrent' /\ CurrentIsRecorded'
  <2>1. LiveSessionIsCurrent'
    BY <1>3, <1>4 DEF SessionInv, LiveSessionIsCurrent, Live, Recorded
  <2>2. \A d \in Connections : record[d] # NoRecord => record'[d] # NoRecord
    BY <1>4
  <2>3. CurrentIsRecorded'
    BY <1>3, <2>2 DEF SessionInv, CurrentIsRecorded, Recorded, SessionTypeOK, LayerTypeOK
  <2> QED
    BY <2>1, <2>3
<1>8. RecordFollowsPhase'
  <2> SUFFICES ASSUME NEW d \in Connections
               PROVE  /\ bound[d] = NoReplica => record'[d] = NoRecord
                      /\ phase'[d] \in BoundPhases => bound[d] # NoReplica
                      /\ phase'[d] \in {"unused", "refused", "accepted", "bootstrapSent"}
                            => bound[d] = NoReplica
                      /\ bound[d] # NoReplica /\ phase'[d] \notin EndPhases => record'[d] # NoRecord
                      /\ phase'[d] \in BoundPhases /\ record'[d].cancelled => current[bound[d]] # d
    BY <1>3 DEF RecordFollowsPhase, Recorded
  <2>1. /\ bound[d] = NoReplica => record[d] = NoRecord
        /\ phase[d] \in BoundPhases => bound[d] # NoReplica
        /\ phase[d] \in {"unused", "refused", "accepted", "bootstrapSent"} => bound[d] = NoReplica
        /\ bound[d] # NoReplica /\ phase[d] \notin EndPhases => record[d] # NoRecord
        /\ phase[d] \in BoundPhases /\ record[d].cancelled => current[bound[d]] # d
    BY DEF SessionInv, RecordFollowsPhase, Recorded
  <2>2. CASE d = c
    <3>1. phase'[d] = p
      BY <2>2, <1>2 DEF SessionInv, SessionTypeOK, LayerTypeOK
    <3>2. NoRecord \notin SessionRecord
      BY DEF SessionRecord
    <3>3. bound[d] # NoReplica
      BY <2>1, <2>2, <3>2, <1>3
    <3> QED
      BY <2>2, <3>1, <3>3, <1>4 DEF BoundPhases
  <2>3. CASE d # c
    <3>1. phase'[d] = phase[d] /\ record'[d] = record[d]
      BY <2>3, <1>2, <1>4 DEF SessionInv, SessionTypeOK, LayerTypeOK
    <3> QED
      BY <2>1, <3>1
  <2> QED
    BY <2>2, <2>3
<1>9. TerminalIsDeliveredOnce'
  <2>1. \A d \in Connections : phase[d] \in TerminalPhases => phase'[d] \in TerminalPhases
    BY <1>2, <1>3 DEF SessionInv, SessionTypeOK, LayerTypeOK, TerminalPhases, EndPhases
  <2>2. phase[c] \notin TerminalPhases /\ phase'[c] \in TerminalPhases /\ acks[c] = {}
    BY <1>2, <1>3 DEF SessionInv, SessionTypeOK, LayerTypeOK, TerminalPhases, EndPhases,
        TerminalIsDeliveredOnce
  <2>3. \A k \in Consumers : /\ mailbox[k] \in Seq(Connections)
                             /\ \A i \in 1..Len(mailbox[k]) :
                                    mailbox[k][i] \in Connections /\ mailbox[k][i] # c
    BY <2>2 DEF SessionInv, SessionTypeOK, ConsumerTypeOK, TerminalIsDeliveredOnce
  <2>4. ASSUME NEW k \in Consumers
        PROVE  /\ \A i, j \in 1..Len(mailbox'[k]) : i # j => mailbox'[k][i] # mailbox'[k][j]
               /\ \A i \in 1..Len(mailbox'[k]) :
                      phase'[mailbox'[k][i]] \in TerminalPhases /\ k \notin acks[mailbox'[k][i]]
    <3>1. /\ \A i, j \in 1..Len(mailbox[k]) : i # j => mailbox[k][i] # mailbox[k][j]
          /\ \A i \in 1..Len(mailbox[k]) :
                phase'[mailbox[k][i]] \in TerminalPhases /\ k \notin acks[mailbox[k][i]]
      BY <2>1, <2>3 DEF SessionInv, TerminalIsDeliveredOnce
    <3>2. CASE mailbox'[k] = mailbox[k]
      BY <3>1, <3>2
    <3>3. CASE mailbox'[k] = Append(mailbox[k], c)
      <4>1. /\ Len(mailbox[k]) \in Nat /\ Len(mailbox'[k]) = Len(mailbox[k]) + 1
            /\ \A i \in 1..Len(mailbox'[k]) :
                  mailbox'[k][i] = IF i <= Len(mailbox[k]) THEN mailbox[k][i] ELSE c
        BY <2>3, <3>3
      <4>2. \A i \in 1..Len(mailbox'[k]) : \/ i \in 1..Len(mailbox[k]) /\ mailbox'[k][i] = mailbox[k][i]
                                           \/ i = Len(mailbox[k]) + 1 /\ mailbox'[k][i] = c
        BY <4>1
      <4>3. \A i, j \in 1..Len(mailbox'[k]) : i # j => mailbox'[k][i] # mailbox'[k][j]
        BY <2>3, <3>1, <4>2
      <4>4. k \notin acks[c]
        BY <2>2
      <4> QED
        BY <2>2, <3>1, <4>2, <4>3, <4>4
    <3> QED
      BY <1>5, <3>2, <3>3
  <2> QED
    BY <1>3, <2>1, <2>4 DEF SessionInv, TerminalIsDeliveredOnce
<1> QED
  BY <1>6, <1>7, <1>8, <1>9 DEF SessionInv
\* The consumer takes the only entry of the session out of its mailbox, and acknowledges.
LEMMA ConsumeInv ==
    ASSUME SessionInv, NEW k \in Consumers, ConsumeTerminal(k)
    PROVE  SessionInv'
<1> DEFINE c == Head(mailbox[k])
<1>1. /\ mailbox[k] \in Seq(Connections) /\ Len(mailbox[k]) \in Nat \ {0}
      /\ c \in Connections /\ c = mailbox[k][1]
  BY DEF ConsumeTerminal, SessionInv, SessionTypeOK, ConsumerTypeOK
<1>2. /\ Tail(mailbox[k]) \in Seq(Connections) /\ Len(Tail(mailbox[k])) = Len(mailbox[k]) - 1
      /\ \A i \in 1..Len(Tail(mailbox[k])) : Tail(mailbox[k])[i] = mailbox[k][i + 1]
  BY <1>1
<1>3. /\ mailbox' = [mailbox EXCEPT ![k] = Tail(mailbox[k])]
      /\ acks' = [acks EXCEPT ![c] = acks[c] \cup {k}]
      /\ UNCHANGED <<phase, bound, record, current>>
  BY DEF ConsumeTerminal, bindVars, directoryVars
<1>4. SessionTypeOK'
  <2>1. LayerTypeOK' /\ QueueTypeOK'
    BY DEF ConsumeTerminal, SessionInv, SessionTypeOK, LayerTypeOK, QueueTypeOK, bindVars,
        directoryVars, layerVars, queueVars
  <2>2. ConsumerTypeOK'
    <3>1. mailbox' \in [Consumers -> Seq(Connections)]
      BY <1>2, <1>3 DEF SessionInv, SessionTypeOK, ConsumerTypeOK
    <3>2. \A n \in Consumers : Len(mailbox'[n]) <= MaxConcurrency
      BY <1>1, <1>2, <1>3, SessionAssumption DEF SessionInv, SessionTypeOK, ConsumerTypeOK
    <3>3. acks' \in [Connections -> SUBSET Consumers] /\ observed' \subseteq Connections
      BY <1>1, <1>3 DEF ConsumeTerminal, SessionInv, SessionTypeOK, ConsumerTypeOK
    <3> QED
      BY <3>1, <3>2, <3>3 DEF ConsumerTypeOK
  <2> QED
    BY <2>1, <2>2 DEF SessionTypeOK
<1>5. (LiveSessionIsCurrent /\ CurrentIsRecorded /\ RecordFollowsPhase)'
  BY <1>3 DEF SessionInv, LiveSessionIsCurrent, CurrentIsRecorded, RecordFollowsPhase, Live, Recorded
<1>6. TerminalIsDeliveredOnce'
  <2>1. \A n \in Consumers, d \in Connections : n \in acks'[d] <=> (n \in acks[d] \/ (n = k /\ d = c))
    BY <1>1, <1>3 DEF SessionInv, SessionTypeOK, ConsumerTypeOK
  <2>2. ASSUME NEW n \in Consumers
        PROVE  /\ \A i, j \in 1..Len(mailbox'[n]) : i # j => mailbox'[n][i] # mailbox'[n][j]
               /\ \A i \in 1..Len(mailbox'[n]) :
                      /\ phase'[mailbox'[n][i]] \in TerminalPhases
                      /\ n \notin acks'[mailbox'[n][i]]
    <3>1. /\ mailbox[n] \in Seq(Connections) /\ Len(mailbox[n]) \in Nat
          /\ \A i \in 1..Len(mailbox[n]) : mailbox[n][i] \in Connections
      BY DEF SessionInv, SessionTypeOK, ConsumerTypeOK
    <3>2. /\ \A i, j \in 1..Len(mailbox[n]) : i # j => mailbox[n][i] # mailbox[n][j]
          /\ \A i \in 1..Len(mailbox[n]) :
                phase'[mailbox[n][i]] \in TerminalPhases /\ n \notin acks[mailbox[n][i]]
      BY <1>3 DEF SessionInv, TerminalIsDeliveredOnce
    <3>3. CASE n # k
      <4>1. mailbox'[n] = mailbox[n]
        BY <3>3, <1>3 DEF SessionInv, SessionTypeOK, ConsumerTypeOK
      <4> QED
        BY <2>1, <3>1, <3>2, <3>3, <4>1
    <3>4. CASE n = k
      <4>1. mailbox'[n] = Tail(mailbox[n])
        BY <3>4, <1>3 DEF SessionInv, SessionTypeOK, ConsumerTypeOK
      <4>2. /\ Len(mailbox'[n]) = Len(mailbox[n]) - 1
            /\ \A i \in 1..Len(mailbox'[n]) : mailbox'[n][i] = mailbox[n][i + 1]
        BY <1>2, <3>4, <4>1
      <4>3. \A i \in 1..Len(mailbox'[n]) : i + 1 \in 1..Len(mailbox[n]) /\ i + 1 # 1
        BY <3>1, <4>2
      <4>4. \A i \in 1..Len(mailbox'[n]) : mailbox[n][i + 1] # c
        BY <1>1, <3>2, <3>4, <4>3
      <4> QED
        BY <2>1, <3>1, <3>2, <4>2, <4>3, <4>4
    <3> QED
      BY <3>3, <3>4
  <2>3. phase[c] \in TerminalPhases
    BY <1>1 DEF SessionInv, TerminalIsDeliveredOnce
  <2>4. \A d \in Connections : acks'[d] # {} => phase'[d] \in TerminalPhases
    BY <1>1, <1>3, <2>3 DEF SessionInv, SessionTypeOK, ConsumerTypeOK, TerminalIsDeliveredOnce
  <2> QED
    BY <2>2, <2>4 DEF TerminalIsDeliveredOnce
<1> QED
  BY <1>4, <1>5, <1>6 DEF SessionInv

\* The last acknowledgement deletes the record, and the current entry if it is its own.
LEMMA BarrierInv ==
    ASSUME SessionInv, NEW c \in Connections, BarrierComplete(c)
    PROVE  SessionInv'
<1> USE SessionAssumption
<1>1. /\ phase[c] = "barrier" /\ phase' = [phase EXCEPT ![c] = "drained"]
      /\ record' = [record EXCEPT ![c] = NoRecord]
      /\ current' = IF current[bound[c]] = c
                    THEN [current EXCEPT ![bound[c]] = NoConnection] ELSE current
      /\ UNCHANGED <<bound, mailbox, acks>>
  BY DEF BarrierComplete, DeleteRecord, bindVars, consumerVars
<1>2. /\ current' \in [Replicas -> Connections \cup {NoConnection}]
      /\ \A r \in Replicas : /\ current'[r] \in {current[r], NoConnection}
                             /\ current'[r] # c \/ r # bound[c]
                             /\ r # bound[c] => current'[r] = current[r]
                             /\ current[r] # c => current'[r] = current[r]
  BY <1>1 DEF SessionInv, SessionTypeOK, LayerTypeOK
<1>3. SessionTypeOK'
  <2>1. LayerTypeOK'
    BY <1>1, <1>2 DEF BarrierComplete, SessionInv, SessionTypeOK, LayerTypeOK, bindVars, layerVars,
        Phases, ClosePhases
  <2>2. QueueTypeOK' /\ ConsumerTypeOK'
    BY DEF BarrierComplete, SessionInv, SessionTypeOK, QueueTypeOK, ConsumerTypeOK, queueVars,
        consumerVars
  <2> QED
    BY <2>1, <2>2 DEF SessionTypeOK
<1>4. \A d \in Connections \ {c} : phase'[d] = phase[d] /\ record'[d] = record[d]
  BY <1>1 DEF SessionInv, SessionTypeOK, LayerTypeOK
<1>5. record'[c] = NoRecord /\ phase'[c] = "drained"
  BY <1>1 DEF SessionInv, SessionTypeOK, LayerTypeOK
<1>6. LiveSessionIsCurrent'
  <2> SUFFICES ASSUME NEW d \in Connections, record'[d] # NoRecord, ~record'[d].cancelled
               PROVE  current'[bound[d]] = d
    BY <1>1 DEF LiveSessionIsCurrent, Live, Recorded
  <2>1. d # c /\ record[d] # NoRecord /\ ~record[d].cancelled
    BY <1>4, <1>5
  <2>2. current[bound[d]] = d /\ bound[d] \in Replicas
    BY <2>1 DEF SessionInv, LiveSessionIsCurrent, Live, RecordFollowsPhase, Recorded, SessionTypeOK,
        LayerTypeOK
  <2> QED
    BY <1>2, <2>1, <2>2
<1>7. CurrentIsRecorded'
  <2> SUFFICES ASSUME NEW r \in Replicas, current'[r] # NoConnection
               PROVE  record'[current'[r]] # NoRecord /\ bound[current'[r]] = r
    BY <1>1 DEF CurrentIsRecorded, Recorded
  <2>1. current'[r] = current[r] /\ record[current[r]] # NoRecord /\ bound[current[r]] = r
    BY <1>2 DEF SessionInv, CurrentIsRecorded, Recorded
  <2>2. current[r] # c /\ current[r] \in Connections
    BY <1>2, <2>1
  <2> QED
    BY <1>4, <2>1, <2>2
<1>8. RecordFollowsPhase'
  <2> SUFFICES ASSUME NEW d \in Connections
               PROVE  /\ bound[d] = NoReplica => record'[d] = NoRecord
                      /\ phase'[d] \in BoundPhases => bound[d] # NoReplica
                      /\ phase'[d] \in {"unused", "refused", "accepted", "bootstrapSent"}
                            => bound[d] = NoReplica
                      /\ bound[d] # NoReplica /\ phase'[d] \notin EndPhases => record'[d] # NoRecord
                      /\ phase'[d] \in BoundPhases /\ record'[d].cancelled => current'[bound[d]] # d
    BY <1>1 DEF RecordFollowsPhase, Recorded
  <2>1. CASE d = c
    BY <2>1, <1>5 DEF BoundPhases, EndPhases
  <2>2. CASE d # c
    <3>1. /\ bound[d] = NoReplica => record[d] = NoRecord
          /\ phase[d] \in BoundPhases => bound[d] \in Replicas
          /\ phase[d] \in {"unused", "refused", "accepted", "bootstrapSent"} => bound[d] = NoReplica
          /\ bound[d] # NoReplica /\ phase[d] \notin EndPhases => record[d] # NoRecord
          /\ phase[d] \in BoundPhases /\ record[d].cancelled => current[bound[d]] # d
      BY DEF SessionInv, RecordFollowsPhase, Recorded, SessionTypeOK, LayerTypeOK
    <3>2. phase'[d] = phase[d] /\ record'[d] = record[d]
      BY <2>2, <1>4
    <3>3. bound[d] \in Replicas => current'[bound[d]] \in {current[bound[d]], NoConnection}
      BY <1>2
    <3> QED
      BY <3>1, <3>2, <3>3
  <2> QED
    BY <2>1, <2>2
<1>9. TerminalIsDeliveredOnce'
  <2>1. \A d \in Connections : phase[d] \in TerminalPhases => phase'[d] \in TerminalPhases
    BY <1>4, <1>5 DEF TerminalPhases, EndPhases
  <2>2. \A k \in Consumers : \A i \in 1..Len(mailbox[k]) : mailbox[k][i] \in Connections
    BY DEF SessionInv, SessionTypeOK, ConsumerTypeOK
  <2> QED
    BY <1>1, <2>1, <2>2 DEF SessionInv, TerminalIsDeliveredOnce
<1> QED
  BY <1>3, <1>6, <1>7, <1>8, <1>9 DEF SessionInv

\* One step of the session layer, whoever else moves with it, keeps its invariant.
LEMMA SessionStepInv ==
    ASSUME SessionInv, [SessionNext]_sessionVars \/ CloseRequested
    PROVE  SessionInv'
<1>1. CASE CloseRequested \/ UNCHANGED sessionVars \/ Shutdown
  BY <1>1, ConnectionInv
<1>2. ASSUME NEW k \in Consumers, ConsumeTerminal(k) PROVE SessionInv'
  BY <1>2, ConsumeInv
<1>3. ASSUME NEW c \in Connections, SessionStep(c) \/ Health(c) \/ ConnectionStep(c)
      PROVE  SessionInv'
  <2>1. CASE Health(c) \/ ConnectionStep(c) \/ BootstrapWritten(c)
    BY <2>1, ConnectionInv
  <2>2. ASSUME NEW r \in Replicas, BindCapabilities(c, r) PROVE SessionInv'
    BY <2>2, BindInv
  <2>3. CASE AckWritten(c)
    BY <2>3, AckWrittenInv
  <2>4. CASE BeginClose(c) \/ BeginCloseFails(c)
    BY <2>4, BeginCloseInv
  <2>5. CASE BarrierComplete(c)
    BY <2>5, BarrierInv
  <2>6. CASE \/ PeerTerminal(c) \/ LeaveOnSignal(c) \/ UnregisterWriter(c) \/ RemoveFacts(c)
             \/ CloseUnbound(c) \/ BarrierTimeout(c) \/ TaskFinished(c)
    BY <2>6, CloseInv
  <2> QED
    BY <1>3, <2>1, <2>2, <2>3, <2>4, <2>5, <2>6 DEF SessionStep, CloseStep
<1> QED
  BY <1>1, <1>2, <1>3 DEF SessionNext
-----------------------------------------------------------------------------
(* The session layer implements SessionLife *)

AbstractStage == [c \in Connections |-> StageOf(c)]
AbstractReady == {c \in Connections : Recorded(c) /\ record[c].routable}

StageName(p) ==
    CASE p = "capabilitiesBound" -> "binding" [] p \in EndPhases -> "gone" [] OTHER -> p

\* A step of one connection moves the abstract stage of that connection only, and not at
\* all before its announcement.
LEMMA StageMoves ==
    ASSUME SessionInv, NEW c \in Connections, NEW p, phase' = [phase EXCEPT ![c] = p],
           UNCHANGED bound
    PROVE  /\ bound[c] = NoReplica => AbstractStage' = AbstractStage
           /\ bound[c] # NoReplica => /\ AbstractStage' = [AbstractStage EXCEPT ![c] = StageName(p)]
                                      /\ AbstractStage[c] = StageName(phase[c])
<1>1. \A d \in Connections : phase'[d] = IF d = c THEN p ELSE phase[d]
  BY DEF SessionInv, SessionTypeOK, LayerTypeOK
<1>2. \A d \in Connections : AbstractStage[d] = StageOf(d) /\ AbstractStage'[d] = StageOf(d)'
  BY DEF AbstractStage
<1>3. \A d \in Connections :
         /\ StageOf(d) = IF bound[d] = NoReplica THEN "absent" ELSE StageName(phase[d])
         /\ StageOf(d)' = IF bound[d] = NoReplica THEN "absent" ELSE StageName(phase'[d])
  BY DEF StageOf, StageName, EndPhases
<1>4. /\ AbstractStage' = [d \in Connections |-> StageOf(d)']
      /\ AbstractStage = [d \in Connections |-> StageOf(d)]
  BY DEF AbstractStage
<1>5. ASSUME bound[c] = NoReplica PROVE AbstractStage' = AbstractStage
  <2>1. \A d \in Connections : StageOf(d)' = StageOf(d)
    BY <1>1, <1>3, <1>5
  <2> QED
    BY <1>4, <2>1
<1>6. ASSUME bound[c] # NoReplica PROVE AbstractStage' = [AbstractStage EXCEPT ![c] = StageName(p)]
  <2>1. \A d \in Connections : StageOf(d)' = IF d = c THEN StageName(p) ELSE StageOf(d)
    BY <1>1, <1>3, <1>6
  <2>2. [AbstractStage EXCEPT ![c] = StageName(p)]
           = [d \in Connections |-> IF d = c THEN StageName(p) ELSE StageOf(d)]
    BY <1>4
  <2> QED
    BY <1>4, <2>1, <2>2
<1> QED
  BY <1>2, <1>3, <1>5, <1>6
\* The abstract state before and after, in the terms of the refinement mapping.
LEMMA LifeMap ==
    ASSUME \/ /\ AbstractStage' = AbstractStage /\ AbstractReady' = AbstractReady
              /\ UNCHANGED <<bound, current>> /\ Waiting(Lane)' = Waiting(Lane)
    PROVE  UNCHANGED Life!lifeVars
BY DEF Life!lifeVars, AbstractStage, AbstractReady

\* What leaves the records and the mailboxes alone leaves the ready sessions and the inbox
\* alone.
LEMMA SameViews ==
    ASSUME UNCHANGED <<record, mailbox>>
    PROVE  AbstractReady' = AbstractReady /\ Waiting(Lane)' = Waiting(Lane)
BY DEF AbstractReady, Waiting, Recorded

LEMMA ConnectionLife ==
    ASSUME SessionInv,
           \/ \E c \in Connections : ConnectionStep(c) \/ Health(c) \/ BootstrapWritten(c)
           \/ Shutdown \/ CloseRequested \/ UNCHANGED sessionVars
    PROVE  UNCHANGED Life!lifeVars
<1>1. /\ UNCHANGED <<bound, record, current, mailbox>>
      /\ \/ phase' = phase
         \/ \E c \in Connections, p \in {"refused", "accepted", "bootstrapSent"} :
                /\ phase' = [phase EXCEPT ![c] = p]
                /\ phase[c] \in {"unused", "accepted"}
  BY ConnectionFrame
<1>2. AbstractStage' = AbstractStage
  <2>1. CASE phase' = phase
    BY <1>1, <2>1 DEF AbstractStage, StageOf
  <2>2. CASE \E c \in Connections, p \in {"refused", "accepted", "bootstrapSent"} :
                /\ phase' = [phase EXCEPT ![c] = p]
                /\ phase[c] \in {"unused", "accepted"}
    <3>1. PICK c \in Connections, p \in {"refused", "accepted", "bootstrapSent"} :
                /\ phase' = [phase EXCEPT ![c] = p]
                /\ phase[c] \in {"unused", "accepted"}
      BY <2>2
    <3>2. bound[c] = NoReplica
      BY <3>1 DEF SessionInv, RecordFollowsPhase
    <3> QED
      BY <1>1, <3>1, <3>2, StageMoves
  <2> QED
    BY <1>1, <2>1, <2>2
<1> QED
  BY <1>1, <1>2, SameViews, LifeMap

LEMMA BindLife ==
    ASSUME SessionInv, NEW c \in Connections, NEW r \in Replicas, BindCapabilities(c, r)
    PROVE  Life!LifeBind(c, r)
<1> USE SessionAssumption
<1>1. /\ phase[c] = "bootstrapSent" /\ bound[c] = NoReplica /\ record[c] = NoRecord
  BY DEF BindCapabilities, SessionInv, RecordFollowsPhase, Recorded
<1>2. PICK p \in {"capabilitiesBound", "closed"} : phase' = [phase EXCEPT ![c] = p]
  BY DEF BindCapabilities
<1>3. /\ bound' = [bound EXCEPT ![c] = r] /\ current' = [current EXCEPT ![r] = c]
      /\ UNCHANGED mailbox
  BY DEF BindCapabilities, PublishPending, consumerVars
<1>4. AbstractStage[c] = "absent" /\ AbstractStage' = [AbstractStage EXCEPT ![c] = StageName(p)]
  <2>1. \A d \in Connections : /\ phase'[d] = IF d = c THEN p ELSE phase[d]
                               /\ bound'[d] = IF d = c THEN r ELSE bound[d]
    BY <1>2, <1>3 DEF SessionInv, SessionTypeOK, LayerTypeOK
  <2>2. \A d \in Connections : StageOf(d)' = IF d = c THEN StageName(p) ELSE StageOf(d)
    BY <2>1 DEF StageOf, StageName, EndPhases
  <2>3. /\ AbstractStage' = [d \in Connections |-> StageOf(d)']
        /\ AbstractStage = [d \in Connections |-> StageOf(d)]
    BY DEF AbstractStage
  <2>4. [AbstractStage EXCEPT ![c] = StageName(p)]
           = [d \in Connections |-> IF d = c THEN StageName(p) ELSE StageOf(d)]
    BY <2>3
  <2>5. StageOf(c) = "absent"
    BY <1>1 DEF StageOf
  <2> QED
    BY <2>2, <2>3, <2>4, <2>5
<1>5. StageName(p) \in {"binding", "closed"}
  BY DEF StageName, EndPhases
<1>6. AbstractReady' = AbstractReady
  <2>1. record' = [d \in Connections |->
                    IF d = c THEN [routable |-> FALSE, cancelled |-> FALSE]
                    ELSE IF d = current[r] /\ record[d] # NoRecord
                    THEN [record[d] EXCEPT !.cancelled = TRUE]
                    ELSE record[d]]
    BY DEF BindCapabilities, PublishPending, Recorded
  <2>2. [routable |-> FALSE, cancelled |-> FALSE].routable = FALSE
    OBVIOUS
  <2>3. \A d \in Connections : record[d] # NoRecord =>
            /\ [record[d] EXCEPT !.cancelled = TRUE] \in SessionRecord
            /\ [record[d] EXCEPT !.cancelled = TRUE].routable = record[d].routable
    BY DEF SessionInv, SessionTypeOK, LayerTypeOK, SessionRecord
  <2>4. NoRecord \notin SessionRecord
    BY DEF SessionRecord
  <2>5. \A d \in Connections : (record'[d] # NoRecord /\ record'[d].routable)
                                   <=> (record[d] # NoRecord /\ record[d].routable)
    BY <1>1, <2>1, <2>2, <2>3, <2>4
  <2> QED
    BY <2>5 DEF AbstractReady, Recorded
<1>7. Waiting(Lane)' = Waiting(Lane)
  BY <1>3 DEF Waiting
<1> QED
  BY <1>3, <1>4, <1>5, <1>6, <1>7 DEF Life!LifeBind, Life!Move, AbstractStage, AbstractReady

LEMMA AckLife ==
    ASSUME SessionInv, NEW c \in Connections, AckWritten(c)
    PROVE  Life!LifeRegister(c)
<1> USE SessionAssumption
<1>1. /\ phase[c] = "capabilitiesBound" /\ phase' = [phase EXCEPT ![c] = "registered"]
      /\ UNCHANGED <<bound, current, mailbox>>
      /\ record' = IF Live(c) THEN [record EXCEPT ![c].routable = TRUE] ELSE record
  BY DEF AckWritten, MarkRegistered, bindVars, consumerVars
<1>2. bound[c] # NoReplica /\ record[c] # NoRecord
  BY <1>1 DEF SessionInv, RecordFollowsPhase, BoundPhases, EndPhases, Recorded
<1>3. Live(c) <=> current[bound[c]] = c
  BY <1>1, <1>2 DEF SessionInv, RecordFollowsPhase, BoundPhases, LiveSessionIsCurrent, Live, Recorded
<1>4. /\ AbstractStage[c] = "binding"
      /\ AbstractStage' = [AbstractStage EXCEPT ![c] = "registered"]
  <2>1. StageName("capabilitiesBound") = "binding" /\ StageName("registered") = "registered"
    BY DEF StageName, EndPhases
  <2>2. /\ AbstractStage' = [AbstractStage EXCEPT ![c] = StageName("registered")]
        /\ AbstractStage[c] = StageName(phase[c])
    BY <1>1, <1>2, StageMoves
  <2> QED
    BY <1>1, <2>1, <2>2
<1>5. AbstractReady' = IF current[bound[c]] = c THEN AbstractReady \cup {c} ELSE AbstractReady
  <2>1. CASE ~Live(c)
    BY <1>1, <1>3, <2>1 DEF AbstractReady, Recorded
  <2>2. CASE Live(c)
    <3>1. record \in [Connections -> SessionRecord \cup {NoRecord}] /\ record[c] \in SessionRecord
      BY <1>2 DEF SessionInv, SessionTypeOK, LayerTypeOK
    <3>2. /\ [record[c] EXCEPT !.routable = TRUE] \in SessionRecord
          /\ [record[c] EXCEPT !.routable = TRUE].routable = TRUE
      BY <3>1 DEF SessionRecord
    <3>3. NoRecord \notin SessionRecord
      BY DEF SessionRecord
    <3>4. \A d \in Connections :
             record'[d] = IF d = c THEN [record[c] EXCEPT !.routable = TRUE] ELSE record[d]
      BY <1>1, <2>2, <3>1
    <3>5. \A d \in Connections : (record'[d] # NoRecord /\ record'[d].routable)
                                     <=> ((record[d] # NoRecord /\ record[d].routable) \/ d = c)
      BY <3>2, <3>3, <3>4
    <3> QED
      BY <1>3, <2>2, <3>5 DEF AbstractReady, Recorded
  <2> QED
    BY <2>1, <2>2
<1>6. Waiting(Lane)' = Waiting(Lane)
  BY <1>1 DEF Waiting
<1> QED
  BY <1>1, <1>4, <1>5, <1>6 DEF Life!LifeRegister, Life!Move, AbstractStage, AbstractReady
\* The loop ends, the writer and the facts go.
LEMMA LeaveLife ==
    ASSUME SessionInv, NEW c \in Connections,
           PeerTerminal(c) \/ LeaveOnSignal(c) \/ UnregisterWriter(c) \/ RemoveFacts(c)
    PROVE  Life!LifeLeave(c) \/ Life!LifeUnwind(c) \/ UNCHANGED Life!lifeVars
<1>1. PICK from \in {OpenPhases, {"closed"}, {"writerGone"}}, p \in {"closed", "writerGone", "factsGone"} :
          /\ phase[c] \in from /\ phase' = [phase EXCEPT ![c] = p]
          /\ from = OpenPhases <=> p = "closed"
          /\ from = {"closed"} <=> p = "writerGone"
  <2>1. CASE PeerTerminal(c) \/ LeaveOnSignal(c)
    BY <2>1 DEF PeerTerminal, LeaveOnSignal, Deadline, SeeWriterError, SeeCancel, LeaveLoop, OpenPhases
  <2>2. CASE UnregisterWriter(c)
    BY <2>2 DEF UnregisterWriter, OpenPhases
  <2>3. CASE RemoveFacts(c)
    BY <2>3 DEF RemoveFacts, OpenPhases
  <2> QED
    BY <2>1, <2>2, <2>3
<1>2. UNCHANGED <<bound, record, current, mailbox>>
  BY DEF PeerTerminal, LeaveOnSignal, Deadline, SeeWriterError, SeeCancel, LeaveLoop,
      UnregisterWriter, RemoveFacts, bindVars, directoryVars, consumerVars
<1>3. AbstractReady' = AbstractReady /\ Waiting(Lane)' = Waiting(Lane)
  BY <1>2, SameViews
<1>4. CASE bound[c] = NoReplica
  BY <1>1, <1>2, <1>3, <1>4, StageMoves, LifeMap
<1>5. CASE bound[c] # NoReplica
  <2>1. /\ AbstractStage' = [AbstractStage EXCEPT ![c] = StageName(p)]
        /\ AbstractStage[c] = StageName(phase[c])
    BY <1>1, <1>2, <1>5, StageMoves
  <2>2. StageName(p) = p
    BY DEF StageName, EndPhases
  <2>3. \/ p = "closed" /\ AbstractStage[c] \in {"binding", "registered"}
        \/ p = "writerGone" /\ AbstractStage[c] = "closed"
        \/ p = "factsGone" /\ AbstractStage[c] = "writerGone"
    <3>1. CASE p = "closed"
      <4>1. phase[c] \in BoundPhases
        BY <1>1, <1>5, <3>1 DEF SessionInv, RecordFollowsPhase, OpenPhases, BoundPhases
      <4> QED
        BY <2>1, <3>1, <4>1 DEF BoundPhases, StageName, EndPhases
    <3>2. CASE p # "closed"
      BY <1>1, <2>1, <3>2 DEF StageName, EndPhases
    <3> QED
      BY <3>1, <3>2
  <2> QED
    BY <1>2, <1>3, <2>1, <2>2, <2>3 DEF Life!LifeLeave, Life!LifeUnwind, Life!Move, AbstractStage,
        AbstractReady
<1> QED
  BY <1>4, <1>5

\* The close ends without a barrier or with its timeout, or the task is over.
LEMMA EndLife ==
    ASSUME SessionInv, NEW c \in Connections,
           CloseUnbound(c) \/ BarrierTimeout(c) \/ TaskFinished(c)
    PROVE  Life!LifeGiveUp(c) \/ UNCHANGED Life!lifeVars
<1>1. PICK p \in EndPhases : phase' = [phase EXCEPT ![c] = p]
  BY DEF CloseUnbound, BarrierTimeout, TaskFinished, EndPhases
<1>2. UNCHANGED <<bound, record, current, mailbox>>
  BY DEF CloseUnbound, BarrierTimeout, TaskFinished, bindVars, directoryVars, consumerVars
<1>3. AbstractReady' = AbstractReady /\ Waiting(Lane)' = Waiting(Lane)
  BY <1>2, SameViews
<1>4. CASE bound[c] = NoReplica
  BY <1>1, <1>2, <1>3, <1>4, StageMoves, LifeMap
<1>5. CASE bound[c] # NoReplica
  <2>1. /\ AbstractStage' = [AbstractStage EXCEPT ![c] = StageName(p)]
        /\ AbstractStage[c] = StageName(phase[c])
    BY <1>1, <1>2, <1>5, StageMoves
  <2>2. StageName(p) = "gone"
    BY DEF StageName, EndPhases
  <2>3. ~CloseUnbound(c)
    BY <1>5 DEF CloseUnbound, SessionInv, RecordFollowsPhase, EndPhases
  <2>4. CASE BarrierTimeout(c)
    <3>1. AbstractStage[c] = "barrier"
      BY <2>1, <2>4 DEF BarrierTimeout, StageName, EndPhases
    <3> QED
      BY <1>2, <1>3, <2>1, <2>2, <3>1 DEF Life!LifeGiveUp, Life!Move, AbstractStage, AbstractReady
  <2>5. CASE TaskFinished(c)
    <3>1. AbstractStage[c] = "gone"
      BY <2>1, <2>5 DEF TaskFinished, StageName, EndPhases
    <3>2. AbstractStage' = AbstractStage
      BY <2>1, <2>2, <3>1 DEF AbstractStage
    <3> QED
      BY <1>2, <1>3, <3>2, LifeMap
  <2> QED
    BY <2>3, <2>4, <2>5
<1> QED
  BY <1>4, <1>5

\* The terminal reaches the lane, or the Router gives up.
LEMMA BeginCloseLife ==
    ASSUME SessionInv, NEW c \in Connections, BeginClose(c) \/ BeginCloseFails(c)
    PROVE  Life!LifeClose(c) \/ Life!LifeGiveUp(c)
<1> USE SessionAssumption
<1>1. /\ phase[c] = "factsGone" /\ record[c] # NoRecord
      /\ record' = [record EXCEPT ![c].cancelled = TRUE]
      /\ UNCHANGED <<bound, current>>
  BY DEF BeginClose, BeginCloseFails, Recorded, bindVars
<1>2. bound[c] # NoReplica
  BY <1>1 DEF SessionInv, RecordFollowsPhase, Recorded
<1>3. AbstractReady' = AbstractReady
  <2>1. record \in [Connections -> SessionRecord \cup {NoRecord}] /\ record[c] \in SessionRecord
    BY <1>1 DEF SessionInv, SessionTypeOK, LayerTypeOK
  <2>2. /\ [record[c] EXCEPT !.cancelled = TRUE] \in SessionRecord
        /\ [record[c] EXCEPT !.cancelled = TRUE].routable = record[c].routable
    BY <2>1 DEF SessionRecord
  <2>3. NoRecord \notin SessionRecord
    BY DEF SessionRecord
  <2>4. \A d \in Connections :
           record'[d] = IF d = c THEN [record[c] EXCEPT !.cancelled = TRUE] ELSE record[d]
    BY <1>1, <2>1
  <2>5. \A d \in Connections : (record'[d] # NoRecord /\ record'[d].routable)
                                   <=> (record[d] # NoRecord /\ record[d].routable)
    BY <2>1, <2>2, <2>3, <2>4
  <2> QED
    BY <2>5 DEF AbstractReady, Recorded
<1>4. ASSUME NEW targets \in SUBSET Consumers, Deliver(c, targets)
      PROVE  Waiting(Lane)' = IF Lane \in targets THEN Waiting(Lane) \cup {c} ELSE Waiting(Lane)
  <2>1. mailbox[Lane] \in Seq(Connections) /\ Len(mailbox[Lane]) \in Nat
    BY DEF SessionInv, SessionTypeOK, ConsumerTypeOK
  <2>2. mailbox'[Lane] = IF Lane \in targets THEN Append(mailbox[Lane], c) ELSE mailbox[Lane]
    BY <1>4 DEF Deliver
  <2>3. CASE Lane \notin targets
    BY <2>2, <2>3 DEF Waiting
  <2>4. CASE Lane \in targets
    <3>1. /\ Len(mailbox'[Lane]) = Len(mailbox[Lane]) + 1
          /\ \A i \in 1..Len(mailbox[Lane]) : mailbox'[Lane][i] = mailbox[Lane][i]
          /\ mailbox'[Lane][Len(mailbox[Lane]) + 1] = c
      BY <2>1, <2>2, <2>4
    <3>2. \A d \in Connections : (\E i \in 1..Len(mailbox'[Lane]) : mailbox'[Lane][i] = d)
                                    <=> ((\E i \in 1..Len(mailbox[Lane]) : mailbox[Lane][i] = d) \/ d = c)
      <4> SUFFICES ASSUME NEW d \in Connections
                   PROVE  (\E i \in 1..Len(mailbox'[Lane]) : mailbox'[Lane][i] = d)
                              <=> ((\E i \in 1..Len(mailbox[Lane]) : mailbox[Lane][i] = d) \/ d = c)
        OBVIOUS
      <4>1. \A i \in 1..Len(mailbox'[Lane]) : i \in 1..Len(mailbox[Lane]) \/ i = Len(mailbox[Lane]) + 1
        BY <2>1, <3>1
      <4>2. /\ \A i \in 1..Len(mailbox[Lane]) : i \in 1..Len(mailbox'[Lane])
            /\ Len(mailbox[Lane]) + 1 \in 1..Len(mailbox'[Lane])
        BY <2>1, <3>1
      <4> QED
        BY <3>1, <4>1, <4>2
    <3> QED
      BY <2>4, <3>2 DEF Waiting
  <2> QED
    BY <2>3, <2>4
<1>5. CASE BeginClose(c)
  <2>1. phase' = [phase EXCEPT ![c] = "barrier"] /\ Waiting(Lane)' = Waiting(Lane) \cup {c}
    BY <1>4, <1>5 DEF BeginClose
  <2>2. /\ AbstractStage' = [AbstractStage EXCEPT ![c] = StageName("barrier")]
        /\ AbstractStage[c] = StageName(phase[c])
    BY <1>1, <1>2, <2>1, StageMoves
  <2>3. StageName("barrier") = "barrier" /\ StageName("factsGone") = "factsGone"
    BY DEF StageName, EndPhases
  <2> QED
    BY <1>1, <1>3, <2>1, <2>2, <2>3 DEF Life!LifeClose, Life!Move, AbstractStage, AbstractReady
<1>6. CASE BeginCloseFails(c)
  <2>1. /\ phase' = [phase EXCEPT ![c] = "drained"]
        /\ Waiting(Lane)' \in {Waiting(Lane), Waiting(Lane) \cup {c}}
    BY <1>4, <1>6 DEF BeginCloseFails
  <2>2. /\ AbstractStage' = [AbstractStage EXCEPT ![c] = StageName("drained")]
        /\ AbstractStage[c] = StageName(phase[c])
    BY <1>1, <1>2, <2>1, StageMoves
  <2>3. StageName("drained") = "gone" /\ StageName("factsGone") = "factsGone"
    BY DEF StageName, EndPhases
  <2> QED
    BY <1>1, <1>3, <2>1, <2>2, <2>3 DEF Life!LifeGiveUp, Life!Move, AbstractStage, AbstractReady
<1> QED
  BY <1>5, <1>6
\* The lane takes the only entry of a session out of its mailbox; the mailboxes of the
\* other consumers are not seen.
LEMMA ConsumeLife ==
    ASSUME SessionInv, NEW k \in Consumers, ConsumeTerminal(k)
    PROVE  (\E c \in Connections : Life!LifeConsume(c)) \/ UNCHANGED Life!lifeVars
<1> DEFINE c == Head(mailbox[k])
<1>1. /\ UNCHANGED <<phase, bound, record, current>>
      /\ mailbox' = [mailbox EXCEPT ![k] = Tail(mailbox[k])] /\ mailbox[k] # <<>>
  BY DEF ConsumeTerminal, bindVars, directoryVars
<1>2. AbstractStage' = AbstractStage /\ AbstractReady' = AbstractReady
  BY <1>1 DEF AbstractStage, StageOf, AbstractReady, Recorded
<1>3. CASE k # Lane
  <2>1. mailbox'[Lane] = mailbox[Lane]
    BY <1>1, <1>3 DEF SessionInv, SessionTypeOK, ConsumerTypeOK
  <2>2. Waiting(Lane)' = Waiting(Lane)
    BY <2>1 DEF Waiting
  <2> QED
    BY <1>1, <1>2, <2>2, LifeMap
<1>4. CASE k = Lane
  <2>1. /\ mailbox[k] \in Seq(Connections) /\ Len(mailbox[k]) \in Nat \ {0}
        /\ c \in Connections /\ c = mailbox[k][1]
    BY <1>1 DEF SessionInv, SessionTypeOK, ConsumerTypeOK
  <2>2. /\ mailbox'[k] = Tail(mailbox[k]) /\ Len(mailbox'[k]) = Len(mailbox[k]) - 1
        /\ \A i \in 1..Len(mailbox'[k]) : mailbox'[k][i] = mailbox[k][i + 1]
    BY <1>1, <2>1 DEF SessionInv, SessionTypeOK, ConsumerTypeOK
  <2>3. \A i, j \in 1..Len(mailbox[k]) : i # j => mailbox[k][i] # mailbox[k][j]
    BY DEF SessionInv, TerminalIsDeliveredOnce
  <2>4. ASSUME NEW d \in Connections
        PROVE  (\E i \in 1..Len(mailbox'[k]) : mailbox'[k][i] = d)
                   <=> ((\E i \in 1..Len(mailbox[k]) : mailbox[k][i] = d) /\ d # c)
    <3>1. ASSUME NEW i \in 1..Len(mailbox'[k]), mailbox'[k][i] = d
          PROVE  (\E j \in 1..Len(mailbox[k]) : mailbox[k][j] = d) /\ d # c
      <4>1. i + 1 \in 1..Len(mailbox[k]) /\ 1 \in 1..Len(mailbox[k]) /\ i + 1 # 1
        BY <2>1, <2>2
      <4> QED
        BY <2>1, <2>2, <2>3, <3>1, <4>1
    <3>2. ASSUME NEW i \in 1..Len(mailbox[k]), mailbox[k][i] = d, d # c
          PROVE  \E j \in 1..Len(mailbox'[k]) : mailbox'[k][j] = d
      <4>1. i # 1
        BY <2>1, <3>2
      <4>2. i - 1 \in 1..Len(mailbox'[k]) /\ (i - 1) + 1 = i
        BY <2>1, <2>2, <4>1
      <4> QED
        BY <2>2, <3>2, <4>2
    <3> QED
      BY <3>1, <3>2
  <2>5. c \in Waiting(Lane) /\ Waiting(Lane)' = Waiting(Lane) \ {c}
    <3>1. 1 \in 1..Len(mailbox[k])
      BY <2>1
    <3> QED
      BY <1>4, <2>1, <2>4, <3>1 DEF Waiting
  <2>6. Life!LifeConsume(c)
    BY <1>1, <1>2, <2>5 DEF Life!LifeConsume, AbstractStage, AbstractReady
  <2> QED
    BY <2>1, <2>6
<1> QED
  BY <1>3, <1>4

\* The record goes only when the lane has acknowledged, so its terminal is not waiting.
LEMMA BarrierLife ==
    ASSUME SessionInv, NEW c \in Connections, BarrierComplete(c)
    PROVE  Life!LifeForget(c) \/ UNCHANGED Life!lifeVars
<1> USE SessionAssumption
<1>1. /\ phase[c] = "barrier" /\ phase' = [phase EXCEPT ![c] = "drained"] /\ acks[c] = Consumers
      /\ record' = [record EXCEPT ![c] = NoRecord]
      /\ current' = IF current[bound[c]] = c
                    THEN [current EXCEPT ![bound[c]] = NoConnection] ELSE current
      /\ UNCHANGED <<bound, mailbox>>
  BY DEF BarrierComplete, DeleteRecord, bindVars, consumerVars
<1>2. c \notin Waiting(Lane) /\ Waiting(Lane)' = Waiting(Lane)
  BY <1>1 DEF Waiting, SessionInv, TerminalIsDeliveredOnce
<1>3. AbstractReady' = AbstractReady \ {c}
  <2>1. \A d \in Connections : record'[d] = IF d = c THEN NoRecord ELSE record[d]
    BY <1>1 DEF SessionInv, SessionTypeOK, LayerTypeOK
  <2> QED
    BY <2>1 DEF AbstractReady, Recorded
<1>4. CASE bound[c] = NoReplica
  <2>1. c \notin AbstractReady
    BY <1>4 DEF AbstractReady, SessionInv, RecordFollowsPhase
  <2>2. AbstractReady' = AbstractReady
    BY <1>3, <2>1
  <2>3. current' = current
    BY <1>1, <1>4 DEF SessionInv, SessionTypeOK, LayerTypeOK
  <2> QED
    BY <1>1, <1>2, <1>4, <2>2, <2>3, StageMoves, LifeMap
<1>5. CASE bound[c] # NoReplica
  <2>1. /\ AbstractStage' = [AbstractStage EXCEPT ![c] = StageName("drained")]
        /\ AbstractStage[c] = StageName(phase[c])
    BY <1>1, <1>5, StageMoves
  <2>2. StageName("drained") = "gone" /\ StageName("barrier") = "barrier"
    BY DEF StageName, EndPhases
  <2> QED
    BY <1>1, <1>2, <1>3, <2>1, <2>2 DEF Life!LifeForget, Life!Move, AbstractStage, AbstractReady
<1> QED
  BY <1>4, <1>5

\* Every step of the session layer is a step of SessionLife or leaves it as it is.
LEMMA SessionStepLife ==
    ASSUME SessionInv, [SessionNext]_sessionVars \/ CloseRequested
    PROVE  [Life!LifeNext]_(Life!lifeVars)
<1>1. CASE CloseRequested \/ UNCHANGED sessionVars \/ Shutdown
  BY <1>1, ConnectionLife
<1>2. ASSUME NEW k \in Consumers, ConsumeTerminal(k) PROVE [Life!LifeNext]_(Life!lifeVars)
  BY <1>2, ConsumeLife DEF Life!LifeNext
<1>3. ASSUME NEW c \in Connections, SessionStep(c) \/ Health(c) \/ ConnectionStep(c)
      PROVE  Life!LifeStep(c) \/ UNCHANGED Life!lifeVars
  <2>1. CASE Health(c) \/ ConnectionStep(c) \/ BootstrapWritten(c)
    BY <2>1, ConnectionLife
  <2>2. ASSUME NEW r \in Replicas, BindCapabilities(c, r) PROVE Life!LifeStep(c)
    BY <2>2, BindLife DEF Life!LifeStep
  <2>3. CASE AckWritten(c)
    BY <2>3, AckLife DEF Life!LifeStep
  <2>4. CASE BeginClose(c) \/ BeginCloseFails(c)
    BY <2>4, BeginCloseLife DEF Life!LifeStep
  <2>5. CASE BarrierComplete(c)
    BY <2>5, BarrierLife DEF Life!LifeStep
  <2>6. CASE PeerTerminal(c) \/ LeaveOnSignal(c) \/ UnregisterWriter(c) \/ RemoveFacts(c)
    BY <2>6, LeaveLife DEF Life!LifeStep
  <2>7. CASE CloseUnbound(c) \/ BarrierTimeout(c) \/ TaskFinished(c)
    BY <2>7, EndLife DEF Life!LifeStep
  <2> QED
    BY <1>3, <2>1, <2>2, <2>3, <2>4, <2>5, <2>6, <2>7 DEF SessionStep, CloseStep
<1> QED
  BY <1>1, <1>2, <1>3 DEF SessionNext, Life!LifeNext

LEMMA SessionInitLife == SessionInit => Life!LifeInit
BY SessionAssumption DEF SessionInit, Life!LifeInit, StageOf, Waiting, Recorded

\* A step of the dispatcher is, for the session layer, one of its own steps, a request to
\* close a session, or nothing.
LEMMA RequestStepsSessions ==
    ASSUME SessionInv, [RequestNext]_vars
    PROVE  [SessionNext]_sessionVars \/ CloseRequested
<1>1. \A c : RequestClose(c) \subseteq Connections
  BY DEF RequestClose, Cancellable, SessionInv, SessionTypeOK, LayerTypeOK
<1>2. ASSUME NEW q, Cancel(q), UNCHANGED sessionsButClose PROVE CloseRequested
  BY <1>1, <1>2 DEF Cancel, CancelFrame, CloseRequested, SessionInv, SessionTypeOK, LayerTypeOK
<1>3. CASE SessionMoves \/ Acknowledge
  BY <1>3, RequestAssumption DEF SessionMoves, Acknowledge, SessionNext
<1>4. ASSUME NEW q \in Requests, NEW k \in Kinds, SubmitRejected(q, k) \/ SubmitSelect(q, k)
      PROVE  UNCHANGED sessionVars
  BY <1>4 DEF SubmitRejected, SubmitSelect
<1>5. CASE EndSubmit
  <2>1. CASE SubmitUnwritten
    BY <1>1, <2>1 DEF SubmitUnwritten, CloseRequested
  <2> QED
    BY <1>5, <2>1 DEF EndSubmit, SubmitExpired, SubmitRevalidated, SubmitReselected, SubmitEnqueued
<1>6. ASSUME NEW c \in Connections, NEW q \in Requests, FrameStep(c, q)
      PROVE  UNCHANGED sessionVars \/ CloseRequested
  BY <1>2, <1>6 DEF FrameStep, ResponseStart, ResponseChunk, FeedChunk, ResponseEnd, ResponseError,
      ResponseViolation
<1>7. ASSUME NEW c \in Connections, RelayStep(c)
      PROVE  UNCHANGED sessionVars \/ CloseRequested
  <2>1. CASE RelayDelivered(c)
    BY <2>1 DEF RelayDelivered
  <2>2. CASE RelayFailed(c)
    <3>1. UNCHANGED sessionsButClose /\ (UNCHANGED cancelReq \/ \E q : Cancel(q))
      BY <2>2 DEF RelayFailed
    <3>2. CASE UNCHANGED cancelReq
      BY <3>1, <3>2 DEF CloseRequested, SessionInv, SessionTypeOK, LayerTypeOK
    <3> QED
      BY <1>2, <3>1, <3>2
  <2> QED
    BY <1>7, <2>1, <2>2 DEF RelayStep
<1>8. ASSUME NEW q \in Requests, CallerStep(q)
      PROVE  UNCHANGED sessionVars \/ CloseRequested
  BY <1>2, <1>8 DEF CallerStep, PhaseStep, AttemptTimeout, Register, ClientGone, CallerTimeout,
      SinkRefused, Abandon, Answer,
      StreamOn
<1>9. CASE SessionClosed \/ \E q \in Requests : RelayDisconnect(q)
  BY <1>9 DEF SessionClosed, RelayDisconnect
<1>10. CASE UNCHANGED vars
  BY <1>10 DEF vars
<1> QED
  BY <1>3, <1>4, <1>5, <1>6, <1>7, <1>8, <1>9, <1>10 DEF RequestNext, ConsumerStep

-----------------------------------------------------------------------------
(* Theorems about the sessions *)

\* The session layer alone, and under the dispatcher: every variable keeps its type, a
\* record that is not cancelled is the current session of its replica, and the current
\* entry of a replica leads to a record of that replica (directory.rs publish_pending,
\* begin_close, ack_close).
THEOREM SessionsStayCurrent ==
    SessionSpec => [](SessionTypeOK /\ LiveSessionIsCurrent /\ CurrentIsRecorded)
<1>1. SessionInv /\ [SessionNext]_sessionVars => SessionInv'
  BY SessionStepInv
<1> QED
  BY <1>1, SessionInitInv, PTL DEF SessionSpec, SessionInv

THEOREM DispatchedSessionsStayCurrent ==
    RequestSpec => [](SessionTypeOK /\ LiveSessionIsCurrent /\ CurrentIsRecorded)
<1>1. SessionInv /\ [RequestNext]_vars => SessionInv'
  BY SessionStepInv, RequestStepsSessions
<1>2. RequestInit => SessionInv
  BY SessionInitInv DEF RequestInit
<1> QED
  BY <1>1, <1>2, PTL DEF RequestSpec, SessionInv

\* Towards a lane, the session layer does what SessionLife says: a session becomes a
\* candidate once, loses its writer and its facts before its terminal is delivered, and
\* is forgotten only after the lane has processed the terminal (layer.rs close_session).
THEOREM SessionsImplementLife == SessionSpec => ImplementsLife
<1>1. SessionInv /\ [SessionNext]_sessionVars => SessionInv'
  BY SessionStepInv
<1>2. SessionInv /\ [SessionNext]_sessionVars => [Life!LifeNext]_(Life!lifeVars)
  BY SessionStepLife
<1> QED
  BY <1>1, <1>2, SessionInitInv, SessionInitLife, PTL DEF SessionSpec, ImplementsLife, Life!LifeSpec

THEOREM DispatchImplementsLife == RequestSpec => ImplementsLife
<1>1. SessionInv /\ [RequestNext]_vars => SessionInv'
  BY SessionStepInv, RequestStepsSessions
<1>2. SessionInv /\ [RequestNext]_vars => [Life!LifeNext]_(Life!lifeVars)
  BY SessionStepLife, RequestStepsSessions
<1>3. RequestInit => SessionInv /\ Life!LifeInit
  BY SessionInitInv, SessionInitLife DEF RequestInit
<1> QED
  BY <1>1, <1>2, <1>3, PTL DEF RequestSpec, ImplementsLife, Life!LifeSpec
-----------------------------------------------------------------------------
(* The invariant of the dispatcher *)

PendingOn(c) == {q \in Requests : HasPending(q) /\ SessionOf(q) = c}
Held(c) == IF submitting # NoSubmit /\ submitting.session = c THEN 1 ELSE 0

\* The permits of a session, pendings and running submit together.
PermitInv ==
    \A c \in Connections :
        /\ IsFiniteSet(PendingOn(c))
        /\ inFlight[c] = Cardinality(PendingOn(c)) + Held(c)
        /\ inFlight[c] <= MaxConcurrency

\* A request has no pending before its submit has ended.
FreshHasNone == \A q \in Requests : caller[q] \in {"idle", "submitted"} => ~HasPending(q)

\* While a submit runs, none of the sessions it may still choose is closed to the
\* dispatcher, so all have their record.
LeaseIsOpen ==
    submitting # NoSubmit =>
        /\ submitting.session \in submitting.leases
        /\ \A c \in submitting.leases : c \notin closed /\ Recorded(c)
        /\ caller[submitting.request] = "submitted"

\* The dispatcher acknowledges a terminal only after it has closed the session for itself.
AckedIsClosed == \A c \in Connections : "RequestDispatcher" \in acks[c] => c \in closed

ConsumedIsHead ==
    consumed # NoConnection =>
        /\ mailbox["RequestDispatcher"] # <<>>
        /\ Head(mailbox["RequestDispatcher"]) = consumed
        /\ consumed \in closed

PendingInv ==
    /\ PermitInv /\ FreshHasNone /\ LeaseIsOpen
    /\ NoPendingOnClosedSession /\ PendingHasRecord

BarrierCovers == AckedIsClosed /\ ConsumedIsHead

DispatchInv == SessionInv /\ RequestTypeOK /\ PendingInv /\ BarrierCovers

LEMMA DispatchInitInv == RequestInit => DispatchInv
<1> SUFFICES ASSUME RequestInit PROVE DispatchInv
  OBVIOUS
<1> USE SessionAssumption, RequestAssumption DEF RequestInit
<1>1. SessionInv
  BY SessionInitInv
<1>2. RequestTypeOK
  <2>1. DispatcherTypeOK
    BY DEF DispatcherTypeOK
  <2>2. RelayTypeOK
    BY DEF RelayTypeOK
  <2>3. HttpTypeOK
    BY DEF HttpTypeOK
  <2> QED
    BY <2>1, <2>2, <2>3 DEF RequestTypeOK
<1>3. PendingInv
  <2>1. \A c \in Connections : PendingOn(c) = {} /\ Held(c) = 0
    BY DEF PendingOn, HasPending, Held
  <2>2. IsFiniteSet({}) /\ Cardinality({}) = 0
    BY FS_EmptySet
  <2>3. PermitInv
    <3> SUFFICES ASSUME NEW c \in Connections
                 PROVE  /\ IsFiniteSet(PendingOn(c))
                        /\ inFlight[c] = Cardinality(PendingOn(c)) + Held(c)
                        /\ inFlight[c] <= MaxConcurrency
      BY DEF PermitInv
    <3>1. PendingOn(c) = {} /\ Held(c) = 0 /\ inFlight[c] = 0
      BY <2>1
    <3>2. 0 = 0 + 0 /\ 0 <= MaxConcurrency
      OBVIOUS
    <3> QED
      BY <2>2, <3>1, <3>2
  <2> QED
    BY <2>3 DEF PendingInv, FreshHasNone, LeaseIsOpen, NoPendingOnClosedSession, PendingHasRecord,
        HasPending
<1>4. BarrierCovers
  BY DEF BarrierCovers, AckedIsClosed, ConsumedIsHead, SessionInit
<1> QED
  BY <1>1, <1>2, <1>3, <1>4 DEF DispatchInv

-----------------------------------------------------------------------------
(* Steps of the session layer, seen by the dispatcher *)

\* A record goes only when the dispatcher has acknowledged, and its mailbox only grows
\* unless it takes the head out itself.
LEMMA SessionFrame ==
    ASSUME SessionInv, SessionMoves
    PROVE  /\ UNCHANGED requestVars
           /\ \A c \in Connections : "RequestDispatcher" \in acks'[c] => "RequestDispatcher" \in acks[c]
           /\ \A c \in Connections :
                 Recorded(c) => Recorded(c)' \/ "RequestDispatcher" \in acks[c]
           /\ \/ mailbox'["RequestDispatcher"] = mailbox["RequestDispatcher"]
              \/ \E c \in Connections :
                    mailbox'["RequestDispatcher"] = Append(mailbox["RequestDispatcher"], c)
<1> USE SessionAssumption, RequestAssumption
<1> DEFINE RD == "RequestDispatcher"
           Framed == /\ \A c \in Connections : RD \in acks'[c] => RD \in acks[c]
                     /\ \A c \in Connections : record[c] # NoRecord => record'[c] # NoRecord \/ RD \in acks[c]
                     /\ \/ mailbox'[RD] = mailbox[RD]
                        \/ \E c \in Connections : mailbox'[RD] = Append(mailbox[RD], c)
<1>0. /\ record \in [Connections -> SessionRecord \cup {NoRecord}]
      /\ acks \in [Connections -> SUBSET Consumers] /\ DOMAIN mailbox = Consumers
      /\ NoRecord \notin SessionRecord
  BY DEF SessionInv, SessionTypeOK, LayerTypeOK, ConsumerTypeOK, SessionRecord
<1>1. ASSUME Shutdown PROVE Framed
  BY <1>1 DEF Shutdown, directoryVars, consumerVars
<1>2. ASSUME NEW k \in Consumers \ {RD}, ConsumeTerminal(k) PROVE Framed
  <2>1. mailbox'[RD] = mailbox[RD] /\ UNCHANGED record
    BY <1>0, <1>2 DEF ConsumeTerminal, directoryVars
  <2>2. \A c \in Connections : acks'[c] \subseteq acks[c] \cup {k}
    BY <1>0, <1>2 DEF ConsumeTerminal
  <2> QED
    BY <2>1, <2>2
<1>3. ASSUME NEW c \in Connections, ConnectionStep(c) \/ BootstrapWritten(c) PROVE Framed
  BY <1>3, ConnectionFrame
<1>4. ASSUME NEW c \in Connections, NEW r \in Replicas, BindCapabilities(c, r) PROVE Framed
  <2>1. UNCHANGED <<mailbox, acks>>
    BY <1>4 DEF BindCapabilities, consumerVars
  <2>2. \A d \in Connections :
           \/ record'[d] = record[d]
           \/ record'[d] = [routable |-> FALSE, cancelled |-> FALSE]
           \/ record'[d] = [record[d] EXCEPT !.cancelled = TRUE]
    BY <1>4 DEF BindCapabilities, PublishPending
  <2>3. \A d \in Connections : record[d] # NoRecord =>
           /\ [routable |-> FALSE, cancelled |-> FALSE] # NoRecord
           /\ [record[d] EXCEPT !.cancelled = TRUE] # NoRecord
    <3>1. [routable |-> FALSE, cancelled |-> FALSE] # NoRecord
      <4>1. [routable |-> FALSE, cancelled |-> FALSE] \in SessionRecord
        BY DEF SessionRecord
      <4> QED
        BY <1>0, <4>1, Zenon
    <3>2. \A x \in SessionRecord : [x EXCEPT !.cancelled = TRUE] # NoRecord
      BY DEF SessionRecord
    <3> QED
      BY <1>0, <3>1, <3>2
  <2>4. \A d \in Connections : record[d] # NoRecord => record'[d] # NoRecord
    BY <1>0, <2>2, <2>3
  <2> QED
    BY <2>1, <2>4
<1>5. ASSUME NEW c \in Connections, AckWritten(c) PROVE Framed
  <2>1. UNCHANGED <<mailbox, acks>>
    BY <1>5 DEF AckWritten, consumerVars
  <2>2. \A d \in Connections :
           record'[d] = record[d] \/ record'[d] = [record[d] EXCEPT !.routable = TRUE]
    <3>1. record' = record \/ record' = [record EXCEPT ![c].routable = TRUE]
      BY <1>5 DEF AckWritten, MarkRegistered
    <3> QED
      BY <1>0, <3>1
  <2>3. \A d \in Connections : record[d] # NoRecord =>
           [record[d] EXCEPT !.routable = TRUE] # NoRecord
    BY <1>0 DEF SessionRecord
  <2>4. \A d \in Connections : record[d] # NoRecord => record'[d] # NoRecord
    BY <2>2, <2>3
  <2> QED
    BY <2>1, <2>4
<1>6. ASSUME NEW c \in Connections, BeginClose(c) \/ BeginCloseFails(c) PROVE Framed
  <2>1. UNCHANGED acks /\ record' = [record EXCEPT ![c].cancelled = TRUE]
    BY <1>6 DEF BeginClose, BeginCloseFails
  <2>2. \A d \in Connections : record[d] # NoRecord =>
           [record[d] EXCEPT !.cancelled = TRUE] # NoRecord
    BY <1>0 DEF SessionRecord
  <2>3. \A d \in Connections :
           record'[d] = record[d] \/ record'[d] = [record[d] EXCEPT !.cancelled = TRUE]
    BY <1>0, <2>1
  <2>4. mailbox'[RD] = mailbox[RD] \/ mailbox'[RD] = Append(mailbox[RD], c)
    BY <1>6 DEF BeginClose, BeginCloseFails, Deliver
  <2>5. \A d \in Connections : record[d] # NoRecord => record'[d] # NoRecord
    BY <2>2, <2>3
  <2> QED
    BY <2>1, <2>4, <2>5
<1>7. ASSUME NEW c \in Connections, BarrierComplete(c) PROVE Framed
  BY <1>0, <1>7 DEF BarrierComplete, DeleteRecord, consumerVars
<1>8. ASSUME NEW c \in Connections,
             \/ PeerTerminal(c) \/ LeaveOnSignal(c) \/ UnregisterWriter(c) \/ RemoveFacts(c)
             \/ CloseUnbound(c) \/ BarrierTimeout(c)
      PROVE  Framed
  BY <1>8 DEF PeerTerminal, LeaveOnSignal, Deadline, SeeWriterError, SeeCancel, LeaveLoop,
      UnregisterWriter, RemoveFacts, CloseUnbound, BarrierTimeout, directoryVars, consumerVars
<1>9. ASSUME NEW c \in Connections, TaskFinished(c) PROVE Framed
  BY <1>0, <1>9 DEF TaskFinished, directoryVars
<1>10. UNCHANGED requestVars
  BY DEF SessionMoves
<1>11. Framed
  BY <1>1, <1>2, <1>3, <1>4, <1>5, <1>6, <1>7, <1>8, <1>9 DEF SessionMoves, SessionStep, CloseStep
<1> QED
  BY <1>10, <1>11 DEF Recorded

LEMMA SessionMovesInv ==
    ASSUME DispatchInv, SessionMoves
    PROVE  DispatchInv'
<1>1. SessionInv'
  <2>1. SessionNext
    BY DEF SessionMoves, SessionNext
  <2> QED
    BY <2>1, SessionStepInv DEF DispatchInv
<1>2. /\ UNCHANGED <<kind, sent, pending, inFlight, closed, submitting, correlated, channel, caller, body,
                     relay, consumed, unrelayed>>
  BY DEF SessionMoves, requestVars, dispatcherVars, httpVars, relayVars
<1>3. RequestTypeOK'
  BY <1>2 DEF DispatchInv, RequestTypeOK, DispatcherTypeOK, RelayTypeOK, HttpTypeOK
<1>4. PendingInv'
  <2>1. PermitInv' /\ FreshHasNone' /\ NoPendingOnClosedSession'
    BY <1>2 DEF DispatchInv, PendingInv, PermitInv, PendingOn, Held, HasPending, SessionOf, FreshHasNone,
        NoPendingOnClosedSession
  <2>2. \A c \in Connections : Recorded(c) /\ c \notin closed => Recorded(c)'
    BY SessionFrame DEF DispatchInv, BarrierCovers, AckedIsClosed
  <2>3. submitting # NoSubmit => submitting \in Submit
    BY DEF DispatchInv, RequestTypeOK, DispatcherTypeOK
  <2>4. LeaseIsOpen'
    BY <1>2, <2>2, <2>3 DEF DispatchInv, PendingInv, LeaseIsOpen, Submit
  <2>5. \A q \in Requests : HasPending(q) => SessionOf(q) \in Connections
    BY DEF DispatchInv, RequestTypeOK, DispatcherTypeOK, HasPending, SessionOf, Pending
  <2>6. PendingHasRecord'
    BY <1>2, <2>2, <2>5 DEF DispatchInv, PendingInv, PendingHasRecord, NoPendingOnClosedSession,
        HasPending, SessionOf
  <2> QED
    BY <2>1, <2>4, <2>6 DEF PendingInv
<1>5. BarrierCovers'
  <2>1. AckedIsClosed'
    BY <1>2, SessionFrame DEF DispatchInv, BarrierCovers, AckedIsClosed
  <2>2. ConsumedIsHead'
    <3> SUFFICES ASSUME consumed # NoConnection
                 PROVE  /\ mailbox'["RequestDispatcher"] # <<>>
                        /\ Head(mailbox'["RequestDispatcher"]) = consumed
                        /\ consumed \in closed
      BY <1>2 DEF ConsumedIsHead
    <3> DEFINE m == mailbox["RequestDispatcher"]
    <3>1. m # <<>> /\ Head(m) = consumed /\ consumed \in closed /\ m \in Seq(Connections)
      BY RequestAssumption DEF DispatchInv, BarrierCovers, ConsumedIsHead, SessionInv, SessionTypeOK,
          ConsumerTypeOK
    <3>2. \A c \in Connections : Append(m, c) # <<>> /\ Head(Append(m, c)) = Head(m)
      BY <3>1
    <3>3. mailbox'["RequestDispatcher"] = m \/ \E c \in Connections : mailbox'["RequestDispatcher"] = Append(m, c)
      BY SessionFrame DEF DispatchInv
    <3> QED
      BY <3>1, <3>2, <3>3
  <2> QED
    BY <2>1, <2>2 DEF BarrierCovers
<1> QED
  BY <1>1, <1>3, <1>4, <1>5 DEF DispatchInv
-----------------------------------------------------------------------------
(* Types of the relay and of the HTTP phase *)

LEMMA EventTypes ==
    /\ \A t \in {"start", "chunk", "end", "error"} \cup Terminals : Event(t) \in Events
    /\ \A n \in 0..MaxChunks : [type |-> "chunk", seq |-> n] \in Events
    /\ \A e \in Events : e.seq \in 0..MaxChunks
BY RequestAssumption DEF Event, Events, Terminals

LEMMA RelayTypes ==
    ASSUME RelayTypeOK, NEW c \in Connections, NEW q \in Requests, NEW events \in Seq(Events),
           Relay(c, q, events)
    PROVE  relay' \in [Connections -> Seq([request : Requests, event : Events])]
<1> DEFINE R == [request : Requests, event : Events]
           new == [i \in DOMAIN events |-> [request |-> q, event |-> events[i]]]
<1>1. relay \in [Connections -> Seq(R)]
  BY DEF RelayTypeOK
<1>2. new \in Seq(R)
  <2>1. DOMAIN events = 1..Len(events) /\ Len(events) \in Nat
    OBVIOUS
  <2>2. \A i \in 1..Len(events) : [request |-> q, event |-> events[i]] \in R
    OBVIOUS
  <2>3. new \in [1..Len(events) -> R]
    BY <2>1, <2>2
  <2> QED
    BY <2>1, <2>3
<1>3. relay' = relay \/ relay' = [relay EXCEPT ![c] = new]
  BY DEF Relay
<1> HIDE DEF R, new
<1>4. relay' \in [Connections -> Seq(R)]
  BY <1>1, <1>2, <1>3
<1> QED
  BY <1>4 DEF R
\* The caller of a request: what a step may set it to.
LEMMA CallerTypes ==
    ASSUME HttpTypeOK, NEW q \in Requests, NEW x \in {"submitted", "accepted", "waiting"} \cup Ended,
           caller' \in {caller, [caller EXCEPT ![q] = x]}
    PROVE  caller' \in [Requests -> {"idle", "submitted", "accepted", "waiting"} \cup Ended]
BY DEF HttpTypeOK

LEMMA SubmitTypes ==
    ASSUME DispatchInv,
           \/ \E q \in Requests, k \in Kinds : SubmitRejected(q, k) \/ SubmitSelect(q, k)
           \/ EndSubmit
    PROVE  RelayTypeOK' /\ HttpTypeOK'
<1> USE DEF DispatchInv, RequestTypeOK
<1>1. UNCHANGED <<relay, consumed, unrelayed, correlated, channel, sent, body>>
  BY DEF EndSubmit, SubmitRejected, SubmitSelect, SubmitExpired, SubmitRevalidated, SubmitReselected,
      SubmitEnqueued, SubmitUnwritten, relayVars, httpVars
<1>2. kind' \in [Requests -> Kinds \cup {"none"}]
  BY ZenonT(60) DEF EndSubmit, SubmitRejected, SubmitSelect, SubmitExpired, SubmitRevalidated, SubmitReselected,
      SubmitEnqueued, SubmitUnwritten, HttpTypeOK
<1>3. submitting # NoSubmit => submitting.request \in Requests
  BY DEF DispatcherTypeOK, Submit
<1>4. \/ caller' = caller
      \/ \E q \in Requests, x \in {"submitted", "accepted", "rejected"} : caller' = [caller EXCEPT ![q] = x]
  BY <1>3 DEF EndSubmit, SubmitRejected, SubmitSelect, SubmitExpired, SubmitRevalidated, SubmitReselected,
      SubmitEnqueued, SubmitUnwritten, Reject, Unlocked, httpVars
<1>5. caller' \in [Requests -> {"idle", "submitted", "accepted", "waiting"} \cup Ended]
  BY <1>4, CallerTypes DEF Ended, HttpTypeOK
<1> QED
  BY <1>1, <1>2, <1>5 DEF RelayTypeOK, HttpTypeOK

LEMMA FrameTypes ==
    ASSUME DispatchInv, NEW c \in Connections, NEW q \in Requests, FrameStep(c, q)
    PROVE  RelayTypeOK' /\ HttpTypeOK'
<1> USE DEF DispatchInv, RequestTypeOK
<1>1. UNCHANGED <<consumed, unrelayed, kind, correlated, channel, body>>
  BY DEF FrameStep, ResponseStart, ResponseChunk, FeedChunk, ResponseEnd, ResponseError, ResponseViolation, httpVars
<1>2. PICK events \in Seq(Events) : Relay(c, q, events)
  <2>1. ASSUME NEW t \in {"start", "chunk", "cancelled", "protocolError"} PROVE <<Event(t)>> \in Seq(Events)
    BY EventTypes DEF Terminals
  <2>2. /\ <<Event("end"), Event("completed")>> \in Seq(Events)
        /\ <<Event("error"), Event("failed")>> \in Seq(Events)
    BY EventTypes DEF Terminals
  <2>3. <<[type |-> "chunk", seq |-> sent[q]]>> \in Seq(Events)
    <3>1. [type |-> "chunk", seq |-> sent[q]] \in Events
      BY EventTypes DEF HttpTypeOK
    <3> QED
      BY <3>1
  <2>4. CASE ResponseStart(c, q)
    BY <2>1, <2>4 DEF ResponseStart
  <2>5. CASE ResponseChunk(c, q)
    BY <2>3, <2>5 DEF ResponseChunk
  <2>9. CASE FeedChunk(c, q)
    BY <2>1, <2>9 DEF FeedChunk
  <2>6. CASE ResponseEnd(c, q)
    BY <2>2, <2>6 DEF ResponseEnd
  <2>7. CASE ResponseError(c, q)
    BY <2>1, <2>2, <2>7 DEF ResponseError
  <2>8. CASE ResponseViolation(c, q)
    BY <2>1, <2>8 DEF ResponseViolation
  <2> QED
    BY <2>4, <2>5, <2>6, <2>7, <2>8, <2>9 DEF FrameStep
<1>3. relay' \in [Connections -> Seq([request : Requests, event : Events])]
  BY <1>2, RelayTypes
<1>4. \E x \in {"succeeded", "attemptFailed", "uncertain"} : caller' \in {caller, [caller EXCEPT ![q] = x]}
  BY DEF FrameStep, ResponseStart, ResponseChunk, FeedChunk, ResponseEnd, ResponseError, ResponseViolation, Settle,
      httpVars
<1>5. caller' \in [Requests -> {"idle", "submitted", "accepted", "waiting"} \cup Ended]
  BY <1>4, CallerTypes DEF Ended
<1>6. sent' \in [Requests -> 0..MaxChunks]
  <2>1. CASE ResponseChunk(c, q)
    <3>1. sent' = [sent EXCEPT ![q] = sent[q] + 1] /\ sent[q] < MaxChunks /\ sent[q] \in 0..MaxChunks
      BY <2>1 DEF ResponseChunk, HttpTypeOK
    <3>2. sent[q] + 1 \in 0..MaxChunks
      BY <3>1, RequestAssumption
    <3> QED
      BY <3>1, <3>2 DEF HttpTypeOK
  <2>2. CASE ~ResponseChunk(c, q)
    BY <2>2 DEF FrameStep, ResponseStart, FeedChunk, ResponseEnd, ResponseError, ResponseViolation,
        HttpTypeOK
  <2> QED
    BY <2>1, <2>2
<1> QED
  BY <1>1, <1>3, <1>5, <1>6 DEF RelayTypeOK, HttpTypeOK

LEMMA DeliverTypes ==
    ASSUME HttpTypeOK, NEW q \in Requests, NEW e \in Events
    PROVE  [channel EXCEPT ![q] = Append(@, e)] \in [Requests -> Seq(Events)]
BY DEF HttpTypeOK

LEMMA RelayStepTypes ==
    ASSUME DispatchInv, NEW c \in Connections, RelayStep(c)
    PROVE  RelayTypeOK' /\ HttpTypeOK'
<1> USE DEF DispatchInv, RequestTypeOK
<1> DEFINE R == [request : Requests, event : Events]
<1>1. UNCHANGED <<kind, sent, consumed, unrelayed, correlated, caller, body>>
  BY DEF RelayStep, RelayDelivered, RelayFailed, httpVars
<1>2. relay \in [Connections -> Seq(R)] /\ relay[c] # <<>> /\ relay' = [relay EXCEPT ![c] = Tail(relay[c])]
  BY DEF RelayStep, RelayDelivered, RelayFailed, RelayTypeOK
<1>3. relay' \in [Connections -> Seq(R)] /\ Head(relay[c]) \in R
  <2> HIDE DEF R
  <2> QED
    BY <1>2
<1>4. Head(relay[c]).request \in Requests /\ Head(relay[c]).event \in Events
  BY <1>3
<1>5. channel' \in [Requests -> Seq(Events)]
  <2> DEFINE q == Head(relay[c]).request
             e == Head(relay[c]).event
  <2>1. channel' = channel \/ channel' = [channel EXCEPT ![q] = Append(@, e)]
    BY DEF RelayStep, RelayDelivered, RelayFailed, httpVars
  <2>2. q \in Requests /\ e \in Events
    BY <1>4
  <2>3. [channel EXCEPT ![q] = Append(@, e)] \in [Requests -> Seq(Events)]
    BY <2>2, DeliverTypes
  <2> QED
    BY <2>1, <2>3 DEF HttpTypeOK
<1> QED
  BY <1>1, <1>3, <1>5 DEF RelayTypeOK, HttpTypeOK

LEMMA CallerStepTypes ==
    ASSUME DispatchInv, NEW q \in Requests, CallerStep(q)
    PROVE  RelayTypeOK' /\ HttpTypeOK'
<1> USE DEF DispatchInv, RequestTypeOK
<1>1. UNCHANGED <<kind, sent, relay, consumed, unrelayed>>
  BY DEF CallerStep, PhaseStep, AttemptTimeout, Register, ClientGone, CallerTimeout,
      SinkRefused, Abandon, Answer, StreamOn, relayVars
<1>2. \/ caller' = caller
      \/ \E x \in {"waiting", "gone", "timedOut", "refused", "answered", "attemptFailed"} :
            caller' = [caller EXCEPT ![q] = x]
  BY DEF CallerStep, PhaseStep, AttemptTimeout, Register, ClientGone, CallerTimeout,
      SinkRefused, Abandon, Answer, StreamOn, Leave, Settle
<1>3. caller' \in [Requests -> {"idle", "submitted", "accepted", "waiting"} \cup Ended]
  BY <1>2, CallerTypes DEF Ended, HttpTypeOK
<1>4. correlated' \subseteq Requests
  BY DEF CallerStep, PhaseStep, AttemptTimeout, Register, ClientGone, CallerTimeout,
      SinkRefused, Abandon, Answer, StreamOn, Leave,
      HttpTypeOK
<1>5. \/ channel' = channel \/ channel' = [channel EXCEPT ![q] = <<>>]
      \/ channel[q] # <<>> /\ channel' = [channel EXCEPT ![q] = Tail(channel[q])]
  BY DEF CallerStep, PhaseStep, AttemptTimeout, Register, ClientGone, CallerTimeout,
      SinkRefused, Abandon, Answer, StreamOn, Leave
<1>6. channel' \in [Requests -> Seq(Events)]
  <2>1. channel \in [Requests -> Seq(Events)]
    BY DEF HttpTypeOK
  <2>2. channel[q] # <<>> => Tail(channel[q]) \in Seq(Events)
    BY <2>1
  <2>3. <<>> \in Seq(Events)
    OBVIOUS
  <2> QED
    BY <1>5, <2>1, <2>2, <2>3
<1>7. body' \in [Requests -> Seq(0..MaxChunks)]
  <2>1. CASE StreamOn(q)
    <3>1. body' = body \/ body' = [body EXCEPT ![q] = Append(body[q], Head(channel[q]).seq)]
      BY <2>1 DEF StreamOn
    <3>2. Head(channel[q]) \in Events
      BY <2>1 DEF StreamOn, HttpTypeOK
    <3>3. Head(channel[q]).seq \in 0..MaxChunks
      BY <3>2, EventTypes
    <3>4. body \in [Requests -> Seq(0..MaxChunks)]
      BY DEF HttpTypeOK
    <3>5. Append(body[q], Head(channel[q]).seq) \in Seq(0..MaxChunks)
      BY <3>3, <3>4
    <3> QED
      BY <3>1, <3>4, <3>5
  <2>2. CASE ~StreamOn(q)
    BY <2>2 DEF CallerStep, PhaseStep, AttemptTimeout, Register, ClientGone, CallerTimeout,
      SinkRefused, Abandon, Answer, HttpTypeOK
  <2> QED
    BY <2>1, <2>2
<1> QED
  BY <1>1, <1>3, <1>4, <1>6, <1>7 DEF RelayTypeOK, HttpTypeOK

LEMMA ConsumerTypes ==
    ASSUME DispatchInv, ConsumerStep
    PROVE  RelayTypeOK' /\ HttpTypeOK'
<1> USE DEF DispatchInv, RequestTypeOK
<1>1. CASE SessionClosed
  <2>1. Head(mailbox["RequestDispatcher"]) \in Connections
    BY <1>1, RequestAssumption DEF SessionClosed, SessionInv, SessionTypeOK, ConsumerTypeOK
  <2>2. RelayTypeOK'
    BY <1>1, <2>1 DEF SessionClosed, RelayTypeOK
  <2>3. caller' \in [Requests -> {"idle", "submitted", "accepted", "waiting"} \cup Ended]
    BY <1>1 DEF SessionClosed, HttpTypeOK, Ended
  <2> QED
    BY <1>1, <2>2, <2>3 DEF SessionClosed, HttpTypeOK
<1>2. ASSUME NEW q \in Requests, RelayDisconnect(q) PROVE RelayTypeOK' /\ HttpTypeOK'
  <2>1. Event("cancelled") \in Events
    BY EventTypes DEF Terminals
  <2>2. channel' \in [Requests -> Seq(Events)]
    BY <1>2, <2>1, DeliverTypes DEF RelayDisconnect, HttpTypeOK
  <2> QED
    BY <1>2, <2>2 DEF RelayDisconnect, RelayTypeOK, HttpTypeOK
<1>3. CASE Acknowledge
  BY <1>3 DEF Acknowledge, RelayTypeOK, HttpTypeOK, httpVars
<1> QED
  BY <1>1, <1>2, <1>3 DEF ConsumerStep
-----------------------------------------------------------------------------
(* The pendings and their permits *)

\* A pending names a connection, and losing one loses one permit of it.
LEMMA DetachPermit ==
    ASSUME DispatcherTypeOK, PermitInv, NEW q \in Requests, HasPending(q), Detach(q),
           UNCHANGED submitting
    PROVE  /\ PermitInv'
           /\ pending' \in [Requests -> Pending \cup {NoPending}]
           /\ inFlight' \in [Connections -> Nat]
           /\ ~HasPending(q)' /\ \A p \in Requests \ {q} : pending'[p] = pending[p]
<1> USE SessionAssumption, RequestAssumption
<1>1. PICK s \in Connections : s = SessionOf(q)
  BY DEF DispatcherTypeOK, HasPending, SessionOf, Pending
<1>2. /\ pending \in [Requests -> Pending \cup {NoPending}] /\ inFlight \in [Connections -> Nat]
      /\ pending' = [pending EXCEPT ![q] = NoPending]
      /\ inFlight' = [inFlight EXCEPT ![s] = inFlight[s] - 1]
  BY <1>1 DEF DispatcherTypeOK, Detach
<1>3. pending' \in [Requests -> Pending \cup {NoPending}] /\ pending'[q] = NoPending
  BY <1>2
<1>4. \A p \in Requests \ {q} : pending'[p] = pending[p]
  BY <1>2
<1>5. PendingOn(s)' = PendingOn(s) \ {q} /\ q \in PendingOn(s)
  BY <1>1, <1>3, <1>4 DEF PendingOn, HasPending, SessionOf
<1>6. \A d \in Connections \ {s} : PendingOn(d)' = PendingOn(d) /\ inFlight'[d] = inFlight[d]
  BY <1>1, <1>2, <1>3, <1>4 DEF PendingOn, HasPending, SessionOf
<1>7. \A d \in Connections : Held(d)' = Held(d) /\ Held(d) \in {0, 1}
  BY DEF Held
<1>8. /\ IsFiniteSet(PendingOn(s)') /\ Cardinality(PendingOn(s)') = Cardinality(PendingOn(s)) - 1
      /\ Cardinality(PendingOn(s)) \in Nat /\ Cardinality(PendingOn(s)') \in Nat
  <2>1. IsFiniteSet(PendingOn(s))
    BY <1>1 DEF PermitInv
  <2> QED
    BY <1>5, <2>1, FS_RemoveElement, FS_CardinalityType
<1>9. inFlight[s] = Cardinality(PendingOn(s)) + Held(s) /\ inFlight[s] <= MaxConcurrency
  BY <1>1 DEF PermitInv
<1>10. /\ inFlight'[s] = inFlight[s] - 1 /\ inFlight[s] \in Nat
  BY <1>1, <1>2
<1>11. /\ inFlight'[s] = Cardinality(PendingOn(s)') + Held(s)' /\ inFlight'[s] \in Nat
       /\ inFlight'[s] <= MaxConcurrency
  <2>1. Held(s)' = Held(s) /\ Held(s) \in {0, 1}
    BY <1>1, <1>7
  <2> QED
    BY <1>8, <1>9, <1>10, <2>1
<1>12. inFlight' \in [Connections -> Nat]
  BY <1>1, <1>2, <1>10, <1>11
<1>13. PermitInv'
  <2> SUFFICES ASSUME NEW d \in Connections
               PROVE  /\ IsFiniteSet(PendingOn(d)')
                      /\ inFlight'[d] = Cardinality(PendingOn(d)') + Held(d)'
                      /\ inFlight'[d] <= MaxConcurrency
    BY DEF PermitInv
  <2>1. CASE d = s
    BY <1>8, <1>11, <2>1
  <2>2. CASE d # s
    <3>1. /\ IsFiniteSet(PendingOn(d)) /\ inFlight[d] = Cardinality(PendingOn(d)) + Held(d)
          /\ inFlight[d] <= MaxConcurrency
      BY DEF PermitInv
    <3>2. PendingOn(d)' = PendingOn(d) /\ inFlight'[d] = inFlight[d] /\ Held(d)' = Held(d)
      BY <1>6, <1>7, <2>2
    <3> QED
      BY <3>1, <3>2
  <2> QED
    BY <2>1, <2>2
<1> QED
  BY <1>3, <1>4, <1>12, <1>13 DEF HasPending

\* A step of the dispatcher, the HTTP phase or the relay outside the admission: it detaches
\* a pending, marks one as streaming or leaves the pendings alone.
LEMMA PendingStepInv ==
    ASSUME DispatchInv, SessionInv', RelayTypeOK', HttpTypeOK',
           UNCHANGED <<record, mailbox, acks, closed, submitting, consumed>>,
           \/ UNCHANGED <<pending, inFlight>>
           \/ submitting = NoSubmit /\ \E q \in Requests : HasPending(q) /\ Detach(q)
           \/ /\ UNCHANGED inFlight
              /\ \E q \in Requests : HasPending(q) /\ pending' = [pending EXCEPT ![q].streaming = TRUE],
           \A q \in Requests : caller[q] \in {"idle", "submitted"} \/ caller'[q] \in {"idle", "submitted"}
                                   => caller'[q] = caller[q]
    PROVE  DispatchInv'
<1> USE SessionAssumption, RequestAssumption DEF DispatchInv, RequestTypeOK
<1>1. /\ PermitInv' /\ pending' \in [Requests -> Pending \cup {NoPending}]
      /\ inFlight' \in [Connections -> Nat]
      /\ \A p \in Requests : HasPending(p)' => HasPending(p) /\ pending'[p].session = pending[p].session
  <2>1. CASE UNCHANGED <<pending, inFlight>>
    BY <2>1 DEF PendingInv, PermitInv, PendingOn, Held, HasPending, SessionOf, DispatcherTypeOK
  <2>2. ASSUME NEW q \in Requests, HasPending(q), Detach(q)
        PROVE  /\ PermitInv' /\ pending' \in [Requests -> Pending \cup {NoPending}]
               /\ inFlight' \in [Connections -> Nat]
               /\ \A p \in Requests :
                     HasPending(p)' => HasPending(p) /\ pending'[p].session = pending[p].session
    <3>1. /\ PermitInv'
          /\ pending' \in [Requests -> Pending \cup {NoPending}]
          /\ inFlight' \in [Connections -> Nat]
          /\ ~HasPending(q)' /\ \A p \in Requests \ {q} : pending'[p] = pending[p]
      BY <2>2, DetachPermit DEF PendingInv
    <3> QED
      BY <3>1 DEF HasPending
  <2>3. ASSUME UNCHANGED inFlight, NEW q \in Requests, HasPending(q),
               pending' = [pending EXCEPT ![q].streaming = TRUE]
        PROVE  /\ PermitInv' /\ pending' \in [Requests -> Pending \cup {NoPending}]
               /\ inFlight' \in [Connections -> Nat]
               /\ \A p \in Requests :
                     HasPending(p)' => HasPending(p) /\ pending'[p].session = pending[p].session
    <3>1. /\ pending \in [Requests -> Pending \cup {NoPending}] /\ inFlight \in [Connections -> Nat]
          /\ pending[q] \in Pending
      BY <2>3 DEF DispatcherTypeOK, HasPending
    <3>2. /\ [pending[q] EXCEPT !.streaming = TRUE] \in Pending
          /\ [pending[q] EXCEPT !.streaming = TRUE].session = pending[q].session
      BY <3>1 DEF Pending
    <3>3. NoPending \notin Pending
      BY DEF Pending
    <3>4. pending' = [pending EXCEPT ![q] = [pending[q] EXCEPT !.streaming = TRUE]]
      BY <2>3
    <3>5. /\ pending' \in [Requests -> Pending \cup {NoPending}]
          /\ pending'[q] \in Pending /\ pending'[q].session = pending[q].session
          /\ \A p \in Requests \ {q} : pending'[p] = pending[p]
      BY <3>1, <3>2, <3>4
    <3>6. \A p \in Requests : /\ HasPending(p)' <=> HasPending(p)
                              /\ pending'[p].session = pending[p].session
      BY <3>1, <3>3, <3>5 DEF HasPending
    <3>7. \A d \in Connections : PendingOn(d)' = PendingOn(d)
      BY <3>6 DEF PendingOn, SessionOf
    <3>8. PermitInv'
      BY <2>3, <3>7 DEF PendingInv, PermitInv, Held
    <3> QED
      BY <2>3, <3>1, <3>5, <3>6, <3>8
  <2> QED
    BY <2>1, <2>2, <2>3
<1>2. DispatcherTypeOK'
  BY <1>1 DEF DispatcherTypeOK
<1>3. FreshHasNone'
  BY <1>1 DEF PendingInv, FreshHasNone
<1>4. LeaseIsOpen'
  <2>1. submitting # NoSubmit => submitting.request \in Requests
    BY DEF DispatcherTypeOK, Submit
  <2> QED
    BY <2>1 DEF PendingInv, LeaseIsOpen, Recorded
<1>5. NoPendingOnClosedSession' /\ PendingHasRecord'
  BY <1>1 DEF PendingInv, NoPendingOnClosedSession, PendingHasRecord, SessionOf, Recorded
<1>6. BarrierCovers'
  BY DEF BarrierCovers, AckedIsClosed, ConsumedIsHead
<1> QED
  BY <1>1, <1>2, <1>3, <1>4, <1>5, <1>6 DEF PendingInv
\* Steps of the sink, the HTTP phase and the consumer that keep the admission as it is.
LEMMA ResponseInv ==
    ASSUME DispatchInv, SessionInv',
           \/ \E c \in Connections, q \in Requests : FrameStep(c, q)
           \/ \E c \in Connections : RelayStep(c)
           \/ \E q \in Requests : CallerStep(q)
           \/ \E q \in Requests : RelayDisconnect(q)
    PROVE  DispatchInv'
<1>1. RelayTypeOK' /\ HttpTypeOK'
  BY FrameTypes, RelayStepTypes, CallerStepTypes, ConsumerTypes DEF ConsumerStep
<1> DEFINE Kept == UNCHANGED <<record, mailbox, acks, closed, submitting, consumed>>
           Pendings == \/ UNCHANGED <<pending, inFlight>>
                       \/ submitting = NoSubmit /\ \E q \in Requests : HasPending(q) /\ Detach(q)
                       \/ /\ UNCHANGED inFlight
                          /\ \E q \in Requests :
                                HasPending(q) /\ pending' = [pending EXCEPT ![q].streaming = TRUE]
           Callers == \A q \in Requests :
                         caller[q] \in {"idle", "submitted"} \/ caller'[q] \in {"idle", "submitted"}
                             => caller'[q] = caller[q]
<1>2. caller \in [Requests -> {"idle", "submitted", "accepted", "waiting"} \cup Ended]
  BY DEF DispatchInv, RequestTypeOK, HttpTypeOK
<1>3. ASSUME NEW q \in Requests, NEW x \in {"waiting", "gone", "timedOut", "refused", "answered",
                                            "succeeded", "attemptFailed", "uncertain"},
             caller[q] \notin {"idle", "submitted"}, caller' \in {caller, [caller EXCEPT ![q] = x]}
      PROVE  Callers
  BY <1>2, <1>3
<1>4. ASSUME NEW q \in Requests, Cancel(q), submitting = NoSubmit PROVE Pendings
  BY <1>4 DEF Cancel
<1>5. ASSUME NEW c \in Connections, NEW q \in Requests, FrameStep(c, q)
      PROVE  Kept /\ Pendings /\ Callers
  <2>1. HasPending(q) /\ submitting = NoSubmit
    BY <1>5 DEF FrameStep, ResponseStart, ResponseChunk, FeedChunk, ResponseEnd, ResponseError, ResponseViolation,
        FrameOf, Unlocked
  <2>2. Kept
    BY <1>5 DEF FrameStep, ResponseStart, ResponseChunk, FeedChunk, ResponseEnd, ResponseError, ResponseViolation,
        sessionVars, sessionsButClose, directoryVars, consumerVars, dispatcherVars
  <2>3. Pendings
    BY <1>4, <1>5, <2>1 DEF FrameStep, ResponseStart, ResponseChunk, FeedChunk, ResponseEnd, ResponseError,
        ResponseViolation, dispatcherVars
  <2>4. caller[q] \notin {"idle", "submitted"}
    BY <2>1 DEF DispatchInv, PendingInv, FreshHasNone
  <2>5. \E x \in {"succeeded", "attemptFailed", "uncertain"} : caller' \in {caller, [caller EXCEPT ![q] = x]}
    BY <1>5 DEF FrameStep, ResponseStart, ResponseChunk, FeedChunk, ResponseEnd, ResponseError, ResponseViolation,
        Settle, httpVars
  <2> QED
    BY <1>3, <2>2, <2>3, <2>4, <2>5
<1>6. ASSUME NEW c \in Connections, RelayStep(c)
      PROVE  Kept /\ Pendings /\ Callers
  <2>1. Kept /\ UNCHANGED caller
    BY <1>6 DEF RelayStep, RelayDelivered, RelayFailed, sessionVars, sessionsButClose, directoryVars,
        consumerVars, dispatcherVars, httpVars
  <2>2. Head(relay[c]).request \in Requests
    <3> DEFINE R == [request : Requests, event : Events]
    <3>1. relay[c] \in Seq(R) /\ relay[c] # <<>>
      BY <1>6 DEF RelayStep, RelayDelivered, RelayFailed, DispatchInv, RequestTypeOK, RelayTypeOK
    <3>2. Head(relay[c]) \in R
      <4> HIDE DEF R
      <4> QED
        BY <3>1
    <3> QED
      BY <3>2
  <2>3. Pendings
    BY <1>4, <1>6, <2>2 DEF RelayStep, RelayDelivered, RelayFailed, Unlocked, dispatcherVars
  <2> QED
    BY <2>1, <2>3
<1>7. ASSUME NEW q \in Requests, CallerStep(q)
      PROVE  Kept /\ Pendings /\ Callers
  <2>1. Kept
    BY <1>7 DEF CallerStep, PhaseStep, AttemptTimeout, Register, ClientGone, CallerTimeout,
      SinkRefused, Abandon, Answer, StreamOn,
        sessionVars, sessionsButClose, directoryVars, consumerVars, dispatcherVars, relayVars
  <2>2. Pendings
    BY <1>4, <1>7 DEF CallerStep, PhaseStep, AttemptTimeout, Register, ClientGone, CallerTimeout,
      SinkRefused, Abandon, Answer,
        StreamOn, Unlocked, dispatcherVars
  <2>3. caller[q] \notin {"idle", "submitted"}
    <3>1. CASE AttemptTimeout(q)
      BY <3>1 DEF AttemptTimeout, DispatchInv, PendingInv, FreshHasNone
    <3>2. CASE ~AttemptTimeout(q)
      BY <1>7, <3>2 DEF CallerStep, PhaseStep, Register, ClientGone, CallerTimeout, SinkRefused, Abandon,
          Answer, StreamOn
    <3> QED
      BY <3>1, <3>2
  <2>4. \E x \in {"waiting", "gone", "timedOut", "refused", "answered", "attemptFailed"} :
           caller' \in {caller, [caller EXCEPT ![q] = x]}
    BY <1>7 DEF CallerStep, PhaseStep, AttemptTimeout, Register, ClientGone, CallerTimeout,
        SinkRefused, Abandon, Answer, StreamOn, Leave, Settle
  <2> QED
    BY <1>3, <2>1, <2>2, <2>3, <2>4
<1>8. ASSUME NEW q \in Requests, RelayDisconnect(q)
      PROVE  Kept /\ Pendings /\ Callers
  BY <1>8 DEF RelayDisconnect, sessionVars, directoryVars, consumerVars, dispatcherVars
<1>9. Kept /\ Pendings /\ Callers
  BY <1>5, <1>6, <1>7, <1>8
<1> QED
  BY <1>1, <1>9, PendingStepInv

\* The dispatcher closes a session for itself: no submit runs, and no pending is left on it.
LEMMA SessionClosedInv ==
    ASSUME DispatchInv, SessionInv', SessionClosed
    PROVE  DispatchInv'
<1> USE SessionAssumption, RequestAssumption DEF DispatchInv, RequestTypeOK
<1>1. PICK c \in Connections : c = Head(mailbox["RequestDispatcher"])
  BY DEF SessionClosed, SessionInv, SessionTypeOK, ConsumerTypeOK
<1>2. PICK lost \in SUBSET Requests : lost = PendingOn(c)
  BY DEF PendingOn
<1>3. /\ submitting = NoSubmit /\ mailbox["RequestDispatcher"] # <<>>
      /\ consumed' = c /\ closed' = closed \cup {c}
      /\ pending' = [q \in Requests |-> IF q \in lost THEN NoPending ELSE pending[q]]
      /\ inFlight' = [inFlight EXCEPT ![c] = inFlight[c] - Cardinality(lost)]
      /\ caller' = [q \in Requests |-> IF q \in lost /\ kind[q] = "task" THEN "uncertain" ELSE caller[q]]
      /\ UNCHANGED <<submitting, record, mailbox, acks>>
  BY <1>1, <1>2 DEF SessionClosed, PendingOn, Unlocked, sessionVars, directoryVars, consumerVars
<1>4. RelayTypeOK' /\ HttpTypeOK'
  BY ConsumerTypes DEF ConsumerStep
<1>5. /\ pending \in [Requests -> Pending \cup {NoPending}] /\ inFlight \in [Connections -> Nat]
      /\ closed \subseteq Connections
  BY DEF DispatcherTypeOK
<1>6. /\ pending' \in [Requests -> Pending \cup {NoPending}]
      /\ \A q \in Requests : HasPending(q)' => /\ HasPending(q) /\ pending'[q] = pending[q]
                                               /\ SessionOf(q) # c
  BY <1>2, <1>3, <1>5 DEF PendingOn, HasPending, SessionOf
<1>7. /\ PendingOn(c)' = {}
      /\ \A d \in Connections \ {c} : PendingOn(d)' = PendingOn(d) /\ inFlight'[d] = inFlight[d]
  <2>1. PendingOn(c)' = {}
    BY <1>6 DEF PendingOn, SessionOf
  <2>2. ASSUME NEW d \in Connections \ {c} PROVE PendingOn(d)' = PendingOn(d) /\ inFlight'[d] = inFlight[d]
    BY <1>2, <1>3, <1>5 DEF PendingOn, HasPending, SessionOf
  <2> QED
    BY <2>1, <2>2
<1>8. \A d \in Connections : Held(d)' = 0 /\ Held(d) = 0
  BY <1>3 DEF Held
<1>9. inFlight'[c] = 0
  <2>1. /\ inFlight[c] = Cardinality(PendingOn(c)) + Held(c) /\ inFlight[c] \in Nat
        /\ inFlight'[c] = inFlight[c] - Cardinality(PendingOn(c))
    BY <1>2, <1>3, <1>5 DEF PendingInv, PermitInv
  <2>2. Cardinality(PendingOn(c)) \in Nat
    BY FS_CardinalityType DEF PendingInv, PermitInv
  <2> QED
    BY <1>8, <2>1, <2>2
<1>10. inFlight' \in [Connections -> Nat]
  BY <1>3, <1>5, <1>9
<1>11. PermitInv'
  <2> SUFFICES ASSUME NEW d \in Connections
               PROVE  /\ IsFiniteSet(PendingOn(d)')
                      /\ inFlight'[d] = Cardinality(PendingOn(d)') + Held(d)'
                      /\ inFlight'[d] <= MaxConcurrency
    BY DEF PermitInv
  <2>1. CASE d = c
    <3>1. IsFiniteSet({}) /\ Cardinality({}) = 0
      BY FS_EmptySet
    <3>2. 0 = 0 + 0 /\ 0 <= MaxConcurrency
      OBVIOUS
    <3> QED
      BY <1>7, <1>8, <1>9, <2>1, <3>1, <3>2
  <2>2. CASE d # c
    <3>1. /\ IsFiniteSet(PendingOn(d)) /\ inFlight[d] = Cardinality(PendingOn(d)) + Held(d)
          /\ inFlight[d] <= MaxConcurrency
      BY DEF PendingInv, PermitInv
    <3>2. PendingOn(d)' = PendingOn(d) /\ inFlight'[d] = inFlight[d] /\ Held(d)' = Held(d)
      BY <1>7, <1>8, <2>2
    <3> QED
      BY <3>1, <3>2
  <2> QED
    BY <2>1, <2>2
<1>12. DispatcherTypeOK'
  BY <1>3, <1>5, <1>6, <1>10 DEF DispatcherTypeOK
<1>13. FreshHasNone' /\ LeaseIsOpen' /\ NoPendingOnClosedSession' /\ PendingHasRecord'
  <2>1. FreshHasNone'
    BY <1>3, <1>6 DEF PendingInv, FreshHasNone
  <2>2. LeaseIsOpen'
    BY <1>3 DEF LeaseIsOpen
  <2>3. NoPendingOnClosedSession' /\ PendingHasRecord'
    BY <1>3, <1>6 DEF PendingInv, NoPendingOnClosedSession, PendingHasRecord, SessionOf, Recorded
  <2> QED
    BY <2>1, <2>2, <2>3
<1>14. BarrierCovers'
  BY <1>1, <1>3 DEF BarrierCovers, AckedIsClosed, ConsumedIsHead
<1> QED
  BY <1>4, <1>11, <1>12, <1>13, <1>14 DEF PendingInv

\* The acknowledgement of the head: the session it names is closed to the dispatcher.
LEMMA AcknowledgeInv ==
    ASSUME DispatchInv, SessionInv', Acknowledge
    PROVE  DispatchInv'
<1> USE SessionAssumption, RequestAssumption DEF DispatchInv, RequestTypeOK
<1>1. RelayTypeOK' /\ HttpTypeOK'
  BY ConsumerTypes DEF ConsumerStep
<1>2. /\ UNCHANGED <<record, pending, inFlight, closed, submitting, caller>> /\ consumed' = NoConnection
      /\ consumed # NoConnection
      /\ acks' = [acks EXCEPT ![Head(mailbox["RequestDispatcher"])] = @ \cup {"RequestDispatcher"}]
  BY DEF Acknowledge, ConsumeTerminal, directoryVars, dispatcherVars, httpVars
<1>3. DispatcherTypeOK' /\ PendingInv'
  <2>1. DispatcherTypeOK'
    BY <1>2 DEF DispatcherTypeOK
  <2>2. PermitInv' /\ FreshHasNone'
    BY <1>2 DEF PendingInv, PermitInv, PendingOn, Held, HasPending, SessionOf, FreshHasNone
  <2>3. LeaseIsOpen' /\ NoPendingOnClosedSession' /\ PendingHasRecord'
    BY <1>2 DEF PendingInv, HasPending, SessionOf, LeaseIsOpen, NoPendingOnClosedSession,
        PendingHasRecord, Recorded
  <2> QED BY <2>1, <2>2, <2>3 DEF PendingInv
<1>4. \A c \in Connections : acks'[c] = acks[c] \/ c = consumed
  BY <1>2 DEF BarrierCovers, ConsumedIsHead, SessionInv, SessionTypeOK, ConsumerTypeOK
<1>5. BarrierCovers'
  BY <1>2, <1>4 DEF BarrierCovers, AckedIsClosed, ConsumedIsHead
<1> QED
  BY <1>1, <1>3, <1>5
-----------------------------------------------------------------------------
(* Admission *)

\* The running submit moves its reservation; the pendings stay.
LEMMA HeldPermit ==
    ASSUME DispatcherTypeOK, PermitInv, UNCHANGED pending,
           \A d \in Connections : /\ inFlight'[d] = (inFlight[d] - Held(d)) + Held(d)'
                                  /\ inFlight'[d] <= MaxConcurrency
    PROVE  PermitInv' /\ \A d \in Connections : inFlight'[d] \in Nat
<1> SUFFICES ASSUME NEW d \in Connections
             PROVE  /\ IsFiniteSet(PendingOn(d)')
                    /\ inFlight'[d] = Cardinality(PendingOn(d)') + Held(d)'
                    /\ inFlight'[d] <= MaxConcurrency /\ inFlight'[d] \in Nat
  BY DEF PermitInv
<1>1. PendingOn(d)' = PendingOn(d)
  BY DEF PendingOn, HasPending, SessionOf
<1>2. IsFiniteSet(PendingOn(d)) /\ inFlight[d] = Cardinality(PendingOn(d)) + Held(d)
  BY DEF PermitInv
<1>3. Cardinality(PendingOn(d)) \in Nat
  BY <1>2, FS_CardinalityType
<1>4. Held(d) \in {0, 1} /\ Held(d)' \in {0, 1}
  BY DEF Held
<1>5. inFlight'[d] = Cardinality(PendingOn(d)) + Held(d)' /\ inFlight'[d] \in Nat
  BY <1>2, <1>3, <1>4
<1> QED
  BY <1>1, <1>2, <1>5

\* The parts of the invariant an admission step cannot disturb but for the lease and the
\* caller.
LEMMA AdmissionInv ==
    ASSUME DispatchInv, SessionInv', RelayTypeOK', HttpTypeOK', PermitInv', LeaseIsOpen',
           UNCHANGED <<pending, record, mailbox, acks, closed, consumed>>,
           inFlight' \in [Connections -> Nat], submitting' \in Submit \cup {NoSubmit},
           \A q \in Requests : caller'[q] \in {"idle", "submitted"} => caller[q] \in {"idle", "submitted"}
    PROVE  DispatchInv'
<1>1. DispatcherTypeOK'
  BY DEF DispatchInv, RequestTypeOK, DispatcherTypeOK
<1>2. FreshHasNone' /\ NoPendingOnClosedSession' /\ PendingHasRecord'
  BY DEF DispatchInv, PendingInv, FreshHasNone, NoPendingOnClosedSession, PendingHasRecord, HasPending,
      SessionOf, Recorded
<1>3. BarrierCovers'
  BY DEF DispatchInv, BarrierCovers, AckedIsClosed, ConsumedIsHead
<1> QED
  BY <1>1, <1>2, <1>3 DEF DispatchInv, RequestTypeOK, PendingInv

LEMMA SubmitSelectInv ==
    ASSUME DispatchInv, SessionInv', NEW q \in Requests, NEW k \in Kinds,
           SubmitRejected(q, k) \/ SubmitSelect(q, k)
    PROVE  DispatchInv'
<1> USE SessionAssumption, RequestAssumption
<1>1. RelayTypeOK' /\ HttpTypeOK'
  BY SubmitTypes
<1>2. /\ UNCHANGED <<pending, record, mailbox, acks, closed, consumed>>
      /\ submitting = NoSubmit /\ caller[q] = "idle"
  BY DEF SubmitRejected, SubmitSelect, Unlocked, sessionVars, directoryVars, consumerVars, dispatcherVars,
      relayVars
<1>3. /\ inFlight \in [Connections -> Nat] /\ closed \subseteq Connections
      /\ caller \in [Requests -> {"idle", "submitted", "accepted", "waiting"} \cup Ended]
  BY DEF DispatchInv, RequestTypeOK, DispatcherTypeOK, HttpTypeOK
<1>4. \A d \in Connections : Held(d) = 0
  BY <1>2 DEF Held
<1>5. CASE SubmitRejected(q, k)
  <2>1. UNCHANGED <<inFlight, submitting>> /\ caller' = [caller EXCEPT ![q] = "rejected"]
    BY <1>5 DEF SubmitRejected, dispatcherVars
  <2>2. PermitInv' /\ LeaseIsOpen'
    BY <1>2, <2>1 DEF DispatchInv, PendingInv, PermitInv, PendingOn, HasPending, SessionOf, Held, LeaseIsOpen
  <2> QED
    BY <1>1, <1>2, <1>3, <2>1, <2>2, AdmissionInv
<1>6. CASE SubmitSelect(q, k)
  <2>0. PICK only \in Admissible(k) : \E c \in Leases(only) :
           /\ HasCapacity(c)
           /\ inFlight' = [inFlight EXCEPT ![c] = @ + 1]
           /\ submitting' = [request |-> q, leases |-> Leases(only), session |-> c,
                             writer |-> FALSE, valid |-> FALSE]
    BY <1>6 DEF SubmitSelect
  <2>1. PICK c \in Leases(only) :
           /\ HasCapacity(c)
           /\ inFlight' = [inFlight EXCEPT ![c] = @ + 1]
           /\ submitting' = [request |-> q, leases |-> Leases(only), session |-> c,
                             writer |-> FALSE, valid |-> FALSE]
    BY <2>0
  <2>2. /\ c \in Connections /\ Leases(only) \in SUBSET Connections
        /\ \A d \in Leases(only) : d \notin closed /\ Recorded(d)
    BY DEF Leases, Candidate, Live
  <2>3. /\ submitting' \in Submit /\ submitting'.session = c /\ submitting'.request = q
        /\ submitting'.leases = Leases(only)
    BY <2>1, <2>2 DEF Submit
  <2>4. submitting' # NoSubmit
    BY <2>3 DEF Submit
  <2>5. \A d \in Connections : Held(d)' = IF d = c THEN 1 ELSE 0
    BY <2>3, <2>4 DEF Held
  <2>6. inFlight' \in [Connections -> Nat]
    BY <1>3, <2>1, <2>2
  <2>7. \A d \in Connections : /\ inFlight'[d] = (inFlight[d] - Held(d)) + Held(d)'
                               /\ inFlight'[d] <= MaxConcurrency
    <3> SUFFICES ASSUME NEW d \in Connections
                 PROVE  /\ inFlight'[d] = (inFlight[d] - Held(d)) + Held(d)'
                        /\ inFlight'[d] <= MaxConcurrency
      OBVIOUS
    <3>1. inFlight[d] \in Nat /\ inFlight[d] <= MaxConcurrency /\ Held(d) = 0
      BY <1>3, <1>4 DEF DispatchInv, PendingInv, PermitInv
    <3>2. CASE d = c
      BY <1>3, <2>1, <2>5, <3>1, <3>2 DEF HasCapacity
    <3>3. CASE d # c
      BY <1>3, <2>1, <2>5, <3>1, <3>3
    <3> QED
      BY <3>2, <3>3
  <2>8. PermitInv'
    BY <1>2, <2>7, HeldPermit DEF DispatchInv, PendingInv, RequestTypeOK
  <2>9. caller' = [caller EXCEPT ![q] = "submitted"]
    BY <1>6 DEF SubmitSelect
  <2>10. LeaseIsOpen'
    BY <1>2, <1>3, <2>2, <2>3, <2>9 DEF LeaseIsOpen, Recorded
  <2> QED
    BY <1>1, <1>2, <1>3, <2>3, <2>6, <2>8, <2>9, <2>10, AdmissionInv
<1> QED
  BY <1>5, <1>6

\* What a running submit holds.
LEMMA SubmitFacts ==
    ASSUME DispatchInv, submitting # NoSubmit
    PROVE  /\ submitting \in Submit /\ submitting.session \in Connections
           /\ submitting.leases \in SUBSET Connections
           /\ submitting.request \in Requests /\ caller[submitting.request] = "submitted"
           /\ ~HasPending(submitting.request) /\ submitting.session \in submitting.leases
           /\ \A c \in submitting.leases : c \notin closed /\ Recorded(c)
           /\ \A d \in Connections : Held(d) = IF d = submitting.session THEN 1 ELSE 0
           /\ inFlight \in [Connections -> Nat]
           /\ caller \in [Requests -> {"idle", "submitted", "accepted", "waiting"} \cup Ended]
<1>1. /\ submitting \in Submit /\ inFlight \in [Connections -> Nat]
      /\ caller \in [Requests -> {"idle", "submitted", "accepted", "waiting"} \cup Ended]
  BY DEF DispatchInv, RequestTypeOK, DispatcherTypeOK, HttpTypeOK
<1>2. /\ submitting.session \in Connections /\ submitting.leases \in SUBSET Connections
      /\ submitting.request \in Requests
  BY <1>1 DEF Submit
<1>3. \A d \in Connections : Held(d) = IF d = submitting.session THEN 1 ELSE 0
  BY DEF Held
<1> QED
  BY <1>1, <1>2, <1>3 DEF DispatchInv, PendingInv, LeaseIsOpen, FreshHasNone

\* A submit that ends without a pending gives its permit back.
LEMMA GiveBackInv ==
    ASSUME DispatchInv, SessionInv', RelayTypeOK', HttpTypeOK', submitting # NoSubmit, Reject,
           inFlight' = [inFlight EXCEPT ![submitting.session] = @ - 1],
           UNCHANGED <<pending, record, mailbox, acks, closed, consumed>>
    PROVE  DispatchInv'
<1>1. PICK s \in Connections, q \in Requests : s = submitting.session /\ q = submitting.request
  BY SubmitFacts
<1>2. /\ inFlight \in [Connections -> Nat]
      /\ caller \in [Requests -> {"idle", "submitted", "accepted", "waiting"} \cup Ended]
      /\ \A d \in Connections : Held(d) = IF d = s THEN 1 ELSE 0
  BY <1>1, SubmitFacts
<1>3. submitting' = NoSubmit /\ caller' = [caller EXCEPT ![q] = "rejected"]
  BY <1>1 DEF Reject
<1>4. \A d \in Connections : Held(d)' = 0
  BY <1>3 DEF Held
<1>5. \A d \in Connections : /\ inFlight'[d] = (inFlight[d] - Held(d)) + Held(d)'
                             /\ inFlight'[d] <= MaxConcurrency
  <2> SUFFICES ASSUME NEW d \in Connections
               PROVE  /\ inFlight'[d] = (inFlight[d] - Held(d)) + Held(d)'
                      /\ inFlight'[d] <= MaxConcurrency
    OBVIOUS
  <2>1. inFlight[d] \in Nat /\ inFlight[d] <= MaxConcurrency /\ Held(d)' = 0
    BY <1>2, <1>4 DEF DispatchInv, PendingInv, PermitInv
  <2>2. Held(d) = IF d = s THEN 1 ELSE 0
    BY <1>2
  <2>3. inFlight'[d] = IF d = s THEN inFlight[d] - 1 ELSE inFlight[d]
    BY <1>1, <1>2
  <2> QED
    BY <2>1, <2>2, <2>3, SessionAssumption
<1>6. PermitInv' /\ \A d \in Connections : inFlight'[d] \in Nat
  BY <1>5, HeldPermit DEF DispatchInv, PendingInv, RequestTypeOK
<1>7. inFlight' \in [Connections -> Nat]
  BY <1>2, <1>6
<1>8. LeaseIsOpen'
  BY <1>3 DEF LeaseIsOpen
<1> QED
  BY <1>2, <1>3, <1>6, <1>7, <1>8, AdmissionInv

LEMMA EndSubmitInv ==
    ASSUME DispatchInv, SessionInv', EndSubmit
    PROVE  DispatchInv'
<1> USE SessionAssumption, RequestAssumption
<1>1. RelayTypeOK' /\ HttpTypeOK'
  BY SubmitTypes
<1>2. submitting # NoSubmit /\ UNCHANGED <<record, mailbox, acks, closed, consumed>>
  BY DEF EndSubmit, SubmitExpired, SubmitRevalidated, SubmitReselected, SubmitEnqueued, SubmitUnwritten,
      Unlocked, sessionVars, sessionsButClose, directoryVars, consumerVars, relayVars
<1>3. PICK s \in Connections, q \in Requests : s = submitting.session /\ q = submitting.request
  BY <1>2, SubmitFacts
<1>4. /\ inFlight \in [Connections -> Nat] /\ submitting \in Submit
      /\ caller \in [Requests -> {"idle", "submitted", "accepted", "waiting"} \cup Ended]
      /\ \A d \in Connections : Held(d) = IF d = s THEN 1 ELSE 0
      /\ \A d \in Connections : inFlight[d] <= MaxConcurrency
  BY <1>2, <1>3, SubmitFacts DEF DispatchInv, PendingInv, PermitInv
<1>5. CASE /\ Reject /\ UNCHANGED pending
           /\ inFlight' = [inFlight EXCEPT ![submitting.session] = @ - 1]
  BY <1>1, <1>2, <1>5, GiveBackInv
<1>6. CASE SubmitRevalidated
  <2>1. /\ submitting' = [submitting EXCEPT !.valid = TRUE, !.writer = submitting.session \in writers]
        /\ UNCHANGED <<pending, inFlight, caller>>
    BY <1>6 DEF SubmitRevalidated, httpVars
  <2>2. /\ submitting' \in Submit /\ submitting'.session = submitting.session
        /\ submitting'.leases = submitting.leases /\ submitting'.request = submitting.request
    <3>0. (submitting.session \in writers) \in BOOLEAN
      OBVIOUS
    <3>1. PICK w \in BOOLEAN : submitting' = [submitting EXCEPT !.valid = TRUE, !.writer = w]
      BY <2>1, <3>0, Zenon
    <3> QED
      BY <1>4, <3>1 DEF Submit
  <2>3. submitting' # NoSubmit
    BY <2>2 DEF Submit
  <2>4. PermitInv'
    BY <1>2, <2>1, <2>2, <2>3 DEF DispatchInv, PendingInv, PermitInv, PendingOn, HasPending, SessionOf, Held
  <2>5. LeaseIsOpen'
    BY <1>2, <2>1, <2>2 DEF DispatchInv, PendingInv, LeaseIsOpen, Recorded
  <2> QED
    BY <1>1, <1>2, <1>4, <2>1, <2>2, <2>4, <2>5, AdmissionInv
<1>7. ASSUME NEW c \in submitting.leases \ {submitting.session}, HasCapacity(c),
             submitting' = [submitting EXCEPT !.session = c, !.valid = TRUE, !.writer = c \in writers],
             inFlight' = [inFlight EXCEPT ![submitting.session] = @ - 1, ![c] = @ + 1],
             UNCHANGED <<pending, caller>>
      PROVE  DispatchInv'
  <2>1. c \in Connections /\ c # s
    BY <1>2, <1>3, <1>7, SubmitFacts
  <2>2. /\ submitting' \in Submit /\ submitting'.session = c
        /\ submitting'.leases = submitting.leases /\ submitting'.request = submitting.request
    <3>0. (c \in writers) \in BOOLEAN
      OBVIOUS
    <3>1. PICK w \in BOOLEAN :
             submitting' = [submitting EXCEPT !.session = c, !.valid = TRUE, !.writer = w]
      BY <1>7, <3>0, Zenon
    <3> QED
      BY <1>4, <2>1, <3>1 DEF Submit
  <2>3. submitting' # NoSubmit
    BY <2>2 DEF Submit
  <2>4. \A d \in Connections : Held(d)' = IF d = c THEN 1 ELSE 0
    BY <2>2, <2>3 DEF Held
  <2>5. \A d \in Connections :
           inFlight'[d] = IF d = c THEN inFlight[d] + 1 ELSE IF d = s THEN inFlight[d] - 1 ELSE inFlight[d]
    BY <1>3, <1>4, <1>7, <2>1
  <2>6. \A d \in Connections : /\ inFlight'[d] = (inFlight[d] - Held(d)) + Held(d)'
                               /\ inFlight'[d] <= MaxConcurrency
    <3> SUFFICES ASSUME NEW d \in Connections
                 PROVE  /\ inFlight'[d] = (inFlight[d] - Held(d)) + Held(d)'
                        /\ inFlight'[d] <= MaxConcurrency
      OBVIOUS
    <3>1. inFlight[d] \in Nat /\ inFlight[d] <= MaxConcurrency /\ (d = c => inFlight[d] < MaxConcurrency)
      BY <1>4, <1>7 DEF HasCapacity
    <3>2. Held(d) = (IF d = s THEN 1 ELSE 0) /\ Held(d)' = IF d = c THEN 1 ELSE 0
      BY <1>4, <2>4
    <3>3. inFlight'[d] = IF d = c THEN inFlight[d] + 1 ELSE IF d = s THEN inFlight[d] - 1 ELSE inFlight[d]
      BY <2>5
    <3> QED
      BY <2>1, <3>1, <3>2, <3>3
  <2>7. PermitInv' /\ \A d \in Connections : inFlight'[d] \in Nat
    BY <1>7, <2>6, HeldPermit DEF DispatchInv, PendingInv, RequestTypeOK
  <2>8. inFlight' \in [Connections -> Nat]
    BY <1>4, <1>7, <2>7
  <2>9. LeaseIsOpen'
    BY <1>2, <1>7, <2>2 DEF DispatchInv, PendingInv, LeaseIsOpen, Recorded
  <2> QED
    BY <1>1, <1>2, <1>4, <1>7, <2>2, <2>7, <2>8, <2>9, AdmissionInv
<1>8. CASE SubmitEnqueued
  <2>1. /\ pending' = [pending EXCEPT ![q] = [session |-> s, streaming |-> FALSE]]
        /\ submitting' = NoSubmit /\ caller' = [caller EXCEPT ![q] = "accepted"] /\ UNCHANGED inFlight
    BY <1>3, <1>8 DEF SubmitEnqueued
  <2>2. /\ pending \in [Requests -> Pending \cup {NoPending}] /\ pending[q] = NoPending
        /\ s \notin closed /\ Recorded(s)
    BY <1>2, <1>3, SubmitFacts DEF DispatchInv, RequestTypeOK, DispatcherTypeOK, HasPending
  <2>3. /\ [session |-> s, streaming |-> FALSE] \in Pending
        /\ [session |-> s, streaming |-> FALSE].session = s
    BY DEF Pending
  <2>4. NoPending \notin Pending
    BY DEF Pending
  <2>5. /\ pending' \in [Requests -> Pending \cup {NoPending}]
        /\ pending'[q] # NoPending /\ pending'[q].session = s
        /\ \A p \in Requests \ {q} : pending'[p] = pending[p]
    BY <2>1, <2>2, <2>3, <2>4
  <2>6. /\ PendingOn(s)' = PendingOn(s) \cup {q} /\ q \notin PendingOn(s)
        /\ \A d \in Connections \ {s} : PendingOn(d)' = PendingOn(d)
    BY <2>2, <2>5 DEF PendingOn, HasPending, SessionOf
  <2>7. \A d \in Connections : Held(d)' = 0
    BY <2>1 DEF Held
  <2>8. PermitInv'
    <3> SUFFICES ASSUME NEW d \in Connections
                 PROVE  /\ IsFiniteSet(PendingOn(d)')
                        /\ inFlight[d] = Cardinality(PendingOn(d)') + Held(d)'
                        /\ inFlight[d] <= MaxConcurrency
      BY <2>1 DEF PermitInv
    <3>1. /\ IsFiniteSet(PendingOn(d)) /\ inFlight[d] = Cardinality(PendingOn(d)) + Held(d)
          /\ inFlight[d] <= MaxConcurrency /\ Held(d)' = 0
      BY <2>7 DEF DispatchInv, PendingInv, PermitInv
    <3>2. Cardinality(PendingOn(d)) \in Nat
      BY <3>1, FS_CardinalityType
    <3>3. CASE d = s
      <4>1. /\ IsFiniteSet(PendingOn(d)') /\ Cardinality(PendingOn(d)') = Cardinality(PendingOn(d)) + 1
        BY <2>6, <3>1, <3>3, FS_AddElement
      <4>2. Held(d) = 1
        BY <1>4, <3>3
      <4> QED
        BY <3>1, <3>2, <4>1, <4>2
    <3>4. CASE d # s
      <4>1. PendingOn(d)' = PendingOn(d) /\ Held(d) = 0
        BY <1>4, <2>6, <3>4
      <4> QED
        BY <3>1, <4>1
    <3> QED
      BY <3>3, <3>4
  <2>9. DispatcherTypeOK'
    BY <1>2, <2>1, <2>5 DEF DispatchInv, RequestTypeOK, DispatcherTypeOK
  <2>10. FreshHasNone' /\ LeaseIsOpen'
    BY <1>4, <2>1, <2>5 DEF DispatchInv, PendingInv, FreshHasNone, LeaseIsOpen, HasPending
  <2>11. NoPendingOnClosedSession' /\ PendingHasRecord'
    BY <1>2, <2>2, <2>5 DEF DispatchInv, PendingInv, NoPendingOnClosedSession, PendingHasRecord, HasPending,
        SessionOf, Recorded
  <2>12. BarrierCovers'
    BY <1>2 DEF DispatchInv, BarrierCovers, AckedIsClosed, ConsumedIsHead
  <2> QED
    BY <1>1, <2>8, <2>9, <2>10, <2>11, <2>12 DEF DispatchInv, RequestTypeOK, PendingInv
<1>9. CASE SubmitExpired \/ SubmitUnwritten
  BY <1>5, <1>9 DEF SubmitExpired, SubmitUnwritten
<1>10. CASE SubmitReselected
  BY <1>5, <1>7, <1>10 DEF SubmitReselected
<1> QED
  BY <1>6, <1>8, <1>9, <1>10 DEF EndSubmit

LEMMA DispatchStepInv ==
    ASSUME DispatchInv, [RequestNext]_vars
    PROVE  DispatchInv'
<1>1. SessionInv'
  BY RequestStepsSessions, SessionStepInv DEF DispatchInv
<1>2. CASE SessionMoves
  BY <1>2, SessionMovesInv
<1>3. ASSUME NEW q \in Requests, NEW k \in Kinds, SubmitRejected(q, k) \/ SubmitSelect(q, k)
      PROVE  DispatchInv'
  BY <1>1, <1>3, SubmitSelectInv
<1>4. CASE EndSubmit
  BY <1>1, <1>4, EndSubmitInv
<1>5. CASE \/ \E c \in Connections, q \in Requests : FrameStep(c, q)
           \/ \E c \in Connections : RelayStep(c)
           \/ \E q \in Requests : CallerStep(q)
           \/ \E q \in Requests : RelayDisconnect(q)
  BY <1>1, <1>5, ResponseInv
<1>6. CASE SessionClosed
  BY <1>1, <1>6, SessionClosedInv
<1>7. CASE Acknowledge
  BY <1>1, <1>7, AcknowledgeInv
<1>8. CASE UNCHANGED vars
  <2>1. UNCHANGED <<record, mailbox, acks>> /\ UNCHANGED requestVars
    BY <1>8 DEF vars, sessionVars, directoryVars, consumerVars
  <2>2. RequestTypeOK'
    BY <2>1 DEF DispatchInv, RequestTypeOK, DispatcherTypeOK, RelayTypeOK, HttpTypeOK, requestVars,
        dispatcherVars, httpVars, relayVars
  <2>3. PendingInv' /\ BarrierCovers'
    BY <2>1 DEF DispatchInv, PendingInv, PermitInv, PendingOn, Held, HasPending, SessionOf, FreshHasNone,
        LeaseIsOpen, NoPendingOnClosedSession, PendingHasRecord, Recorded, BarrierCovers, AckedIsClosed,
        ConsumedIsHead, requestVars, dispatcherVars, httpVars, relayVars
  <2> QED
    BY <1>1, <2>2, <2>3 DEF DispatchInv
<1> QED
  BY <1>2, <1>3, <1>4, <1>5, <1>6, <1>7, <1>8 DEF RequestNext, ConsumerStep

-----------------------------------------------------------------------------
(* Theorems about the dispatcher *)

LEMMA DispatchIsInductive == RequestSpec => []DispatchInv
<1>1. DispatchInv /\ [RequestNext]_vars => DispatchInv'
  BY DispatchStepInv
<1> QED
  BY <1>1, DispatchInitInv, PTL DEF RequestSpec

\* Every variable of the dispatcher, the relay and the HTTP phase keeps its type (dispatch,
\* supervisor/http.rs); a permit count never falls below zero.
THEOREM DispatchTypesCorrect == RequestSpec => []RequestTypeOK
BY DispatchIsInductive, PTL DEF DispatchInv

\* The permits of a session are exactly its pendings and the reservation of a running
\* submit, and never exceed runtime.maxConcurrency (admission.rs reserve and release).
THEOREM PermitsPaired == RequestSpec => []PermitsArePaired
<1>1. DispatchInv => PermitsArePaired
  <2> SUFFICES ASSUME DispatchInv, NEW c \in Connections
               PROVE  /\ inFlight[c] = Cardinality({q \in Requests : HasPending(q) /\ SessionOf(q) = c})
                             + (IF submitting # NoSubmit /\ submitting.session = c THEN 1 ELSE 0)
                      /\ inFlight[c] <= MaxConcurrency
    BY DEF PermitsArePaired
  <2> QED
    BY DEF DispatchInv, PendingInv, PermitInv, PendingOn, Held
<1> QED
  BY <1>1, DispatchIsInductive, PTL

\* No request is pending on a session whose terminal the dispatcher has processed
\* (dispatcher.rs on_session_closed against a submit that selected the session before).
THEOREM NoneLeftOnClosedSession == RequestSpec => []NoPendingOnClosedSession
BY DispatchIsInductive, PTL DEF DispatchInv, PendingInv

\* The close barrier keeps the record of a session as long as a request is pending on it
\* (directory.rs ack_close).
THEOREM PendingsRecorded == RequestSpec => []PendingHasRecord
BY DispatchIsInductive, PTL DEF DispatchInv, PendingInv
-----------------------------------------------------------------------------
(* The streams.  An event is in the dispatcher, in the sink that relays it or  *)
(* in the channel of its HTTP phase, and between them they hold the chunks in   *)
(* order without a gap: what was passed on so far (body and channel) is what    *)
(* the dispatcher accepted (sent), but for the one chunk being relayed.         *)

Flow == {"start", "chunk"}
CarriesFlow(q) == \A i \in 1..Len(channel[q]) : channel[q][i].type \in Flow
Offset(q) == IF channel[q] # <<>> /\ channel[q][1].type = "start" THEN 1 ELSE 0
Passed(q) == (Len(body[q]) + Len(channel[q])) - Offset(q)
EndAt(q, i) == IF i \in 1..Len(channel[q]) /\ channel[q][i].type = "end" THEN 1 ELSE 0
Relaying(c, q) == relay[c] # <<>> /\ relay[c][1].request = q

\* The sink of a session relays one frame at a time, while its session is registered.
RelayShape ==
    \A c \in Connections : relay[c] # <<>> =>
        /\ phase[c] = "registered"
        /\ Len(relay[c]) <= 2
        /\ Len(relay[c]) = 2 =>
              /\ relay[c][2].request = relay[c][1].request
              /\ relay[c][1].event.type \in {"end", "error"}
              /\ relay[c][2].event.type = IF relay[c][1].event.type = "end" THEN "completed" ELSE "failed"

\* Only the session a request is or was pending on relays events of it, and a request with
\* a pending is told of nothing but its start and its chunks.
RelayOwner ==
    \A c \in Connections, q \in Requests : Relaying(c, q) =>
        /\ caller[q] \notin {"idle", "submitted"} /\ q \notin unrelayed
        /\ HasPending(q) => SessionOf(q) = c /\ relay[c][1].event.type \in Flow
        /\ \A d \in Connections : Relaying(d, q) => d = c

\* A request that ended, is to be told of a disconnect, or has an event in its channel that
\* ends it, has no pending; one that has just begun has no events.
EndedHasNone ==
    \A q \in Requests :
        /\ caller[q] \in Ended => ~HasPending(q)
        /\ HasPending(q) => CarriesFlow(q)
        /\ q \in unrelayed => ~HasPending(q) /\ caller[q] \notin {"idle", "submitted"}
        /\ caller[q] \in {"idle", "submitted"} => channel[q] = <<>> /\ body[q] = <<>> /\ sent[q] = 0

\* The events in the channel of a stream, by their position.
ChannelFlow(q) ==
    \A i \in 1..Len(channel[q]) :
        /\ channel[q][i].type = "start" => i = 1 /\ body[q] = <<>>
        /\ channel[q][i].type = "chunk" => channel[q][i].seq = (Len(body[q]) + i - 1) - Offset(q)
        /\ channel[q][i].type = "end" => sent[q] = (Len(body[q]) + i - 1) - Offset(q)
        /\ channel[q][i].type = "completed" =>
              sent[q] = (Len(body[q]) + i - 1) - Offset(q) - EndAt(q, i - 1)
        /\ channel[q][i].type \in {"chunk", "end"} =>
              \A j \in 1..Len(channel[q]) : j < i => channel[q][j].type \in Flow
        /\ channel[q][i].type = "completed" =>
              \A j \in 1..Len(channel[q]) : j < i => \/ channel[q][j].type \in Flow
                                                     \/ j = i - 1 /\ channel[q][j].type = "end"

\* What the dispatcher still holds of a stream continues what its channel carries.
PendingFlow(q) ==
    HasPending(q) =>
        /\ ~pending[q].streaming => /\ channel[q] = <<>> /\ body[q] = <<>> /\ sent[q] = 0
                                    /\ \A c \in Connections : ~Relaying(c, q)
        /\ (\A c \in Connections : ~Relaying(c, q)) => sent[q] = Passed(q)

RelayFlow(q) ==
    \A c \in Connections : Relaying(c, q) =>
        LET e == relay[c][1].event
        IN /\ e.type = "start" => channel[q] = <<>> /\ body[q] = <<>> /\ sent[q] = 0
           /\ e.type = "chunk" => CarriesFlow(q) /\ e.seq = Passed(q) /\ sent[q] = Passed(q) + 1
           /\ e.type = "end" => CarriesFlow(q) /\ sent[q] = Passed(q)
           /\ e.type = "completed" =>
                 /\ sent[q] = Passed(q) - EndAt(q, Len(channel[q]))
                 /\ \A j \in 1..Len(channel[q]) : \/ channel[q][j].type \in Flow
                                                  \/ j = Len(channel[q]) /\ channel[q][j].type = "end"

StreamFlow ==
    \A q \in Requests : kind[q] = "stream" /\ caller[q] \notin Ended =>
        ChannelFlow(q) /\ PendingFlow(q) /\ RelayFlow(q)

StreamInv == RelayShape /\ RelayOwner /\ EndedHasNone /\ StreamFlow /\ StreamIsWhole

Flowing(q) == ChannelFlow(q) /\ PendingFlow(q) /\ RelayFlow(q)

\* A stream whose events stay where they are flows on, even if it loses its pending.
LEMMA FlowKept ==
    ASSUME NEW q \in Requests, Flowing(q), channel'[q] = channel[q], body'[q] = body[q],
           sent'[q] = sent[q], HasPending(q)' => HasPending(q) /\ pending'[q] = pending[q],
           \A c \in Connections : Relaying(c, q)' => Relaying(c, q) /\ relay'[c][1] = relay[c][1],
           HasPending(q)' => \A c \in Connections : Relaying(c, q)' <=> Relaying(c, q)
    PROVE  Flowing(q)'
<1>1. /\ Offset(q)' = Offset(q) /\ Passed(q)' = Passed(q) /\ CarriesFlow(q)' = CarriesFlow(q)
      /\ \A i : EndAt(q, i)' = EndAt(q, i)
  BY DEF Offset, Passed, CarriesFlow, EndAt
<1>2. ChannelFlow(q)'
  BY <1>1 DEF Flowing, ChannelFlow
<1>3. PendingFlow(q)'
  BY <1>1 DEF Flowing, PendingFlow
<1>4. RelayFlow(q)'
  <2> SUFFICES ASSUME NEW c \in Connections, Relaying(c, q)'
               PROVE  LET e == relay'[c][1].event
                      IN /\ e.type = "start" => channel'[q] = <<>> /\ body'[q] = <<>> /\ sent'[q] = 0
                         /\ e.type = "chunk" => CarriesFlow(q)' /\ e.seq = Passed(q)' /\ sent'[q] = Passed(q)' + 1
                         /\ e.type = "end" => CarriesFlow(q)' /\ sent'[q] = Passed(q)'
                         /\ e.type = "completed" =>
                               /\ sent'[q] = Passed(q)' - EndAt(q, Len(channel[q]))'
                               /\ \A j \in 1..Len(channel'[q]) :
                                     \/ channel'[q][j].type \in Flow
                                     \/ j = Len(channel'[q]) /\ channel'[q][j].type = "end"
    BY DEF RelayFlow
  <2>1. Relaying(c, q) /\ relay'[c][1] = relay[c][1]
    OBVIOUS
  <2>2. EndAt(q, Len(channel[q]))' = EndAt(q, Len(channel[q]))
    BY DEF EndAt
  <2> QED
    BY <1>1, <2>1, <2>2 DEF Flowing, RelayFlow
<1> QED
  BY <1>2, <1>3, <1>4 DEF Flowing

\* Nothing is on its way for a request that has just begun, and it stays so.
LEMMA FlowEmpty ==
    ASSUME NEW q \in Requests, channel'[q] = <<>>, body'[q] = <<>>, sent'[q] = 0,
           \A c \in Connections : ~Relaying(c, q)'
    PROVE  Flowing(q)'
<1>1. Offset(q)' = 0 /\ Passed(q)' = 0 /\ CarriesFlow(q)'
  BY DEF Offset, Passed, CarriesFlow
<1> QED
  BY <1>1 DEF Flowing, ChannelFlow, PendingFlow, RelayFlow

LEMMA StreamInitInv == RequestInit => StreamInv
<1> SUFFICES ASSUME RequestInit PROVE StreamInv
  OBVIOUS
<1>1. RelayShape /\ RelayOwner
  BY DEF RequestInit, RelayShape, RelayOwner, Relaying
<1>2. EndedHasNone
  BY DEF RequestInit, EndedHasNone, HasPending
<1>3. StreamFlow
  BY DEF RequestInit, StreamFlow
<1>4. StreamIsWhole
  BY DEF RequestInit, StreamIsWhole
<1> QED
  BY <1>1, <1>2, <1>3, <1>4 DEF StreamInv

\* Steps that move no event: the sessions, the admission, the registration of the HTTP
\* phase and the dispatcher's close of a session.
LEMMA QuietStep ==
    ASSUME StreamInv, UNCHANGED <<relay, body, sent>>,
           \A q \in Requests : channel'[q] = channel[q] \/ caller'[q] \in Ended,
           \A c \in Connections : relay[c] # <<>> => phase'[c] = phase[c],
           \A q \in Requests : HasPending(q)' =>
               caller[q] = "submitted" \/ (HasPending(q) /\ pending'[q] = pending[q]),
           \A q \in Requests : kind'[q] = kind[q] \/ caller[q] = "idle",
           \A q \in Requests :
               /\ caller[q] \notin {"idle", "submitted"} => caller'[q] \notin {"idle", "submitted"}
               /\ caller[q] \in Ended => caller'[q] = caller[q]
               /\ caller'[q] = "answered" =>
                     caller[q] = "answered" \/ (kind[q] = "stream" => Len(body[q]) = sent[q])
               /\ caller'[q] \in Ended => ~HasPending(q)',
           \A q \in unrelayed' : /\ ~HasPending(q)' /\ caller'[q] \notin {"idle", "submitted"}
                                 /\ \A c \in Connections : ~Relaying(c, q)
    PROVE  StreamInv'
<1>1. \A c \in Connections, q \in Requests : Relaying(c, q)' <=> Relaying(c, q)
  BY DEF Relaying
<1>2. \A c \in Connections, q \in Requests : Relaying(c, q) => caller[q] \notin {"idle", "submitted"}
  BY DEF StreamInv, RelayOwner
<1>3. RelayShape'
  BY DEF StreamInv, RelayShape
<1>4. RelayOwner'
  <2> SUFFICES ASSUME NEW c \in Connections, NEW q \in Requests, Relaying(c, q)
               PROVE  /\ caller'[q] \notin {"idle", "submitted"} /\ q \notin unrelayed'
                      /\ HasPending(q)' => pending'[q].session = c /\ relay'[c][1].event.type \in Flow
                      /\ \A d \in Connections : Relaying(d, q)' => d = c
    BY <1>1 DEF RelayOwner, SessionOf
  <2>1. caller[q] \notin {"idle", "submitted"}
    BY <1>2
  <2> QED
    BY <1>1, <2>1 DEF StreamInv, RelayOwner, SessionOf
<1>5. EndedHasNone'
  <2> SUFFICES ASSUME NEW q \in Requests
               PROVE  /\ caller'[q] \in Ended => ~HasPending(q)'
                      /\ HasPending(q)' => CarriesFlow(q)'
                      /\ q \in unrelayed' => ~HasPending(q)' /\ caller'[q] \notin {"idle", "submitted"}
                      /\ caller'[q] \in {"idle", "submitted"} =>
                            channel'[q] = <<>> /\ body'[q] = <<>> /\ sent'[q] = 0
    BY DEF EndedHasNone
  <2>1. caller'[q] \notin Ended => channel'[q] = channel[q] /\ CarriesFlow(q)' = CarriesFlow(q)
    BY DEF CarriesFlow
  <2>2. caller[q] = "submitted" => CarriesFlow(q)
    BY DEF StreamInv, EndedHasNone, CarriesFlow
  <2>3. "idle" \notin Ended /\ "submitted" \notin Ended
    BY DEF Ended
  <2> QED
    BY <2>1, <2>2, <2>3 DEF StreamInv, EndedHasNone
<1>6. StreamFlow'
  <2> SUFFICES ASSUME NEW q \in Requests, kind'[q] = "stream", caller'[q] \notin Ended
               PROVE  Flowing(q)'
    BY DEF StreamFlow, Flowing
  <2>1. CASE caller[q] \in {"idle", "submitted"}
    <3>1. \A c \in Connections : ~Relaying(c, q)'
      BY <1>1, <1>2, <2>1
    <3>2. channel'[q] = <<>> /\ body'[q] = <<>> /\ sent'[q] = 0
      BY <2>1 DEF StreamInv, EndedHasNone
    <3> QED
      BY <3>1, <3>2, FlowEmpty
  <2>2. CASE caller[q] \notin {"idle", "submitted"}
    <3>1. Flowing(q)
      BY <2>2 DEF StreamInv, StreamFlow, Flowing
    <3>2. HasPending(q)' => HasPending(q) /\ pending'[q] = pending[q]
      BY <2>2
    <3>3. channel'[q] = channel[q]
      OBVIOUS
    <3> QED
      BY <1>1, <3>1, <3>2, <3>3, FlowKept
  <2> QED
    BY <2>1, <2>2
<1>7. StreamIsWhole'
  <2> SUFFICES ASSUME NEW q \in Requests
               PROVE  /\ \A i \in 1..Len(body'[q]) : body'[q][i] = i - 1
                      /\ (kind'[q] = "stream" /\ caller'[q] = "answered") => Len(body'[q]) = sent'[q]
    BY DEF StreamIsWhole
  <2>1. caller[q] = "idle" => Len(body[q]) = sent[q]
    BY DEF StreamInv, EndedHasNone
  <2> QED
    BY <2>1 DEF StreamInv, StreamIsWhole
<1> QED
  BY <1>3, <1>4, <1>5, <1>6, <1>7 DEF StreamInv

\* A step of a session task moves that session only.
LEMMA PhaseFrame ==
    ASSUME SessionInv, SessionMoves, NEW c \in Connections, relay[c] # <<>>, phase[c] = "registered"
    PROVE  phase'[c] = phase[c]
<1>1. phase \in [Connections -> Phases]
  BY DEF SessionInv, SessionTypeOK, LayerTypeOK
<1>2. ASSUME NEW d \in Connections, relay[d] = <<>>, SessionStep(d) PROVE phase'[c] = phase[c]
  <2>1. \E p : phase' = [phase EXCEPT ![d] = p]
    BY <1>2 DEF SessionStep, BootstrapWritten, BindCapabilities, AckWritten, PeerTerminal, LeaveOnSignal,
        Deadline, SeeWriterError, SeeCancel, LeaveLoop, CloseStep, UnregisterWriter, RemoveFacts,
        BeginClose, BeginCloseFails, CloseUnbound, BarrierComplete, BarrierTimeout, TaskFinished
  <2>2. d # c
    BY <1>2
  <2> QED
    BY <1>1, <2>1, <2>2
<1>3. ASSUME NEW d \in Connections, ConnectionStep(d) PROVE phase'[c] = phase[c]
  BY <1>1, <1>3 DEF ConnectionStep, AcceptRefused, Accept, StoreHandle, WriteFrame, WriterFails
<1>4. ASSUME NEW k \in Consumers, ConsumeTerminal(k) PROVE phase'[c] = phase[c]
  BY <1>4 DEF ConsumeTerminal
<1>5. CASE Shutdown
  BY <1>5 DEF Shutdown
<1> QED
  BY <1>2, <1>3, <1>4, <1>5 DEF SessionMoves

\* Which steps of the specification these are.
LEMMA QuietSteps ==
    ASSUME DispatchInv, StreamInv,
           \/ SessionMoves \/ Acknowledge \/ SessionClosed \/ EndSubmit \/ UNCHANGED vars
           \/ \E q \in Requests, k \in Kinds : SubmitRejected(q, k) \/ SubmitSelect(q, k)
           \/ \E q \in Requests : Register(q)
    PROVE  StreamInv'
<1> USE DEF DispatchInv
<1>a. /\ caller \in [Requests -> {"idle", "submitted", "accepted", "waiting"} \cup Ended]
      /\ kind \in [Requests -> Kinds \cup {"none"}]
      /\ pending \in [Requests -> Pending \cup {NoPending}]
  BY DEF RequestTypeOK, HttpTypeOK, DispatcherTypeOK
<1>b. \A q \in unrelayed : /\ q \in Requests /\ ~HasPending(q) /\ caller[q] \notin {"idle", "submitted"}
                            /\ \A c \in Connections : ~Relaying(c, q)
  BY DEF StreamInv, EndedHasNone, RelayOwner, RequestTypeOK, RelayTypeOK
<1>c. \A q \in Requests : caller[q] \in Ended => ~HasPending(q)
  BY DEF StreamInv, EndedHasNone
<1>1. CASE SessionMoves \/ Acknowledge \/ UNCHANGED vars
  <2>1. /\ UNCHANGED <<kind, sent, pending, channel, caller, body, relay, unrelayed>>
    BY <1>1 DEF SessionMoves, Acknowledge, vars, requestVars, dispatcherVars, httpVars, relayVars
  <2>2. \A c \in Connections : relay[c] # <<>> => phase'[c] = phase[c]
    BY <1>1, PhaseFrame DEF StreamInv, RelayShape, Acknowledge, ConsumeTerminal, vars, sessionVars
  <2> QED
    BY <1>b, <1>c, <2>1, <2>2, QuietStep DEF HasPending
<1>2. CASE \E q \in Requests, k \in Kinds : SubmitRejected(q, k) \/ SubmitSelect(q, k)
  <2>1. PICK q \in Requests, k \in Kinds, x \in {"rejected", "submitted"} :
           /\ caller[q] = "idle" /\ caller' = [caller EXCEPT ![q] = x]
           /\ kind' = [kind EXCEPT ![q] = k]
    BY <1>2 DEF SubmitRejected, SubmitSelect
  <2>2. UNCHANGED <<phase, sent, pending, channel, body, relay, unrelayed>>
    BY <1>2 DEF SubmitRejected, SubmitSelect, sessionVars, dispatcherVars, relayVars
  <2>3. ~HasPending(q) /\ x # "answered"
    BY <2>1 DEF PendingInv, FreshHasNone
  <2>4. \A p \in Requests \ {q} : caller'[p] = caller[p] /\ kind'[p] = kind[p]
    BY <1>a, <2>1
  <2>5. caller'[q] = x /\ "idle" \notin Ended
    BY <1>a, <2>1 DEF Ended
  <2>6. q \notin unrelayed
    BY <1>b, <2>1
  <2> QED
    BY <1>b, <1>c, <2>1, <2>2, <2>3, <2>4, <2>5, <2>6, QuietStep DEF HasPending
<1>3. CASE EndSubmit
  <2>1. UNCHANGED <<phase, kind, sent, channel, body, relay, unrelayed>> /\ submitting # NoSubmit
    BY <1>3 DEF EndSubmit, SubmitExpired, SubmitRevalidated, SubmitReselected, SubmitEnqueued,
        SubmitUnwritten, Unlocked, sessionVars, sessionsButClose, httpVars, relayVars
  <2>2. PICK q \in Requests : q = submitting.request /\ caller[q] = "submitted" /\ ~HasPending(q)
    BY <2>1, SubmitFacts
  <2>3. \/ UNCHANGED <<caller, pending>>
        \/ caller' = [caller EXCEPT ![q] = "rejected"] /\ UNCHANGED pending
        \/ /\ caller' = [caller EXCEPT ![q] = "accepted"]
           /\ pending' = [pending EXCEPT ![q] = [session |-> submitting.session, streaming |-> FALSE]]
    BY <1>3, <2>2 DEF EndSubmit, SubmitExpired, SubmitRevalidated, SubmitReselected, SubmitEnqueued,
        SubmitUnwritten, Reject, httpVars
  <2>4. \A p \in Requests \ {q} : caller'[p] = caller[p] /\ pending'[p] = pending[p]
    BY <1>a, <2>3
  <2>5. caller'[q] \in {"submitted", "rejected", "accepted"}
    BY <1>a, <2>2, <2>3
  <2>6. "submitted" \notin Ended /\ "accepted" \notin Ended
    BY DEF Ended
  <2>7. caller'[q] \in Ended => ~HasPending(q)'
    BY <1>a, <2>2, <2>3, <2>6 DEF HasPending
  <2>8. q \notin unrelayed
    BY <1>b, <2>2
  <2> QED
    BY <1>b, <1>c, <2>1, <2>2, <2>4, <2>5, <2>6, <2>7, <2>8, QuietStep DEF HasPending
<1>4. ASSUME NEW q \in Requests, Register(q) PROVE StreamInv'
  <2>1. /\ UNCHANGED <<phase, kind, sent, pending, channel, body, relay, unrelayed>>
        /\ caller[q] = "accepted" /\ caller' = [caller EXCEPT ![q] = "waiting"]
    BY <1>4 DEF Register, sessionVars, dispatcherVars, relayVars
  <2>2. caller'[q] = "waiting" /\ \A p \in Requests \ {q} : caller'[p] = caller[p]
    BY <1>a, <2>1
  <2>3. "accepted" \notin Ended /\ "waiting" \notin Ended
    BY DEF Ended
  <2> QED
    BY <1>b, <1>c, <2>1, <2>2, <2>3, QuietStep DEF HasPending
<1>5. CASE SessionClosed
  <2>1. PICK c \in Connections : c = Head(mailbox["RequestDispatcher"])
    BY <1>5, RequestAssumption DEF SessionClosed, SessionInv, SessionTypeOK, ConsumerTypeOK
  <2>2. PICK lost \in SUBSET Requests : lost = {q \in Requests : HasPending(q) /\ SessionOf(q) = c}
    OBVIOUS
  <2>3. /\ pending' = [q \in Requests |-> IF q \in lost THEN NoPending ELSE pending[q]]
        /\ caller' = [q \in Requests |-> IF q \in lost /\ kind[q] = "task" THEN "uncertain" ELSE caller[q]]
        /\ unrelayed' \subseteq lost
        /\ UNCHANGED <<phase, kind, sent, channel, body, relay>>
    BY <1>5, <2>1, <2>2 DEF SessionClosed, sessionVars
  <2>4. phase[c] \in TerminalPhases
    <3>1. mailbox["RequestDispatcher"] # <<>> /\ mailbox["RequestDispatcher"] \in Seq(Connections)
      BY <1>5, RequestAssumption DEF SessionClosed, SessionInv, SessionTypeOK, ConsumerTypeOK
    <3>2. 1 \in 1..Len(mailbox["RequestDispatcher"]) /\ mailbox["RequestDispatcher"][1] = c
      BY <2>1, <3>1
    <3> QED
      BY <3>2, RequestAssumption DEF SessionInv, TerminalIsDeliveredOnce
  <2>5. relay[c] = <<>>
    BY <2>4 DEF StreamInv, RelayShape, TerminalPhases, EndPhases
  <2>6. \A q \in lost : \A d \in Connections : ~Relaying(d, q)
    BY <2>2, <2>5 DEF StreamInv, RelayOwner, Relaying
  <2>7. \A q \in lost : HasPending(q) /\ caller[q] \notin {"idle", "submitted"} /\ caller[q] \notin Ended
    BY <1>c, <2>2 DEF PendingInv, FreshHasNone
  <2>8. \A q \in Requests : /\ q \in lost => pending'[q] = NoPending
                            /\ q \notin lost => pending'[q] = pending[q] /\ caller'[q] = caller[q]
                            /\ caller'[q] \in {caller[q], "uncertain"}
                            /\ q \in lost => caller'[q] \notin {"idle", "submitted"}
    BY <2>3, <2>7
  <2> QED
    BY <1>c, <2>3, <2>6, <2>7, <2>8, QuietStep DEF HasPending
<1> QED
  BY <1>1, <1>2, <1>3, <1>4, <1>5
-----------------------------------------------------------------------------
(* Steps that move the events of a stream *)

\* An event at the end of a channel; every event before it stays where it is.
LEMMA AppendFlow ==
    ASSUME HttpTypeOK, NEW q \in Requests, NEW e \in Events, ChannelFlow(q),
           channel'[q] = Append(channel[q], e), body'[q] = body[q], sent'[q] = sent[q],
           e.type = "start" => channel[q] = <<>> /\ body[q] = <<>>,
           e.type = "chunk" => CarriesFlow(q) /\ e.seq = Passed(q),
           e.type = "end" => CarriesFlow(q) /\ sent[q] = Passed(q),
           e.type = "completed" =>
               /\ sent[q] = Passed(q) - EndAt(q, Len(channel[q]))
               /\ \A j \in 1..Len(channel[q]) : \/ channel[q][j].type \in Flow
                                                \/ j = Len(channel[q]) /\ channel[q][j].type = "end"
    PROVE  /\ ChannelFlow(q)'
           /\ Passed(q)' = IF e.type = "start" THEN Passed(q) ELSE Passed(q) + 1
           /\ EndAt(q, Len(channel[q]))' = IF e.type = "end" THEN 1 ELSE 0
           /\ e.type \in Flow => CarriesFlow(q)' = CarriesFlow(q)
           /\ Len(channel'[q]) = Len(channel[q]) + 1 /\ channel'[q][Len(channel[q]) + 1] = e
           /\ \A j \in 1..Len(channel[q]) : channel'[q][j] = channel[q][j]
<1> DEFINE L == Len(channel[q])
           B == Len(body[q])
<1>1. channel[q] \in Seq(Events) /\ L \in Nat /\ B \in Nat /\ sent[q] \in Nat
  BY RequestAssumption DEF HttpTypeOK
<1>2. /\ Len(channel'[q]) = L + 1 /\ channel'[q][L + 1] = e
      /\ \A j \in 1..L : channel'[q][j] = channel[q][j]
  BY <1>1
<1>3. channel'[q] # <<>> /\ (channel[q] = <<>> <=> L = 0)
  BY <1>1, <1>2
<1>4. Offset(q) \in {0, 1} /\ Offset(q)' = IF e.type = "start" THEN 1 ELSE Offset(q)
  BY <1>1, <1>2, <1>3 DEF Offset
<1>5. e.type = "start" => L = 0 /\ Offset(q) = 0
  BY <1>3 DEF Offset
<1>6. Passed(q) = (B + L) - Offset(q) /\ Passed(q)' = (B + (L + 1)) - Offset(q)'
  BY <1>2 DEF Passed
<1>7. Passed(q)' = IF e.type = "start" THEN Passed(q) ELSE Passed(q) + 1
  <2> HIDE DEF L, B
  <2>1. CASE e.type = "start"
    BY <1>1, <1>4, <1>5, <1>6, <2>1
  <2>2. CASE e.type # "start"
    BY <1>1, <1>4, <1>6, <2>2
  <2> QED
    BY <2>1, <2>2
<1>8. EndAt(q, Len(channel[q]))' = IF e.type = "end" THEN 1 ELSE 0
  <2>1. L + 1 \in 1..(L + 1)
    BY <1>1
  <2> HIDE DEF L
  <2>2. EndAt(q, Len(channel[q]))' = IF channel'[q][L + 1].type = "end" THEN 1 ELSE 0
    BY <1>2, <2>1 DEF EndAt
  <2> QED
    BY <1>2, <2>2
<1>9. e.type \in Flow => CarriesFlow(q)' = CarriesFlow(q)
  <2>1. \A i \in 1..(L + 1) : i \in 1..L \/ i = L + 1
    BY <1>1
  <2>2. L + 1 \in 1..(L + 1) /\ \A i \in 1..L : i \in 1..(L + 1)
    BY <1>1
  <2> QED
    BY <1>2, <2>1, <2>2 DEF CarriesFlow
<1>10. ChannelFlow(q)'
  <2> SUFFICES ASSUME NEW i \in 1..Len(channel'[q])
      PROVE /\ channel'[q][i].type = "start" => i = 1 /\ body'[q] = <<>>
            /\ channel'[q][i].type = "chunk" => channel'[q][i].seq = (Len(body'[q]) + i - 1) - Offset(q)'
            /\ channel'[q][i].type = "end" => sent'[q] = (Len(body'[q]) + i - 1) - Offset(q)'
            /\ channel'[q][i].type = "completed" =>
                  sent'[q] = (Len(body'[q]) + i - 1) - Offset(q)' - EndAt(q, i - 1)'
            /\ channel'[q][i].type \in {"chunk", "end"} =>
                  \A j \in 1..Len(channel'[q]) : j < i => channel'[q][j].type \in Flow
            /\ channel'[q][i].type = "completed" =>
                  \A j \in 1..Len(channel'[q]) : j < i => \/ channel'[q][j].type \in Flow
                                                          \/ j = i - 1 /\ channel'[q][j].type = "end"
    BY DEF ChannelFlow
  <2>1. ASSUME NEW j \in 1..Len(channel'[q]), j < i PROVE j \in 1..L /\ channel'[q][j] = channel[q][j]
    BY <1>1, <1>2, <2>1
  <2>2. EndAt(q, i - 1)' = EndAt(q, i - 1)
    <3>1. CASE i = 1
      BY <3>1 DEF EndAt
    <3>2. CASE i # 1
      <4>1. i - 1 \in 1..L /\ i - 1 \in 1..Len(channel'[q])
        BY <1>1, <1>2, <3>2
      <4> QED
        BY <1>2, <4>1 DEF EndAt
    <3> QED
      BY <3>1, <3>2
  <2>3. CASE i = L + 1
    <3>1. (B + i - 1) - Offset(q) = Passed(q) /\ i - 1 = L
      BY <1>1, <1>4, <1>6, <2>3
    <3>2. channel'[q][i] = e
      BY <1>2, <2>3
    <3>3. e.type = "start" => i = 1
      BY <1>5, <2>3
    <3>4. e.type # "start" => Offset(q)' = Offset(q)
      BY <1>4
    <3> HIDE DEF L, B
    <3> QED
      BY <2>1, <2>2, <3>1, <3>2, <3>3, <3>4 DEF CarriesFlow, L, B
  <2>4. CASE i # L + 1
    <3>1. i \in 1..L /\ L # 0
      BY <1>1, <1>2, <2>4
    <3>2. channel'[q][i] = channel[q][i] /\ Offset(q)' = Offset(q)
      BY <1>2, <1>4, <1>5, <3>1
    <3>3. /\ channel[q][i].type = "start" => i = 1 /\ body[q] = <<>>
          /\ channel[q][i].type = "chunk" => channel[q][i].seq = (Len(body[q]) + i - 1) - Offset(q)
          /\ channel[q][i].type = "end" => sent[q] = (Len(body[q]) + i - 1) - Offset(q)
          /\ channel[q][i].type = "completed" =>
                sent[q] = (Len(body[q]) + i - 1) - Offset(q) - EndAt(q, i - 1)
          /\ channel[q][i].type \in {"chunk", "end"} =>
                \A j \in 1..Len(channel[q]) : j < i => channel[q][j].type \in Flow
          /\ channel[q][i].type = "completed" =>
                \A j \in 1..Len(channel[q]) : j < i => \/ channel[q][j].type \in Flow
                                                       \/ j = i - 1 /\ channel[q][j].type = "end"
      BY <3>1 DEF ChannelFlow
    <3> QED
      BY <2>1, <2>2, <3>2, <3>3
  <2> QED
    BY <2>3, <2>4
<1> QED
  BY <1>2, <1>7, <1>8, <1>9, <1>10
\* What the invariant says of one request.
StreamOK(q) ==
    /\ \A c \in Connections : Relaying(c, q) =>
          /\ caller[q] \notin {"idle", "submitted"} /\ q \notin unrelayed
          /\ HasPending(q) => SessionOf(q) = c /\ relay[c][1].event.type \in Flow
          /\ \A d \in Connections : Relaying(d, q) => d = c
    /\ caller[q] \in Ended => ~HasPending(q)
    /\ HasPending(q) => CarriesFlow(q)
    /\ q \in unrelayed => ~HasPending(q) /\ caller[q] \notin {"idle", "submitted"}
    /\ caller[q] \in {"idle", "submitted"} => channel[q] = <<>> /\ body[q] = <<>> /\ sent[q] = 0
    /\ kind[q] = "stream" /\ caller[q] \notin Ended => Flowing(q)
    /\ \A i \in 1..Len(body[q]) : body[q][i] = i - 1
    /\ kind[q] = "stream" /\ caller[q] = "answered" => Len(body[q]) = sent[q]

LEMMA StreamByRequest == StreamInv => \A q \in Requests : StreamOK(q)
BY DEF StreamInv, RelayOwner, EndedHasNone, StreamFlow, StreamIsWhole, StreamOK, Flowing

\* A request that a step does not touch keeps its part of the invariant.
LEMMA StreamFrame ==
    ASSUME NEW p \in Requests, StreamOK(p), channel'[p] = channel[p], body'[p] = body[p],
           sent'[p] = sent[p], kind'[p] = kind[p], caller'[p] = caller[p], pending'[p] = pending[p],
           p \in unrelayed' => p \in unrelayed,
           \A c \in Connections : Relaying(c, p)' <=> Relaying(c, p),
           \A c \in Connections : Relaying(c, p) => relay'[c][1] = relay[c][1]
    PROVE  StreamOK(p)'
<1>1. kind'[p] = "stream" /\ caller'[p] \notin Ended => Flowing(p)'
  <2> SUFFICES ASSUME kind'[p] = "stream", caller'[p] \notin Ended PROVE Flowing(p)'
    OBVIOUS
  <2>1. Flowing(p)
    BY DEF StreamOK
  <2>2. HasPending(p)' => HasPending(p)
    BY DEF HasPending
  <2> QED
    BY <2>1, <2>2, FlowKept
<1>2. CarriesFlow(p)' = CarriesFlow(p) /\ HasPending(p)' = HasPending(p) /\ SessionOf(p)' = SessionOf(p)
  BY DEF CarriesFlow, HasPending, SessionOf
<1>3. \A c \in Connections : Relaying(c, p)' =>
          /\ caller'[p] \notin {"idle", "submitted"} /\ p \notin unrelayed'
          /\ HasPending(p)' => SessionOf(p)' = c /\ relay'[c][1].event.type \in Flow
          /\ \A d \in Connections : Relaying(d, p)' => d = c
  BY <1>2 DEF StreamOK
<1> QED
  BY <1>1, <1>2, <1>3 DEF StreamOK

\* A step that touches one request only.
LEMMA OneMoves ==
    ASSUME StreamInv, RelayShape', NEW q \in Requests, StreamOK(q)',
           \A p \in Requests \ {q} :
               /\ channel'[p] = channel[p] /\ body'[p] = body[p] /\ sent'[p] = sent[p]
               /\ kind'[p] = kind[p] /\ caller'[p] = caller[p] /\ pending'[p] = pending[p]
               /\ p \in unrelayed' => p \in unrelayed
               /\ \A c \in Connections : Relaying(c, p)' <=> Relaying(c, p)
               /\ \A c \in Connections : Relaying(c, p) => relay'[c][1] = relay[c][1]
    PROVE  StreamInv'
<1>1. ASSUME NEW p \in Requests \ {q} PROVE StreamOK(p)'
  <2>1. StreamOK(p)
    BY StreamByRequest
  <2> QED
    BY <2>1, StreamFrame
<1>2. \A p \in Requests : StreamOK(p)'
  BY <1>1
<1>3. RelayOwner'
  BY <1>2 DEF RelayOwner, StreamOK
<1>4. EndedHasNone'
  BY <1>2 DEF EndedHasNone, StreamOK
<1>5. StreamFlow'
  BY <1>2 DEF StreamFlow, StreamOK, Flowing
<1>6. StreamIsWhole'
  BY <1>2 DEF StreamIsWhole, StreamOK
<1> QED
  BY <1>3, <1>4, <1>5, <1>6 DEF StreamInv
\* A frame's events are taken up by a sink that has delivered the ones before.
LEMMA FrameFlow ==
    ASSUME DispatchInv, StreamInv, NEW c \in Connections, NEW q \in Requests, FrameOf(c, q),
           Relaying(c, q)', \A d \in Connections \ {c} : relay'[d] = relay[d], RelayShape',
           UNCHANGED <<kind, channel, body, caller, unrelayed>>,
           \A p \in Requests \ {q} : pending'[p] = pending[p] /\ sent'[p] = sent[p],
           HasPending(q)' => /\ pending'[q].session = c /\ pending'[q].streaming
                             /\ relay'[c][1].event.type \in Flow,
           kind[q] = "stream" =>
               LET e == relay'[c][1].event
               IN /\ e.type = "start" => channel[q] = <<>> /\ body[q] = <<>> /\ sent'[q] = 0
                  /\ e.type = "chunk" => e.seq = Passed(q) /\ sent'[q] = Passed(q) + 1
                  /\ e.type = "end" => sent'[q] = Passed(q)
                  /\ e.type # "completed"
    PROVE  StreamInv'
<1>2. relay[c] = <<>>
  BY DEF FrameOf
<1>3. StreamOK(q) /\ HasPending(q) /\ SessionOf(q) = c
  BY StreamByRequest DEF FrameOf
<1>4. \A d \in Connections : ~Relaying(d, q)
  BY <1>2, <1>3 DEF StreamOK, Relaying
<1>5. \A d \in Connections : Relaying(d, q)' <=> d = c
  BY <1>2, <1>4 DEF Relaying
<1>6. /\ caller[q] \notin {"idle", "submitted"} /\ caller[q] \notin Ended
      /\ CarriesFlow(q) /\ q \notin unrelayed
  BY <1>3 DEF StreamOK, DispatchInv, PendingInv, FreshHasNone
<1>7. ASSUME kind[q] = "stream" PROVE Flowing(q)'
  <2>1. ChannelFlow(q) /\ PendingFlow(q)
    BY <1>3, <1>6, <1>7 DEF StreamOK, Flowing
  <2>2. Offset(q)' = Offset(q) /\ Passed(q)' = Passed(q) /\ CarriesFlow(q)'
    BY <1>6 DEF Offset, Passed, CarriesFlow
  <2>3. ChannelFlow(q)'
    <3> SUFFICES ASSUME NEW i \in 1..Len(channel'[q])
        PROVE /\ channel'[q][i].type = "start" => i = 1 /\ body'[q] = <<>>
              /\ channel'[q][i].type = "chunk" => channel'[q][i].seq = (Len(body'[q]) + i - 1) - Offset(q)'
              /\ channel'[q][i].type = "end" => sent'[q] = (Len(body'[q]) + i - 1) - Offset(q)'
              /\ channel'[q][i].type = "completed" =>
                    sent'[q] = (Len(body'[q]) + i - 1) - Offset(q)' - EndAt(q, i - 1)'
              /\ channel'[q][i].type \in {"chunk", "end"} =>
                    \A j \in 1..Len(channel'[q]) : j < i => channel'[q][j].type \in Flow
              /\ channel'[q][i].type = "completed" =>
                    \A j \in 1..Len(channel'[q]) : j < i => \/ channel'[q][j].type \in Flow
                                                            \/ j = i - 1 /\ channel'[q][j].type = "end"
      BY DEF ChannelFlow
    <3>1. channel[q][i].type # "end" /\ channel[q][i].type # "completed"
      BY <1>6 DEF CarriesFlow, Flow
    <3>2. /\ channel[q][i].type = "start" => i = 1 /\ body[q] = <<>>
          /\ channel[q][i].type = "chunk" =>
                /\ channel[q][i].seq = (Len(body[q]) + i - 1) - Offset(q)
                /\ \A j \in 1..Len(channel[q]) : j < i => channel[q][j].type \in Flow
      BY <2>1 DEF ChannelFlow
    <3>3. channel'[q] = channel[q] /\ body'[q] = body[q]
      OBVIOUS
    <3> QED
      BY <2>2, <3>1, <3>2, <3>3
  <2>4. PendingFlow(q)'
    BY <1>5 DEF PendingFlow
  <2>5. RelayFlow(q)'
    BY <1>2, <1>5, <1>7, <2>2 DEF RelayFlow
  <2> QED
    BY <2>3, <2>4, <2>5 DEF Flowing
<1>8. StreamOK(q)'
  <2>1. CarriesFlow(q)'
    BY <1>6 DEF CarriesFlow
  <2>2. \A d \in Connections : Relaying(d, q)' =>
            /\ caller'[q] \notin {"idle", "submitted"} /\ q \notin unrelayed'
            /\ HasPending(q)' => SessionOf(q)' = d /\ relay'[d][1].event.type \in Flow
            /\ \A b \in Connections : Relaying(b, q)' => b = d
    BY <1>2, <1>5, <1>6 DEF SessionOf
  <2>3. /\ \A i \in 1..Len(body[q]) : body[q][i] = i - 1
        /\ caller[q] # "answered"
    BY <1>3, <1>6 DEF StreamOK, Ended
  <2> QED
    BY <1>6, <1>7, <2>1, <2>2, <2>3 DEF StreamOK
<1>9. \A p \in Requests \ {q} :
          /\ \A d \in Connections : Relaying(d, p)' <=> Relaying(d, p)
          /\ \A d \in Connections : Relaying(d, p) => relay'[d][1] = relay[d][1]
  BY <1>2 DEF Relaying
<1> QED
  BY <1>8, <1>9, OneMoves
\* The events of a frame, as the sink keeps them.
Relayed(q, events) == [i \in DOMAIN events |-> [request |-> q, event |-> events[i]]]

\* The domain of a sequence, without the set of its elements.
LEMMA SeqDomain ==
    ASSUME NEW S, NEW s \in Seq(S) PROVE Len(s) \in Nat /\ DOMAIN s = 1..Len(s)
OBVIOUS

LEMMA RelayedOne ==
    ASSUME NEW q, NEW a
    PROVE  /\ Relayed(q, <<a>>) # <<>> /\ Len(Relayed(q, <<a>>)) = 1
           /\ Relayed(q, <<a>>)[1] = [request |-> q, event |-> a]
<1> DEFINE f == Relayed(q, <<a>>)
<1>1. DOMAIN <<a>> = 1..1 /\ <<a>>[1] = a
  OBVIOUS
<1>2. f[1] = [request |-> q, event |-> a] /\ f = [i \in 1..1 |-> f[i]]
  BY <1>1 DEF Relayed
<1> HIDE DEF f
<1>3. f \in Seq({f[1]}) /\ DOMAIN f = 1..1
  BY <1>2
<1>4. f # <<>> /\ Len(f) = 1
  <2>1. Len(f) \in Nat /\ DOMAIN f = 1..Len(f)
    BY <1>3, SeqDomain
  <2>2. 1 \in 1..Len(f)
    BY <1>3, <2>1
  <2>3. Len(f) \in 1..Len(f)
    BY <2>1, <2>2
  <2>4. Len(f) \in 1..1
    BY <1>3, <2>1, <2>3
  <2>5. Len(f) = 1
    BY <2>4
  <2>6. Len(<<>>) # 1
    OBVIOUS
  <2> QED BY <2>5, <2>6, Zenon
<1> QED
  BY <1>2, <1>4 DEF f

LEMMA RelayedTwo ==
    ASSUME NEW q, NEW a, NEW b
    PROVE  /\ Relayed(q, <<a, b>>) # <<>> /\ Len(Relayed(q, <<a, b>>)) = 2
           /\ Relayed(q, <<a, b>>)[1] = [request |-> q, event |-> a]
           /\ Relayed(q, <<a, b>>)[2] = [request |-> q, event |-> b]
<1> DEFINE f == Relayed(q, <<a, b>>)
<1>1. DOMAIN <<a, b>> = 1..2 /\ <<a, b>>[1] = a /\ <<a, b>>[2] = b
  OBVIOUS
<1>2. /\ f[1] = [request |-> q, event |-> a] /\ f[2] = [request |-> q, event |-> b]
      /\ f = [i \in 1..2 |-> f[i]]
  BY <1>1 DEF Relayed
<1> HIDE DEF f
<1>3. f \in Seq({f[1], f[2]}) /\ DOMAIN f = 1..2
  <2>1. \A i \in 1..2 : f[i] \in {f[1], f[2]}
    OBVIOUS
  <2> QED
    BY <1>2, <2>1
<1>4. f # <<>> /\ Len(f) = 2
  BY <1>3
<1> QED
  BY <1>2, <1>4 DEF f

LEMMA ShapeKept ==
    ASSUME StreamInv, NEW c \in Connections, \A d \in Connections \ {c} : relay'[d] = relay[d],
           phase' = phase,
           relay'[c] # <<>> =>
               /\ phase[c] = "registered"
               /\ Len(relay'[c]) <= 2
               /\ Len(relay'[c]) = 2 =>
                     /\ relay'[c][2].request = relay'[c][1].request
                     /\ relay'[c][1].event.type \in {"end", "error"}
                     /\ relay'[c][2].event.type =
                           IF relay'[c][1].event.type = "end" THEN "completed" ELSE "failed"
    PROVE  RelayShape'
BY DEF StreamInv, RelayShape

\* A response frame: its events continue what the dispatcher has accepted of the stream.
LEMMA FrameStream ==
    ASSUME DispatchInv, StreamInv, NEW c \in Connections, NEW q \in Requests, FrameStep(c, q)
    PROVE  StreamInv'
<1>0. relay \in [Connections -> Seq([request : Requests, event : Events])]
  BY DEF DispatchInv, RequestTypeOK, RelayTypeOK
<1>1. FrameOf(c, q) /\ HasPending(q) /\ SessionOf(q) = c /\ phase[c] = "registered"
  BY DEF FrameStep, ResponseStart, ResponseChunk, FeedChunk, ResponseEnd, ResponseError, ResponseViolation, FrameOf
<1>2. UNCHANGED <<phase, kind, channel, body, unrelayed>>
  BY DEF FrameStep, ResponseStart, ResponseChunk, FeedChunk, ResponseEnd, ResponseError, ResponseViolation,
      sessionVars, sessionsButClose, httpVars
<1>3. /\ pending \in [Requests -> Pending \cup {NoPending}]
      /\ sent \in [Requests -> 0..MaxChunks] /\ MaxChunks \in Nat
      /\ caller \in [Requests -> {"idle", "submitted", "accepted", "waiting"} \cup Ended]
  BY RequestAssumption DEF DispatchInv, RequestTypeOK, DispatcherTypeOK, HttpTypeOK
<1>4. StreamOK(q)
  BY StreamByRequest
<1>5. \A d \in Connections : ~Relaying(d, q)
  BY <1>1, <1>4 DEF StreamOK, Relaying, FrameOf
<1>6. CarriesFlow(q) /\ caller[q] \notin Ended /\ caller[q] \notin {"idle", "submitted"}
  BY <1>1, <1>4 DEF StreamOK, DispatchInv, PendingInv, FreshHasNone
<1>7. kind[q] = "stream" => /\ ChannelFlow(q) /\ sent[q] = Passed(q)
                            /\ ~pending[q].streaming => channel[q] = <<>> /\ body[q] = <<>> /\ sent[q] = 0
  BY <1>1, <1>4, <1>5, <1>6 DEF StreamOK, Flowing, PendingFlow
<1>8. CASE ResponseStart(c, q)
  <2> DEFINE f == Relayed(q, <<Event("start")>>)
  <2>1. relay'[c] = f /\ \A d \in Connections \ {c} : relay'[d] = relay[d]
    <3>1. relay' = [relay EXCEPT ![c] = f]
      BY <1>8 DEF ResponseStart, Streams, Relay, Relayed
    <3> HIDE DEF f
    <3> QED
      BY <1>0, <3>1
  <2>6. f # <<>> /\ Len(f) = 1 /\ f[1].request = q /\ f[1].event = Event("start")
    <3>1. /\ f # <<>> /\ Len(f) = 1
          /\ f[1] = [request |-> q, event |-> Event("start")]
      BY RelayedOne
    <3> HIDE DEF f
    <3> QED
      BY <3>1
  <2> HIDE DEF f
  <2>7. Relaying(c, q)'
    BY <2>1, <2>6 DEF Relaying
  <2>2. RelayShape'
    <3>1. Len(relay'[c]) = 1 /\ phase' = phase
      BY <1>2, <2>1, <2>6
    <3>2. Len(relay'[c]) <= 2 /\ Len(relay'[c]) # 2
      BY <3>1
    <3> QED
      BY <1>1, <2>1, <3>1, <3>2, ShapeKept
  <2>3. pending'[q].session = c /\ pending'[q].streaming
    <3>1. pending[q] \in Pending /\ pending' = [pending EXCEPT ![q].streaming = TRUE]
      BY <1>1, <1>3, <1>8 DEF ResponseStart, HasPending
    <3> QED
      BY <1>1, <1>3, <3>1 DEF SessionOf, Pending
  <2>4. /\ \A p \in Requests \ {q} : pending'[p] = pending[p] /\ sent'[p] = sent[p]
        /\ sent' = sent /\ caller' = caller /\ ~pending[q].streaming
    BY <1>3, <1>8 DEF ResponseStart, httpVars
  <2>5. Event("start").type = "start" /\ "start" \in Flow
    BY DEF Event, Flow
  <2> QED
    BY <1>1, <1>2, <1>7, <2>1, <2>2, <2>3, <2>4, <2>5, <2>6, <2>7, FrameFlow
<1>9. CASE ResponseChunk(c, q)
  <2> DEFINE e == [type |-> "chunk", seq |-> sent[q]]
         f == Relayed(q, <<e>>)
  <2>1. relay'[c] = f /\ \A d \in Connections \ {c} : relay'[d] = relay[d]
    <3>1. relay' = [relay EXCEPT ![c] = f]
      BY <1>9 DEF ResponseChunk, Relay, Relayed
    <3> HIDE DEF f
    <3> QED
      BY <1>0, <3>1
  <2>8. f # <<>> /\ Len(f) = 1 /\ f[1].request = q /\ f[1].event = e
    <3> HIDE DEF e
    <3>1. f # <<>> /\ Len(f) = 1 /\ f[1] = [request |-> q, event |-> e]
      BY RelayedOne
    <3> HIDE DEF f
    <3> QED
      BY <3>1
  <2> HIDE DEF f
  <2>9. Relaying(c, q)'
    BY <2>1, <2>8 DEF Relaying
  <2>2. RelayShape'
    <3>1. Len(relay'[c]) = 1 /\ phase' = phase
      BY <1>2, <2>1, <2>8
    <3>2. Len(relay'[c]) <= 2 /\ Len(relay'[c]) # 2
      BY <3>1
    <3> QED
      BY <1>1, <2>1, <3>1, <3>2, ShapeKept
  <2>3. pending' = pending /\ caller' = caller /\ pending[q].streaming
    BY <1>9 DEF ResponseChunk, dispatcherVars, httpVars
  <2>4. sent'[q] = sent[q] + 1 /\ \A p \in Requests \ {q} : sent'[p] = sent[p]
    BY <1>3, <1>9 DEF ResponseChunk
  <2>5. e.type = "chunk" /\ e.seq = sent[q] /\ "chunk" \in Flow
    BY DEF Flow
  <2>6. kind[q] = "stream"
    BY <1>9 DEF ResponseChunk
  <2> HIDE DEF e
  <2>7. pending'[q].session = c
    BY <1>1, <2>3 DEF SessionOf
  <2> QED
    BY <1>1, <1>2, <1>7, <2>1, <2>2, <2>3, <2>4, <2>5, <2>6, <2>7, <2>8, <2>9, FrameFlow
<1>11. CASE FeedChunk(c, q)
  <2> DEFINE e == Event("chunk")
             f == Relayed(q, <<e>>)
  <2>1. relay'[c] = f /\ \A d \in Connections \ {c} : relay'[d] = relay[d]
    <3>1. relay' = [relay EXCEPT ![c] = f]
      BY <1>11 DEF FeedChunk, Relay, Relayed
    <3> HIDE DEF f
    <3> QED
      BY <1>0, <3>1
  <2>8. f # <<>> /\ Len(f) = 1 /\ f[1].request = q /\ f[1].event = e
    <3> HIDE DEF e
    <3>1. f # <<>> /\ Len(f) = 1 /\ f[1] = [request |-> q, event |-> e]
      BY RelayedOne
    <3> HIDE DEF f
    <3> QED
      BY <3>1
  <2> HIDE DEF f
  <2>9. Relaying(c, q)'
    BY <2>1, <2>8 DEF Relaying
  <2>2. RelayShape'
    <3>1. Len(relay'[c]) = 1 /\ phase' = phase
      BY <1>2, <2>1, <2>8
    <3>2. Len(relay'[c]) <= 2 /\ Len(relay'[c]) # 2
      BY <3>1
    <3> QED
      BY <1>1, <2>1, <3>1, <3>2, ShapeKept
  <2>3. pending' = pending /\ caller' = caller /\ pending[q].streaming
    BY <1>11 DEF FeedChunk, dispatcherVars, httpVars
  <2>4. sent' = sent
    BY <1>11 DEF FeedChunk
  <2>5. e.type = "chunk" /\ "chunk" \in Flow
    BY DEF Event, Flow
  <2>6. kind[q] # "stream"
    BY <1>11 DEF FeedChunk
  <2> HIDE DEF e
  <2>7. pending'[q].session = c
    BY <1>1, <2>3 DEF SessionOf
  <2> QED
    BY <1>1, <1>2, <1>7, <2>1, <2>2, <2>3, <2>4, <2>5, <2>6, <2>7, <2>8, <2>9, FrameFlow
<1>10. ASSUME ResponseEnd(c, q) \/ ResponseError(c, q) \/ ResponseViolation(c, q)
       PROVE  StreamInv'
  <2>1. pending' = [pending EXCEPT ![q] = NoPending] /\ sent' = sent
    BY <1>1, <1>10 DEF ResponseEnd, ResponseError, ResponseViolation, Cancel, Detach
  <2>2. ~HasPending(q)' /\ \A p \in Requests \ {q} : pending'[p] = pending[p]
    BY <1>3, <2>1 DEF HasPending
  <2>3. CASE kind[q] = "task"
    <3>1. relay' = relay
      BY <1>10, <2>3 DEF ResponseEnd, ResponseError, ResponseViolation, Relay
    <3>2. PICK x \in {"succeeded", "attemptFailed", "uncertain"} : caller' = [caller EXCEPT ![q] = x]
      BY <1>10, <2>3 DEF ResponseEnd, ResponseError, ResponseViolation, Settle
    <3>3. caller'[q] = x /\ (\A p \in Requests \ {q} : caller'[p] = caller[p])
          /\ x # "answered" /\ x \notin {"idle", "submitted"}
      BY <1>3, <3>2
    <3>4. \A p \in unrelayed : /\ ~HasPending(p) /\ caller[p] \notin {"idle", "submitted"}
                               /\ p \in Requests /\ \A d \in Connections : ~Relaying(d, p)
      BY DEF StreamInv, EndedHasNone, RelayOwner, DispatchInv, RequestTypeOK, RelayTypeOK
    <3>5. \A p \in Requests : caller[p] \in Ended => ~HasPending(p)
      BY DEF StreamInv, EndedHasNone
    <3>6. \A p \in Requests : HasPending(p)' => HasPending(p) /\ pending'[p] = pending[p]
      BY <2>2 DEF HasPending
    <3>7. UNCHANGED <<relay, body, sent>> /\ \A p \in Requests : channel'[p] = channel[p] /\ kind'[p] = kind[p]
      BY <1>2, <2>1, <3>1
    <3>8. \A p \in Requests : /\ caller[p] \notin {"idle", "submitted"} => caller'[p] \notin {"idle", "submitted"}
                              /\ caller[p] \in Ended => caller'[p] = caller[p]
                              /\ caller'[p] = "answered" => caller[p] = "answered"
                              /\ caller'[p] \in Ended => ~HasPending(p)'
      BY <1>6, <2>2, <3>3, <3>5, <3>6
    <3>9. \A p \in unrelayed' : /\ ~HasPending(p)' /\ caller'[p] \notin {"idle", "submitted"}
                                /\ \A d \in Connections : ~Relaying(d, p)
      BY <1>2, <3>4, <3>6, <3>8
    <3> QED
      BY <1>2, <3>6, <3>7, <3>8, <3>9, QuietStep
  <2>4. CASE kind[q] # "task"
    <3>1. caller' = caller
      BY <1>10, <2>4 DEF ResponseEnd, ResponseError, ResponseViolation, Settle
    <3>2. PICK f : /\ relay' = [relay EXCEPT ![c] = f] /\ f # <<>> /\ Len(f) <= 2
                   /\ f[1].request = q
                   /\ f[1].event.type \in {"end", "error", "cancelled", "protocolError"}
                   /\ Len(f) = 2 =>
                         /\ f[2].request = q /\ f[1].event.type \in {"end", "error"}
                         /\ f[2].event.type = IF f[1].event.type = "end" THEN "completed" ELSE "failed"
      <4> DEFINE Ends(f) == /\ f # <<>> /\ Len(f) <= 2
                            /\ f[1].request = q
                            /\ f[1].event.type \in {"end", "error", "cancelled", "protocolError"}
                            /\ Len(f) = 2 =>
                                  /\ f[2].request = q /\ f[1].event.type \in {"end", "error"}
                                  /\ f[2].event.type = IF f[1].event.type = "end" THEN "completed"
                                                       ELSE "failed"
      <4>1. ASSUME NEW t \in {"cancelled", "protocolError"} PROVE Ends(Relayed(q, <<Event(t)>>))
        <5> DEFINE f == Relayed(q, <<Event(t)>>)
        <5>1. f # <<>> /\ Len(f) = 1 /\ f[1] = [request |-> q, event |-> Event(t)]
          BY RelayedOne
        <5> HIDE DEF f
        <5>2. Ends(f)
          BY <4>1, <5>1 DEF Event
        <5> QED
          BY <5>2 DEF f
      <4>2. ASSUME NEW t \in {"end", "error"}, NEW u, u = IF t = "end" THEN "completed" ELSE "failed"
            PROVE  Ends(Relayed(q, <<Event(t), Event(u)>>))
        <5> DEFINE f == Relayed(q, <<Event(t), Event(u)>>)
        <5>1. /\ f # <<>> /\ Len(f) = 2 /\ f[1] = [request |-> q, event |-> Event(t)]
              /\ f[2] = [request |-> q, event |-> Event(u)]
          BY RelayedTwo
        <5> HIDE DEF f
        <5>2. Ends(f)
          BY <4>2, <5>1 DEF Event
        <5> QED
          BY <5>2 DEF f
      <4>3. /\ Ends(Relayed(q, <<Event("cancelled")>>)) /\ Ends(Relayed(q, <<Event("protocolError")>>))
            /\ Ends(Relayed(q, <<Event("end"), Event("completed")>>))
            /\ Ends(Relayed(q, <<Event("error"), Event("failed")>>))
        BY <4>1, <4>2
      <4>4. \/ relay' = [relay EXCEPT ![c] = Relayed(q, <<Event("cancelled")>>)]
            \/ relay' = [relay EXCEPT ![c] = Relayed(q, <<Event("protocolError")>>)]
            \/ relay' = [relay EXCEPT ![c] = Relayed(q, <<Event("end"), Event("completed")>>)]
            \/ relay' = [relay EXCEPT ![c] = Relayed(q, <<Event("error"), Event("failed")>>)]
        BY <1>10, <2>4 DEF ResponseEnd, ResponseError, ResponseViolation, Relay, Relayed
      <4> HIDE DEF Ends
      <4>5. \E f : relay' = [relay EXCEPT ![c] = f] /\ Ends(f)
        BY <4>3, <4>4, Zenon
      <4> QED
        BY <4>5 DEF Ends
    <3>4. relay'[c] = f /\ \A d \in Connections \ {c} : relay'[d] = relay[d]
      BY <1>0, <3>2
    <3>5. Relaying(c, q)'
      BY <3>2, <3>4 DEF Relaying
    <3>3. RelayShape'
      BY <1>1, <1>2, <3>2, <3>4, ShapeKept
    <3> QED
      BY <1>1, <1>2, <1>7, <2>1, <2>2, <3>1, <3>2, <3>3, <3>4, <3>5, FrameFlow
  <2> QED
    BY <2>3, <2>4
<1> QED
  BY <1>8, <1>9, <1>10, <1>11 DEF FrameStep

LEMMA TailOf ==
    ASSUME NEW S, NEW s \in Seq(S), s # <<>>
    PROVE  /\ Len(s) \in Nat \ {0} /\ Tail(s) \in Seq(S) /\ Len(Tail(s)) = Len(s) - 1
           /\ Head(s) = s[1] /\ s[1] \in S
           /\ \A i \in 1..(Len(s) - 1) : Tail(s)[i] = s[i + 1]
           /\ Len(s) = 1 => Tail(s) = <<>>
           /\ Len(s) # 1 => Tail(s) # <<>>
<1>1. /\ Len(s) \in Nat \ {0} /\ Tail(s) \in Seq(S) /\ Len(Tail(s)) = Len(s) - 1
      /\ Head(s) = s[1] /\ s[1] \in S
      /\ \A i \in 1..(Len(s) - 1) : Tail(s)[i] = s[i + 1]
  OBVIOUS
<1>2. PICK t \in Seq(S) : t = Tail(s)
  BY <1>1
<1>3. Len(t) = 0 <=> t = <<>>
  OBVIOUS
<1>4. Len(s) = 1 <=> Len(t) = 0
  BY <1>1, <1>2
<1> QED
  BY <1>1, <1>2, <1>3, <1>4

\* The sink is done with the first event of its frame.
LEMMA RelayTail ==
    ASSUME DispatchInv, StreamInv, NEW c \in Connections, RelayStep(c),
           NEW q, q = relay[c][1].request
    PROVE  /\ q \in Requests /\ relay[c][1].event \in Events /\ Head(relay[c]) = relay[c][1]
           /\ Relaying(c, q) /\ RelayShape'
           /\ \A d \in Connections : Relaying(d, q)' =>
                 /\ d = c /\ Len(relay[c]) = 2 /\ relay'[c][1] = relay[c][2]
                 /\ relay[c][1].event.type \in {"end", "error"}
                 /\ relay[c][2].event.type = IF relay[c][1].event.type = "end" THEN "completed" ELSE "failed"
           /\ \A p \in Requests \ {q} :
                 /\ \A d \in Connections : Relaying(d, p)' <=> Relaying(d, p)
                 /\ \A d \in Connections : Relaying(d, p) => relay'[d][1] = relay[d][1]
<1> DEFINE R == [request : Requests, event : Events]
<1>1. relay \in [Connections -> Seq(R)]
  BY DEF DispatchInv, RequestTypeOK, RelayTypeOK
<1>2. \A r \in R : r.request \in Requests /\ r.event \in Events
  OBVIOUS
<1> HIDE DEF R
<1>3. /\ relay'[c] = Tail(relay[c]) /\ relay[c] # <<>> /\ phase' = phase
      /\ \A d \in Connections \ {c} : relay'[d] = relay[d]
  BY <1>1 DEF RelayStep, RelayDelivered, RelayFailed, sessionVars, sessionsButClose
<1>4. relay[c] \in Seq(R) /\ Head(relay[c]) = relay[c][1] /\ relay[c][1] \in R
  BY <1>1, <1>3
<1>9. \A d \in Connections \ {c} : relay'[d] = relay[d]
  BY <1>3
<1>10. phase' = phase /\ relay[c] # <<>>
  BY <1>3
<1>5. q \in Requests /\ relay[c][1].event \in Events /\ Relaying(c, q)
  BY <1>2, <1>4, <1>10 DEF Relaying
<1>6. Len(relay[c]) \in {1, 2}
  <2>1. PICK n \in Nat \ {0} : n = Len(relay[c])
    BY <1>4, <1>10, TailOf
  <2>2. n <= 2
    BY <1>10, <2>1 DEF StreamInv, RelayShape
  <2>3. n = 1 \/ n = 2
    BY <2>2
  <2> QED
    BY <2>1, <2>3
<1>7. CASE Len(relay[c]) = 1
  <2>1. relay'[c] = <<>>
    BY <1>3, <1>4, <1>7, TailOf
  <2>2. RelayShape'
    BY <1>9, <1>10, <2>1, ShapeKept
  <2>3. \A d \in Connections : \A p : Relaying(d, p)' => d # c /\ Relaying(d, p)
    BY <1>9, <2>1 DEF Relaying
  <2>4. \A d \in Connections : Relaying(d, q) => d = c
    BY <1>5 DEF StreamInv, RelayOwner
  <2>5. \A p \in Requests \ {q}, d \in Connections : Relaying(d, p) => d # c /\ relay'[d] = relay[d]
    BY <1>9, <1>10 DEF Relaying
  <2> QED
    BY <1>4, <1>5, <2>2, <2>3, <2>4, <2>5 DEF Relaying
<1>8. CASE Len(relay[c]) = 2
  <2>1. /\ relay[c][2].request = q /\ relay[c][1].event.type \in {"end", "error"}
        /\ relay[c][2].event.type = IF relay[c][1].event.type = "end" THEN "completed" ELSE "failed"
        /\ phase[c] = "registered"
    BY <1>8, <1>10 DEF StreamInv, RelayShape
  <2>2. Len(relay'[c]) = 1 /\ relay'[c][1] = relay[c][2] /\ relay'[c] # <<>>
    <3>1. /\ Len(relay'[c]) = Len(relay[c]) - 1 /\ relay'[c] # <<>>
          /\ \A i \in 1..(Len(relay[c]) - 1) : relay'[c][i] = relay[c][i + 1]
      BY <1>3, <1>4, <1>8, TailOf
    <3> QED
      BY <1>8, <3>1
  <2>3. RelayShape'
    <3>1. Len(relay'[c]) <= 2 /\ Len(relay'[c]) # 2
      BY <2>2
    <3> QED
      BY <1>9, <1>10, <2>1, <3>1, ShapeKept
  <2>4. \A d \in Connections : Relaying(d, q)' => d = c
    <3>1. \A d \in Connections : Relaying(d, q) => d = c
      BY <1>5 DEF StreamInv, RelayOwner
    <3> QED
      BY <1>9, <3>1 DEF Relaying
  <2>5. \A p \in Requests \ {q} : ~Relaying(c, p) /\ ~Relaying(c, p)'
    BY <2>1, <2>2 DEF Relaying
  <2>6. \A p \in Requests \ {q}, d \in Connections \ {c} : Relaying(d, p)' <=> Relaying(d, p)
    BY <1>9 DEF Relaying
  <2> QED
    BY <1>4, <1>5, <1>8, <1>9, <2>1, <2>2, <2>3, <2>4, <2>5, <2>6
<1> QED
  BY <1>6, <1>7, <1>8

\* An event reaches the HTTP phase.
LEMMA DeliverStream ==
    ASSUME DispatchInv, StreamInv, NEW c \in Connections, RelayDelivered(c)
    PROVE  StreamInv'
<1>0. PICK q, e : q = relay[c][1].request /\ e = relay[c][1].event
  OBVIOUS
<1>1. /\ q \in Requests /\ e \in Events /\ Head(relay[c]) = relay[c][1]
      /\ Relaying(c, q) /\ RelayShape'
      /\ \A d \in Connections : Relaying(d, q)' =>
            /\ d = c /\ Len(relay[c]) = 2 /\ relay'[c][1] = relay[c][2] /\ e.type \in {"end", "error"}
            /\ relay[c][2].event.type = IF e.type = "end" THEN "completed" ELSE "failed"
      /\ \A p \in Requests \ {q} :
            /\ \A d \in Connections : Relaying(d, p)' <=> Relaying(d, p)
            /\ \A d \in Connections : Relaying(d, p) => relay'[d][1] = relay[d][1]
  BY <1>0, RelayTail DEF RelayStep
<1>2. channel' = [channel EXCEPT ![q] = Append(@, e)]
  BY <1>0, <1>1 DEF RelayDelivered
<1>3. UNCHANGED <<kind, sent, pending, caller, body, unrelayed>>
  BY DEF RelayDelivered, dispatcherVars
<1>4. HttpTypeOK /\ channel \in [Requests -> Seq(Events)]
  BY DEF DispatchInv, RequestTypeOK, HttpTypeOK
<1>5. channel'[q] = Append(channel[q], e) /\ \A p \in Requests \ {q} : channel'[p] = channel[p]
  BY <1>1, <1>2, <1>4
<1>6. StreamOK(q)
  BY <1>1, StreamByRequest
<1>7. /\ caller[q] \notin {"idle", "submitted"} /\ q \notin unrelayed
      /\ HasPending(q) => e.type \in Flow /\ CarriesFlow(q)
  BY <1>0, <1>1, <1>6 DEF StreamOK
<1>8. HasPending(q) => \A d \in Connections : ~Relaying(d, q)'
  BY <1>1, <1>7 DEF Flow
<1>9. HasPending(q) => CarriesFlow(q)'
  <2>1. /\ Len(channel[q]) \in Nat /\ Len(channel'[q]) = Len(channel[q]) + 1
        /\ \A i \in 1..Len(channel[q]) : channel'[q][i] = channel[q][i]
        /\ channel'[q][Len(channel[q]) + 1] = e
    BY <1>1, <1>4, <1>5
  <2>2. \A i \in 1..(Len(channel[q]) + 1) : i \in 1..Len(channel[q]) \/ i = Len(channel[q]) + 1
    BY <2>1
  <2> QED
    BY <1>7, <2>1, <2>2 DEF CarriesFlow
<1>10. ASSUME kind[q] = "stream", caller[q] \notin Ended PROVE Flowing(q)'
  <2>1. Flowing(q)
    BY <1>6, <1>10 DEF StreamOK
  <2>2. /\ e.type = "start" => channel[q] = <<>> /\ body[q] = <<>> /\ sent[q] = 0
        /\ e.type = "chunk" => CarriesFlow(q) /\ e.seq = Passed(q) /\ sent[q] = Passed(q) + 1
        /\ e.type = "end" => CarriesFlow(q) /\ sent[q] = Passed(q)
        /\ e.type = "completed" =>
              /\ sent[q] = Passed(q) - EndAt(q, Len(channel[q]))
              /\ \A j \in 1..Len(channel[q]) : \/ channel[q][j].type \in Flow
                                               \/ j = Len(channel[q]) /\ channel[q][j].type = "end"
    BY <1>0, <1>1, <2>1 DEF Flowing, RelayFlow
  <2>3. /\ ChannelFlow(q)'
        /\ Passed(q)' = IF e.type = "start" THEN Passed(q) ELSE Passed(q) + 1
        /\ EndAt(q, Len(channel[q]))' = IF e.type = "end" THEN 1 ELSE 0
        /\ Len(channel'[q]) = Len(channel[q]) + 1 /\ channel'[q][Len(channel[q]) + 1] = e
        /\ \A j \in 1..Len(channel[q]) : channel'[q][j] = channel[q][j]
    BY <1>1, <1>3, <1>4, <1>5, <2>1, <2>2, AppendFlow DEF Flowing
  <2>4. PendingFlow(q)'
    <3> SUFFICES ASSUME HasPending(q)' PROVE pending[q].streaming /\ sent[q] = Passed(q)'
      BY <1>3 DEF PendingFlow
    <3>1. HasPending(q) /\ e.type \in {"start", "chunk"}
      BY <1>3, <1>7 DEF HasPending, Flow
    <3>2. pending[q].streaming
      BY <1>1, <2>1, <3>1 DEF Flowing, PendingFlow
    <3>3. e.type = "start" => Passed(q) = 0
      <4>1. e.type = "start" => channel[q] = <<>> /\ body[q] = <<>> /\ Offset(q) = 0
        BY <2>2 DEF Offset
      <4>2. e.type = "start" => Passed(q) = (Len(<<>>) + Len(<<>>)) - 0
        BY <4>1 DEF Passed
      <4> QED
        BY <4>2
    <3> QED
      BY <2>2, <2>3, <3>1, <3>2, <3>3
  <2>5. RelayFlow(q)'
    <3> SUFFICES ASSUME NEW d \in Connections, Relaying(d, q)', relay'[d][1].event.type = "completed"
                 PROVE  /\ sent'[q] = Passed(q)' - EndAt(q, Len(channel[q]))'
                        /\ \A j \in 1..Len(channel'[q]) :
                              \/ channel'[q][j].type \in Flow
                              \/ j = Len(channel'[q]) /\ channel'[q][j].type = "end"
      <4>1. \A d \in Connections : Relaying(d, q)' => relay'[d][1].event.type \in {"completed", "failed"}
        BY <1>1
      <4> QED
        BY <4>1 DEF RelayFlow
    <3>1. e.type = "end" /\ CarriesFlow(q) /\ sent[q] = Passed(q)
      BY <1>1, <2>2
    <3>2. Passed(q) \in Int
      BY <1>1, <1>4, <3>1, RequestAssumption DEF HttpTypeOK
    <3>3. sent'[q] = Passed(q)' - EndAt(q, Len(channel[q]))'
      BY <1>3, <2>3, <3>1, <3>2
    <3>4. Len(channel[q]) \in Nat
      BY <1>1, <1>4
    <3>5. \A j \in 1..Len(channel'[q]) : j \in 1..Len(channel[q]) \/ j = Len(channel[q]) + 1
      BY <2>3, <3>4
    <3> QED
      BY <2>3, <3>1, <3>3, <3>5 DEF CarriesFlow
  <2> QED
    BY <2>3, <2>4, <2>5 DEF Flowing
<1>11. StreamOK(q)'
  <2>1. \A d \in Connections : Relaying(d, q)' =>
            /\ caller'[q] \notin {"idle", "submitted"} /\ q \notin unrelayed'
            /\ HasPending(q)' => SessionOf(q)' = d /\ relay'[d][1].event.type \in Flow
            /\ \A b \in Connections : Relaying(b, q)' => b = d
    BY <1>1, <1>3, <1>7, <1>8 DEF HasPending
  <2>2. HasPending(q)' <=> HasPending(q)
    BY <1>3 DEF HasPending
  <2> QED
    BY <1>3, <1>6, <1>7, <1>9, <1>10, <2>1, <2>2 DEF StreamOK
<1> QED
  BY <1>1, <1>3, <1>5, <1>11, OneMoves
\* An event that cannot be delivered: a frame ends the pending, so that no later event of
\* the stream follows the gap; after the end of a stream only its completion follows.
LEMMA FailStream ==
    ASSUME DispatchInv, StreamInv, NEW c \in Connections, RelayFailed(c)
    PROVE  StreamInv'
<1>0. PICK q, e : q = relay[c][1].request /\ e = relay[c][1].event
  OBVIOUS
<1>1. /\ q \in Requests /\ e \in Events /\ Head(relay[c]) = relay[c][1]
      /\ Relaying(c, q) /\ RelayShape'
      /\ \A d \in Connections : Relaying(d, q)' =>
            /\ d = c /\ Len(relay[c]) = 2 /\ relay'[c][1] = relay[c][2] /\ e.type \in {"end", "error"}
            /\ relay[c][2].event.type = IF e.type = "end" THEN "completed" ELSE "failed"
      /\ \A p \in Requests \ {q} :
            /\ \A d \in Connections : Relaying(d, p)' <=> Relaying(d, p)
            /\ \A d \in Connections : Relaying(d, p) => relay'[d][1] = relay[d][1]
  BY <1>0, RelayTail DEF RelayStep
<1>2. UNCHANGED <<kind, sent, channel, caller, body, unrelayed>>
  BY DEF RelayFailed, httpVars
<1>3. StreamOK(q)
  BY <1>1, StreamByRequest
<1>4. /\ caller[q] \notin {"idle", "submitted"} /\ q \notin unrelayed
      /\ HasPending(q) => e.type \in Flow
  BY <1>0, <1>1, <1>3 DEF StreamOK
<1>5. pending \in [Requests -> Pending \cup {NoPending}]
  BY DEF DispatchInv, RequestTypeOK, DispatcherTypeOK
<1>6. ~HasPending(q)' /\ \A p \in Requests \ {q} : pending'[p] = pending[p]
  <2>1. CASE e.type \in Terminals
    <3>1. UNCHANGED pending
      BY <1>0, <1>1, <2>1 DEF RelayFailed
    <3>2. ~HasPending(q)
      BY <1>4, <2>1 DEF Terminals, Flow
    <3> QED
      BY <3>1, <3>2 DEF HasPending
  <2>2. CASE e.type \notin Terminals
    <3>1. Cancel(q)
      BY <1>0, <1>1, <2>2 DEF RelayFailed
    <3> QED
      BY <1>1, <1>5, <3>1 DEF Cancel, Detach, HasPending
  <2> QED
    BY <2>1, <2>2
<1>7. ASSUME kind[q] = "stream", caller[q] \notin Ended PROVE Flowing(q)'
  <2>1. Flowing(q)
    BY <1>3, <1>7 DEF StreamOK
  <2>2. /\ Offset(q)' = Offset(q) /\ Passed(q)' = Passed(q) /\ \A i : EndAt(q, i)' = EndAt(q, i)
        /\ EndAt(q, Len(channel[q]))' = EndAt(q, Len(channel[q]))
    BY <1>2 DEF Offset, Passed, EndAt
  <2>3. ChannelFlow(q)'
    BY <1>2, <2>1, <2>2 DEF Flowing, ChannelFlow
  <2>4. PendingFlow(q)'
    BY <1>6 DEF PendingFlow
  <2>5. RelayFlow(q)'
    <3> SUFFICES ASSUME NEW d \in Connections, Relaying(d, q)', relay'[d][1].event.type = "completed"
                 PROVE  /\ sent'[q] = Passed(q)' - EndAt(q, Len(channel[q]))'
                        /\ \A j \in 1..Len(channel'[q]) :
                              \/ channel'[q][j].type \in Flow
                              \/ j = Len(channel'[q]) /\ channel'[q][j].type = "end"
      <4>1. \A d \in Connections : Relaying(d, q)' => relay'[d][1].event.type \in {"completed", "failed"}
        BY <1>1
      <4> QED
        BY <4>1 DEF RelayFlow
    <3>1. e.type = "end"
      BY <1>1
    <3>2. CarriesFlow(q) /\ sent[q] = Passed(q)
      BY <1>0, <1>1, <2>1, <3>1 DEF Flowing, RelayFlow
    <3>3. EndAt(q, Len(channel[q])) = 0
      BY <3>2 DEF EndAt, CarriesFlow, Flow
    <3>4. Passed(q) \in Int
      <4>1. sent[q] \in 0..MaxChunks /\ MaxChunks \in Nat
        BY <1>1, RequestAssumption DEF DispatchInv, RequestTypeOK, HttpTypeOK
      <4> QED
        BY <3>2, <4>1
    <3>5. sent'[q] = Passed(q)' - EndAt(q, Len(channel[q]))'
      BY <1>2, <2>2, <3>2, <3>3, <3>4
    <3> QED
      BY <1>2, <3>2, <3>5 DEF CarriesFlow
  <2> QED
    BY <2>3, <2>4, <2>5 DEF Flowing
<1>8. StreamOK(q)'
  <2>1. \A d \in Connections : Relaying(d, q)' =>
            /\ caller'[q] \notin {"idle", "submitted"} /\ q \notin unrelayed'
            /\ HasPending(q)' => SessionOf(q)' = d /\ relay'[d][1].event.type \in Flow
            /\ \A b \in Connections : Relaying(b, q)' => b = d
    BY <1>1, <1>2, <1>4, <1>6
  <2> QED
    BY <1>2, <1>3, <1>4, <1>6, <1>7, <2>1 DEF StreamOK
<1> QED
  BY <1>1, <1>2, <1>6, <1>8, OneMoves

\* The close of a session is told to the phase as one more event.
LEMMA DisconnectStream ==
    ASSUME DispatchInv, StreamInv, NEW q \in Requests, RelayDisconnect(q)
    PROVE  StreamInv'
<1>1. UNCHANGED <<phase, kind, sent, pending, caller, body, relay>>
  BY DEF RelayDisconnect, dispatcherVars, sessionVars
<1>2. /\ HttpTypeOK /\ channel \in [Requests -> Seq(Events)]
      /\ Event("cancelled") \in Events
  BY EventTypes DEF DispatchInv, RequestTypeOK, HttpTypeOK, Terminals
<1>3. unrelayed' = unrelayed \ {q} /\ q \in unrelayed
  BY DEF RelayDisconnect
<1>4. \A p \in Requests \ {q} : channel'[p] = channel[p]
  BY <1>2 DEF RelayDisconnect
<1>5. channel'[q] = channel[q] \/ channel'[q] = Append(channel[q], Event("cancelled"))
  BY <1>2 DEF RelayDisconnect
<1>6. StreamOK(q)
  BY StreamByRequest
<1>7. /\ ~HasPending(q) /\ caller[q] \notin {"idle", "submitted"}
      /\ \A c \in Connections : ~Relaying(c, q)
  BY <1>3, <1>6 DEF StreamOK
<1>8. ~HasPending(q)' /\ \A c \in Connections : ~Relaying(c, q)'
  BY <1>1, <1>7 DEF HasPending, Relaying
<1>9. ASSUME kind[q] = "stream", caller[q] \notin Ended PROVE Flowing(q)'
  <2>1. Flowing(q)
    BY <1>6, <1>9 DEF StreamOK
  <2>2. ChannelFlow(q)'
    <3>1. CASE channel'[q] = channel[q]
      <4>1. Offset(q)' = Offset(q) /\ \A i : EndAt(q, i)' = EndAt(q, i)
        BY <3>1 DEF Offset, EndAt
      <4> QED
        BY <1>1, <2>1, <3>1, <4>1 DEF Flowing, ChannelFlow
    <3>2. CASE channel'[q] = Append(channel[q], Event("cancelled"))
      <4>1. Event("cancelled").type = "cancelled"
        BY DEF Event
      <4> QED
        BY <1>1, <1>2, <2>1, <3>2, <4>1, AppendFlow DEF Flowing
    <3> QED
      BY <1>5, <3>1, <3>2
  <2> QED
    BY <1>8, <2>2 DEF Flowing, PendingFlow, RelayFlow
<1>10. StreamOK(q)'
  BY <1>1, <1>3, <1>6, <1>7, <1>8, <1>9 DEF StreamOK
<1>11. RelayShape'
  BY <1>1 DEF StreamInv, RelayShape
<1>12. \A p \in Requests, c \in Connections : Relaying(c, p)' <=> Relaying(c, p)
  BY <1>1 DEF Relaying
<1> QED
  BY <1>1, <1>3, <1>4, <1>10, <1>11, <1>12, OneMoves

\* The phase ends; what its channel still held is dropped.
LEMMA LeaveStream ==
    ASSUME DispatchInv, StreamInv, NEW q \in Requests,
           ClientGone(q) \/ CallerTimeout(q) \/ SinkRefused(q) \/ Answer(q)
    PROVE  StreamInv'
<1>1. /\ caller \in [Requests -> {"idle", "submitted", "accepted", "waiting"} \cup Ended]
      /\ channel \in [Requests -> Seq(Events)]
      /\ pending \in [Requests -> Pending \cup {NoPending}]
  BY DEF DispatchInv, RequestTypeOK, HttpTypeOK, DispatcherTypeOK
<1>2. /\ UNCHANGED <<phase, kind, sent, body, relay, unrelayed>> /\ caller[q] = "waiting"
      /\ \A p \in Requests \ {q} : channel'[p] = channel[p]
  BY <1>1 DEF ClientGone, CallerTimeout, SinkRefused, Answer, Abandon, Leave, sessionVars,
      sessionsButClose, relayVars
<1>3. PICK x \in {"gone", "timedOut", "refused", "answered"} : caller' = [caller EXCEPT ![q] = x]
  BY DEF ClientGone, CallerTimeout, SinkRefused, Answer, Abandon, Leave
<1>4. caller'[q] = x /\ (\A p \in Requests \ {q} : caller'[p] = caller[p]) /\ x \in Ended
  BY <1>1, <1>3 DEF Ended
<1>5. StreamOK(q)
  BY StreamByRequest
<1>6. ASSUME Answer(q) PROVE /\ pending' = pending /\ ~HasPending(q)
                             /\ x = "answered" /\ kind[q] = "stream" => Len(body[q]) = sent[q]
  <2>1. channel[q] \in Seq(Events) /\ channel[q] # <<>>
    BY <1>1, <1>6 DEF Answer
  <2>2. Head(channel[q]) = channel[q][1] /\ 1 \in 1..Len(channel[q])
    <3>1. Len(channel[q]) \in Nat \ {0} /\ Head(channel[q]) = channel[q][1]
      BY <2>1, TailOf
    <3> QED
      BY <3>1
  <2>3. channel[q][1].type \notin Flow
    BY <1>6, <2>2 DEF Answer, Flow
  <2>4. ~HasPending(q) /\ pending' = pending
    BY <1>5, <1>6, <2>2, <2>3 DEF StreamOK, CarriesFlow, Answer, dispatcherVars
  <2>5. ASSUME x = "answered", kind[q] = "stream" PROVE Len(body[q]) = sent[q]
    <3>1. channel[q][1].type = "completed"
      <4>1. caller' # [caller EXCEPT ![q] = "refused"]
        BY <1>1, <1>4, <2>5
      <4> QED
        BY <1>6, <2>2, <2>5, <4>1 DEF Answer, Leave
    <3>2. ChannelFlow(q)
      BY <1>2, <1>5, <2>5 DEF StreamOK, Flowing, Ended
    <3>3. sent[q] = (Len(body[q]) + 1 - 1) - Offset(q) - EndAt(q, 1 - 1)
      BY <2>2, <3>1, <3>2 DEF ChannelFlow
    <3>4. Offset(q) = 0 /\ EndAt(q, 1 - 1) = 0
      BY <3>1 DEF Offset, EndAt
    <3>5. Len(body[q]) \in Nat
      BY DEF DispatchInv, RequestTypeOK, HttpTypeOK
    <3> QED
      BY <3>3, <3>4, <3>5
  <2> QED
    BY <2>4, <2>5
<1>7. ASSUME ~Answer(q) PROVE x # "answered" /\ Cancel(q)
  <2>1. PICK y \in {"gone", "timedOut", "refused"} : Abandon(q, y)
    BY <1>7 DEF ClientGone, CallerTimeout, SinkRefused
  <2>2. caller'[q] = y /\ Cancel(q)
    BY <1>1, <2>1 DEF Abandon, Leave
  <2> QED
    BY <1>4, <2>2
<1>8. ~HasPending(q)' /\ \A p \in Requests \ {q} : pending'[p] = pending[p]
  BY <1>1, <1>6, <1>7 DEF Cancel, Detach, HasPending
<1>9. x = "answered" => Answer(q) /\ (kind[q] = "stream" => Len(body[q]) = sent[q])
  BY <1>6, <1>7
<1>10. \A p \in unrelayed : /\ ~HasPending(p) /\ caller[p] \notin {"idle", "submitted"}
                            /\ p \in Requests /\ \A d \in Connections : ~Relaying(d, p)
  BY DEF StreamInv, EndedHasNone, RelayOwner, DispatchInv, RequestTypeOK, RelayTypeOK
<1>11. \A p \in Requests : HasPending(p)' => HasPending(p) /\ pending'[p] = pending[p]
  BY <1>8 DEF HasPending
<1>12. \A p \in Requests :
           /\ channel'[p] = channel[p] \/ caller'[p] \in Ended
           /\ caller[p] \notin {"idle", "submitted"} => caller'[p] \notin {"idle", "submitted"}
           /\ caller[p] \in Ended => caller'[p] = caller[p]
           /\ caller'[p] = "answered" =>
                 caller[p] = "answered" \/ (kind[p] = "stream" => Len(body[p]) = sent[p])
           /\ caller'[p] \in Ended => ~HasPending(p)'
  <2>1. "waiting" \notin Ended /\ \A p \in Requests : caller[p] \in Ended => ~HasPending(p)
    BY DEF Ended, StreamInv, EndedHasNone
  <2> QED
    BY <1>2, <1>4, <1>8, <1>9, <1>11, <2>1
<1>13. \A p \in unrelayed' : /\ ~HasPending(p)' /\ caller'[p] \notin {"idle", "submitted"}
                             /\ \A d \in Connections : ~Relaying(d, p)
  BY <1>2, <1>10, <1>11, <1>12
<1>14. UNCHANGED <<relay, body, sent>> /\ phase' = phase /\ kind' = kind
  BY <1>2
<1> QED
  BY <1>11, <1>12, <1>13, <1>14, QuietStep
\* The phase takes the first event of a stream: every event behind it moves one place up.
LEMMA ShiftFlow ==
    ASSUME HttpTypeOK, NEW q \in Requests, ChannelFlow(q), channel[q] # <<>>,
           NEW t \in Flow \cup {"end"}, channel[q][1].type = t,
           Len(channel[q]) \in Nat \ {0}, Len(channel'[q]) = Len(channel[q]) - 1,
           \A i \in 1..(Len(channel[q]) - 1) : channel'[q][i] = channel[q][i + 1],
           channel'[q] # <<>> => Len(channel[q]) # 1, sent'[q] = sent[q],
           Len(body'[q]) = Len(body[q]) + (IF t = "chunk" THEN 1 ELSE 0)
    PROVE  /\ ChannelFlow(q)'
           /\ Passed(q)' = IF t = "end" THEN Passed(q) - 1 ELSE Passed(q)
           /\ Passed(q) \in Int
           /\ \A i \in 1..Len(channel'[q]) : i + 1 \in 1..Len(channel[q]) /\ channel'[q][i] = channel[q][i + 1]
<1>2. PICK L \in Nat \ {0}, B \in Nat : L = Len(channel[q]) /\ B = Len(body[q])
  BY DEF HttpTypeOK
<1>3. /\ Len(channel'[q]) = L - 1
      /\ channel'[q] # <<>> => L # 1
      /\ \A i \in 1..(L - 1) : i + 1 \in 1..L /\ channel'[q][i] = channel[q][i + 1]
  BY <1>2
<1>4. \A i \in 2..L : channel[q][i].type # "start"
  <2> SUFFICES ASSUME NEW i \in 2..L PROVE channel[q][i].type # "start"
    OBVIOUS
  <2>1. i \in 1..Len(channel[q]) /\ i # 1
    BY <1>2
  <2> QED
    BY <2>1 DEF ChannelFlow
<1>5. Offset(q) = (IF t = "start" THEN 1 ELSE 0) /\ Offset(q)' = 0
  <2>1. channel'[q] # <<>> => channel'[q][1].type # "start"
    <3>1. L # 1 => 1 \in 1..(L - 1) /\ 2 \in 2..L
      OBVIOUS
    <3>2. channel'[q] # <<>> => L # 1 /\ channel'[q][1] = channel[q][2]
      <4>1. channel'[q] # <<>> => L # 1
        BY <1>3
      <4>2. L # 1 => channel'[q][1] = channel[q][1 + 1]
        BY <1>3, <3>1
      <4> QED
        BY <4>1, <4>2
    <3> QED
      BY <1>4, <3>1, <3>2
  <2> QED
    BY <2>1 DEF Offset
<1>6. PICK D \in {0, 1} : D = IF t = "chunk" THEN 1 ELSE 0
  OBVIOUS
<1>7. Len(body'[q]) = B + D
  BY <1>2, <1>6
<1>8. Passed(q) = (B + L) - Offset(q) /\ Passed(q)' = ((B + D) + (L - 1)) - Offset(q)'
  BY <1>2, <1>3, <1>7 DEF Passed
<1>9. Passed(q)' = (IF t = "end" THEN Passed(q) - 1 ELSE Passed(q)) /\ Passed(q) \in Int
  <2>1. CASE t = "start"
    BY <1>5, <1>6, <1>8, <2>1
  <2>2. CASE t = "chunk"
    BY <1>5, <1>6, <1>8, <2>2
  <2>3. CASE t = "end"
    BY <1>5, <1>6, <1>8, <2>3
  <2> QED
    BY <2>1, <2>2, <2>3 DEF Flow
<1>10. ChannelFlow(q)'
  <2> SUFFICES ASSUME NEW i \in 1..Len(channel'[q])
      PROVE /\ channel'[q][i].type = "start" => i = 1 /\ body'[q] = <<>>
            /\ channel'[q][i].type = "chunk" => channel'[q][i].seq = (Len(body'[q]) + i - 1) - Offset(q)'
            /\ channel'[q][i].type = "end" => sent'[q] = (Len(body'[q]) + i - 1) - Offset(q)'
            /\ channel'[q][i].type = "completed" =>
                  sent'[q] = (Len(body'[q]) + i - 1) - Offset(q)' - EndAt(q, i - 1)'
            /\ channel'[q][i].type \in {"chunk", "end"} =>
                  \A j \in 1..Len(channel'[q]) : j < i => channel'[q][j].type \in Flow
            /\ channel'[q][i].type = "completed" =>
                  \A j \in 1..Len(channel'[q]) : j < i => \/ channel'[q][j].type \in Flow
                                                          \/ j = i - 1 /\ channel'[q][j].type = "end"
    BY DEF ChannelFlow
  <2>1. i \in 1..(L - 1) /\ i + 1 \in 1..L /\ i + 1 \in 2..L /\ channel'[q][i] = channel[q][i + 1]
    <3>1. i \in 1..(L - 1)
      BY <1>3
    <3>2. i + 1 \in 2..L
      BY <3>1
    <3> QED
      BY <1>3, <3>1, <3>2
  <2>2. /\ channel[q][i + 1].type # "start"
        /\ channel[q][i + 1].type = "chunk" => channel[q][i + 1].seq = (B + (i + 1) - 1) - Offset(q)
        /\ channel[q][i + 1].type = "end" => sent[q] = (B + (i + 1) - 1) - Offset(q)
        /\ channel[q][i + 1].type = "completed" =>
              sent[q] = (B + (i + 1) - 1) - Offset(q) - EndAt(q, (i + 1) - 1)
        /\ channel[q][i + 1].type \in {"chunk", "end"} =>
              \A j \in 1..L : j < i + 1 => channel[q][j].type \in Flow
        /\ channel[q][i + 1].type = "completed" =>
              \A j \in 1..L : j < i + 1 => \/ channel[q][j].type \in Flow
                                           \/ j = (i + 1) - 1 /\ channel[q][j].type = "end"
    BY <1>2, <1>4, <2>1 DEF ChannelFlow
  <2>3. \A j \in 1..Len(channel'[q]) : j < i =>
            j + 1 \in 1..L /\ j + 1 < i + 1 /\ channel'[q][j] = channel[q][j + 1]
                /\ (j + 1 = (i + 1) - 1 => j = i - 1)
    BY <1>3, <2>1
  <2>4. 1 \in 1..L /\ 1 < i + 1
    BY <2>1
  <2>5. channel[q][i + 1].type \in {"chunk", "end"} => t \in Flow
    BY <2>2, <2>4
  <2>6. channel[q][i + 1].type = "completed" => t \in Flow \/ i = 1
    BY <2>2, <2>4
  <2>7. t \in Flow => (B + (i + 1) - 1) - Offset(q) = ((B + D) + i - 1) - Offset(q)'
    BY <1>5, <1>6, <2>1 DEF Flow
  <2>8. channel[q][i + 1].type = "completed" =>
            sent[q] = ((B + D) + i - 1) - Offset(q)' - EndAt(q, i - 1)'
    <3> SUFFICES ASSUME channel[q][i + 1].type = "completed"
                 PROVE  sent[q] = ((B + D) + i - 1) - Offset(q)' - EndAt(q, i - 1)'
      OBVIOUS
    <3>1. sent[q] = (B + (i + 1) - 1) - Offset(q) - EndAt(q, i) /\ EndAt(q, i) \in {0, 1}
      BY <2>1, <2>2 DEF EndAt
    <3>2. CASE t \in Flow
      <4>1. EndAt(q, i - 1)' = EndAt(q, i)
        <5>1. CASE i = 1
          <6>1. 0 \notin 1..Len(channel'[q]) /\ i - 1 = 0 /\ channel[q][i].type # "end"
            BY <3>2, <5>1 DEF Flow
          <6> QED
            BY <6>1 DEF EndAt
        <5>2. CASE i # 1
          <6>1. /\ i - 1 \in 1..Len(channel'[q]) /\ i \in 1..Len(channel[q])
                /\ channel'[q][i - 1] = channel[q][i]
            <7>1. i - 1 \in 1..(L - 1) /\ (i - 1) + 1 = i /\ i \in 1..L
              BY <2>1, <5>2
            <7> QED
              BY <1>2, <1>3, <7>1
          <6> QED
            BY <6>1 DEF EndAt
        <5> QED
          BY <5>1, <5>2
      <4> QED
        BY <2>7, <3>1, <3>2, <4>1
    <3>3. CASE t \notin Flow
      <4>1. i = 1 /\ t = "end"
        BY <2>6, <3>3
      <4>2. EndAt(q, i) = 1 /\ EndAt(q, i - 1)' = 0
        <5>1. i \in 1..Len(channel[q]) /\ i - 1 \notin 1..Len(channel'[q])
          BY <1>2, <2>1, <4>1
        <5> QED
          BY <4>1, <5>1 DEF EndAt
      <4> QED
        BY <1>5, <1>6, <3>1, <4>1, <4>2
    <3> QED
      BY <3>2, <3>3
  <2>9. /\ channel[q][i + 1].type = "chunk" => channel[q][i + 1].seq = ((B + D) + i - 1) - Offset(q)'
        /\ channel[q][i + 1].type = "end" => sent[q] = ((B + D) + i - 1) - Offset(q)'
    BY <2>2, <2>5, <2>7
  <2>10. channel'[q][i].type \in {"chunk", "end"} =>
             \A j \in 1..Len(channel'[q]) : j < i => channel'[q][j].type \in Flow
    BY <2>1, <2>2, <2>3
  <2>11. channel'[q][i].type = "completed" =>
             \A j \in 1..Len(channel'[q]) : j < i => \/ channel'[q][j].type \in Flow
                                                     \/ j = i - 1 /\ channel'[q][j].type = "end"
    BY <2>1, <2>2, <2>3
  <2> QED
    BY <1>7, <2>1, <2>2, <2>8, <2>9, <2>10, <2>11
<1> QED
  BY <1>2, <1>3, <1>9, <1>10
LEMMA StreamOnStream ==
    ASSUME DispatchInv, StreamInv, NEW q \in Requests, StreamOn(q), kind[q] = "stream"
    PROVE  StreamInv'
<1>1. /\ UNCHANGED <<phase, kind, sent, pending, caller, relay, unrelayed>>
      /\ caller[q] = "waiting" /\ kind[q] = "stream" /\ channel[q] # <<>>
  BY DEF StreamOn, sessionVars, dispatcherVars, relayVars
<1>2. /\ HttpTypeOK /\ channel \in [Requests -> Seq(Events)] /\ body \in [Requests -> Seq(0..MaxChunks)]
      /\ MaxChunks \in Nat
  BY RequestAssumption DEF DispatchInv, RequestTypeOK, HttpTypeOK
<1>3. \A p \in Requests \ {q} : channel'[p] = channel[p] /\ body'[p] = body[p]
  BY <1>2 DEF StreamOn
<1>4. /\ Len(channel[q]) \in Nat \ {0} /\ Len(channel'[q]) = Len(channel[q]) - 1
      /\ \A i \in 1..(Len(channel[q]) - 1) : channel'[q][i] = channel[q][i + 1]
      /\ channel'[q] # <<>> => Len(channel[q]) # 1
      /\ Head(channel[q]) = channel[q][1]
  <2>1. channel'[q] = Tail(channel[q]) /\ channel[q] \in Seq(Events)
    BY <1>2 DEF StreamOn
  <2> QED
    BY <1>1, <2>1, TailOf
<1>5. PICK t \in Flow \cup {"end"} : t = channel[q][1].type
  BY <1>4 DEF StreamOn, Flow
<1>6. StreamOK(q)
  BY StreamByRequest
<1>7. "waiting" \notin Ended /\ Flowing(q) /\ ChannelFlow(q)
  BY <1>1, <1>6 DEF StreamOK, Ended, Flowing
<1>8. PICK B \in Nat : B = Len(body[q])
  BY <1>2
<1>9. t = "chunk" => channel[q][1].seq = B
  <2>1. 1 \in 1..Len(channel[q])
    BY <1>4
  <2>2. t = "chunk" => channel[q][1].seq = (B + 1 - 1) - Offset(q)
    BY <1>5, <1>7, <1>8, <2>1 DEF ChannelFlow
  <2>3. t = "chunk" => Offset(q) = 0
    BY <1>5 DEF Offset
  <2> QED
    BY <2>2, <2>3
<1>10. /\ Len(body'[q]) = B + (IF t = "chunk" THEN 1 ELSE 0)
       /\ \A i \in 1..B : body'[q][i] = body[q][i]
       /\ t = "chunk" => body'[q][B + 1] = B
  <2>1. CASE t = "chunk"
    <3>1. body' = [body EXCEPT ![q] = Append(@, channel[q][1].seq)]
      BY <1>4, <1>5, <2>1 DEF StreamOn
    <3>2. body'[q] = Append(body[q], B) /\ body[q] \in Seq(0..MaxChunks)
      BY <1>2, <1>9, <2>1, <3>1
    <3> QED
      BY <1>8, <2>1, <3>2
  <2>2. CASE t # "chunk"
    <3>1. body' = body
      BY <1>4, <1>5, <2>2 DEF StreamOn
    <3> QED
      BY <1>8, <2>2, <3>1
  <2> QED
    BY <2>1, <2>2
<1>11. \A i \in 1..Len(body'[q]) : body'[q][i] = i - 1
  <2>1. \A i \in 1..B : body[q][i] = i - 1
    BY <1>6, <1>8 DEF StreamOK
  <2>2. \A i \in 1..Len(body'[q]) : i \in 1..B \/ (t = "chunk" /\ i = B + 1)
    BY <1>10
  <2> QED
    BY <1>10, <2>1, <2>2
<1>12. /\ ChannelFlow(q)'
       /\ Passed(q)' = IF t = "end" THEN Passed(q) - 1 ELSE Passed(q)
       /\ Passed(q) \in Int
       /\ \A i \in 1..Len(channel'[q]) : i + 1 \in 1..Len(channel[q]) /\ channel'[q][i] = channel[q][i + 1]
  <2>1. Len(body'[q]) = Len(body[q]) + (IF t = "chunk" THEN 1 ELSE 0)
    BY <1>8, <1>10
  <2>2. sent'[q] = sent[q]
    BY <1>1
  <2> QED
    BY <1>1, <1>2, <1>4, <1>5, <1>7, <2>1, <2>2, ShiftFlow
<1>13. 1 \in 1..Len(channel[q]) /\ (CarriesFlow(q) => t \in Flow /\ CarriesFlow(q)')
  <2>1. 1 \in 1..Len(channel[q])
    BY <1>4
  <2> QED
    BY <1>5, <1>12, <2>1 DEF CarriesFlow
<1>14. (\A c \in Connections : Relaying(c, q)' <=> Relaying(c, q)) /\ (HasPending(q)' <=> HasPending(q))
  BY <1>1 DEF Relaying, HasPending
<1>15. "end" \notin Flow
  BY DEF Flow
<1>16. PendingFlow(q)'
  <2> SUFFICES ASSUME HasPending(q) PROVE pending[q].streaming
                                          /\ ((\A c \in Connections : ~Relaying(c, q)) => sent[q] = Passed(q)')
    BY <1>1, <1>14 DEF PendingFlow
  <2>1. t \in Flow
    BY <1>6, <1>13 DEF StreamOK
  <2> QED
    BY <1>1, <1>7, <1>12, <1>15, <2>1 DEF Flowing, PendingFlow
<1>17. RelayFlow(q)'
  <2> SUFFICES ASSUME NEW c \in Connections, Relaying(c, q)
               PROVE  LET e == relay[c][1].event
                      IN /\ e.type # "start"
                         /\ e.type = "chunk" => CarriesFlow(q)' /\ e.seq = Passed(q)' /\ sent[q] = Passed(q)' + 1
                         /\ e.type = "end" => CarriesFlow(q)' /\ sent[q] = Passed(q)'
                         /\ e.type = "completed" =>
                               /\ sent[q] = Passed(q)' - EndAt(q, Len(channel[q]))'
                               /\ \A j \in 1..Len(channel'[q]) :
                                     \/ channel'[q][j].type \in Flow
                                     \/ j = Len(channel'[q]) /\ channel'[q][j].type = "end"
    BY <1>1, <1>14 DEF RelayFlow
  <2> DEFINE e == relay[c][1].event
  <2>1. /\ e.type # "start"
        /\ e.type = "chunk" => CarriesFlow(q) /\ e.seq = Passed(q) /\ sent[q] = Passed(q) + 1
        /\ e.type = "end" => CarriesFlow(q) /\ sent[q] = Passed(q)
        /\ e.type = "completed" =>
              /\ sent[q] = Passed(q) - EndAt(q, Len(channel[q]))
              /\ \A j \in 1..Len(channel[q]) : \/ channel[q][j].type \in Flow
                                               \/ j = Len(channel[q]) /\ channel[q][j].type = "end"
    BY <1>1, <1>7 DEF Flowing, RelayFlow
  <2> HIDE DEF e
  <2>2. PICK L \in Nat \ {0} : L = Len(channel[q]) /\ Len(channel'[q]) = L - 1
    BY <1>4
  <2>3. ASSUME e.type = "completed"
        PROVE  /\ sent[q] = Passed(q)' - EndAt(q, Len(channel[q]))'
               /\ \A j \in 1..Len(channel'[q]) : \/ channel'[q][j].type \in Flow
                                                 \/ j = Len(channel'[q]) /\ channel'[q][j].type = "end"
    <3>1. \A j \in 1..L : \/ channel[q][j].type \in Flow
                          \/ j = L /\ channel[q][j].type = "end"
      BY <2>1, <2>2, <2>3
    <3>2. \A j \in 1..(L - 1) : j + 1 \in 1..L /\ channel'[q][j] = channel[q][j + 1] /\ (j + 1 = L => j = L - 1)
      BY <1>12, <2>2
    <3>3. EndAt(q, Len(channel[q]))' = IF t = "end" THEN 0 ELSE EndAt(q, L)
      <4>1. CASE L = 1
        <5>1. L - 1 \notin 1..(L - 1)
          BY <4>1
        <5>2. EndAt(q, Len(channel[q]))' = 0
          BY <2>2, <5>1 DEF EndAt
        <5>3. t # "end" => EndAt(q, L) = 0
          BY <1>5, <4>1 DEF EndAt
        <5> QED
          BY <5>2, <5>3
      <4>2. CASE L # 1
        <5>1. L - 1 \in 1..(L - 1) /\ L \in 1..L /\ (L - 1) + 1 = L /\ 1 \in 1..L
          BY <4>2
        <5>2. channel'[q][L - 1] = channel[q][L]
          BY <3>2, <5>1
        <5>3. t # "end"
          BY <1>5, <1>15, <3>1, <4>2, <5>1
        <5>4. EndAt(q, Len(channel[q]))' = IF channel'[q][L - 1].type = "end" THEN 1 ELSE 0
          BY <2>2, <5>1 DEF EndAt
        <5>5. EndAt(q, L) = IF channel[q][L].type = "end" THEN 1 ELSE 0
          BY <2>2, <5>1 DEF EndAt
        <5> QED
          BY <5>2, <5>3, <5>4, <5>5
      <4> QED
        BY <4>1, <4>2
    <3>4. t = "end" => EndAt(q, L) = 1
      <4>1. t = "end" => L = 1
        BY <1>5, <1>13, <1>15, <2>2, <3>1
      <4> QED
        BY <1>5, <1>13, <2>2, <4>1 DEF EndAt
    <3>5. sent[q] = Passed(q)' - EndAt(q, Len(channel[q]))'
      BY <1>12, <2>1, <2>2, <2>3, <3>3, <3>4
    <3> QED
      BY <2>2, <3>1, <3>2, <3>5
  <2>4. CarriesFlow(q) => CarriesFlow(q)' /\ Passed(q)' = Passed(q)
    BY <1>12, <1>13, <1>15
  <2> QED
    BY <2>1, <2>3, <2>4 DEF e
<1>18. StreamOK(q)'
  <2>1. Flowing(q)'
    BY <1>12, <1>16, <1>17 DEF Flowing
  <2>2. HasPending(q) => CarriesFlow(q)'
    BY <1>6, <1>13 DEF StreamOK
  <2>3. \A c \in Connections : Relaying(c, q)' =>
            /\ caller'[q] \notin {"idle", "submitted"} /\ q \notin unrelayed'
            /\ HasPending(q)' => SessionOf(q)' = c /\ relay'[c][1].event.type \in Flow
            /\ \A d \in Connections : Relaying(d, q)' => d = c
    BY <1>1, <1>6, <1>14 DEF StreamOK, SessionOf
  <2> QED
    BY <1>1, <1>6, <1>7, <1>11, <1>14, <2>1, <2>2, <2>3 DEF StreamOK
<1>19. RelayShape'
  BY <1>1 DEF StreamInv, RelayShape
<1>20. \A p \in Requests, c \in Connections : Relaying(c, p)' <=> Relaying(c, p)
  BY <1>1 DEF Relaying
<1> QED
  BY <1>1, <1>3, <1>18, <1>19, <1>20, OneMoves

\* The phase of a feed takes an event, which it does not count.
LEMMA FeedOnStream ==
    ASSUME DispatchInv, StreamInv, NEW q \in Requests, StreamOn(q), kind[q] # "stream"
    PROVE  StreamInv'
<1>1. /\ UNCHANGED <<phase, kind, sent, pending, caller, relay, unrelayed, body>>
      /\ caller[q] = "waiting" /\ channel[q] # <<>>
  BY DEF StreamOn, sessionVars, dispatcherVars, relayVars
<1>2. channel \in [Requests -> Seq(Events)]
  BY DEF DispatchInv, RequestTypeOK, HttpTypeOK
<1>3. \A p \in Requests \ {q} : channel'[p] = channel[p]
  BY <1>2 DEF StreamOn
<1>4. /\ Len(channel[q]) \in Nat \ {0} /\ Len(channel'[q]) = Len(channel[q]) - 1
      /\ \A i \in 1..(Len(channel[q]) - 1) : channel'[q][i] = channel[q][i + 1]
  <2>1. channel'[q] = Tail(channel[q]) /\ channel[q] \in Seq(Events)
    BY <1>2 DEF StreamOn
  <2> QED
    BY <1>1, <2>1, TailOf
<1>5. StreamOK(q)
  BY StreamByRequest
<1>6. CarriesFlow(q) => CarriesFlow(q)'
  <2>1. \A i \in 1..Len(channel'[q]) : i + 1 \in 1..Len(channel[q]) /\ channel'[q][i] = channel[q][i + 1]
    BY <1>4
  <2> QED
    BY <2>1 DEF CarriesFlow
<1>7. (\A c \in Connections : Relaying(c, q)' <=> Relaying(c, q)) /\ (HasPending(q)' <=> HasPending(q))
  BY <1>1 DEF Relaying, HasPending
<1>8. StreamOK(q)'
  <2>1. HasPending(q) => CarriesFlow(q)'
    BY <1>5, <1>6 DEF StreamOK
  <2>2. \A c \in Connections : Relaying(c, q)' =>
            /\ caller'[q] \notin {"idle", "submitted"} /\ q \notin unrelayed'
            /\ HasPending(q)' => SessionOf(q)' = c /\ relay'[c][1].event.type \in Flow
            /\ \A d \in Connections : Relaying(d, q)' => d = c
    BY <1>1, <1>5, <1>7 DEF StreamOK, SessionOf
  <2> QED
    BY <1>1, <1>5, <1>7, <2>1, <2>2 DEF StreamOK
<1>9. RelayShape'
  BY <1>1 DEF StreamInv, RelayShape
<1>10. \A p \in Requests, c \in Connections : Relaying(c, p)' <=> Relaying(c, p)
  BY <1>1 DEF Relaying
<1> QED
  BY <1>1, <1>3, <1>8, <1>9, <1>10, OneMoves

\* A task attempt that times out has no stream.
LEMMA AttemptStream ==
    ASSUME DispatchInv, StreamInv, NEW q \in Requests, AttemptTimeout(q)
    PROVE  StreamInv'
<1>1. /\ caller \in [Requests -> {"idle", "submitted", "accepted", "waiting"} \cup Ended]
      /\ pending \in [Requests -> Pending \cup {NoPending}]
  BY DEF DispatchInv, RequestTypeOK, HttpTypeOK, DispatcherTypeOK
<1>2. UNCHANGED <<phase, kind, sent, channel, body, relay, unrelayed>> /\ HasPending(q) /\ Cancel(q)
  BY DEF AttemptTimeout, sessionsButClose, relayVars
<1>3. caller'[q] = "attemptFailed" /\ \A p \in Requests \ {q} : caller'[p] = caller[p]
  BY <1>1 DEF AttemptTimeout, Settle
<1>4. ~HasPending(q)' /\ \A p \in Requests \ {q} : pending'[p] = pending[p]
  BY <1>1, <1>2 DEF Cancel, Detach, HasPending
<1>5. \A p \in Requests : HasPending(p)' => HasPending(p) /\ pending'[p] = pending[p]
  BY <1>4 DEF HasPending
<1>6. /\ \A p \in unrelayed : /\ ~HasPending(p) /\ caller[p] \notin {"idle", "submitted"}
                               /\ p \in Requests /\ \A d \in Connections : ~Relaying(d, p)
      /\ \A p \in Requests : caller[p] \in Ended => ~HasPending(p)
  BY DEF StreamInv, EndedHasNone, RelayOwner, DispatchInv, RequestTypeOK, RelayTypeOK
<1>7. \A p \in Requests : /\ caller[p] \notin {"idle", "submitted"} => caller'[p] \notin {"idle", "submitted"}
                          /\ caller[p] \in Ended => caller'[p] = caller[p]
                          /\ caller'[p] = "answered" => caller[p] = "answered"
                          /\ caller'[p] \in Ended => ~HasPending(p)'
  BY <1>2, <1>3, <1>4, <1>5, <1>6
<1>8. \A p \in unrelayed' : /\ ~HasPending(p)' /\ caller'[p] \notin {"idle", "submitted"}
                            /\ \A d \in Connections : ~Relaying(d, p)
  BY <1>2, <1>5, <1>6, <1>7
<1> QED
  BY <1>2, <1>5, <1>7, <1>8, QuietStep

LEMMA StreamStepInv ==
    ASSUME DispatchInv, StreamInv, [RequestNext]_vars
    PROVE  StreamInv'
BY QuietSteps, FrameStream, DeliverStream, FailStream, DisconnectStream, LeaveStream, StreamOnStream,
   FeedOnStream, AttemptStream
   DEF RequestNext, RelayStep, CallerStep, PhaseStep, ConsumerStep

\* Whatever the channels drop and whenever sessions close, the client of a stream gets a
\* prefix of the chunks its Runtime sent, and all of them when the stream ends well.
THEOREM StreamsWhole == RequestSpec => []StreamIsWhole
<1>1. DispatchInv /\ StreamInv /\ [RequestNext]_vars => StreamInv'
  BY StreamStepInv
<1>2. RequestInit => StreamInv
  BY StreamInitInv
<1>3. StreamInv => StreamIsWhole
  BY DEF StreamInv
<1> QED
  BY <1>1, <1>2, <1>3, DispatchIsInductive, PTL DEF RequestSpec
=============================================================================
