------------------------------- MODULE WsLocks -------------------------------
(***************************************************************************)
(* The mutexes of the WebSocket lane: the broker's and the index's of one  *)
(* WebSocketLane and the dispatch store's.  They are std::sync::Mutex: a   *)
(* thread that locks one it already holds waits for itself.  An operation  *)
(* is the sequence of its lock and unlock steps; threads run operations    *)
(* one after the other.                                                    *)
(***************************************************************************)
EXTENDS Sequences

CONSTANTS Threads,
          Operations,   \* the operations that happen
          Slow,         \* those whose write may find the client over its budget
          NoThread

Mutexes == {"broker", "index", "store"}
Idle == "idle"

VARIABLES
    holder,   \* the thread that holds a mutex
    doing,    \* the operation of a thread
    path      \* its remaining steps

lockVars == <<holder, doing, path>>

-----------------------------------------------------------------------------
(* Paths *)

Lock(m) == <<[act |-> "lock", mutex |-> m]>>
Unlock(m) == <<[act |-> "unlock", mutex |-> m]>>

\* A critical section of m around a path.
Within(m, steps) == Lock(m) \o steps \o Unlock(m)
Brief(m) == Within(m, <<>>)

\* ClientConnectionIndex::finish: the record is taken under the index lock, then
\* start_finalizer closes the generation.
FinishClient == Brief("index") \o Brief("broker")

\* CapturedPeerWriter: reserve_write; a client over budget is finished at once.
Write(op) == {Brief("index")} \cup (IF op \in Slow THEN {Brief("index") \o FinishClient} ELSE {})

\* The broker's section with a write in it.
BrokerWrites(op) == {Within("broker", w) : w \in Write(op)}

\* handle_runtime_request
RuntimeRequest == BrokerWrites("runtimeRequest")

\* handle_runtime_send: by business identity the index is read first; the lock is
\* released before the write.
RuntimeSend == {pre \o Brief("broker") \o w :
                   pre \in {<<>>, Brief("index")}, w \in Write("runtimeSend")}

\* handle_peer_text: a call is dispatched with the broker locked, which reads the store
\* and inserts into it; one that cannot be dispatched, or is refused, is answered.
PeerText ==
    {Within("broker", Brief("store") \o Brief("store"))}
    \cup {Within("broker", dispatch \o w) \o end :
             dispatch \in {<<>>, Brief("store")}, w \in Write("peerText"),
             end \in {<<>>, FinishClient}}

\* on_inbound_response, on_inbound_terminal
InboundResponse ==
    {Brief("store") \o w \o end : w \in BrokerWrites("inboundResponse"),
                                  end \in {<<>>, FinishClient}}

\* fire_inbound_deadline
InboundDeadline == BrokerWrites("inboundDeadline")

\* Finalizers of records taken under one index section.
FinishSome == {Brief("index"), Brief("index") \o Brief("broker")}

\* attach: the generation, then the record.
Attach == {Brief("broker") \o Brief("index")}

\* attach when the record is gone: the generation is closed with the index locked.
AttachUnknown == {Brief("broker") \o Within("index", Brief("broker"))}

\* The session consumer without pending calls: the store, then runtime_disconnected.
SessionClosed == {Brief("store") \o Brief("broker") \o f : f \in FinishSome}

\* With a pending call: it is completed with the store locked.
SessionClosedCall ==
    {Within("store", w \o end) \o Brief("broker") \o f :
        w \in BrokerWrites("sessionClosedCall"), end \in {<<>>, FinishClient}, f \in FinishSome}

Paths(op) ==
    CASE op = "runtimeRequest" -> RuntimeRequest
      [] op = "runtimeSend" -> RuntimeSend
      [] op = "runtimeCancel" -> {Brief("broker")}
      [] op = "peerText" -> PeerText
      [] op = "inboundResponse" -> InboundResponse
      [] op = "inboundDeadline" -> InboundDeadline
      [] op = "admit" -> FinishSome
      [] op = "finish" -> FinishSome
      [] op = "finalized" -> {Brief("index")}
      [] op = "unregister" -> {Brief("store")}
      [] op = "attach" -> Attach
      [] op = "attachUnknown" -> AttachUnknown
      [] op = "sessionClosed" -> SessionClosed
      [] op = "sessionClosedCall" -> SessionClosedCall

-----------------------------------------------------------------------------

LockInit ==
    /\ holder = [m \in Mutexes |-> NoThread]
    /\ doing = [t \in Threads |-> Idle]
    /\ path = [t \in Threads |-> <<>>]

Start(t, op) ==
    /\ doing[t] = Idle
    /\ doing' = [doing EXCEPT ![t] = op]
    /\ \E p \in Paths(op) : path' = [path EXCEPT ![t] = p]
    /\ UNCHANGED holder

NextIs(t, act) == path[t] # <<>> /\ Head(path[t]).act = act

Acquire(t) ==
    /\ NextIs(t, "lock")
    /\ LET m == Head(path[t]).mutex
       IN holder[m] = NoThread /\ holder' = [holder EXCEPT ![m] = t]
    /\ path' = [path EXCEPT ![t] = Tail(@)]
    /\ UNCHANGED doing

Release(t) ==
    /\ NextIs(t, "unlock")
    /\ holder' = [holder EXCEPT ![Head(path[t]).mutex] = NoThread]
    /\ path' = [path EXCEPT ![t] = Tail(@)]
    /\ UNCHANGED doing

Done(t) ==
    /\ doing[t] # Idle /\ path[t] = <<>>
    /\ doing' = [doing EXCEPT ![t] = Idle]
    /\ UNCHANGED <<holder, path>>

LockNext == \E t \in Threads :
    Acquire(t) \/ Release(t) \/ Done(t) \/ \E op \in Operations : Start(t, op)

\* Running threads run; a mutex released again and again is not withheld for ever.
LockFairness == \A t \in Threads :
    SF_lockVars(Acquire(t)) /\ WF_lockVars(Release(t)) /\ WF_lockVars(Done(t))

LockSpec == LockInit /\ [][LockNext]_lockVars
FairLockSpec == LockSpec /\ LockFairness

-----------------------------------------------------------------------------
(* Properties *)

\* t waits, directly or not, for itself.
Deadlocked(t) ==
    \E S \in SUBSET Threads :
        /\ t \in S
        /\ \A s \in S : NextIs(s, "lock") /\ holder[Head(path[s]).mutex] \in S

\* No threads of the lane wait for each other, nor one for itself: index, broker and store
\* mutexes are taken in one order (index.rs, broker.rs, supervisor/ws.rs).
NoDeadlock == \A t \in Threads : ~Deadlocked(t)

\* An operation of the lane that has started ends (lane.rs).
OperationEnds == \A t \in Threads : doing[t] # Idle ~> doing[t] = Idle

\* A write over budget finishes the client: the thread that found it out goes on.
\* Violated: write_text (index.rs) finishes the client under the broker's mutex.
SlowClientIsFinished ==
    \A t \in Threads : doing[t] \in Slow => ~Deadlocked(t)

\* The loss of a session with pending calls is processed.  Violated: on_session_closed
\* (supervisor/ws.rs) keeps the store's mutex while it takes the broker's.
LostCallsAreFailed == \A t \in Threads : doing[t] = "sessionClosedCall" => ~Deadlocked(t)

\* Attaching a client that was replaced meanwhile returns.  Violated: attach (index.rs)
\* closes the generation under the index mutex.
AttachReturns == \A t \in Threads : doing[t] = "attachUnknown" => ~Deadlocked(t)
=============================================================================
