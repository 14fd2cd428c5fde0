------------------------------ MODULE WsRequests ------------------------------
(***************************************************************************)
(* Requests over a client WebSocket, both ways: the broker                 *)
(* (router/src/ws/broker.rs) and the dispatch store                        *)
(* (router/src/supervisor/ws.rs) between a runtime session and the peer.   *)
(*                                                                         *)
(* Each action is what happens under one lock.  dispatch_inbound runs with *)
(* the broker locked, so between its two steps the broker does nothing     *)
(* else; what waiting for those locks can lead to is WsLocks.  How a       *)
(* client comes and goes is WsConnections: here it opens once, and the     *)
(* index may finish it at any time.                                        *)
(***************************************************************************)
EXTENDS SessionLife, Naturals, Sequences, FiniteSets, SequencesExt

CONSTANTS Sockets, Requests,   \* clients; connection.request ids of the runtimes
          PeerIds,             \* JSON-RPC ids a peer uses
          MaxExecutions,       \* bound on execution_sequence of a generation
          OutboundCapacity, InboundCapacity,             \* of the broker
          OutboundPerGeneration, InboundPerGeneration,   \* of one client
          TombstoneCapacity,
          MaxConcurrency,      \* permits of a session in the pool of the connect selector
          NoCall, NoSocket

Call == [sock : Sockets, id : PeerIds, exec : 0 .. MaxExecutions - 1]
Key == [sock : Sockets, id : PeerIds]
Replies == {"result", "error", "timeout"}

ASSUME WsRequestAssumption ==
    /\ MaxExecutions \in Nat /\ OutboundCapacity \in Nat /\ InboundCapacity \in Nat
    /\ OutboundPerGeneration \in Nat /\ InboundPerGeneration \in Nat
    /\ TombstoneCapacity \in Nat /\ MaxConcurrency \in Nat
    /\ NoCall \notin Call /\ NoSocket \notin Sockets /\ NoConnection \notin Connections

VARIABLES
    attached,   \* clients the index has attached
    gens,       \* generations of the broker
    pins,       \* connections of the store
    runtime,    \* the session a client is pinned to
    state,      \* what became of a connection.request
    via,        \* the session and the client of a connection.request
    outActive,  \* outbound_active of a generation
    outTomb,    \* outbound_tombstones
    answers,    \* responses sent to the runtime for a request
    active,     \* inbound_by_peer: calls of the peer
    inActive,   \* inbound_active of a generation
    inTomb,     \* inbound_tombstones
    execs,      \* execution_sequence of a generation
    inserting,  \* the call whose frame is written and not in the store yet
    calls,      \* inbound of the store
    inFlight,   \* permits of the pool that are taken
    connecting, \* reservations of the connect selector, which takes from the same pool
    wire,       \* request.start frames at a runtime
    results,    \* calls taken from the store, on their way to the broker
    timers,     \* calls whose deadline timer runs
    told,       \* replies written to the peer of a call
    closing     \* the closed session the consumer works on

clientVars == <<attached, gens, pins, runtime>>
outVars == <<state, via, outActive, outTomb, answers>>
brokerVars == <<active, inActive, inTomb, execs, told>>
storeVars == <<calls, inFlight, connecting, wire, results, timers>>
rpcVars == <<clientVars, outVars, brokerVars, inserting, storeVars, closing>>
rpcAll == <<lifeVars, rpcVars>>

Pending(o) == state[o] = "pending"
KeyOf(c) == [sock |-> c.sock, id |-> c.id]

\* The clients and the sessions they are pinned to.
ClientTypeOK ==
    /\ attached \subseteq Sockets /\ gens \subseteq Sockets /\ pins \subseteq Sockets
    /\ runtime \in [Sockets -> Connections \cup {NoConnection}]
    /\ closing \in Connections \cup {NoConnection}

\* Requests of the runtimes, within the limits of the broker and of each client.
OutboundTypeOK ==
    /\ state \in [Requests -> {"new", "pending", "answered", "cancelled", "failed", "detached"}]
    /\ via \in [Requests -> [session : Connections \cup {NoConnection},
                            sock : Sockets \cup {NoSocket}]]
    /\ Cardinality({o \in Requests : Pending(o)}) <= OutboundCapacity
    /\ outActive \in [Sockets -> 0 .. OutboundPerGeneration]
    /\ answers \in [Requests -> Nat]

\* Calls of the peers, within the limits of the broker, of each client and of the pool.
InboundTypeOK ==
    /\ active \subseteq Call /\ Cardinality(active) <= InboundCapacity
    /\ inActive \in [Sockets -> 0 .. InboundPerGeneration]
    /\ execs \in [Sockets -> 0 .. MaxExecutions]
    /\ inserting \in Call \cup {NoCall}
    /\ calls \subseteq Call /\ wire \subseteq Call /\ results \subseteq Call /\ timers \subseteq Call
    /\ inFlight \in [Connections -> 0 .. MaxConcurrency]
    /\ connecting \in [Connections -> Nat]
    /\ told \in [Call -> Seq(Replies)]

\* One type invariant: every variable holds what the code's types and limits allow.
RpcTypeOK ==
    /\ ClientTypeOK /\ OutboundTypeOK /\ InboundTypeOK
    /\ outTomb \in Seq(Requests) /\ Len(outTomb) <= TombstoneCapacity
    /\ inTomb \in Seq(Key) /\ Len(inTomb) <= TombstoneCapacity

RpcInit ==
    /\ LifeInit
    /\ attached = {} /\ gens = {} /\ pins = {}
    /\ runtime = [w \in Sockets |-> NoConnection]
    /\ state = [o \in Requests |-> "new"]
    /\ via = [o \in Requests |-> [session |-> NoConnection, sock |-> NoSocket]]
    /\ outActive = [w \in Sockets |-> 0] /\ inActive = [w \in Sockets |-> 0]
    /\ outTomb = <<>> /\ inTomb = <<>>
    /\ answers = [o \in Requests |-> 0]
    /\ active = {} /\ calls = {} /\ wire = {} /\ results = {} /\ timers = {}
    /\ execs = [w \in Sockets |-> 0]
    /\ inserting = NoCall
    /\ inFlight = [c \in Connections |-> 0] /\ connecting = [c \in Connections |-> 0]
    /\ told = [c \in Call |-> <<>>]
    /\ closing = NoConnection

BrokerFree == inserting = NoCall
Reads(c) == stage[c] = "registered" /\ BrokerFree

\* TombstoneStore::add
Bury(tomb, key) == IF Len(tomb) < TombstoneCapacity THEN Append(tomb, key)
                   ELSE IF TombstoneCapacity = 0 THEN <<>> ELSE Append(Tail(tomb), key)
\* The entries of a map are buried in no particular order.
BuryAll(tomb, keys) ==
    {FoldSeq(LAMBDA k, acc : Bury(acc, k), tomb, order) : order \in SetToSeqs(keys)}

-----------------------------------------------------------------------------
(* Clients *)

\* The selector takes a permit for the connect of some client, which WsConnections follows.
ConnectReserves(c) ==
    /\ Selectable(c) /\ inFlight[c] < MaxConcurrency
    /\ inFlight' = [inFlight EXCEPT ![c] = @ + 1]
    /\ connecting' = [connecting EXCEPT ![c] = @ + 1]
    /\ UNCHANGED <<lifeVars, clientVars, outVars, brokerVars, inserting, calls, wire, results,
                   timers, closing>>

\* It gives the permit back: the connect was accepted or has failed.
ConnectReleases(c) ==
    /\ connecting[c] > 0
    /\ inFlight' = [inFlight EXCEPT ![c] = @ - 1]
    /\ connecting' = [connecting EXCEPT ![c] = @ - 1]
    /\ UNCHANGED <<lifeVars, clientVars, outVars, brokerVars, inserting, calls, wire, results,
                   timers, closing>>

\* An accepted client, whose connect has given its permit back, is attached and pinned.
Open(w, c) ==
    /\ runtime[w] = NoConnection /\ Selectable(c)
    /\ runtime' = [runtime EXCEPT ![w] = c]
    /\ attached' = attached \cup {w} /\ gens' = gens \cup {w} /\ pins' = pins \cup {w}
    /\ UNCHANGED <<lifeVars, outVars, brokerVars, inserting, storeVars, closing>>

\* The index finishes the client: it left, was too slow or was replaced.
Finish(w) ==
    /\ w \in attached
    /\ attached' = attached \ {w}
    /\ UNCHANGED <<lifeVars, gens, pins, runtime, outVars, brokerVars, inserting, storeVars,
                   closing>>

\* A captured writer takes a frame of an attached client, unless its queue is full.
Writes(w) == IF w \in attached THEN BOOLEAN ELSE {FALSE}

\* unregister_connection, when the reader of the client has ended, and so is not inside
\* dispatch_inbound: the calls of the client leave the store with their permits.
Unregister(w) ==
    /\ w \notin attached /\ (w \in pins \/ \E c \in calls : c.sock = w)
    /\ inserting \notin {c \in Call : c.sock = w}
    /\ pins' = pins \ {w}
    /\ LET mine == {c \in calls : c.sock = w}
       IN /\ calls' = calls \ mine
          /\ inFlight' = [inFlight EXCEPT ![runtime[w]] = @ - Cardinality(mine)]
    /\ UNCHANGED <<lifeVars, attached, gens, runtime, outVars, brokerVars, inserting, connecting,
                   wire, results, timers, closing>>

-----------------------------------------------------------------------------
(* connection.request: a runtime asks the peer *)

\* detach_outbound of the requests of S, settled as given.
DetachOutbound(S, to) ==
    /\ state' = [o \in Requests |-> IF o \in S THEN to ELSE state[o]]
    /\ outActive' = [w \in Sockets |-> outActive[w] - Cardinality({o \in S : via[o].sock = w})]
    /\ outTomb' \in BuryAll(outTomb, S)

\* respond: a response reaches a session that can be written to.
Respond(S) ==
    answers' = [o \in Requests |->
                   IF o \in S /\ Writable(via[o].session) THEN answers[o] + 1 ELSE answers[o]]

Asks(o, c, w) == via' = [via EXCEPT ![o] = [session |-> c, sock |-> w]]

\* The capacity of the broker and that of the client's generation.
HasRoom(w) ==
    /\ Cardinality({q \in Requests : Pending(q)}) < OutboundCapacity
    /\ outActive[w] < OutboundPerGeneration

\* No open generation, or too many requests: the runtime is told and nothing is kept.
RequestRefused(o, c, w) ==
    /\ state[o] = "new" /\ Reads(c)
    /\ w \notin gens \/ ~HasRoom(w)
    /\ Asks(o, c, w)
    /\ state' = [state EXCEPT ![o] = "answered"]
    /\ answers' = [answers EXCEPT ![o] = @ + 1]
    /\ UNCHANGED <<lifeVars, clientVars, outActive, outTomb, brokerVars, inserting, storeVars,
                   closing>>

RequestWritten(o, c, w) ==
    /\ state[o] = "new" /\ Reads(c)
    /\ w \in gens /\ HasRoom(w) /\ TRUE \in Writes(w)
    /\ Asks(o, c, w)
    /\ state' = [state EXCEPT ![o] = "pending"]
    /\ outActive' = [outActive EXCEPT ![w] = @ + 1]
    /\ UNCHANGED <<lifeVars, clientVars, outTomb, answers, brokerVars, inserting, storeVars,
                   closing>>

\* The write fails: the request is detached and answered, and the sink returns
\* MalformedFrame, which ends the session.
RequestUnwritten(o, c, w) ==
    /\ state[o] = "new" /\ Reads(c)
    /\ w \in gens /\ HasRoom(w) /\ FALSE \in Writes(w)
    /\ Asks(o, c, w)
    /\ state' = [state EXCEPT ![o] = "failed"]
    /\ answers' = [answers EXCEPT ![o] = @ + 1]
    /\ outTomb' = Bury(outTomb, o)
    /\ LifeLeave(c)
    /\ UNCHANGED <<clientVars, outActive, brokerVars, inserting, storeVars, closing>>

\* connection.request.cancel
RequestCancel(o) ==
    /\ Pending(o) /\ Reads(via[o].session)
    /\ DetachOutbound({o}, "cancelled")
    /\ UNCHANGED <<lifeVars, clientVars, via, answers, brokerVars, inserting, storeVars, closing>>

\* A response of the peer settles the request; a late one is dropped while its
\* tombstone stands and ends the client afterwards, as does one that does not decode.
PeerResponds(o) ==
    /\ BrokerFree
    /\ state[o] \in {"pending", "cancelled", "answered"} /\ via[o].sock \in gens
    /\ \/ Pending(o) /\ DetachOutbound({o}, "answered") /\ Respond({o}) /\ UNCHANGED attached
       \/ /\ Pending(o) \/ ~Contains(outTomb, o)
          /\ attached' = attached \ {via[o].sock}
          /\ UNCHANGED <<state, outActive, outTomb, answers>>
    /\ UNCHANGED <<lifeVars, gens, pins, runtime, via, brokerVars, inserting, storeVars, closing>>

\* A tombstone is older than tombstone_ttl_ms.
TombstoneExpires ==
    /\ BrokerFree
    /\ \/ outTomb # <<>> /\ outTomb' = Tail(outTomb) /\ UNCHANGED inTomb
       \/ inTomb # <<>> /\ inTomb' = Tail(inTomb) /\ UNCHANGED outTomb
    /\ UNCHANGED <<lifeVars, clientVars, state, via, outActive, answers, active, inActive, execs,
                   told, inserting, storeVars, closing>>

-----------------------------------------------------------------------------
(* A peer calls the runtime *)

Known(w, p) == \/ \E c \in active : KeyOf(c) = [sock |-> w, id |-> p]
               \/ Contains(inTomb, [sock |-> w, id |-> p])

\* detach_inbound of the calls of S.
DetachInbound(S) ==
    /\ active' = active \ S
    /\ inActive' = [w \in Sockets |-> inActive[w] - Cardinality({c \in S : c.sock = w})]
    /\ inTomb' \in BuryAll(inTomb, {KeyOf(c) : c \in S})

\* The reply is written; when it cannot be, the lane finishes the client.
Reply(c, reply, ok) ==
    /\ told' = IF ok THEN [told EXCEPT ![c] = Append(@, reply)] ELSE told
    /\ attached' = IF ok THEN attached ELSE attached \ {c.sock}

\* A repeated id ends the client.
PeerRepeats(w, p) ==
    /\ BrokerFree /\ w \in gens /\ Known(w, p)
    /\ attached' = attached \ {w}
    /\ UNCHANGED <<lifeVars, gens, pins, runtime, outVars, brokerVars, inserting, storeVars,
                   closing>>

\* Too many calls, or no such method: an error reply and a tombstone.
PeerCallRefused(w, p) ==
    /\ BrokerFree /\ w \in gens /\ ~Known(w, p)
    /\ inTomb' = Bury(inTomb, [sock |-> w, id |-> p])
    /\ \E ok \in Writes(w) : attached' = IF ok THEN attached ELSE attached \ {w}
    /\ UNCHANGED <<lifeVars, gens, pins, runtime, outVars, active, inActive, execs, told,
                   inserting, storeVars, closing>>

NewCall(w, p) == [sock |-> w, id |-> p, exec |-> execs[w]]

HasInboundRoom(w) ==
    Cardinality(active) < InboundCapacity /\ inActive[w] < InboundPerGeneration

\* A pin, a permit of the exact session, of those connects have left, and its writer.
CanDispatch(w) ==
    w \in pins /\ inFlight[runtime[w]] < MaxConcurrency /\ Writable(runtime[w])

\* handle_inbound_request up to the frame written by dispatch_inbound, which holds a
\* permit.
PeerCall(w, p) ==
    /\ BrokerFree /\ w \in gens /\ ~Known(w, p)
    /\ HasInboundRoom(w) /\ execs[w] < MaxExecutions
    /\ CanDispatch(w)
    /\ LET c == NewCall(w, p)
       IN active' = active \cup {c} /\ wire' = wire \cup {c} /\ inserting' = c
    /\ execs' = [execs EXCEPT ![w] = @ + 1]
    /\ inActive' = [inActive EXCEPT ![w] = @ + 1]
    /\ inFlight' = [inFlight EXCEPT ![runtime[w]] = @ + 1]
    /\ UNCHANGED <<lifeVars, clientVars, outVars, inTomb, told, calls, connecting, results, timers,
                   closing>>

\* No pin, no permit or no writer: the call is answered and detached at once.
PeerCallFails(w, p) ==
    /\ BrokerFree /\ w \in gens /\ ~Known(w, p)
    /\ HasInboundRoom(w) /\ execs[w] < MaxExecutions
    /\ ~CanDispatch(w)
    /\ \E ok \in Writes(w) : Reply(NewCall(w, p), "error", ok)
    /\ execs' = [execs EXCEPT ![w] = @ + 1]
    /\ inTomb' = Bury(inTomb, [sock |-> w, id |-> p])
    /\ UNCHANGED <<lifeVars, gens, pins, runtime, outVars, active, inActive, inserting,
                   storeVars, closing>>

\* The call enters the store and its deadline timer is spawned.
CallInserted ==
    /\ inserting # NoCall
    /\ calls' = calls \cup {inserting} /\ timers' = timers \cup {inserting}
    /\ inserting' = NoCall
    /\ UNCHANGED <<lifeVars, clientVars, outVars, brokerVars, inFlight, connecting, wire, results,
                   closing>>

Free(S) ==
    inFlight' = [s \in Connections |-> inFlight[s] - Cardinality({c \in S : runtime[c.sock] = s})]

\* Mutation: the permit of an answered call is kept.
RuntimeAnswersKeeps(c) ==
    /\ c \in wire /\ stage[runtime[c.sock]] = "registered"
    /\ wire' = wire \ {c} /\ calls' = calls \ {c}
    /\ results' = results \cup ({c} \cap calls)
    /\ UNCHANGED <<lifeVars, clientVars, outVars, brokerVars, inserting, inFlight, connecting,
                   timers, closing>>

\* on_inbound_response, on_inbound_terminal: without a pending entry nothing happens.
RuntimeAnswers(c) ==
    /\ c \in wire /\ stage[runtime[c.sock]] = "registered"
    /\ wire' = wire \ {c} /\ calls' = calls \ {c}
    /\ results' = results \cup ({c} \cap calls)
    /\ Free({c} \cap calls)
    /\ UNCHANGED <<lifeVars, clientVars, outVars, brokerVars, inserting, connecting, timers,
                   closing>>

\* Mutation: the completion looks its call up by peer id, not by execution token.
CompleteInboundById(c) ==
    /\ c \in results /\ BrokerFree
    /\ results' = results \ {c}
    /\ LET hit == {d \in active : KeyOf(d) = KeyOf(c)}
       IN /\ DetachInbound(hit)
          /\ told' = [d \in Call |-> IF d \in hit THEN Append(told[d], "result") ELSE told[d]]
    /\ UNCHANGED <<lifeVars, clientVars, outVars, execs, inserting, calls, inFlight, connecting,
                   wire, timers, closing>>

\* complete_inbound: only the execution that is still active is told.
CompleteInbound(c) ==
    /\ c \in results /\ BrokerFree
    /\ results' = results \ {c}
    /\ IF c \in active
       THEN DetachInbound({c}) /\ \E ok \in Writes(c.sock) : Reply(c, "result", ok)
       ELSE UNCHANGED <<active, inActive, inTomb, told, attached>>
    /\ UNCHANGED <<lifeVars, gens, pins, runtime, outVars, execs, inserting, calls, inFlight,
                   connecting, wire, timers, closing>>

\* Mutation: the deadline is reported even if the call was completed.
InboundDeadlineAlways(c) ==
    /\ c \in timers /\ BrokerFree /\ c.sock \in gens
    /\ timers' = timers \ {c}
    /\ DetachInbound({c} \cap active)
    /\ told' = [told EXCEPT ![c] = Append(@, "timeout")]
    /\ UNCHANGED <<lifeVars, clientVars, outVars, execs, inserting, calls, inFlight, connecting,
                   wire, results, closing>>

\* fire_inbound_deadline; a reply that cannot be written is dropped.
InboundDeadline(c) ==
    /\ c \in timers /\ BrokerFree
    /\ timers' = timers \ {c}
    /\ IF c \in active
       THEN /\ DetachInbound({c})
            /\ \E ok \in Writes(c.sock) :
                   told' = IF ok THEN [told EXCEPT ![c] = Append(@, "timeout")] ELSE told
       ELSE UNCHANGED <<active, inActive, inTomb, told>>
    /\ UNCHANGED <<lifeVars, clientVars, outVars, execs, inserting, calls, inFlight, connecting,
                   wire, results, closing>>

-----------------------------------------------------------------------------
(* The end of a generation and of a session *)

Outstanding(w) == {o \in Requests : Pending(o) /\ via[o].sock = w}

\* What is detached is buried, then the tombstones of the generation go.
RemoveGeneration(w) ==
    LET mine == {KeyOf(c) : c \in {d \in active : d.sock = w}}
    IN /\ outTomb' \in {SelectSeq(t, LAMBDA o : via[o].sock # w) :
                         t \in BuryAll(outTomb, Outstanding(w))}
       /\ inTomb' \in {SelectSeq(t, LAMBDA k : k.sock # w) : t \in BuryAll(inTomb, mine)}

\* close_generation, the inline step of the finalizer.
CloseGeneration(w) ==
    /\ BrokerFree /\ w \in gens \ attached
    /\ gens' = gens \ {w}
    /\ state' = [o \in Requests |-> IF o \in Outstanding(w) THEN "answered" ELSE state[o]]
    /\ Respond(Outstanding(w))
    /\ outActive' = [outActive EXCEPT ![w] = 0] /\ inActive' = [inActive EXCEPT ![w] = 0]
    /\ active' = {c \in active : c.sock # w}
    /\ RemoveGeneration(w)
    /\ UNCHANGED <<lifeVars, attached, pins, runtime, via, execs, told, inserting, storeVars,
                   closing>>

Pinned(s) == {w \in Sockets : runtime[w] = s}

\* store.on_session_closed: pins and calls of the session go; a call still active is
\* told and a client that cannot be told is finished.  Without calls it does not need
\* the broker, and may run before a call already written is inserted.
ConsumeBegin(s) ==
    /\ s \in inbox /\ closing = NoConnection
    /\ BrokerFree \/ \A c \in calls : c.sock \notin Pinned(s)
    /\ closing' = s
    /\ pins' = pins \ Pinned(s)
    /\ LET mine == {c \in calls : c.sock \in Pinned(s)}
           deaf == {w \in Pinned(s) : \E c \in mine \cap active : c.sock = w}
       IN /\ calls' = calls \ mine /\ Free(mine)
          /\ DetachInbound(mine \cap active)
          /\ \E D \in SUBSET deaf :
                /\ deaf \ attached \subseteq D
                /\ attached' = attached \ D
                /\ told' = [c \in Call |-> IF c \in mine \cap active /\ c.sock \notin D
                                           THEN Append(told[c], "error") ELSE told[c]]
    /\ UNCHANGED <<lifeVars, gens, runtime, outVars, execs, inserting, connecting, wire, results,
                   timers>>

\* lane.runtime_disconnected: the broker detaches the requests of the session, the
\* index finishes its clients.
ConsumeEnd(s) ==
    /\ closing = s /\ BrokerFree
    /\ DetachOutbound({o \in Requests : Pending(o) /\ via[o].session = s}, "detached")
    /\ attached' = attached \ Pinned(s)
    /\ closing' = NoConnection
    /\ LifeConsume(s)
    /\ UNCHANGED <<gens, pins, runtime, via, answers, brokerVars, inserting, storeVars>>

SessionMoves ==
    /\ \E c \in Connections : LifeStep(c)
    /\ UNCHANGED rpcVars

-----------------------------------------------------------------------------

Consumer(s) == ConsumeBegin(s) \/ ConsumeEnd(s)
Settle == (\E c \in Call : CompleteInbound(c)) \/ (\E c \in Call : InboundDeadline(c))

RpcNext ==
    \/ SessionMoves \/ TombstoneExpires \/ CallInserted \/ Settle
    \/ \E s \in Connections : Consumer(s) \/ ConnectReserves(s) \/ ConnectReleases(s)
    \/ \E c \in Call : RuntimeAnswers(c)
    \/ \E w \in Sockets :
          \/ Finish(w) \/ CloseGeneration(w) \/ Unregister(w)
          \/ \E s \in Connections : Open(w, s)
          \/ \E p \in PeerIds : PeerRepeats(w, p) \/ PeerCallRefused(w, p) \/ PeerCall(w, p)
                                \/ PeerCallFails(w, p)
          \/ \E o \in Requests, s \in Connections :
                RequestRefused(o, s, w) \/ RequestWritten(o, s, w) \/ RequestUnwritten(o, s, w)
    \/ \E o \in Requests : RequestCancel(o) \/ PeerResponds(o)

\* Tasks and timers of the Router run; peers and runtimes need not answer, and an
\* outbound request has no timer: fire_deadline has no caller.  No passing property
\* depends on Unregister.
RpcFairness ==
    /\ WF_rpcAll(CallInserted)
    /\ \A c \in Call : WF_rpcAll(CompleteInbound(c)) /\ SF_rpcAll(InboundDeadline(c))
    /\ \A w \in Sockets : SF_rpcAll(CloseGeneration(w)) /\ WF_rpcAll(Unregister(w))
    /\ \A s \in Connections : SF_rpcAll(ConsumeBegin(s)) /\ SF_rpcAll(ConsumeEnd(s))

RpcSpec == RpcInit /\ [][RpcNext]_rpcAll
FairRpcSpec == RpcSpec /\ RpcFairness

-----------------------------------------------------------------------------
(* Properties *)

\* The counters the limits are checked against agree with what is pending: the
\* per-generation counters of the broker with its requests and calls, and the permits taken
\* with the calls of the store and the connects, which share one pool
\* (broker.rs detach_outbound, detach_inbound; supervisor/ws.rs).
CountersAreExact ==
    /\ \A w \in gens : /\ outActive[w] = Cardinality(Outstanding(w))
                       /\ inActive[w] = Cardinality({c \in active : c.sock = w})
    /\ \A s \in Connections :
           inFlight[s] = connecting[s]
                         + Cardinality({c \in calls \cup ({inserting} \ {NoCall}) :
                                            runtime[c.sock] = s})

\* A request of the runtime is answered at most once, and a call of the peer told at
\* most once, whatever races: response, cancel, deadline, lost session, closed client.
\* A cancelled or detached request is not answered at all (broker.rs).
SettledOnce ==
    /\ \A o \in Requests :
           answers[o] <= (IF state[o] \in {"cancelled", "detached"} THEN 0 ELSE 1)
    /\ \A c \in Call : Len(told[c]) <= 1

\* A result goes to the execution that produced it: a reused JSON-RPC id never gets the
\* result of the call that had it before (broker.rs complete_inbound).
ResultIsOwn == \A c \in Call : told[c] = <<"result">> => c \notin wire /\ c \notin calls

\* Nothing is pending for a client without a generation, or for a session whose loss has
\* been processed (broker.rs close_generation, runtime_disconnected).
PendingHasOwners ==
    /\ \A c \in active : c.sock \in gens
    /\ \A o \in Requests : Pending(o) =>
           /\ via[o].sock \in gens
           /\ stage[via[o].session] = "barrier" => via[o].session \in inbox

\* A call of a peer does not stay pending (broker.rs fire_inbound_deadline).
CallEnds == \A c \in Call : c \in active ~> c \notin active

\* A request to a client that is gone does not stay pending (broker.rs
\* close_generation).
RequestEndsWithClient ==
    \A o \in Requests : (Pending(o) /\ via[o].sock \notin attached) ~> ~Pending(o)

\* A writer that fails settles its own request and nothing else: the session goes on.
\* Violated: sinks.rs turns the failed write into a protocol error of the session.
WriterFailureIsContained ==
    [][\A o \in Requests : state[o] = "new" /\ state'[o] = "failed" => stage' = stage]_rpcAll

\* A connection.request with a deadline ends.  Violated: nothing calls fire_deadline
\* (broker.rs).
RequestDeadlineEnds == \A o \in Requests : Pending(o) ~> ~Pending(o)

\* A call that timed out gives its permit back.  Violated: the timer does not look into
\* the store (supervisor/ws.rs dispatch_inbound).
TimedOutCallReturnsPermit ==
    \A c \in Call : (c \in calls /\ c \notin active) ~> (c \notin calls)
=============================================================================
