----------------------------- MODULE WsConnections -----------------------------
(***************************************************************************)
(* Client WebSocket connections: the upgrade handler and peer task of the  *)
(* public listener (router/src/listener.rs), the connection index with its *)
(* business replacement and finalizer (router/src/ws/index.rs), the        *)
(* generations of the broker (router/src/ws/broker.rs) and the pins and    *)
(* connect correlations of the dispatch store (router/src/supervisor/ws.rs)*)
(*                                                                         *)
(* Index, broker and store have a mutex each; a step is what one of them   *)
(* does under its lock.  The runtime sessions are SessionLife's.           *)
(***************************************************************************)
EXTENDS SessionLife, Naturals, Sequences, FiniteSets, SequencesExt

CONSTANTS Sockets,            \* client connections, one connection id each
          Keys,               \* business keys
          Accepts,            \* what a connect handler may accept a client with
          ConnectionLimit, HighWaterCapacity,
          MaxConcurrency,     \* permits of a session in the pool of the connect selector
          NoKey, NoRank, NoAnswer, Rejected, Unavailable

Acceptance == [key : Keys \cup {NoKey}, rank : Nat \cup {NoRank}, max : Nat \ {0},
               overflow : {"closeOldest", "rejectNew"}]

ASSUME WsAssumption ==
    /\ Accepts \subseteq Acceptance
    /\ ConnectionLimit \in Nat /\ HighWaterCapacity \in Nat /\ MaxConcurrency \in Nat
    /\ NoKey \notin Keys /\ NoRank \notin Nat
    /\ NoAnswer \notin Accepts \cup {Rejected, Unavailable}

VARIABLES
    up,         \* how far the handler, then the peer task, of a socket is
    rec,        \* connections_by_id: the state of its record
    terminal,   \* terminals_by_id
    policy,     \* the acceptance of the connect handler
    order,      \* business_order
    highWater,  \* high_water
    runtime,    \* the session the connection is pinned to
    permits,    \* reservations of the connect selector
    connects,   \* connect correlations of the store
    answer,     \* the value of the connect watch channel
    asked,      \* websocketConnect frames at a runtime
    pins,       \* connections of the store
    gens,       \* generations of the broker
    fin,        \* where the finalizer of a connection is
    socket,     \* the socket: open, close frame written, writer task aborted
    notified,   \* connectionClosed frames written
    closing     \* the closed session the consumer works on

connectVars == <<permits, connects, answer, asked>>
indexVars == <<rec, terminal, order, highWater>>
wsVars == <<up, indexVars, policy, runtime, connectVars, pins, gens, fin, socket, notified,
            closing>>
wsAll == <<lifeVars, wsVars>>

Ups == {"new", "reserved", "selected", "written", "connecting", "accepted", "admitted",
        "refused", "registered", "refusedRegistered", "starting", "attaching", "reading",
        "leaving", "ended"}
Terminals == {"none", "peerClose", "replacement", "policyRejected", "runtimeDisconnect",
              "slowClient", "protocolClose", "releaseTimeout", "transportError"}

\* One type invariant: every variable holds what the code's types allow.
WsTypeOK ==
    /\ up \in [Sockets -> Ups]
    /\ rec \in [Sockets -> {"none", "Reserved", "Admitted", "Attached"}]
    /\ Cardinality({w \in Sockets : rec[w] # "none"}) <= ConnectionLimit
    /\ terminal \in [Sockets -> Terminals]
    /\ policy \in [Sockets -> Accepts \cup {NoAnswer}]
    /\ order \in [Keys -> Seq(Sockets)]
    /\ highWater \in [Keys -> Nat \cup {NoRank}]
    /\ Cardinality({k \in Keys : highWater[k] # NoRank}) <= HighWaterCapacity
    /\ runtime \in [Sockets -> Connections \cup {NoConnection}]
    /\ permits \subseteq Sockets /\ connects \subseteq Sockets /\ asked \subseteq Sockets
    /\ answer \in [Sockets -> Accepts \cup {Rejected, Unavailable, NoAnswer}]
    /\ pins \subseteq Sockets /\ gens \subseteq Sockets
    /\ fin \in [Sockets -> {"none", "detach", "drain", "done"}]
    /\ socket \in [Sockets -> {"none", "open", "closeSent", "aborted"}]
    /\ notified \in [Sockets -> Nat]
    /\ closing \in Connections \cup {NoConnection}

WsInit ==
    /\ LifeInit
    /\ up = [w \in Sockets |-> "new"]
    /\ rec = [w \in Sockets |-> "none"]
    /\ terminal = [w \in Sockets |-> "none"]
    /\ policy = [w \in Sockets |-> NoAnswer]
    /\ order = [k \in Keys |-> <<>>]
    /\ highWater = [k \in Keys |-> NoRank]
    /\ runtime = [w \in Sockets |-> NoConnection]
    /\ permits = {} /\ connects = {} /\ asked = {} /\ pins = {} /\ gens = {}
    /\ answer = [w \in Sockets |-> NoAnswer]
    /\ fin = [w \in Sockets |-> "none"]
    /\ socket = [w \in Sockets |-> "none"]
    /\ notified = [w \in Sockets |-> 0]
    /\ closing = NoConnection

At(w, stop) == up[w] = stop
Goto(w, stop) == up' = [up EXCEPT ![w] = stop]
Indexed(w) == rec[w] # "none"

-----------------------------------------------------------------------------
(* finish_locked *)

\* order.retain: what is left of a business order, in its order.
Without(seq, S) ==
    LET kept[n \in 0 .. Len(seq)] ==
            IF n = 0 THEN <<>>
            ELSE IF seq[n] \in S THEN kept[n - 1] ELSE Append(kept[n - 1], seq[n])
    IN  kept[Len(seq)]

\* Mutation: a finished connection keeps its place in the business order.
FinishAllInPlace(S, t, fence) ==
    /\ rec' = [w \in Sockets |-> IF w \in S THEN "none" ELSE rec[w]]
    /\ terminal' = [w \in Sockets |-> IF w \in S THEN t ELSE terminal[w]]
    /\ fin' = [w \in Sockets |-> IF w \in S /\ rec[w] = "Attached" THEN "detach" ELSE fin[w]]
    /\ order' = order /\ highWater' = fence

\* finish_locked of the records of S: each leaves every index with its terminal,
\* and the fence of a key is reclaimed with its last connection.  Only an attached
\* one has a generation and a writer for the finalizer.
FinishAll(S, t, fence) ==
    /\ rec' = [w \in Sockets |-> IF w \in S THEN "none" ELSE rec[w]]
    /\ terminal' = [w \in Sockets |-> IF w \in S THEN t ELSE terminal[w]]
    /\ fin' = [w \in Sockets |-> IF w \in S /\ rec[w] = "Attached" THEN "detach" ELSE fin[w]]
    /\ order' = [k \in Keys |-> Without(order[k], S)]
    /\ highWater' = [k \in Keys |-> IF order[k] # <<>> /\ Without(order[k], S) = <<>>
                                    THEN NoRank ELSE fence[k]]

\* Mutation: finish does not look whether the connection is still indexed.
FinishAgain(w, t) == FinishAll({w}, t, highWater)

\* finish: nothing for a connection that is no longer indexed.
Finish(w, t) == FinishAll({w} \cap {v \in Sockets : Indexed(v)}, t, highWater)

-----------------------------------------------------------------------------
(* The upgrade handler *)

Reserve(w) ==
    /\ At(w, "new")
    /\ Cardinality({v \in Sockets : Indexed(v)}) < ConnectionLimit
    /\ rec' = [rec EXCEPT ![w] = "Reserved"]
    /\ Goto(w, "reserved")
    /\ UNCHANGED <<lifeVars, terminal, order, highWater, policy, runtime, connectVars, pins,
                   gens, fin, socket, notified, closing>>

\* fail_reservation
Fail(w, t) == permits' = permits \ {w} /\ Finish(w, t) /\ Goto(w, "ended")

\* The permits connects hold leave one over.
HasCapacity(c) == Cardinality({w \in permits : runtime[w] = c}) < MaxConcurrency

\* The calls of the clients pinned to a session take permits from the same pool
\* (WsRequests) and may hold all those that connects leave.
MayBeBusy(c) == \E w \in pins : runtime[w] = c

Select(w, c) ==
    /\ At(w, "reserved")
    /\ Selectable(c) /\ HasCapacity(c)
    /\ runtime' = [runtime EXCEPT ![w] = c]
    /\ permits' = permits \cup {w}
    /\ Goto(w, "selected")
    /\ UNCHANGED <<lifeVars, indexVars, policy, connects, answer, asked, pins, gens, fin,
                   socket, notified, closing>>

SelectRefused(w) ==
    /\ At(w, "reserved")
    /\ \A c \in Connections : Selectable(c) /\ HasCapacity(c) => MayBeBusy(c)
    /\ Fail(w, "policyRejected")
    /\ UNCHANGED <<lifeVars, policy, runtime, connects, answer, asked, pins, gens, socket,
                   notified, closing>>

\* connect_begin writes the frame, and inserts the correlation afterwards.
ConnectWrite(w) ==
    /\ At(w, "selected")
    /\ IF Writable(runtime[w])
       THEN /\ asked' = asked \cup {w}
            /\ Goto(w, "written")
            /\ UNCHANGED <<indexVars, permits, fin>>
       ELSE Fail(w, "policyRejected") /\ UNCHANGED asked
    /\ UNCHANGED <<lifeVars, policy, runtime, connects, answer, pins, gens, socket, notified,
                   closing>>

ConnectInsert(w) ==
    /\ At(w, "written")
    /\ connects' = connects \cup {w}
    /\ Goto(w, "connecting")
    /\ UNCHANGED <<lifeVars, indexVars, policy, runtime, permits, answer, asked, pins, gens,
                   fin, socket, notified, closing>>

\* connect_response: the runtime answers its frame; without a correlation the
\* answer is dropped.
ConnectAnswered(w, a) ==
    /\ w \in asked /\ stage[runtime[w]] = "registered"
    /\ asked' = asked \ {w}
    /\ connects' = connects \ {w}
    /\ answer' = IF w \in connects THEN [answer EXCEPT ![w] = a] ELSE answer
    /\ UNCHANGED <<lifeVars, up, indexVars, policy, runtime, permits, pins, gens, fin, socket,
                   notified, closing>>

ConnectTimeout(w) ==
    /\ At(w, "connecting")
    /\ connects' = connects \ {w}
    /\ Fail(w, "releaseTimeout")
    /\ UNCHANGED <<lifeVars, policy, runtime, answer, asked, pins, gens, socket, notified,
                   closing>>

\* The client leaves while the handler awaits the answer, and its future is dropped.
UpgradeDropped(w) ==
    /\ At(w, "connecting")
    /\ Goto(w, "ended")
    /\ UNCHANGED <<lifeVars, indexVars, policy, runtime, connectVars, pins, gens, fin, socket,
                   notified, closing>>

ConnectRefused(w) ==
    /\ At(w, "connecting") /\ answer[w] \in {Rejected, Unavailable}
    /\ Fail(w, "policyRejected")
    /\ UNCHANGED <<lifeVars, policy, runtime, connects, answer, asked, pins, gens, socket,
                   notified, closing>>

ConnectAccepted(w) ==
    /\ At(w, "connecting") /\ answer[w] \in Accepts
    /\ policy' = [policy EXCEPT ![w] = answer[w]]
    /\ permits' = permits \ {w}
    /\ Goto(w, "accepted")
    /\ UNCHANGED <<lifeVars, indexVars, runtime, connects, answer, asked, pins, gens, fin,
                   socket, notified, closing>>

-----------------------------------------------------------------------------
(* admit: business replacement under the admission lock *)

Existing(k) == {w \in Sockets : \E i \in DOMAIN order[k] : order[k][i] = w}

Ranked(a) == a.rank # NoRank

\* The fence of the key refuses the acceptance, or a new key finds no room for one.
FenceRefuses(a) ==
    highWater[a.key] # NoRank /\ (Ranked(a) => a.rank <= highWater[a.key])

FenceFull(a) ==
    /\ Ranked(a) /\ highWater[a.key] = NoRank
    /\ Cardinality({k \in Keys : highWater[k] # NoRank}) >= HighWaterCapacity

\* Mutation: the limit is compared before the new connection is counted.
PolicyRefusesOver(a) ==
    ~Ranked(a) /\ a.overflow = "rejectNew" /\ Len(order[a.key]) > a.max

PolicyRefuses(a) ==
    ~Ranked(a) /\ a.overflow = "rejectNew" /\ Len(order[a.key]) >= a.max

\* The connections the acceptance replaces: all, or the oldest over the limit.
\* A connection without a policy is admitted under rejectNew and never gets here.
Replaced(a) ==
    IF Ranked(a) THEN Existing(a.key)
    ELSE IF Len(order[a.key]) + 1 > a.max /\ a.overflow = "closeOldest"
         THEN {order[a.key][i] : i \in 1 .. (Len(order[a.key]) + 1 - a.max)}
         ELSE {}

Refused(a) == a.key # NoKey /\ (FenceRefuses(a) \/ FenceFull(a) \/ PolicyRefuses(a))

\* A ranked refusal is told after the upgrade, any other ends the handler.
AdmitRefused(w) ==
    /\ At(w, "accepted") /\ Refused(policy[w])
    /\ Finish(w, "policyRejected")
    /\ Goto(w, IF Ranked(policy[w]) THEN "refused" ELSE "ended")
    /\ UNCHANGED <<lifeVars, policy, runtime, connectVars, pins, gens, socket, notified, closing>>

\* The fence is written, the replaced connections are finished, and the new one is
\* indexed last.
Admit(w) ==
    /\ At(w, "accepted") /\ ~Refused(policy[w])
    /\ LET a == policy[w]
           out == IF a.key = NoKey THEN {} ELSE Replaced(a)
           fence == IF a.key # NoKey /\ Ranked(a) THEN [highWater EXCEPT ![a.key] = a.rank]
                    ELSE highWater
           kept(k) == Without(order[k], out)
       IN /\ terminal' = [v \in Sockets |-> IF v \in out THEN "replacement" ELSE terminal[v]]
          /\ rec' = [v \in Sockets |-> IF v = w THEN "Admitted"
                                       ELSE IF v \in out THEN "none" ELSE rec[v]]
          /\ fin' = [v \in Sockets |-> IF v \in out /\ rec[v] = "Attached" THEN "detach"
                                       ELSE fin[v]]
          /\ order' = [k \in Keys |-> IF k = a.key THEN Append(kept(k), w) ELSE order[k]]
          /\ highWater' = [k \in Keys |-> IF order[k] # <<>> /\ kept(k) = <<>> THEN NoRank
                                          ELSE fence[k]]
    /\ Goto(w, "admitted")
    /\ UNCHANGED <<lifeVars, policy, runtime, connectVars, pins, gens, socket, notified, closing>>

-----------------------------------------------------------------------------
(* The upgrade and the peer task *)

Register(w) ==
    /\ up[w] \in {"admitted", "refused"}
    /\ pins' = pins \cup {w}
    /\ Goto(w, IF At(w, "admitted") THEN "registered" ELSE "refusedRegistered")
    /\ UNCHANGED <<lifeVars, indexVars, policy, runtime, connectVars, gens, fin, socket,
                   notified, closing>>

\* unregister_connection: the pin is removed, and the runtime of a pin that was still
\* there is told once, if it can be written to.
Unregister(w) ==
    /\ pins' = pins \ {w}
    /\ notified' = IF w \in pins /\ Writable(runtime[w]) THEN [notified EXCEPT ![w] = @ + 1]
                   ELSE notified

\* The upgrade fails, or a refused client has been sent its close frame.
UpgradeEnds(w) ==
    /\ up[w] \in {"registered", "refusedRegistered"}
    /\ Unregister(w)
    /\ Goto(w, "ended")
    /\ UNCHANGED <<lifeVars, indexVars, policy, runtime, connectVars, gens, fin, socket, closing>>

\* run_client_ws_peer: without a pin it returns at once.
PeerStarts(w) ==
    /\ At(w, "registered")
    /\ Goto(w, IF w \in pins THEN "starting" ELSE "ended")
    /\ UNCHANGED <<lifeVars, indexVars, policy, runtime, connectVars, pins, gens, fin, socket,
                   notified, closing>>

\* attach: the generation first, then the record.
AttachGeneration(w) ==
    /\ At(w, "starting")
    /\ gens' = gens \cup {w}
    /\ Goto(w, "attaching")
    /\ UNCHANGED <<lifeVars, indexVars, policy, runtime, connectVars, pins, fin, socket,
                   notified, closing>>

\* Mutation: a connection replaced meanwhile keeps the generation.
AttachRecordKeeps(w) ==
    /\ At(w, "attaching")
    /\ IF Indexed(w)
       THEN /\ rec' = [rec EXCEPT ![w] = "Attached"]
            /\ socket' = [socket EXCEPT ![w] = "open"]
            /\ Goto(w, "reading")
            /\ UNCHANGED <<gens, pins, notified>>
       ELSE Unregister(w) /\ Goto(w, "ended") /\ UNCHANGED <<rec, socket, gens>>
    /\ UNCHANGED <<lifeVars, terminal, order, highWater, policy, runtime, connectVars, fin,
                   closing>>

AttachRecord(w) ==
    /\ At(w, "attaching")
    /\ IF Indexed(w)
       THEN /\ rec' = [rec EXCEPT ![w] = "Attached"]
            /\ socket' = [socket EXCEPT ![w] = "open"]
            /\ Goto(w, "reading")
            /\ UNCHANGED <<gens, pins, notified>>
       ELSE /\ gens' = gens \ {w}
            /\ Unregister(w)
            /\ Goto(w, "ended")
            /\ UNCHANGED <<rec, socket>>
    /\ UNCHANGED <<lifeVars, terminal, order, highWater, policy, runtime, connectVars, fin,
                   closing>>

\* The peer closes its side, or answers our close frame; the reader loop ends.
PeerDisconnect(w) ==
    /\ At(w, "reading")
    /\ Finish(w, "peerClose")
    /\ Goto(w, "leaving")
    /\ UNCHANGED <<lifeVars, policy, runtime, connectVars, pins, gens, socket, notified, closing>>

ReaderEnds(w) ==
    /\ At(w, "leaving")
    /\ Unregister(w)
    /\ Goto(w, "ended")
    /\ UNCHANGED <<lifeVars, indexVars, policy, runtime, connectVars, gens, fin, socket, closing>>

\* A frame of the peer is refused by the broker, or a write to it exceeds its budget.
Terminate(w, t) ==
    /\ rec[w] = "Attached" /\ At(w, "reading")
    /\ Finish(w, t)
    /\ UNCHANGED <<lifeVars, up, policy, runtime, connectVars, pins, gens, socket, notified,
                   closing>>

-----------------------------------------------------------------------------
(* The finalizer *)

\* start_finalizer: close_generation.
Detach(w) ==
    /\ fin[w] = "detach"
    /\ gens' = gens \ {w}
    /\ fin' = [fin EXCEPT ![w] = "drain"]
    /\ UNCHANGED <<lifeVars, up, indexVars, policy, runtime, connectVars, pins, socket,
                   notified, closing>>

\* spawn_finalizer: a close frame is queued, except after a peer close; when the
\* queue is full, or after a peer close, the writer task is aborted instead.
Drain(w) ==
    /\ fin[w] = "drain"
    /\ \E s \in IF terminal[w] = "peerClose" THEN {"aborted"} ELSE {"closeSent", "aborted"} :
           socket' = [socket EXCEPT ![w] = s]
    /\ fin' = [fin EXCEPT ![w] = "done"]
    /\ UNCHANGED <<lifeVars, up, indexVars, policy, runtime, connectVars, pins, gens,
                   notified, closing>>

-----------------------------------------------------------------------------
(* The session consumer *)

Pinned(c) == {w \in Sockets : runtime[w] = c}

\* store.on_session_closed
ConsumeBegin(c) ==
    /\ c \in inbox /\ closing = NoConnection
    /\ closing' = c
    /\ pins' = pins \ Pinned(c)
    /\ connects' = connects \ Pinned(c)
    /\ answer' = [w \in Sockets |-> IF w \in connects \cap Pinned(c) THEN Unavailable
                                    ELSE answer[w]]
    /\ UNCHANGED <<lifeVars, up, indexVars, policy, runtime, permits, asked, gens, fin, socket,
                   notified>>

\* lane.runtime_disconnected: by_runtime knows the attached connections only.
ConsumeEnd(c) ==
    /\ closing = c
    /\ FinishAll({w \in Pinned(c) : rec[w] = "Attached"}, "runtimeDisconnect", highWater)
    /\ closing' = NoConnection
    /\ LifeConsume(c)
    /\ UNCHANGED <<up, policy, runtime, connectVars, pins, gens, socket, notified>>

SessionMoves ==
    /\ \E c \in Connections : LifeStep(c)
    /\ UNCHANGED wsVars

-----------------------------------------------------------------------------

Handler(w) ==
    \/ SelectRefused(w) \/ (\E c \in Connections : Select(w, c))
    \/ ConnectWrite(w) \/ ConnectInsert(w) \/ ConnectTimeout(w)
    \/ ConnectRefused(w) \/ ConnectAccepted(w)
    \/ AdmitRefused(w) \/ Admit(w) \/ Register(w) \/ UpgradeEnds(w) \/ PeerStarts(w)
    \/ AttachGeneration(w) \/ AttachRecord(w) \/ ReaderEnds(w)

Finalizer(w) == Detach(w) \/ Drain(w)

Consumer(c) == ConsumeBegin(c) \/ ConsumeEnd(c)

WsNext ==
    \/ SessionMoves
    \/ \E c \in Connections : Consumer(c)
    \/ \E w \in Sockets :
          \/ Reserve(w) \/ UpgradeDropped(w) \/ Handler(w) \/ Finalizer(w)
          \/ \E a \in Accepts \cup {Rejected, Unavailable} : ConnectAnswered(w, a)
          \/ PeerDisconnect(w)
          \/ \E t \in {"protocolClose", "slowClient"} : Terminate(w, t)

\* The handler's future and the spawned tasks are polled until they end, the consumer
\* works off its mailbox, and a client answers a close frame.  Nothing makes a client
\* leave a socket it has heard nothing on.
WsFairness ==
    /\ \A w \in Sockets : /\ WF_wsAll(Handler(w)) /\ WF_wsAll(Finalizer(w))
                          /\ WF_wsAll(socket[w] = "closeSent" /\ PeerDisconnect(w))
    /\ \A c \in Connections : WF_wsAll(Consumer(c))

WsSpec == WsInit /\ [][WsNext]_wsAll
FairWsSpec == WsSpec /\ WsFairness
-----------------------------------------------------------------------------
(* Properties *)

\* The business order of a key lists exactly its live connections, each once: what
\* admit replaces and counts, and where connection.send finds a business identity
\* (index.rs admit, finish_locked).
OrderIsIndexed ==
    \A k \in Keys :
        /\ IsInjective(order[k])
        /\ \A w \in Sockets : (w \in Existing(k)) <=> /\ rec[w] \in {"Admitted", "Attached"}
                                                      /\ policy[w].key = k

\* However handlers interleave, a business key never has more live connections than
\* the largest limit its connect handler gave (index.rs admit).
BusinessLimit ==
    \A k \in Keys : \/ order[k] = <<>>
                    \/ \E a \in Accepts : a.key = k /\ Len(order[k]) <= a.max

\* A broker generation belongs to an attach in progress, an attached connection or a
\* finalizer that is about to close it, and each of them has one: none is orphaned by
\* a replacement that overtakes the attach (index.rs attach, broker.rs
\* close_generation).
GenerationHasOwner ==
    gens = {w \in Sockets : At(w, "attaching") \/ rec[w] = "Attached" \/ fin[w] = "detach"}

\* The close handler of a connection runs at most once, after its pin is gone
\* (supervisor/ws.rs unregister_connection).
CloseIsToldOnce ==
    \A w \in Sockets : notified[w] <= 1 /\ (notified[w] = 1 => w \notin pins /\ At(w, "ended"))

\* The first of replacement, peer close, runtime loss and protocol close decides the
\* terminal; a later one changes nothing and nothing indexes the connection again (index.rs
\* finish).
FirstTerminalStays ==
    [][\A w \in Sockets : terminal[w] # "none" => terminal'[w] = terminal[w] /\ rec'[w] = "none"]_wsAll

\* A started finalizer closes the generation and the writer (index.rs
\* start_finalizer, spawn_finalizer).
FinalizerCompletes ==
    \A w \in Sockets : fin[w] = "detach" ~> (fin[w] = "done" /\ w \notin gens)

\* The loss of the runtime of an attached connection finishes the connection
\* (index.rs runtime_disconnected).
RuntimeLossFinishes ==
    \A w \in Sockets :
        (rec[w] = "Attached" /\ runtime[w] \in inbox) ~> (rec[w] = "none")

\* A client that was sent a close frame leaves, and its pin is removed (listener.rs
\* reader_loop).
ClosedClientLeaves ==
    \A w \in Sockets : socket[w] = "closeSent" ~> (At(w, "ended") /\ w \notin pins)

\* A connection is never replaced by one of a lower or equal rank.  Violated: admit
\* (index.rs) loses the fence it has just written when it finishes the old connections.
HigherRankStays ==
    [][\A v, w \in Sockets :
          (/\ At(w, "accepted") /\ up'[w] = "admitted"
           /\ terminal[v] = "none" /\ terminal'[v] = "replacement"
           /\ Ranked(policy[v])) => Ranked(policy[w]) /\ policy[w].rank > policy[v].rank]_wsAll

\* When the listener is done with a client it had accepted, the index has forgotten it.
\* Violated: a failed upgrade, a lost pin or a bare EOF leaves the record (listener.rs).
EndedClientIsForgotten ==
    \A w \in Sockets : At(w, "ended") /\ policy[w] # NoAnswer => rec[w] = "none"

\* When the handler is over, its connect admission has been given back.  Violated: the
\* reservation in the store outlives a handler dropped while it waits (listener.rs).
ConnectPermitReturned == \A w \in Sockets : At(w, "ended") => w \notin permits

\* Once the consumer has processed the loss of a session no connection is attached
\* to it.  Violated: an attach that passed its check before the loss comes after it.
NoConnectionOnLostRuntime ==
    \A w \in Sockets : rec[w] = "Attached" =>
        ~(stage[runtime[w]] \in {"barrier", "gone"} /\ runtime[w] \notin inbox)

\* The answer of the connect handler reaches the handler that waits for it.  Violated: it
\* may arrive before connect (supervisor/ws.rs) has inserted its correlation.
ConnectAnswerIsKept ==
    \A w \in Sockets : up[w] \in {"written", "connecting"} /\ w \notin asked => answer[w] # NoAnswer

\* A socket whose writer was aborted is closed: its reader ends.  Violated: close aborts the
\* writer task only (listener.rs).
AbortedSocketEnds == \A w \in Sockets : socket[w] = "aborted" ~> At(w, "ended")
=============================================================================
