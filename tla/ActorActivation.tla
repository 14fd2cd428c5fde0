---------------------------- MODULE ActorActivation ----------------------------
(***************************************************************************)
(* Ownership of actors in the Router (router/src/actor): the ownership     *)
(* registry, the activation broker, the lease and idle scheduler, and the  *)
(* frame sink and session consumer around them (router/src/supervisor).    *)
(*                                                                         *)
(* Registry, broker, scheduler and sink have one mutex each; an action is  *)
(* what runs under one of them, or under the broker's while it calls the   *)
(* registry.  Lease expiry, idle window and activation deadline count down *)
(* together with Tick, so time needs no bound.  An actor's epoch is always *)
(* 1 (advance_incarnation has no caller) and is left out; the lease id of  *)
(* an activation is minted with its claim, so one number stands for both.  *)
(***************************************************************************)
EXTENDS SessionLife, Naturals, FiniteSets

CONSTANTS Actors, Rpcs,       \* actor keys; getOrCreate calls
          Versions,           \* implementation identities
          Lineages,           \* test case lineages of a getOrCreate
          MaxClaims,          \* bound on the claims a behaviour mints
          ClaimBudget,        \* max_claims
          MaxRetries,         \* max_eviction_retries
          Ttl,                \* lease TTL, idle TTL and activation deadline: all 30 s
          TaskLane,           \* the caller of a durable task's getOrCreate
          NoVersion, NoFence, NoClaim, NoRpc, NoEviction, NoMark

Claims == 1..MaxClaims
\* conn is the session the lease was granted on; the registry's fence does not
\* keep it, and no action reads it.
Fence == [runtime : Replicas, conn : Connections, lease : Claims, version : Versions,
          left : 0..Ttl]
Claim == [id : Claims, conn : Connections, lineage : Lineages, version : Versions,
          waiters : SUBSET Rpcs, left : 0..Ttl]
RpcSteps == {"picked", "calling", "waiting", "resolved", "failed"}
Rpc == [step : RpcSteps, actor : Actors, caller : Connections \cup {TaskLane},
        conn : Connections \cup {NoConnection}, lineage : Lineages, version : Versions]
ControlFrame == [id : Claims, conn : Connections]

ASSUME ActorAssumption ==
    /\ MaxClaims \in Nat /\ ClaimBudget \in Nat \ {0} /\ MaxRetries \in Nat
    /\ Ttl \in Nat \ {0}
    /\ TaskLane \notin Connections
    /\ NoVersion \notin Versions /\ NoFence \notin Fence /\ NoClaim \notin Claim
    /\ NoRpc \notin Rpc /\ NoEviction \notin 0..MaxRetries + 1
    /\ NoMark \notin 0..Ttl

VARIABLES
    entry,        \* identity frozen at the first creation of an actor
    owner,        \* current owner fence
    evicting,     \* actors with a recorded eviction_request_id
    reservation,  \* claim token held by the registry, 0 without one
    claim,        \* the broker's claim in flight
    minted,       \* claim tokens (and leases) minted so far
    rpc,          \* getOrCreate calls
    outcome,      \* the broker's outcome of a call
    waiters,      \* calls in the sink's waiter map
    wire,         \* activateInitial frames not yet acknowledged
    evictWire,    \* IdleEvict frames not yet acknowledged
    idle,         \* what is left of the idle window (idle_since)
    evictions,    \* the scheduler's eviction state: retries sent so far
    touching,     \* method calls that have read a fence and not yet renewed it
    closing,      \* the terminal the actor session consumer works on
    toRelease     \* keys it has still to look at

registryVars == <<entry, owner, evicting, reservation>>
brokerVars == <<claim, minted, outcome>>
schedulerVars == <<idle, evictions>>
sinkVars == <<rpc, waiters, touching>>
wireVars == <<wire, evictWire>>
consumerVars == <<closing, toRelease>>
actorVars == <<registryVars, brokerVars, schedulerVars, sinkVars, wireVars, consumerVars>>
activationVars == <<lifeVars, actorVars>>

ActorTypeOK ==
    /\ entry \in [Actors -> Versions \cup {NoVersion}]
    /\ owner \in [Actors -> Fence \cup {NoFence}]
    /\ evicting \subseteq Actors
    /\ reservation \in [Actors -> 0..MaxClaims]
    /\ claim \in [Actors -> Claim \cup {NoClaim}]
    /\ minted \in 0..MaxClaims
    /\ rpc \in [Rpcs -> Rpc \cup {NoRpc}]
    /\ outcome \in [Rpcs -> {"none", "resolved", "failed"}]
    /\ waiters \subseteq Rpcs
    /\ wire \subseteq ControlFrame
    /\ evictWire \subseteq ControlFrame
    /\ idle \in [Actors -> 0..Ttl \cup {NoMark}]
    /\ evictions \in [Actors -> (0..MaxRetries + 1) \cup {NoEviction}]
    /\ touching \subseteq Actors \X Claims
    /\ closing \in Connections \cup {NoConnection}
    /\ toRelease \subseteq Actors

ActorInit ==
    /\ LifeInit
    /\ entry = [a \in Actors |-> NoVersion]
    /\ owner = [a \in Actors |-> NoFence]
    /\ reservation = [a \in Actors |-> 0]
    /\ claim = [a \in Actors |-> NoClaim]
    /\ minted = 0
    /\ rpc = [q \in Rpcs |-> NoRpc]
    /\ outcome = [q \in Rpcs |-> "none"]
    /\ idle = [a \in Actors |-> NoMark]
    /\ evictions = [a \in Actors |-> NoEviction]
    /\ evicting = {} /\ waiters = {} /\ wire = {} /\ evictWire = {} /\ toRelease = {} /\ touching = {}
    /\ closing = NoConnection

Owned(a) == owner[a] # NoFence
Claimed(a) == claim[a] # NoClaim

\* The session of c handles a frame: its task reads no other frame meanwhile.
Answering(c) == \E q \in Rpcs : rpc[q] # NoRpc /\ rpc[q].caller = c /\ rpc[q].step \in {"picked", "calling"}
Reads(c) == stage[c] = "registered" /\ ~Answering(c)

\* write_session_frame to the current session of a replica: it may be refused
\* while the session is writable, and is when it is not.
CanSend(r) == current[r] # NoConnection /\ Writable(current[r])

-----------------------------------------------------------------------------
(* The registry *)

\* Mutation: the eviction request outlives the owner.
ReleaseKeepsEviction(a) ==
    /\ owner' = [owner EXCEPT ![a] = NoFence]
    /\ UNCHANGED evicting

\* release: clears the owner and its eviction.
Release(a) ==
    /\ owner' = [owner EXCEPT ![a] = NoFence]
    /\ evicting' = evicting \ {a}

\* renew: the exact lease, not yet expired.
Renew(a, lease) ==
    owner' = IF Owned(a) /\ owner[a].lease = lease /\ owner[a].left > 0
             THEN [owner EXCEPT ![a].left = Ttl] ELSE owner

\* mark_live.
MarkLive(a) == idle' = [idle EXCEPT ![a] = Ttl]

\* forget, and the same removals after an expiry and an eviction ACK.
Forget(a) ==
    /\ idle' = [idle EXCEPT ![a] = NoMark]
    /\ evictions' = [evictions EXCEPT ![a] = NoEviction]

-----------------------------------------------------------------------------
(* getOrCreate: handle_get_or_create, and the admission of a durable task   *)
(* whose actor has no live owner                                            *)

\* pick_owner_candidate: a hash of the actor id over the sorted candidates, so
\* a function of the actor and the candidates.
OwnerCandidate(candidates) == CHOOSE c \in candidates : TRUE

Begin(q, a, caller, v, l, c, step) ==
    rpc' = [rpc EXCEPT ![q] = [step |-> step, actor |-> a, caller |-> caller, conn |-> c,
                               lineage |-> l, version |-> v]]

\* The owner is picked before the broker is asked.
PickOwner(q, a, caller, v, l) ==
    /\ rpc[q] = NoRpc
    /\ IF caller = TaskLane THEN ~Owned(a) /\ entry[a] \in {NoVersion, v} ELSE Reads(caller)
    /\ LET candidates == {c \in Connections : Selectable(c)}
       IN \/ /\ candidates = {}
             /\ Begin(q, a, caller, v, l, NoConnection, "failed")
          \/ /\ candidates # {}
             /\ Begin(q, a, caller, v, l, OwnerCandidate(candidates), "picked")
    /\ UNCHANGED <<lifeVars, registryVars, brokerVars, schedulerVars, waiters, touching, wireVars,
                   consumerVars>>

\* A call the broker answers at once; the answer is in its outcomes as well.
Answered(q, res) ==
    /\ rpc' = [rpc EXCEPT ![q].step = res]
    /\ outcome' = [outcome EXCEPT ![q] = res]

OpenClaims == {a \in Actors : Claimed(a)}

\* get_or_create without a new activation: no budget left, a claim of another
\* lineage, an owner or an entry of another version, or an owner that answers
\* the call (its lease is not looked at).
BrokerAnswers(q) ==
    /\ rpc[q] # NoRpc /\ rpc[q].step = "picked"
    /\ LET a == rpc[q].actor
       IN \/ /\ Cardinality(OpenClaims) >= ClaimBudget
             /\ rpc' = [rpc EXCEPT ![q].step = "failed"]
             /\ UNCHANGED outcome
          \/ /\ Cardinality(OpenClaims) < ClaimBudget
             /\ \/ /\ Claimed(a) /\ claim[a].lineage # rpc[q].lineage
                   /\ Answered(q, "failed")
                \/ /\ ~Claimed(a) /\ Owned(a)
                   /\ Answered(q, IF owner[a].version = rpc[q].version THEN "resolved" ELSE "failed")
                \/ /\ ~Claimed(a) /\ ~Owned(a) /\ entry[a] \notin {NoVersion, rpc[q].version}
                   /\ Answered(q, "failed")
    /\ UNCHANGED <<lifeVars, registryVars, claim, minted, schedulerVars, waiters, touching, wireVars,
                   consumerVars>>

\* Join a claim of the same lineage; its version is not compared.
BrokerJoins(q) ==
    /\ rpc[q] # NoRpc /\ rpc[q].step = "picked"
    /\ Cardinality(OpenClaims) < ClaimBudget
    /\ LET a == rpc[q].actor
       IN /\ Claimed(a) /\ claim[a].lineage = rpc[q].lineage
          /\ claim' = [claim EXCEPT ![a].waiters = @ \cup {q}]
    /\ rpc' = [rpc EXCEPT ![q].step = "calling"]
    /\ UNCHANGED <<lifeVars, registryVars, minted, outcome, schedulerVars, waiters, touching, wireVars,
                   consumerVars>>

\* The broker activates: nobody owns or claims the actor and its entry agrees.
Activating(q) ==
    /\ rpc[q] # NoRpc /\ rpc[q].step = "picked"
    /\ Cardinality(OpenClaims) < ClaimBudget
    /\ LET a == rpc[q].actor
       IN ~Claimed(a) /\ ~Owned(a) /\ entry[a] \in {NoVersion, rpc[q].version}

\* reserve refuses a key with a reservation or a recorded eviction.
Reservable(a) == reservation[a] = 0 /\ a \notin evicting

BrokerActivates(q) ==
    /\ Activating(q) /\ minted < MaxClaims
    /\ LET a == rpc[q].actor
           r == bound[rpc[q].conn]
       IN /\ Reservable(a) /\ CanSend(r)
          /\ entry' = [entry EXCEPT ![a] = rpc[q].version]
          /\ reservation' = [reservation EXCEPT ![a] = minted + 1]
          /\ claim' = [claim EXCEPT ![a] =
                [id |-> minted + 1, conn |-> rpc[q].conn, lineage |-> rpc[q].lineage,
                 version |-> rpc[q].version, waiters |-> {q}, left |-> Ttl]]
          /\ wire' = wire \cup {[id |-> minted + 1, conn |-> current[r]]}
    /\ minted' = minted + 1
    /\ rpc' = [rpc EXCEPT ![q].step = "calling"]
    /\ UNCHANGED <<lifeVars, owner, evicting, outcome, schedulerVars, waiters, touching, evictWire,
                   consumerVars>>

\* The activateInitial frame cannot be written, or the key not be reserved: the
\* entry stays, the claim and its reservation do not.
BrokerUnsent(q) ==
    /\ Activating(q)
    /\ entry' = [entry EXCEPT ![rpc[q].actor] = rpc[q].version]
    /\ Answered(q, "failed")
    /\ UNCHANGED <<lifeVars, owner, evicting, reservation, claim, minted, schedulerVars, waiters,
                   touching, wireVars, consumerVars>>

\* The handler puts the call into the waiter map after the broker returned.
InsertWaiter(q) ==
    /\ rpc[q] # NoRpc /\ rpc[q].step = "calling" /\ rpc[q].caller # TaskLane
    /\ waiters' = waiters \cup {q}
    /\ rpc' = [rpc EXCEPT ![q].step = "waiting"]
    /\ UNCHANGED <<lifeVars, registryVars, brokerVars, schedulerVars, touching, wireVars,
                   consumerVars>>

\* wait_for_activation: a task polls the outcome, and gives up after a deadline.
TaskWaits(q) ==
    /\ rpc[q] # NoRpc /\ rpc[q].step = "calling" /\ rpc[q].caller = TaskLane
    /\ \E res \in {outcome[q], "failed"} \ {"none"} : rpc' = [rpc EXCEPT ![q].step = res]
    /\ UNCHANGED <<lifeVars, registryVars, brokerVars, schedulerVars, waiters, touching, wireVars,
                   consumerVars>>

-----------------------------------------------------------------------------
(* The end of a claim: resolve_activation_ack and resolve_activation_timeout *)

\* Mutation: only one waiter of the claim is answered.
ResolveOne(a, res) ==
    LET done == {CHOOSE q \in claim[a].waiters : TRUE}
    IN /\ claim' = [claim EXCEPT ![a] = NoClaim]
       /\ outcome' = [q \in Rpcs |-> IF q \in done THEN res ELSE outcome[q]]
       /\ waiters' = waiters \ done
       /\ rpc' = [q \in Rpcs |-> IF q \in done \cap waiters
                                 THEN [rpc[q] EXCEPT !.step = res] ELSE rpc[q]]

\* The sink answers the waiters it finds in its map and skips the others.  It
\* takes its lock after the broker's: a call that is inserted in between is
\* answered like one inserted before.
Resolve(a, res) ==
    /\ claim' = [claim EXCEPT ![a] = NoClaim]
    /\ outcome' = [q \in Rpcs |-> IF q \in claim[a].waiters THEN res ELSE outcome[q]]
    /\ waiters' = waiters \ claim[a].waiters
    /\ rpc' = [q \in Rpcs |-> IF q \in claim[a].waiters \cap waiters
                              THEN [rpc[q] EXCEPT !.step = res] ELSE rpc[q]]

\* commit: refused when the reservation is not this claim's or the identity not
\* the entry's.
CanCommit(a) == reservation[a] = claim[a].id /\ entry[a] = claim[a].version
Granted(a) == [runtime |-> bound[claim[a].conn], conn |-> claim[a].conn, lease |-> claim[a].id,
               version |-> claim[a].version, left |-> Ttl]
Commit(a) ==
    /\ owner' = [owner EXCEPT ![a] = IF CanCommit(a) THEN Granted(a) ELSE @]
    /\ reservation' = [reservation EXCEPT ![a] = IF CanCommit(a) THEN 0 ELSE @]

\* Mutation: the reservation of an aborted claim is kept.
AbortNothing(a) == UNCHANGED reservation

\* abort: with no effect on a reservation of another claim.
Abort(a) == reservation' = [reservation EXCEPT ![a] = IF @ = claim[a].id THEN 0 ELSE @]

\* The ACK f of an activateInitial belongs to the claim when id and connection agree.
AckMatches(a, f) == Claimed(a) /\ claim[a].id = f.id /\ claim[a].conn = f.conn

AckTaken(f) == Reads(f.conn) /\ wire' = wire \ {f}

ActivationAck(a, f) ==
    /\ AckTaken(f) /\ AckMatches(a, f)
    /\ Commit(a)
    /\ Resolve(a, IF CanCommit(a) THEN "resolved" ELSE "failed")
    /\ UNCHANGED <<lifeVars, entry, evicting, minted, schedulerVars, touching, evictWire,
                   consumerVars>>

ActivationRefused(a, f) ==
    /\ AckTaken(f) /\ AckMatches(a, f)
    /\ Abort(a) /\ Resolve(a, "failed")
    /\ UNCHANGED <<lifeVars, entry, owner, evicting, minted, schedulerVars, touching, evictWire,
                   consumerVars>>

\* LateAck and WrongCorrelation.
ActivationAckDropped(f) ==
    /\ AckTaken(f) /\ \A a \in Actors : ~AckMatches(a, f)
    /\ UNCHANGED <<lifeVars, registryVars, brokerVars, schedulerVars, sinkVars, evictWire,
                   consumerVars>>

\* Mutation: a claim times out only while its owner is connected.
ActivationTimeoutConnected(a) ==
    /\ Claimed(a) /\ claim[a].left = 0 /\ stage[claim[a].conn] = "registered"
    /\ Abort(a) /\ Resolve(a, "failed")
    /\ UNCHANGED <<lifeVars, entry, owner, evicting, minted, schedulerVars, touching, wireVars,
                   consumerVars>>

\* The timer pump: on_activation_timeout of an elapsed claim.
ActivationTimeout(a) ==
    /\ Claimed(a) /\ claim[a].left = 0
    /\ Abort(a) /\ Resolve(a, "failed")
    /\ UNCHANGED <<lifeVars, entry, owner, evicting, minted, schedulerVars, touching, wireVars,
                   consumerVars>>

-----------------------------------------------------------------------------
(* Leases and idle windows *)

Less(n) == IF n = 0 THEN 0 ELSE n - 1

\* A unit of time passes.
Tick ==
    /\ \E a \in Actors : \/ Owned(a) /\ owner[a].left > 0
                         \/ Claimed(a) /\ claim[a].left > 0
                         \/ idle[a] # NoMark /\ idle[a] > 0
    /\ owner' = [a \in Actors |-> IF Owned(a) THEN [owner[a] EXCEPT !.left = Less(@)]
                                  ELSE NoFence]
    /\ claim' = [a \in Actors |-> IF Claimed(a) THEN [claim[a] EXCEPT !.left = Less(@)]
                                  ELSE NoClaim]
    /\ idle' = [a \in Actors |-> IF idle[a] = NoMark THEN NoMark ELSE Less(idle[a])]
    /\ UNCHANGED <<lifeVars, entry, evicting, reservation, minted, outcome, evictions, sinkVars,
                   wireVars, consumerVars>>

\* send_idle_evict to the owner's current session; a failed write is ignored.
SendIdleEvict(a) ==
    LET r == owner[a].runtime
    IN evictWire' \in {evictWire} \cup
            (IF CanSend(r) THEN {evictWire \cup {[id |-> owner[a].lease, conn |-> current[r]]}}
             ELSE {})

Exhausted == MaxRetries + 1

\* An owner without a mark is not idle: its window starts at every sweep anew.
IdleOwner(a) == Owned(a) /\ idle[a] = 0

\* sweep, the idle part: mint an eviction and record it at the registry, repeat
\* its frame at most MaxRetries times, then do nothing more.
SweepIdle(a) ==
    /\ IdleOwner(a)
    /\ \/ /\ evictions[a] = NoEviction
          /\ evicting' = evicting \cup {a}
          /\ evictions' = [evictions EXCEPT ![a] = 0]
          /\ SendIdleEvict(a)
       \/ /\ evictions[a] \in 0..MaxRetries - 1
          /\ evictions' = [evictions EXCEPT ![a] = @ + 1]
          /\ SendIdleEvict(a)
          /\ UNCHANGED evicting
       \/ /\ evictions[a] = MaxRetries
          /\ evictions' = [evictions EXCEPT ![a] = Exhausted]
          /\ UNCHANGED <<evicting, evictWire>>
    /\ UNCHANGED <<lifeVars, entry, owner, reservation, brokerVars, idle, sinkVars, wire,
                   consumerVars>>

\* sweep, the lease part, which comes after the idle part of the same sweep: an
\* eviction recorded at the registry keeps the fence from expiring.
SweepLease(a) ==
    /\ Owned(a) /\ owner[a].left = 0 /\ a \notin evicting
    /\ IdleOwner(a) => evictions[a] # NoEviction
    /\ Release(a) /\ Forget(a)
    /\ UNCHANGED <<lifeVars, entry, reservation, brokerVars, sinkVars, wireVars, consumerVars>>

\* Evictions the control broker awaits an ACK of: nothing calls send_control.
PendingControls == {}

\* The ACK of an IdleEvict frame is correlated by the control broker first; only one
\* it accepts reaches on_eviction_ack, which clears owner and bookkeeping.
IdleEvictAck(f) ==
    /\ Reads(f.conn)
    /\ evictWire' = evictWire \ {f}
    /\ LET acked == {a \in evicting : f \in PendingControls /\ owner[a].lease = f.id}
       IN /\ owner' = [a \in Actors |-> IF a \in acked THEN NoFence ELSE owner[a]]
          /\ evicting' = evicting \ acked
          /\ idle' = [a \in Actors |-> IF a \in acked THEN NoMark ELSE idle[a]]
          /\ evictions' = [a \in Actors |-> IF a \in acked THEN NoEviction ELSE evictions[a]]
    /\ UNCHANGED <<lifeVars, entry, reservation, brokerVars, sinkVars, wire, consumerVars>>

\* A method call finds the owner's fence and session,
ReadFence(a) ==
    /\ Owned(a) /\ current[owner[a].runtime] # NoConnection
    /\ touching' = touching \cup {<<a, owner[a].lease>>}
    /\ UNCHANGED <<lifeVars, registryVars, brokerVars, schedulerVars, rpc, waiters, wireVars,
                   consumerVars>>

\* then renews the fence if it still can, and marks the actor live in any case.
Touch(a, lease) ==
    /\ <<a, lease>> \in touching
    /\ touching' = touching \ {<<a, lease>>}
    /\ Renew(a, lease) /\ MarkLive(a)
    /\ UNCHANGED <<lifeVars, entry, evicting, reservation, brokerVars, evictions, rpc, waiters,
                   wireVars, consumerVars>>

\* handle_remove: the fence goes, what the scheduler knows of the actor stays.
Remove(a) ==
    /\ \E c \in Connections : Reads(c)
    /\ Owned(a) /\ Release(a)
    /\ UNCHANGED <<lifeVars, entry, reservation, brokerVars, schedulerVars, sinkVars, wireVars,
                   consumerVars>>

-----------------------------------------------------------------------------
(* ActorSessionOwnerConsumer::on_session_closed *)

ConsumeBegin(c) ==
    /\ closing = NoConnection /\ c \in inbox
    /\ closing' = c
    /\ toRelease' = {a \in Actors : Owned(a)}
    /\ UNCHANGED <<lifeVars, registryVars, brokerVars, schedulerVars, sinkVars, wireVars>>

\* Every fence of the closed session's replica is released, whatever session it
\* was granted on.
ReleaseOwned(a) ==
    /\ a \in toRelease
    /\ toRelease' = toRelease \ {a}
    /\ \/ Owned(a) /\ owner[a].runtime = bound[closing] /\ Release(a) /\ Forget(a)
       \/ /\ ~(Owned(a) /\ owner[a].runtime = bound[closing])
          /\ UNCHANGED <<owner, evicting, schedulerVars>>
    /\ UNCHANGED <<lifeVars, entry, reservation, brokerVars, sinkVars, wireVars, closing>>

ConsumeEnd ==
    /\ closing # NoConnection /\ toRelease = {}
    /\ LifeConsume(closing)
    /\ closing' = NoConnection
    /\ UNCHANGED <<registryVars, brokerVars, schedulerVars, sinkVars, wireVars, toRelease>>

SessionMoves(c) == ~Answering(c) /\ LifeStep(c) /\ UNCHANGED actorVars

-----------------------------------------------------------------------------

GetOrCreate(q) ==
    \/ \E a \in Actors, caller \in Connections \cup {TaskLane}, v \in Versions, l \in Lineages :
            PickOwner(q, a, caller, v, l)
    \/ BrokerAnswers(q) \/ BrokerJoins(q) \/ BrokerActivates(q) \/ BrokerUnsent(q)
    \/ InsertWaiter(q) \/ TaskWaits(q)

ActivationAcks ==
    \E f \in wire : \/ \E a \in Actors : ActivationAck(a, f) \/ ActivationRefused(a, f)
                    \/ ActivationAckDropped(f)

ConsumerStep == ConsumeEnd \/ \E a \in Actors : ReleaseOwned(a)

ActorNext ==
    \/ \E q \in Rpcs : GetOrCreate(q)
    \/ ActivationAcks
    \/ \E f \in evictWire : IdleEvictAck(f)
    \/ \E a \in Actors : \/ ActivationTimeout(a) \/ SweepIdle(a) \/ SweepLease(a)
                         \/ ReadFence(a) \/ Remove(a)
                         \/ \E lease \in Claims : Touch(a, lease)
    \/ Tick
    \/ \E c \in Connections : ConsumeBegin(c) \/ SessionMoves(c)
    \/ ConsumerStep

\* Time passes, the timer pump ticks every second, a handler runs to its end and
\* the consumer works its mailbox off.  Runtimes answer or do not.
ActorFairness ==
    /\ WF_activationVars(Tick)
    /\ \A a \in Actors : /\ WF_activationVars(ActivationTimeout(a))
                         /\ WF_activationVars(SweepIdle(a))
                         /\ WF_activationVars(SweepLease(a))
    /\ \A q \in Rpcs : WF_activationVars(BrokerAnswers(q) \/ BrokerJoins(q) \/ BrokerActivates(q)
                                         \/ BrokerUnsent(q) \/ InsertWaiter(q) \/ TaskWaits(q))
    /\ WF_activationVars(ConsumerStep)

ActorSpec == ActorInit /\ [][ActorNext]_activationVars
FairActorSpec == ActorSpec /\ ActorFairness

-----------------------------------------------------------------------------
(* Properties *)

\* A claim in flight and the registry's reservation are the same thing seen from
\* two locks: one never outlives the other, so a key is neither activated twice
\* nor refused for good, and a claimed actor has no owner (activation.rs,
\* ownership.rs reserve / commit / abort).
ClaimIsReservation ==
    \A a \in Actors :
        /\ reservation[a] = IF Claimed(a) THEN claim[a].id ELSE 0
        /\ Claimed(a) => ~Owned(a) /\ entry[a] = claim[a].version

\* A recorded eviction belongs to an owner, so a key without an owner can always
\* be reserved: reserve refuses a key with an eviction_request_id.
FreeKeyIsReservable ==
    \A a \in Actors : ~Owned(a) /\ ~Claimed(a) => Reservable(a)

\* The owner of a key changes only by way of no owner: no step replaces one lease by
\* another in place, so a fence read before is either current or refused.
OwnerIsNotReplaced ==
    [][\A a \in Actors : Owned(a) /\ Owned(a)' => owner'[a].lease = owner[a].lease]_activationVars

\* The claims in flight stay within max_claims, however calls interleave between
\* their look at the budget and their claim.
ClaimsAreBounded == Cardinality(OpenClaims) <= ClaimBudget

\* A claim ends, by its ACK, a refusal or its deadline, whatever happens to the
\* owner's session meanwhile (on_owner_disconnect does nothing).
ClaimSettles ==
    \A a \in Actors, n \in Claims :
        (Claimed(a) /\ claim[a].id = n) ~> ~(Claimed(a) /\ claim[a].id = n)

\* A call that waits for a claim in flight is answered: the end of the claim reaches the
\* waiter a Runtime's call has put in the sink's map, and a task's call looks the outcome
\* up by itself, whenever it starts to wait (activation.rs on_activation_ack,
\* expire_deadlines; actor_sink.rs resolve_activation_timeout; admission.rs).
JoinedCallEnds ==
    \A q \in Rpcs :
        (\E a \in Actors : /\ Claimed(a) /\ q \in claim[a].waiters
                           /\ q \in waiters \/ (rpc[q] # NoRpc /\ rpc[q].caller = TaskLane))
            ~> (rpc[q] # NoRpc /\ rpc[q].step \in {"resolved", "failed"})

\* Every getOrCreate is answered.  Violated: the waiter is inserted after the broker
\* has returned, and a claim that ends before that skips it.
WaiterIsAnswered ==
    \A q \in Rpcs : (rpc[q] # NoRpc) ~> (rpc[q] # NoRpc /\ rpc[q].step \in {"resolved", "failed"})

\* The ACK of an IdleEvict for the current lease releases the owner.  Violated: the
\* ACK finds no pending control and is dropped, so the eviction is repeated until it
\* is exhausted, and the recorded eviction then keeps the lease from expiring.
AckedEvictionReleases ==
    [][\A f \in evictWire \ evictWire', a \in evicting : owner[a].lease = f.id
            => ~Owned(a)']_activationVars

\* The consumer of a closed session releases only the fences granted on it.  Violated:
\* it releases every fence of the replica, its replacement session's too.
OldFinalizerKeepsReplacement ==
    [][\A a \in Actors : (a \in toRelease \ toRelease' /\ Owned(a) /\ ~Owned(a)')
            => owner[a].conn = closing]_activationVars

\* A new owner starts with a fresh idle window.  Violated: handle_remove leaves the
\* idle mark of the owner it removes.
FreshIdleWindow ==
    [][\A a \in Actors : ~Owned(a) /\ Owned(a)' => idle'[a] \in {NoMark, Ttl}]_activationVars
=============================================================================
