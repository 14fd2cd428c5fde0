------------------------ MODULE ActorActivationProofs ------------------------
(***************************************************************************)
(* Theorems about ActorActivation, for any number of actors, calls,        *)
(* sessions and claims: the types, the agreement of broker and registry,   *)
(* the bound on the claims in flight, and that an owner is never replaced  *)
(* in place.                                                               *)
(***************************************************************************)
EXTENDS ActorActivation, FiniteSetTheorems, TLAPS

\* A session that announced itself has a replica.
LifeInv ==
    /\ LifeTypeOK
    /\ \A c \in Connections : stage[c] # "absent" => bound[c] \in Replicas

\* A recorded eviction is one of a current owner.
EvictionHasOwner == \A a \in evicting : Owned(a)

\* The session picked for a call, or claimed for an actor, has announced its
\* replica, so that a fence granted on it names a runtime.
PickedIsBound ==
    /\ \A q \in Rpcs : rpc[q] # NoRpc /\ rpc[q].step = "picked" =>
          rpc[q].conn \in Connections /\ stage[rpc[q].conn] # "absent"
    /\ \A a \in Actors : Claimed(a) => stage[claim[a].conn] # "absent"

\* A call in the waiter map was made.
WaiterHasCall == \A q \in waiters : rpc[q] # NoRpc

FiniteClaims == IsFiniteSet(OpenClaims) /\ Cardinality(OpenClaims) <= ClaimBudget

ActorInv ==
    /\ LifeInv /\ ActorTypeOK /\ ClaimIsReservation /\ EvictionHasOwner /\ PickedIsBound
    /\ WaiterHasCall

-----------------------------------------------------------------------------
(* Sessions *)

LEMMA LifeStepInv ==
    ASSUME LifeInv, NEW c \in Connections, LifeStep(c) \/ LifeConsume(c)
    PROVE  LifeInv' /\ \A d \in Connections : stage[d] # "absent" => stage'[d] # "absent"
<1> USE DEF LifeInv, LifeTypeOK, Move, Stages
<1>1. CASE \E r \in Replicas : LifeBind(c, r)
  BY <1>1 DEF LifeBind
<1>2. CASE LifeRegister(c)
  BY <1>2 DEF LifeRegister
<1>3. CASE LifeLeave(c)
  BY <1>3 DEF LifeLeave
<1>4. CASE LifeUnwind(c)
  BY <1>4 DEF LifeUnwind
<1>5. CASE LifeClose(c)
  BY <1>5 DEF LifeClose
<1>6. CASE LifeGiveUp(c)
  BY <1>6 DEF LifeGiveUp
<1>7. CASE LifeConsume(c)
  BY <1>7 DEF LifeConsume
<1>8. CASE LifeForget(c)
  BY <1>8 DEF LifeForget
<1> QED
  BY <1>1, <1>2, <1>3, <1>4, <1>5, <1>6, <1>7, <1>8 DEF LifeStep

-----------------------------------------------------------------------------
(* The invariant *)

LEMMA InitInv == ActorInit => ActorInv
<1> USE ActorAssumption
  DEF ActorInit, LifeInit, ActorInv, LifeInv, LifeTypeOK, Stages, ActorTypeOK, ClaimIsReservation,
      EvictionHasOwner, PickedIsBound, WaiterHasCall, Owned, Claimed
<1> QED OBVIOUS

LEMMA PickInv ==
    ASSUME ActorInv, NEW q \in Rpcs, NEW a \in Actors, NEW caller \in Connections \cup {TaskLane},
           NEW v \in Versions, NEW l \in Lineages, PickOwner(q, a, caller, v, l)
    PROVE  ActorInv'
<1> USE ActorAssumption
<1> DEFINE candidates == {c \in Connections : Selectable(c)}
<1>1. candidates # {} => OwnerCandidate(candidates) \in candidates
  BY DEF OwnerCandidate
<1>2. candidates # {} => /\ OwnerCandidate(candidates) \in Connections
                         /\ stage[OwnerCandidate(candidates)] # "absent"
  BY <1>1 DEF Selectable
<1> HIDE DEF candidates
<1>3. PICK c \in Connections \cup {NoConnection}, step \in {"failed", "picked"} :
          /\ Begin(q, a, caller, v, l, c, step)
          /\ step = "picked" => c \in Connections /\ stage[c] # "absent"
  BY <1>2 DEF PickOwner, candidates
<1>4. UNCHANGED <<lifeVars, registryVars, brokerVars, schedulerVars, waiters, touching, wireVars,
                   consumerVars>>
  BY DEF PickOwner
<1> QED
  BY <1>3, <1>4 DEF Begin, ActorInv, LifeInv, LifeTypeOK, ActorTypeOK, ClaimIsReservation,
      EvictionHasOwner, PickedIsBound, WaiterHasCall, Owned, Claimed, lifeVars, registryVars, brokerVars,
      schedulerVars, wireVars, consumerVars, Rpc, RpcSteps

LEMMA AnswerInv ==
    ASSUME ActorInv, NEW q \in Rpcs, BrokerAnswers(q)
    PROVE  ActorInv'
<1> USE ActorAssumption
<1>1. rpc[q] \in Rpc
  BY DEF ActorInv, ActorTypeOK, BrokerAnswers
<1>2. PICK res \in {"resolved", "failed"} : /\ rpc' = [rpc EXCEPT ![q].step = res]
                                            /\ outcome' \in {outcome, [outcome EXCEPT ![q] = res]}
  BY DEF BrokerAnswers, Answered
<1>3. UNCHANGED <<lifeVars, registryVars, claim, minted, schedulerVars, waiters, touching, wireVars,
                   consumerVars>>
  BY DEF BrokerAnswers
<1> QED
  BY <1>1, <1>2, <1>3 DEF ActorInv, LifeInv, LifeTypeOK, ActorTypeOK, ClaimIsReservation,
      EvictionHasOwner, PickedIsBound, WaiterHasCall, Owned, Claimed, lifeVars, registryVars, brokerVars,
      schedulerVars, wireVars, consumerVars, Rpc, RpcSteps
LEMMA JoinInv ==
    ASSUME ActorInv, NEW q \in Rpcs, BrokerJoins(q)
    PROVE  ActorInv'
<1> USE ActorAssumption
<1> DEFINE a == rpc[q].actor
<1>1. rpc[q] \in Rpc /\ a \in Actors /\ claim[a] \in Claim
  BY DEF ActorInv, ActorTypeOK, BrokerJoins, Rpc, Claimed
<1>2. /\ claim' = [claim EXCEPT ![a].waiters = @ \cup {q}]
      /\ rpc' = [rpc EXCEPT ![q].step = "calling"]
      /\ UNCHANGED <<lifeVars, registryVars, minted, outcome, schedulerVars, waiters, touching,
                     wireVars, consumerVars>>
  BY DEF BrokerJoins
<1> HIDE DEF a
<1>3. /\ claim'[a] \in Claim
      /\ claim'[a].id = claim[a].id /\ claim'[a].conn = claim[a].conn
      /\ claim'[a].version = claim[a].version
      /\ \A b \in Actors : b # a => claim'[b] = claim[b]
      /\ claim' \in [Actors -> Claim \cup {NoClaim}]
  BY <1>1, <1>2 DEF ActorInv, ActorTypeOK, Claim
<1>4. ActorTypeOK'
  BY <1>1, <1>2, <1>3 DEF ActorInv, ActorTypeOK, registryVars, schedulerVars, wireVars,
      consumerVars, Rpc, RpcSteps
<1>5. (ClaimIsReservation /\ EvictionHasOwner /\ PickedIsBound)'
  <2>1. \A b \in Actors : claim'[b] # NoClaim <=> claim[b] # NoClaim
    BY <1>1, <1>3
  <2> QED
    BY <1>1, <1>2, <1>3, <2>1 DEF ActorInv, ActorTypeOK, ClaimIsReservation, EvictionHasOwner,
        PickedIsBound, Owned, Claimed, lifeVars, registryVars, Rpc, RpcSteps
<1>6. (LifeInv /\ WaiterHasCall)'
  BY <1>1, <1>2 DEF ActorInv, LifeInv, LifeTypeOK, ActorTypeOK, WaiterHasCall, lifeVars, Rpc, RpcSteps
<1> QED
  BY <1>4, <1>5, <1>6 DEF ActorInv

LEMMA ActivateInv ==
    ASSUME ActorInv, NEW q \in Rpcs, BrokerActivates(q)
    PROVE  ActorInv'
<1> USE ActorAssumption
<1> DEFINE a == rpc[q].actor
           r == bound[rpc[q].conn]
           new == [id |-> minted + 1, conn |-> rpc[q].conn, lineage |-> rpc[q].lineage,
                   version |-> rpc[q].version, waiters |-> {q}, left |-> Ttl]
<1>1. /\ rpc[q] \in Rpc /\ a \in Actors /\ rpc[q].conn \in Connections
      /\ stage[rpc[q].conn] # "absent" /\ r \in Replicas /\ ~Claimed(a) /\ ~Owned(a)
  BY DEF ActorInv, ActorTypeOK, BrokerActivates, Activating, Rpc, PickedIsBound, LifeInv
<1>2. minted + 1 \in Claims /\ current[r] \in Connections
  BY <1>1 DEF ActorInv, ActorTypeOK, BrokerActivates, LifeInv, LifeTypeOK, Claims, CanSend
<1>3. new \in Claim
  BY <1>1, <1>2 DEF Claim, Rpc
<1>4. /\ entry' = [entry EXCEPT ![a] = rpc[q].version]
      /\ reservation' = [reservation EXCEPT ![a] = minted + 1]
      /\ claim' = [claim EXCEPT ![a] = new]
      /\ wire' = wire \cup {[id |-> minted + 1, conn |-> current[r]]}
      /\ minted' = minted + 1
      /\ rpc' = [rpc EXCEPT ![q].step = "calling"]
      /\ UNCHANGED <<lifeVars, owner, evicting, outcome, schedulerVars, waiters, touching,
                     evictWire, consumerVars>>
  BY DEF BrokerActivates
<1>5. new.id = minted + 1 /\ new.conn = rpc[q].conn /\ new.version = rpc[q].version
  OBVIOUS
<1>6. rpc[q].version \in Versions
  BY <1>1 DEF Rpc
<1> HIDE DEF a, r, new
<1>7. ActorTypeOK'
  BY <1>1, <1>2, <1>3, <1>4, <1>6 DEF ActorInv, ActorTypeOK, registryVars, schedulerVars, consumerVars,
      Rpc, RpcSteps, ControlFrame, Claims
<1>8. (ClaimIsReservation /\ EvictionHasOwner /\ PickedIsBound /\ WaiterHasCall /\ LifeInv)'
  BY <1>1, <1>3, <1>4, <1>5 DEF ActorInv, LifeInv, LifeTypeOK, ActorTypeOK, ClaimIsReservation,
      EvictionHasOwner, PickedIsBound, WaiterHasCall, Owned, Claimed, lifeVars, Rpc, RpcSteps
<1> QED
  BY <1>7, <1>8 DEF ActorInv

LEMMA UnsentInv ==
    ASSUME ActorInv, NEW q \in Rpcs, BrokerUnsent(q)
    PROVE  ActorInv'
<1> USE ActorAssumption
<1> DEFINE a == rpc[q].actor
<1>1. rpc[q] \in Rpc /\ a \in Actors /\ ~Claimed(a) /\ rpc[q].version \in Versions
  BY DEF ActorInv, ActorTypeOK, BrokerUnsent, Activating, Rpc
<1>2. /\ entry' = [entry EXCEPT ![a] = rpc[q].version]
      /\ rpc' = [rpc EXCEPT ![q].step = "failed"]
      /\ outcome' = [outcome EXCEPT ![q] = "failed"]
      /\ UNCHANGED <<lifeVars, owner, evicting, reservation, claim, minted, schedulerVars, waiters,
                     touching, wireVars, consumerVars>>
  BY DEF BrokerUnsent, Answered
<1> HIDE DEF a
<1> QED
  BY <1>1, <1>2 DEF ActorInv, LifeInv, LifeTypeOK, ActorTypeOK, ClaimIsReservation,
      EvictionHasOwner, PickedIsBound, WaiterHasCall, Owned, Claimed, lifeVars,
      schedulerVars, wireVars, consumerVars, Rpc, RpcSteps

LEMMA WaitInv ==
    ASSUME ActorInv, NEW q \in Rpcs, InsertWaiter(q) \/ TaskWaits(q)
    PROVE  ActorInv'
<1> USE ActorAssumption
<1>1. rpc[q] \in Rpc
  BY DEF ActorInv, ActorTypeOK, InsertWaiter, TaskWaits
<1>2. PICK step \in {"waiting", "resolved", "failed"} : rpc' = [rpc EXCEPT ![q].step = step]
  BY DEF InsertWaiter, TaskWaits, ActorInv, ActorTypeOK
<1>3. /\ waiters' \in {waiters, waiters \cup {q}}
      /\ UNCHANGED <<lifeVars, registryVars, brokerVars, schedulerVars, touching, wireVars,
                     consumerVars>>
  BY DEF InsertWaiter, TaskWaits
<1> QED
  BY <1>1, <1>2, <1>3 DEF ActorInv, LifeInv, LifeTypeOK, ActorTypeOK, ClaimIsReservation,
      EvictionHasOwner, PickedIsBound, WaiterHasCall, Owned, Claimed, lifeVars, registryVars, brokerVars,
      schedulerVars, wireVars, consumerVars, Rpc, RpcSteps

\* The end of a claim that is no longer reserved: it is gone from the broker, and its
\* waiters have their outcome.
LEMMA ResolveInv ==
    ASSUME ActorInv, NEW a \in Actors, Claimed(a), NEW res \in {"resolved", "failed"}, Resolve(a, res)
    PROVE  /\ claim' = [claim EXCEPT ![a] = NoClaim]
           /\ rpc' \in [Rpcs -> Rpc \cup {NoRpc}]
           /\ outcome' \in [Rpcs -> {"none", "resolved", "failed"}]
           /\ waiters' \subseteq Rpcs /\ WaiterHasCall'
           /\ \A q \in Rpcs : rpc'[q] # NoRpc /\ rpc'[q].step = "picked" => rpc'[q] = rpc[q]
<1> USE ActorAssumption
<1>1. \A q \in Rpcs : rpc[q] # NoRpc => [rpc[q] EXCEPT !.step = res] \in Rpc
  BY DEF ActorInv, ActorTypeOK, Rpc, RpcSteps
<1>2. \A q \in Rpcs : rpc[q] = NoRpc \/ rpc[q] \in Rpc
  BY DEF ActorInv, ActorTypeOK
<1> QED
  BY <1>1, <1>2 DEF Resolve, ActorInv, ActorTypeOK, WaiterHasCall, Rpc, RpcSteps
LEMMA AckInv ==
    ASSUME ActorInv, NEW a \in Actors, NEW f \in wire, ActivationAck(a, f)
    PROVE  ActorInv'
<1> USE ActorAssumption
<1>1. Claimed(a) /\ claim[a] \in Claim /\ CanCommit(a)
  BY DEF ActivationAck, AckMatches, ActorInv, ActorTypeOK, ClaimIsReservation, Claimed, CanCommit
<1>2. Granted(a) \in Fence
  <2>1. stage[claim[a].conn] # "absent" /\ claim[a].conn \in Connections
    BY <1>1 DEF ActorInv, PickedIsBound, Claim
  <2>2. bound[claim[a].conn] \in Replicas
    BY <2>1 DEF ActorInv, LifeInv
  <2> QED
    BY <1>1, <2>1, <2>2 DEF Granted, Fence, Claim
<1>3. /\ owner' = [owner EXCEPT ![a] = Granted(a)]
      /\ reservation' = [reservation EXCEPT ![a] = 0]
      /\ wire' \subseteq wire
      /\ Resolve(a, "resolved")
      /\ UNCHANGED <<lifeVars, entry, evicting, minted, schedulerVars, touching, evictWire,
                     consumerVars>>
  BY <1>1 DEF ActivationAck, Commit, AckTaken
<1>4. /\ claim' = [claim EXCEPT ![a] = NoClaim]
      /\ rpc' \in [Rpcs -> Rpc \cup {NoRpc}]
      /\ outcome' \in [Rpcs -> {"none", "resolved", "failed"}]
      /\ waiters' \subseteq Rpcs /\ WaiterHasCall'
      /\ \A q \in Rpcs : rpc'[q] # NoRpc /\ rpc'[q].step = "picked" => rpc'[q] = rpc[q]
  BY <1>1, <1>3, ResolveInv
<1>5. ActorTypeOK'
  BY <1>2, <1>3, <1>4 DEF ActorInv, ActorTypeOK, schedulerVars, consumerVars
<1>6. (ClaimIsReservation /\ EvictionHasOwner /\ PickedIsBound /\ LifeInv)'
  BY <1>1, <1>2, <1>3, <1>4 DEF ActorInv, ActorTypeOK, ClaimIsReservation, EvictionHasOwner,
      PickedIsBound, LifeInv, LifeTypeOK, lifeVars, Owned, Claimed
<1> QED
  BY <1>4, <1>5, <1>6 DEF ActorInv

\* A claim that ends without an owner gives its reservation back.
LEMMA AbortInv ==
    ASSUME ActorInv, NEW a \in Actors, Claimed(a), Abort(a), Resolve(a, "failed"),
           wire' \subseteq wire,
           UNCHANGED <<lifeVars, entry, owner, evicting, minted, schedulerVars, touching, evictWire,
                       consumerVars>>
    PROVE  ActorInv'
<1> USE ActorAssumption
<1>1. reservation' = [reservation EXCEPT ![a] = 0]
  BY DEF Abort, ActorInv, ActorTypeOK, ClaimIsReservation
<1>2. /\ claim' = [claim EXCEPT ![a] = NoClaim]
      /\ rpc' \in [Rpcs -> Rpc \cup {NoRpc}]
      /\ outcome' \in [Rpcs -> {"none", "resolved", "failed"}]
      /\ waiters' \subseteq Rpcs /\ WaiterHasCall'
      /\ \A q \in Rpcs : rpc'[q] # NoRpc /\ rpc'[q].step = "picked" => rpc'[q] = rpc[q]
  BY ResolveInv
<1>3. ActorTypeOK'
  BY <1>1, <1>2 DEF ActorInv, ActorTypeOK, schedulerVars, consumerVars
<1>4. (ClaimIsReservation /\ EvictionHasOwner /\ PickedIsBound /\ LifeInv)'
  BY <1>1, <1>2 DEF ActorInv, ActorTypeOK, ClaimIsReservation, EvictionHasOwner,
      PickedIsBound, LifeInv, LifeTypeOK, lifeVars, Owned, Claimed
<1> QED
  BY <1>2, <1>3, <1>4 DEF ActorInv

LEMMA ClaimEndInv ==
    ASSUME ActorInv, NEW a \in Actors,
           (\E f \in wire : ActivationRefused(a, f)) \/ ActivationTimeout(a)
    PROVE  ActorInv'
<1>1. /\ Claimed(a) /\ Abort(a) /\ Resolve(a, "failed") /\ wire' \subseteq wire
      /\ UNCHANGED <<lifeVars, entry, owner, evicting, minted, schedulerVars, touching, evictWire,
                     consumerVars>>
  BY DEF ActivationRefused, ActivationTimeout, AckTaken, AckMatches, wireVars
<1> QED
  BY <1>1, AbortInv

-----------------------------------------------------------------------------

LEMMA TickInv ==
    ASSUME ActorInv, Tick
    PROVE  ActorInv'
<1> USE ActorAssumption
<1>1. \A a \in Actors : Owned(a) => [owner[a] EXCEPT !.left = Less(@)] \in Fence
  BY DEF ActorInv, ActorTypeOK, Owned, Fence, Less
<1>2. \A a \in Actors : Claimed(a) =>
          /\ [claim[a] EXCEPT !.left = Less(@)] \in Claim
          /\ [claim[a] EXCEPT !.left = Less(@)].id = claim[a].id
          /\ [claim[a] EXCEPT !.left = Less(@)].conn = claim[a].conn
          /\ [claim[a] EXCEPT !.left = Less(@)].version = claim[a].version
  <2>1. \A a \in Actors : Claimed(a) => claim[a] \in Claim
    BY DEF ActorInv, ActorTypeOK, Claimed
  <2>2. ASSUME NEW cl \in Claim
        PROVE  /\ [cl EXCEPT !.left = Less(@)] \in Claim
               /\ [cl EXCEPT !.left = Less(@)].id = cl.id
               /\ [cl EXCEPT !.left = Less(@)].conn = cl.conn
               /\ [cl EXCEPT !.left = Less(@)].version = cl.version
    <3>1. Less(cl.left) \in 0..Ttl
      BY DEF Claim, Less
    <3>2. [cl EXCEPT !.left = Less(@)] \in Claim
      BY <3>1 DEF Claim
    <3>3. /\ [cl EXCEPT !.left = Less(@)].id = cl.id
          /\ [cl EXCEPT !.left = Less(@)].conn = cl.conn
          /\ [cl EXCEPT !.left = Less(@)].version = cl.version
      BY DEF Claim
    <3> QED BY <3>2, <3>3
  <2> QED BY <2>1, <2>2
<1>3. \A a \in Actors : /\ (owner'[a] # NoFence) <=> (owner[a] # NoFence)
                        /\ (claim'[a] # NoClaim) <=> (claim[a] # NoClaim)
  BY <1>1, <1>2 DEF Tick, Owned, Claimed
<1>4. ActorTypeOK'
  <2>1. owner' \in [Actors -> Fence \cup {NoFence}] /\ claim' \in [Actors -> Claim \cup {NoClaim}]
    BY <1>1, <1>2 DEF Tick
  <2>2. \A a \in Actors : idle[a] # NoMark => Less(idle[a]) \in 0..Ttl
    BY DEF ActorInv, ActorTypeOK, Less
  <2>3. idle' \in [Actors -> 0..Ttl \cup {NoMark}]
    BY <2>2 DEF Tick
  <2> QED
    BY <2>1, <2>3 DEF Tick, ActorInv, ActorTypeOK, sinkVars, wireVars, consumerVars
<1>5. (ClaimIsReservation /\ EvictionHasOwner /\ PickedIsBound)'
  <2>1. \A a \in Actors : claim[a] # NoClaim =>
            /\ claim'[a].id = claim[a].id /\ claim'[a].conn = claim[a].conn
            /\ claim'[a].version = claim[a].version
    BY <1>2 DEF Tick, Claimed
  <2>2. UNCHANGED <<stage, entry, evicting, reservation, rpc>>
    BY DEF Tick, sinkVars, lifeVars
  <2> QED
    BY <1>3, <2>1, <2>2 DEF ActorInv, ActorTypeOK, ClaimIsReservation, EvictionHasOwner,
        PickedIsBound, Owned, Claimed
<1>6. (LifeInv /\ WaiterHasCall)'
  BY DEF Tick, ActorInv, LifeInv, LifeTypeOK, WaiterHasCall, lifeVars, sinkVars
<1> QED
  BY <1>4, <1>5, <1>6 DEF ActorInv

\* Steps that leave calls, claims and sessions alone.
quietVars == <<lifeVars, entry, reservation, claim, minted, rpc, outcome, waiters>>

\* Of those, what can matter is whether an owner goes and takes its eviction along.
LEMMA QuietInv ==
    ASSUME ActorInv, UNCHANGED quietVars, ActorTypeOK',
           \A a \in Actors : Owned(a)' => Owned(a),
           \A a \in evicting' : Owned(a)'
    PROVE  ActorInv'
<1> USE DEF ActorInv, quietVars
<1>1. ClaimIsReservation' /\ EvictionHasOwner'
  BY DEF ClaimIsReservation, EvictionHasOwner, Owned, Claimed
<1>2. (PickedIsBound /\ WaiterHasCall /\ LifeInv)'
  BY DEF PickedIsBound, WaiterHasCall, LifeInv, LifeTypeOK, lifeVars, Claimed
<1> QED
  BY <1>1, <1>2

LEMMA SweepInv ==
    ASSUME ActorInv, NEW a \in Actors, SweepIdle(a) \/ SweepLease(a) \/ Remove(a)
    PROVE  ActorInv'
<1> USE ActorAssumption
<1>1. CASE SweepIdle(a)
  <2>1. Owned(a) /\ owner[a] \in Fence
    BY <1>1 DEF SweepIdle, IdleOwner, Owned, ActorInv, ActorTypeOK
  <2>2. evictWire' \subseteq ControlFrame
    BY <1>1, <2>1 DEF SweepIdle, SendIdleEvict, CanSend, ActorInv, ActorTypeOK, LifeInv, LifeTypeOK,
        ControlFrame, Fence
  <2>3. evictions' \in [Actors -> (0..MaxRetries + 1) \cup {NoEviction}]
    BY <1>1 DEF SweepIdle, ActorInv, ActorTypeOK, Exhausted
  <2>4. evicting' \in {evicting, evicting \cup {a}}
    BY <1>1 DEF SweepIdle
  <2>5. UNCHANGED <<quietVars, owner, idle, touching, wire, consumerVars>>
    BY <1>1 DEF SweepIdle, quietVars, brokerVars, sinkVars
  <2>6. ActorTypeOK'
    BY <2>2, <2>3, <2>4, <2>5 DEF ActorInv, ActorTypeOK, quietVars, consumerVars
  <2> QED
    BY <2>1, <2>4, <2>5, <2>6, QuietInv DEF Owned, ActorInv, EvictionHasOwner
<1>2. CASE SweepLease(a) \/ Remove(a)
  <2>1. Release(a)
    BY <1>2 DEF SweepLease, Remove
  <2>2. UNCHANGED <<quietVars, touching, wireVars, consumerVars>>
    BY <1>2 DEF SweepLease, Remove, quietVars, brokerVars, sinkVars
  <2>3. /\ idle' \in [Actors -> 0..Ttl \cup {NoMark}]
        /\ evictions' \in [Actors -> (0..MaxRetries + 1) \cup {NoEviction}]
    BY <1>2 DEF SweepLease, Remove, Forget, schedulerVars, ActorInv, ActorTypeOK
  <2>4. ActorTypeOK'
    BY <2>1, <2>2, <2>3 DEF Release, ActorInv, ActorTypeOK, quietVars, wireVars, consumerVars
  <2> QED
    BY <2>1, <2>2, <2>4, QuietInv DEF Release, Owned, ActorInv, ActorTypeOK, EvictionHasOwner
<1> QED
  BY <1>1, <1>2

LEMMA TouchInv ==
    ASSUME ActorInv, NEW a \in Actors, ReadFence(a) \/ \E lease \in Claims : Touch(a, lease)
    PROVE  ActorInv'
<1> USE ActorAssumption
<1>1. CASE ReadFence(a)
  <2>1. owner[a] \in Fence
    BY <1>1 DEF ReadFence, Owned, ActorInv, ActorTypeOK
  <2>2. UNCHANGED <<quietVars, owner, evicting>>
    BY <1>1 DEF ReadFence, registryVars, brokerVars, quietVars
  <2>3. ActorTypeOK'
    BY <1>1, <2>1 DEF ReadFence, ActorInv, ActorTypeOK, registryVars, brokerVars, schedulerVars,
        wireVars, consumerVars, Fence
  <2> QED
    BY <2>2, <2>3, QuietInv DEF Owned, ActorInv, EvictionHasOwner
<1>2. ASSUME NEW lease \in Claims, Touch(a, lease)
      PROVE  ActorInv'
  <2>1. owner' = owner \/ (owner[a] \in Fence /\ owner' = [owner EXCEPT ![a].left = Ttl])
    BY <1>2 DEF Touch, Renew, Owned, ActorInv, ActorTypeOK
  <2>2. /\ owner' \in [Actors -> Fence \cup {NoFence}]
        /\ \A b \in Actors : (owner'[b] # NoFence) <=> (owner[b] # NoFence)
    BY <2>1 DEF ActorInv, ActorTypeOK, Fence
  <2>3. UNCHANGED <<quietVars, evicting>>
    BY <1>2 DEF Touch, brokerVars, quietVars
  <2>4. ActorTypeOK'
    <3>1. idle' \in [Actors -> 0..Ttl \cup {NoMark}] /\ touching' \subseteq Actors \X Claims
      BY <1>2 DEF Touch, MarkLive, ActorInv, ActorTypeOK
    <3> QED
      BY <1>2, <2>2, <3>1 DEF Touch, ActorInv, ActorTypeOK, brokerVars, wireVars, consumerVars
  <2> QED
    <3>1. \A b \in evicting : b \in Actors /\ owner[b] # NoFence
      BY DEF ActorInv, ActorTypeOK, EvictionHasOwner, Owned
    <3>2. \A b \in evicting' : Owned(b)'
      BY <2>2, <2>3, <3>1 DEF Owned
    <3>3. \A b \in Actors : Owned(b)' => Owned(b)
      BY <2>2 DEF Owned
    <3> QED
      BY <2>3, <2>4, <3>2, <3>3, QuietInv
<1> QED
  BY <1>1, <1>2
LEMMA EvictAckInv ==
    ASSUME ActorInv, NEW f \in evictWire, IdleEvictAck(f)
    PROVE  ActorInv'
<1>1. /\ owner' = [a \in Actors |-> owner[a]] /\ evicting' = evicting
      /\ idle' = [a \in Actors |-> idle[a]] /\ evictions' = [a \in Actors |-> evictions[a]]
  BY DEF IdleEvictAck, PendingControls
<1>2. UNCHANGED <<owner, evicting, idle, evictions>>
  BY <1>1 DEF ActorInv, ActorTypeOK
<1>3. UNCHANGED quietVars
  BY DEF IdleEvictAck, quietVars, brokerVars, sinkVars
<1>4. ActorTypeOK'
  BY <1>2 DEF IdleEvictAck, ActorInv, ActorTypeOK, brokerVars, sinkVars, consumerVars
<1> QED
  BY <1>2, <1>3, <1>4, QuietInv DEF Owned, ActorInv, EvictionHasOwner

LEMMA ConsumerInv ==
    ASSUME ActorInv,
           \/ \E c \in Connections : ConsumeBegin(c)
           \/ \E a \in Actors : ReleaseOwned(a)
    PROVE  ActorInv'
<1> USE ActorAssumption
<1>1. ASSUME NEW c \in Connections, ConsumeBegin(c)
      PROVE  ActorInv'
  <2>1. UNCHANGED <<quietVars, owner, evicting>>
    BY <1>1 DEF ConsumeBegin, registryVars, brokerVars, sinkVars, quietVars
  <2>2. ActorTypeOK'
    BY <1>1 DEF ConsumeBegin, ActorInv, ActorTypeOK, registryVars, brokerVars, schedulerVars,
        sinkVars, wireVars
  <2> QED
    BY <2>1, <2>2, QuietInv DEF Owned, ActorInv, EvictionHasOwner
<1>2. ASSUME NEW a \in Actors, ReleaseOwned(a)
      PROVE  ActorInv'
  <2>1. Release(a) \/ UNCHANGED <<owner, evicting>>
    BY <1>2 DEF ReleaseOwned
  <2>2. UNCHANGED quietVars
    BY <1>2 DEF ReleaseOwned, quietVars, brokerVars, sinkVars
  <2>3. /\ idle' \in [Actors -> 0..Ttl \cup {NoMark}]
        /\ evictions' \in [Actors -> (0..MaxRetries + 1) \cup {NoEviction}]
    BY <1>2 DEF ReleaseOwned, Forget, schedulerVars, ActorInv, ActorTypeOK
  <2>4. ActorTypeOK'
    BY <1>2, <2>1, <2>3 DEF ReleaseOwned, Release, ActorInv, ActorTypeOK, brokerVars, sinkVars,
        wireVars
  <2> QED
    BY <2>1, <2>2, <2>4, QuietInv DEF Release, Owned, ActorInv, ActorTypeOK, EvictionHasOwner
<1> QED
  BY <1>1, <1>2

\* A session that moves changes nothing of the actors, and an announced one stays so.
LEMMA SessionInv ==
    ASSUME ActorInv, ConsumeEnd \/ \E c \in Connections : SessionMoves(c)
    PROVE  ActorInv'
<1>1. PICK c \in Connections : LifeStep(c) \/ LifeConsume(c)
  <2>1. CASE ConsumeEnd
    BY <2>1 DEF ConsumeEnd, ActorInv, ActorTypeOK
  <2> QED
    BY <2>1 DEF SessionMoves
<1>2. LifeInv' /\ \A d \in Connections : stage[d] # "absent" => stage'[d] # "absent"
  BY <1>1, LifeStepInv DEF ActorInv
<1>3. /\ UNCHANGED <<registryVars, brokerVars, schedulerVars, sinkVars, wireVars, toRelease>>
      /\ closing' \in {closing, NoConnection}
  BY DEF ConsumeEnd, SessionMoves, actorVars, consumerVars
<1>4. ActorTypeOK'
  BY <1>3 DEF ActorInv, ActorTypeOK, registryVars, brokerVars, schedulerVars, sinkVars, wireVars
<1>5. (ClaimIsReservation /\ EvictionHasOwner /\ WaiterHasCall)'
  BY <1>3 DEF ActorInv, ClaimIsReservation, EvictionHasOwner, WaiterHasCall, Owned, Claimed,
      registryVars, brokerVars, sinkVars
<1>6. PickedIsBound'
  <2>1. \A a \in Actors : Claimed(a) => claim[a].conn \in Connections
    BY DEF ActorInv, ActorTypeOK, Claimed, Claim
  <2> QED
    BY <1>2, <1>3, <2>1 DEF ActorInv, PickedIsBound, Claimed, brokerVars, sinkVars
<1> QED
  BY <1>2, <1>4, <1>5, <1>6 DEF ActorInv

LEMMA DroppedInv ==
    ASSUME ActorInv, \/ \E f \in wire : ActivationAckDropped(f)
                     \/ UNCHANGED activationVars
    PROVE  ActorInv'
<1>1. /\ UNCHANGED <<quietVars, owner, evicting, evictWire, schedulerVars, touching, consumerVars>>
      /\ wire' \subseteq wire
  BY DEF ActivationAckDropped, AckTaken, activationVars, actorVars, registryVars, brokerVars,
      sinkVars, wireVars, quietVars
<1>2. ActorTypeOK'
  BY <1>1 DEF ActorInv, ActorTypeOK, quietVars, schedulerVars, consumerVars
<1> QED
  BY <1>1, <1>2, QuietInv DEF Owned, ActorInv, EvictionHasOwner

LEMMA NextInv == ActorInv /\ [ActorNext]_activationVars => ActorInv'
<1> SUFFICES ASSUME ActorInv, [ActorNext]_activationVars
             PROVE  ActorInv'
  OBVIOUS
<1>1. ASSUME NEW q \in Rpcs, GetOrCreate(q)
      PROVE  ActorInv'
  BY <1>1, PickInv, AnswerInv, JoinInv, ActivateInv, UnsentInv, WaitInv DEF GetOrCreate
<1>2. CASE ActivationAcks
  BY <1>2, AckInv, ClaimEndInv, DroppedInv DEF ActivationAcks
<1>3. ASSUME NEW a \in Actors,
             \/ ActivationTimeout(a) \/ SweepIdle(a) \/ SweepLease(a)
             \/ ReadFence(a) \/ Remove(a)
             \/ \E lease \in Claims : Touch(a, lease)
      PROVE  ActorInv'
  BY <1>3, ClaimEndInv, SweepInv, TouchInv
<1>4. CASE ConsumerStep \/ \E c \in Connections : ConsumeBegin(c) \/ SessionMoves(c)
  BY <1>4, ConsumerInv, SessionInv DEF ConsumerStep
<1>5. CASE UNCHANGED activationVars
  BY <1>5, DroppedInv
<1> QED
  BY <1>1, <1>2, <1>3, <1>4, <1>5, EvictAckInv, TickInv DEF ActorNext

LEMMA Invariance == ActorSpec => []ActorInv
<1> QED
  BY InitInv, NextInv, PTL DEF ActorSpec

-----------------------------------------------------------------------------
(* Theorems *)

\* Every variable of the registry, broker, scheduler, sink and consumer keeps the type the
\* code gives it; in particular a granted fence always names an announced runtime.
THEOREM ActorTypesCorrect == ActorSpec => []ActorTypeOK
<1>1. ActorInv => ActorTypeOK
  BY DEF ActorInv
<1> QED
  BY <1>1, Invariance, PTL

\* Broker claim and registry reservation are the same thing, whatever interleaves between
\* the two locks: a key is neither activated twice nor refused for good.
THEOREM ClaimsReserved == ActorSpec => []ClaimIsReservation
<1>1. ActorInv => ClaimIsReservation
  BY DEF ActorInv
<1> QED
  BY <1>1, Invariance, PTL

\* A key without owner and claim can be reserved: no eviction request outlives its owner.
THEOREM FreeKeysReservable == ActorSpec => []FreeKeyIsReservable
<1>1. ActorInv => FreeKeyIsReservable
  BY DEF ActorInv, ActorTypeOK, ClaimIsReservation, EvictionHasOwner, FreeKeyIsReservable, Reservable
<1> QED
  BY <1>1, Invariance, PTL
\* A lease is never replaced by another in place: the owner of a key changes only by way of
\* no owner, so a fence read before is either current or refused (ownership.rs).
THEOREM OwnerNotReplaced == ActorSpec => OwnerIsNotReplaced
<1> DEFINE Kept == \A a \in Actors : Owned(a) /\ Owned(a)' => owner'[a].lease = owner[a].lease
<1>1. ActorInv /\ [ActorNext]_activationVars => Kept
  <2> SUFFICES ASSUME ActorInv, [ActorNext]_activationVars, NEW a \in Actors, Owned(a), Owned(a)'
               PROVE  owner'[a].lease = owner[a].lease
    OBVIOUS
  <2> USE ActorAssumption
  <2>0. owner[a] \in Fence
    BY DEF ActorInv, ActorTypeOK, Owned
  <2>1. CASE owner' = owner
    BY <2>1
  <2>2. ASSUME NEW b \in Actors, NEW f \in wire, ActivationAck(b, f)
        PROVE  owner'[a].lease = owner[a].lease
    <3>1. ~Owned(b)
      BY <2>2 DEF ActivationAck, AckMatches, ActorInv, ClaimIsReservation
    <3> QED
      BY <2>2, <3>1 DEF ActivationAck, Commit, Owned, ActorInv, ActorTypeOK
  <2>3. CASE Tick
    BY <2>0, <2>3 DEF Tick, Owned, Fence
  <2>4. ASSUME NEW b \in Actors, NEW lease \in Claims, Touch(b, lease)
        PROVE  owner'[a].lease = owner[a].lease
    BY <2>0, <2>4 DEF Touch, Renew, ActorInv, ActorTypeOK, Fence
  <2>5. ASSUME NEW b \in Actors, Release(b)
        PROVE  owner'[a].lease = owner[a].lease
    BY <2>5 DEF Release, Owned, ActorInv, ActorTypeOK
  <2>6. ASSUME NEW b \in Actors, SweepLease(b) \/ Remove(b) \/ ReleaseOwned(b)
        PROVE  Release(b) \/ owner' = owner
    BY <2>6 DEF SweepLease, Remove, ReleaseOwned
  <2>7. ASSUME NEW f \in evictWire, IdleEvictAck(f)
        PROVE  owner'[a] = owner[a]
    BY <2>7 DEF IdleEvictAck, PendingControls
  <2>8. ASSUME NEW q \in Rpcs, GetOrCreate(q)
        PROVE  owner' = owner
    BY <2>8 DEF GetOrCreate, PickOwner, BrokerAnswers, BrokerJoins, BrokerActivates, BrokerUnsent,
        InsertWaiter, TaskWaits, registryVars
  <2>9. ASSUME NEW b \in Actors, ActivationTimeout(b) \/ SweepIdle(b) \/ ReadFence(b)
        PROVE  owner' = owner
    BY <2>9 DEF ActivationTimeout, SweepIdle, ReadFence, registryVars
  <2>10. ASSUME NEW f \in wire,
                ActivationAckDropped(f) \/ \E b \in Actors : ActivationRefused(b, f)
         PROVE  owner' = owner
    BY <2>10 DEF ActivationRefused, ActivationAckDropped, registryVars
  <2>11. CASE ConsumeEnd \/ (\E c \in Connections : ConsumeBegin(c) \/ SessionMoves(c))
              \/ UNCHANGED activationVars
    BY <2>11 DEF ConsumeEnd, ConsumeBegin, SessionMoves, activationVars, actorVars, registryVars
  <2> QED
    BY <2>1, <2>2, <2>3, <2>4, <2>5, <2>6, <2>7, <2>8, <2>9, <2>10, <2>11
    DEF ActorNext, ActivationAcks, ConsumerStep
<1> QED
  BY <1>1, Invariance, PTL DEF ActorSpec, OwnerIsNotReplaced

-----------------------------------------------------------------------------
(* The bound on the claims in flight *)

\* Only an activation adds a claim, and one at a time.
LEMMA ClaimsStep ==
    ASSUME ActorInv, [ActorNext]_activationVars
    PROVE  \/ OpenClaims' \subseteq OpenClaims
           \/ /\ \E a \in Actors : OpenClaims' = OpenClaims \cup {a}
              /\ Cardinality(OpenClaims) < ClaimBudget
<1> USE ActorAssumption
<1>1. ASSUME NEW q \in Rpcs, BrokerActivates(q)
      PROVE  /\ \E a \in Actors : OpenClaims' = OpenClaims \cup {a}
             /\ Cardinality(OpenClaims) < ClaimBudget
  <2> DEFINE a == rpc[q].actor
  <2>1. a \in Actors /\ \E new \in Claim : claim' = [claim EXCEPT ![a] = new]
    <3>1. /\ rpc[q] \in Rpc /\ a \in Actors /\ rpc[q].conn \in Connections
      BY <1>1 DEF ActorInv, ActorTypeOK, BrokerActivates, Activating, Rpc, PickedIsBound
    <3>2. minted + 1 \in Claims
      BY <1>1 DEF ActorInv, ActorTypeOK, BrokerActivates, Claims
    <3>3. [id |-> minted + 1, conn |-> rpc[q].conn, lineage |-> rpc[q].lineage,
           version |-> rpc[q].version, waiters |-> {q}, left |-> Ttl] \in Claim
      BY <3>1, <3>2 DEF Claim, Rpc
    <3> QED
      BY <1>1, <3>1, <3>3 DEF BrokerActivates
  <2> HIDE DEF a
  <2>2. OpenClaims' = OpenClaims \cup {a}
    BY <2>1 DEF OpenClaims, Claimed, ActorInv, ActorTypeOK
  <2> QED
    BY <1>1, <2>1, <2>2 DEF BrokerActivates, Activating
<1>2. ASSUME NEW q \in Rpcs, BrokerJoins(q)
      PROVE  OpenClaims' \subseteq OpenClaims
  BY <1>2 DEF BrokerJoins, OpenClaims, Claimed, ActorInv, ActorTypeOK
<1>3. ASSUME NEW a \in Actors, NEW res, Resolve(a, res)
      PROVE  OpenClaims' \subseteq OpenClaims
  BY <1>3 DEF Resolve, OpenClaims, Claimed, ActorInv, ActorTypeOK
<1>4. CASE Tick
  BY <1>4 DEF Tick, OpenClaims, Claimed
<1>5. claim' = claim => OpenClaims' \subseteq OpenClaims
  BY DEF OpenClaims, Claimed
<1>6. ASSUME NEW q \in Rpcs, GetOrCreate(q)
      PROVE  BrokerActivates(q) \/ BrokerJoins(q) \/ claim' = claim
  BY <1>6 DEF GetOrCreate, PickOwner, BrokerAnswers, BrokerUnsent, InsertWaiter, TaskWaits,
      brokerVars
<1>7. CASE ActivationAcks
  BY <1>3, <1>5, <1>7 DEF ActivationAcks, ActivationAck, ActivationRefused, ActivationAckDropped,
      brokerVars
<1>8. ASSUME NEW a \in Actors,
             \/ ActivationTimeout(a) \/ SweepIdle(a) \/ SweepLease(a)
             \/ ReadFence(a) \/ Remove(a)
             \/ \E lease \in Claims : Touch(a, lease)
      PROVE  OpenClaims' \subseteq OpenClaims
  BY <1>3, <1>5, <1>8 DEF ActivationTimeout, SweepIdle, SweepLease, ReadFence, Remove, Touch,
      brokerVars
<1>9. CASE \/ \E f \in evictWire : IdleEvictAck(f)
           \/ ConsumerStep \/ (\E c \in Connections : ConsumeBegin(c) \/ SessionMoves(c))
           \/ UNCHANGED activationVars
  BY <1>5, <1>9 DEF IdleEvictAck, ConsumerStep, ConsumeEnd, ReleaseOwned, ConsumeBegin,
      SessionMoves, activationVars, actorVars, brokerVars
<1> QED
  BY <1>1, <1>2, <1>4, <1>5, <1>6, <1>7, <1>8, <1>9 DEF ActorNext

\* The claims in flight stay within max_claims for any number of actors and calls: the
\* budget is checked under the lock that adds the claim (activation.rs get_or_create).
THEOREM ClaimsBounded == ActorSpec => []ClaimsAreBounded
<1> USE ActorAssumption DEF FiniteClaims
<1>1. ActorInit => FiniteClaims
  <2> SUFFICES ASSUME ActorInit PROVE FiniteClaims
    OBVIOUS
  <2>1. OpenClaims = {}
    BY DEF ActorInit, OpenClaims, Claimed
  <2> QED
    BY <2>1, FS_EmptySet
<1>2. ActorInv /\ FiniteClaims /\ [ActorNext]_activationVars => FiniteClaims'
  <2> SUFFICES ASSUME ActorInv, FiniteClaims, [ActorNext]_activationVars
               PROVE  FiniteClaims'
    OBVIOUS
  <2>1. CASE OpenClaims' \subseteq OpenClaims
    <3>1. /\ IsFiniteSet(OpenClaims')
          /\ Cardinality(OpenClaims') <= Cardinality(OpenClaims)
          /\ Cardinality(OpenClaims') \in Nat /\ Cardinality(OpenClaims) \in Nat
      BY <2>1, FS_Subset, FS_CardinalityType
    <3> QED
      BY <3>1
  <2>2. ASSUME NEW a \in Actors, OpenClaims' = OpenClaims \cup {a},
               Cardinality(OpenClaims) < ClaimBudget
        PROVE  FiniteClaims'
    <3>1. /\ IsFiniteSet(OpenClaims')
          /\ Cardinality(OpenClaims') \in {Cardinality(OpenClaims), Cardinality(OpenClaims) + 1}
          /\ Cardinality(OpenClaims) \in Nat
      BY <2>2, FS_AddElement, FS_CardinalityType
    <3> QED
      BY <2>2, <3>1
  <2> QED
    BY <2>1, <2>2, ClaimsStep
<1>3. FiniteClaims => ClaimsAreBounded
  BY DEF ClaimsAreBounded
<1> QED
  BY <1>1, <1>2, <1>3, Invariance, PTL DEF ActorSpec
=============================================================================
