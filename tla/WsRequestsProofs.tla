--------------------------- MODULE WsRequestsProofs ---------------------------
(***************************************************************************)
(* Theorems about WsRequests, for any number of clients, sessions,         *)
(* requests and calls: the limits of broker and pool, that their counters  *)
(* are exact, that requests and calls are settled once, that a result goes *)
(* to its own execution, and that what is pending has its owners.          *)
(***************************************************************************)
EXTENDS WsRequests, FiniteSetTheorems, TLAPS

PendingOnes == {o \in Requests : Pending(o)}
CallsOf(w) == {c \in active : c.sock = w}
HeldBy(s) == {c \in calls \cup ({inserting} \ {NoCall}) : runtime[c.sock] = s}

\* Only these answer a request; before and in these states nothing was answered.
Unanswered == {"new", "pending", "cancelled", "detached"}

OutSettled == \A o \in Requests : answers[o] <= 1 /\ (state[o] \in Unanswered => answers[o] = 0)

OutOwned ==
    \A o \in Requests : Pending(o) =>
        /\ via[o].sock \in gens /\ via[o].session \in Connections
        /\ stage[via[o].session] = "barrier" => via[o].session \in inbox

OutExact == \A w \in Sockets : outActive[w] = Cardinality(Outstanding(w))

OutInv == OutboundTypeOK /\ IsFiniteSet(PendingOnes) /\ OutExact /\ OutSettled /\ OutOwned

-----------------------------------------------------------------------------
(* Counting *)

LEMMA CountWithout ==
    ASSUME NEW A, IsFiniteSet(A), NEW D \in SUBSET A
    PROVE  /\ IsFiniteSet(A \ D) /\ Cardinality(A \ D) = Cardinality(A) - Cardinality(D)
           /\ Cardinality(A) \in Nat /\ Cardinality(D) \in Nat /\ Cardinality(A \ D) \in Nat
<1>1. A \cap D = D /\ IsFiniteSet(D)
  BY FS_Subset
<1>2. IsFiniteSet(A \ D) /\ Cardinality(A \ D) = Cardinality(A) - Cardinality(A \cap D)
  BY FS_Difference
<1> QED
  BY <1>1, <1>2, FS_CardinalityType

LEMMA CountWith ==
    ASSUME NEW A, IsFiniteSet(A), NEW x, x \notin A
    PROVE  /\ IsFiniteSet(A \cup {x}) /\ Cardinality(A \cup {x}) = Cardinality(A) + 1
           /\ Cardinality(A) \in Nat
BY FS_AddElement, FS_CardinalityType

-----------------------------------------------------------------------------
(* Requests of the runtimes *)

\* detach_outbound keeps the counters with what is pending.
LEMMA DetachOutboundFacts ==
    ASSUME OutInv, NEW S \in SUBSET PendingOnes, NEW to \in {"answered", "cancelled", "detached"},
           DetachOutbound(S, to), via' = via
    PROVE  /\ state' \in [Requests -> {"new", "pending", "answered", "cancelled", "failed", "detached"}]
           /\ \A o \in Requests : state'[o] = (IF o \in S THEN to ELSE state[o])
           /\ PendingOnes' = PendingOnes \ S
           /\ IsFiniteSet(PendingOnes') /\ Cardinality(PendingOnes') <= OutboundCapacity
           /\ outActive' \in [Sockets -> 0 .. OutboundPerGeneration] /\ OutExact'
<1>1. \A o \in Requests : state'[o] = (IF o \in S THEN to ELSE state[o])
  BY DEF DetachOutbound
<1>2. state' \in [Requests -> {"new", "pending", "answered", "cancelled", "failed", "detached"}]
  BY DEF DetachOutbound, OutInv, OutboundTypeOK
<1>3. PendingOnes' = PendingOnes \ S
  BY <1>1 DEF PendingOnes, Pending
<1>4. IsFiniteSet(PendingOnes') /\ Cardinality(PendingOnes') <= OutboundCapacity
  <2>1. IsFiniteSet(PendingOnes) /\ Cardinality(PendingOnes) <= OutboundCapacity
    BY DEF OutInv, OutboundTypeOK, PendingOnes
  <2>2. IsFiniteSet(PendingOnes \ S) /\ Cardinality(PendingOnes \ S) <= Cardinality(PendingOnes)
        /\ Cardinality(PendingOnes \ S) \in Nat /\ Cardinality(PendingOnes) \in Nat
    BY <2>1, CountWithout, FS_Subset
  <2> QED
    BY <1>3, <2>1, <2>2, WsRequestAssumption
<1>5. ASSUME NEW w \in Sockets
      PROVE  outActive'[w] = Cardinality(Outstanding(w)') /\ outActive'[w] \in 0 .. OutboundPerGeneration
  <2> DEFINE D == {o \in S : via[o].sock = w}
  <2>1. Outstanding(w)' = Outstanding(w) \ D /\ D \in SUBSET Outstanding(w)
    BY <1>1 DEF Outstanding, Pending, PendingOnes
  <2>2. IsFiniteSet(Outstanding(w))
    <3>1. Outstanding(w) \in SUBSET PendingOnes
      BY DEF Outstanding, PendingOnes
    <3> QED
      BY <3>1, FS_Subset DEF OutInv
  <2>3. outActive'[w] = outActive[w] - Cardinality(D) /\ outActive[w] = Cardinality(Outstanding(w))
    BY DEF DetachOutbound, OutInv, OutExact
  <2>4. outActive[w] \in 0 .. OutboundPerGeneration
    BY DEF OutInv, OutboundTypeOK
  <2> HIDE DEF D
  <2>5. /\ Cardinality(Outstanding(w) \ D) = Cardinality(Outstanding(w)) - Cardinality(D)
        /\ Cardinality(D) \in Nat /\ Cardinality(Outstanding(w) \ D) \in Nat
    BY <2>1, <2>2, CountWithout
  <2> QED
    BY <2>1, <2>3, <2>4, <2>5, WsRequestAssumption
<1>6. outActive' \in [Sockets -> 0 .. OutboundPerGeneration]
  <2>1. outActive' = [w \in Sockets |-> outActive'[w]]
    BY DEF DetachOutbound
  <2> QED
    BY <1>5, <2>1
<1> QED
  BY <1>1, <1>2, <1>3, <1>4, <1>5, <1>6 DEF OutExact

LEMMA OutKept ==
    ASSUME OutInv, UNCHANGED <<state, via, outActive, answers>>, gens \subseteq gens',
           \A d \in Connections : stage'[d] = "barrier" /\ d \notin inbox' =>
               stage[d] = "barrier" /\ d \notin inbox
    PROVE  OutInv'
<1>1. OutboundTypeOK' /\ IsFiniteSet(PendingOnes') /\ OutExact' /\ OutSettled'
  BY DEF OutInv, OutboundTypeOK, PendingOnes, Pending, OutExact, Outstanding, OutSettled
<1>2. OutOwned'
  BY DEF OutInv, OutOwned, Pending
<1> QED
  BY <1>1, <1>2 DEF OutInv
\* A new request: it is answered at once, or pending and counted.
LEMMA RequestInv ==
    ASSUME LifeTypeOK, OutInv, NEW o \in Requests, NEW c \in Connections, NEW w \in Sockets,
           RequestRefused(o, c, w) \/ RequestWritten(o, c, w) \/ RequestUnwritten(o, c, w)
    PROVE  OutInv'
<1>1. /\ state[o] = "new" /\ Asks(o, c, w) /\ UNCHANGED <<gens, inbox>> /\ stage[c] = "registered"
      /\ \A d \in Connections : stage'[d] = "barrier" => stage[d] = "barrier"
  <2>1. stage' = stage \/ stage' = [stage EXCEPT ![c] = "closed"]
    BY DEF RequestRefused, RequestWritten, RequestUnwritten, lifeVars, LifeLeave, Move
  <2>2. /\ state[o] = "new" /\ Asks(o, c, w) /\ UNCHANGED <<gens, inbox>> /\ stage[c] = "registered"
    <3>1. CASE RequestRefused(o, c, w)
      BY <3>1 DEF RequestRefused, lifeVars, clientVars, Reads
    <3>2. CASE RequestWritten(o, c, w)
      BY <3>2 DEF RequestWritten, lifeVars, clientVars, Reads
    <3>3. CASE RequestUnwritten(o, c, w)
      BY <3>3 DEF RequestUnwritten, LifeLeave, clientVars, Reads
    <3> QED
      BY <3>1, <3>2, <3>3
  <2>3. \A d \in Connections : stage'[d] = "barrier" => stage[d] = "barrier"
    BY <2>1 DEF LifeTypeOK
  <2> QED
    BY <2>2, <2>3
<1>2. /\ via' \in [Requests -> [session : Connections \cup {NoConnection}, sock : Sockets \cup {NoSocket}]]
      /\ via'[o].session = c /\ via'[o].sock = w
      /\ \A q \in Requests \ {o} : via'[q] = via[q]
  BY <1>1 DEF Asks, OutInv, OutboundTypeOK
<1>3. /\ \A q \in Requests : state[q] \in {"new", "pending", "answered", "cancelled", "failed", "detached"}
      /\ state \in [Requests -> {"new", "pending", "answered", "cancelled", "failed", "detached"}]
      /\ IsFiniteSet(PendingOnes) /\ Cardinality(PendingOnes) <= OutboundCapacity
      /\ outActive \in [Sockets -> 0 .. OutboundPerGeneration] /\ answers \in [Requests -> Nat] /\ answers[o] = 0
      /\ o \notin PendingOnes
  BY <1>1 DEF OutInv, OutboundTypeOK, PendingOnes, OutSettled, Unanswered, Pending
<1>4. CASE RequestWritten(o, c, w)
  <2>1. /\ state' = [state EXCEPT ![o] = "pending"] /\ outActive' = [outActive EXCEPT ![w] = @ + 1]
        /\ answers' = answers /\ w \in gens /\ Cardinality(PendingOnes) < OutboundCapacity
        /\ outActive[w] < OutboundPerGeneration
    BY <1>4 DEF RequestWritten, HasRoom, PendingOnes
  <2>2. PendingOnes' = PendingOnes \cup {o}
    BY <1>3, <2>1 DEF PendingOnes, Pending
  <2>3. OutboundTypeOK' /\ IsFiniteSet(PendingOnes')
    <3>1. IsFiniteSet(PendingOnes \cup {o}) /\ Cardinality(PendingOnes \cup {o}) = Cardinality(PendingOnes) + 1
          /\ Cardinality(PendingOnes) \in Nat
      BY <1>3, CountWith
    <3>2. Cardinality(PendingOnes') <= OutboundCapacity
      BY <2>1, <2>2, <3>1, WsRequestAssumption
    <3>3. /\ state' \in [Requests -> {"new", "pending", "answered", "cancelled", "failed", "detached"}]
          /\ outActive' \in [Sockets -> 0 .. OutboundPerGeneration] /\ answers' \in [Requests -> Nat]
      <4>1. outActive[w] \in 0 .. OutboundPerGeneration
        BY <1>3
      <4>2. outActive[w] + 1 \in 0 .. OutboundPerGeneration
        BY <2>1, <4>1, WsRequestAssumption
      <4> QED
        BY <1>3, <2>1, <4>2
    <3> QED
      BY <1>2, <2>2, <3>1, <3>2, <3>3 DEF OutboundTypeOK, PendingOnes
  <2>4. OutExact'
    <3>1. ASSUME NEW v \in Sockets PROVE outActive'[v] = Cardinality(Outstanding(v)')
      <4>1. outActive[v] = Cardinality(Outstanding(v)) /\ o \notin Outstanding(v)
        BY <1>1 DEF OutInv, OutExact, Outstanding, Pending
      <4>2. CASE v = w
        <5>1. Outstanding(v)' = Outstanding(v) \cup {o}
          BY <1>2, <1>3, <2>1, <4>2 DEF Outstanding, Pending
        <5>2. IsFiniteSet(Outstanding(v))
          <6>1. Outstanding(v) \in SUBSET PendingOnes
            BY DEF Outstanding, PendingOnes
          <6> QED
            BY <1>3, <6>1, FS_Subset
        <5>3. outActive'[v] = outActive[v] + 1
          BY <1>3, <2>1, <4>2
        <5> QED
          BY <4>1, <5>1, <5>2, <5>3, CountWith
      <4>3. CASE v # w
        <5>1. Outstanding(v)' = Outstanding(v)
          BY <1>1, <1>2, <1>3, <2>1, <4>3 DEF Outstanding, Pending
        <5> QED
          BY <1>3, <2>1, <4>1, <4>3, <5>1
      <4> QED
        BY <4>2, <4>3
    <3> QED
      BY <3>1 DEF OutExact
  <2>5. OutSettled'
    BY <1>3, <2>1 DEF OutInv, OutSettled, Unanswered
  <2>6. OutOwned'
    BY <1>1, <1>2, <1>3, <2>1 DEF OutInv, OutOwned, Pending
  <2> QED
    BY <2>3, <2>4, <2>5, <2>6 DEF OutInv
<1>5. CASE RequestRefused(o, c, w) \/ RequestUnwritten(o, c, w)
  <2>1. /\ \E to \in {"answered", "failed"} : state' = [state EXCEPT ![o] = to]
        /\ answers' = [answers EXCEPT ![o] = @ + 1] /\ outActive' = outActive
    BY <1>5 DEF RequestRefused, RequestUnwritten
  <2>2. PendingOnes' = PendingOnes
    BY <1>3, <2>1 DEF PendingOnes, Pending
  <2>3. OutboundTypeOK' /\ IsFiniteSet(PendingOnes')
    <3>1. /\ state' \in [Requests -> {"new", "pending", "answered", "cancelled", "failed", "detached"}]
          /\ outActive' \in [Sockets -> 0 .. OutboundPerGeneration] /\ answers' \in [Requests -> Nat]
      BY <1>3, <2>1
    <3>2. IsFiniteSet(PendingOnes') /\ Cardinality(PendingOnes') <= OutboundCapacity
      BY <1>3, <2>2
    <3> QED
      BY <1>2, <3>1, <3>2 DEF OutboundTypeOK, PendingOnes
  <2>4. OutExact'
    <3>1. \A v \in Sockets : Outstanding(v)' = Outstanding(v)
      BY <1>1, <1>2, <1>3, <2>1 DEF Outstanding, Pending
    <3> QED
      BY <2>1, <3>1 DEF OutInv, OutExact
  <2>5. OutSettled'
    BY <1>3, <2>1 DEF OutInv, OutSettled, Unanswered
  <2>6. OutOwned'
    BY <1>1, <1>2, <1>3, <2>1 DEF OutInv, OutOwned, Pending
  <2> QED
    BY <2>3, <2>4, <2>5, <2>6 DEF OutInv
<1> QED
  BY <1>4, <1>5

\* A pending request is settled: answered or not, it leaves the counters.
LEMMA SettleInv ==
    ASSUME OutInv, NEW S \in SUBSET PendingOnes, NEW to \in {"answered", "cancelled", "detached"},
           DetachOutbound(S, to), via' = via, UNCHANGED <<stage, gens>>,
           (to = "answered" /\ Respond(S)) \/ answers' = answers,
           \A o \in PendingOnes \ S : via[o].session \in inbox => via[o].session \in inbox'
    PROVE  OutInv'
<1>1. /\ state' \in [Requests -> {"new", "pending", "answered", "cancelled", "failed", "detached"}]
      /\ \A o \in Requests : state'[o] = (IF o \in S THEN to ELSE state[o])
      /\ PendingOnes' = PendingOnes \ S
      /\ IsFiniteSet(PendingOnes') /\ Cardinality(PendingOnes') <= OutboundCapacity
      /\ outActive' \in [Sockets -> 0 .. OutboundPerGeneration] /\ OutExact'
  BY DetachOutboundFacts
<1>2. /\ answers \in [Requests -> Nat]
      /\ \A o \in S : o \in Requests /\ answers[o] = 0
  BY DEF OutInv, OutboundTypeOK, OutSettled, Unanswered, PendingOnes, Pending
<1>3. /\ answers' \in [Requests -> Nat]
      /\ \A o \in Requests : answers'[o] = answers[o] \/ (o \in S /\ to = "answered" /\ answers'[o] = answers[o] + 1)
  BY <1>2 DEF Respond
<1>4. OutboundTypeOK'
  BY <1>1, <1>3 DEF OutInv, OutboundTypeOK, PendingOnes
<1>5. OutSettled'
  <2> SUFFICES ASSUME NEW o \in Requests PROVE answers'[o] <= 1 /\ (state'[o] \in Unanswered => answers'[o] = 0)
    BY DEF OutSettled
  <2>1. answers[o] <= 1 /\ (state[o] \in Unanswered => answers[o] = 0)
    BY DEF OutInv, OutSettled
  <2>2. CASE o \in S
    BY <1>1, <1>2, <1>3, <2>2 DEF Unanswered
  <2>3. CASE o \notin S
    BY <1>1, <1>3, <2>1, <2>3
  <2> QED
    BY <2>2, <2>3
<1>6. OutOwned'
  <2> SUFFICES ASSUME NEW o \in Requests, Pending(o)'
               PROVE  /\ via'[o].sock \in gens' /\ via'[o].session \in Connections
                      /\ stage'[via'[o].session] = "barrier" => via'[o].session \in inbox'
    BY DEF OutOwned
  <2>1. o \in PendingOnes \ S
    BY <1>1 DEF PendingOnes
  <2>2. /\ via[o].sock \in gens /\ via[o].session \in Connections
        /\ stage[via[o].session] = "barrier" => via[o].session \in inbox
    BY <2>1 DEF OutInv, OutOwned, PendingOnes
  <2> QED
    BY <2>1, <2>2
<1> QED
  BY <1>1, <1>4, <1>5, <1>6 DEF OutInv
\* Sessions move on: a terminal is in the mailbox of the consumer until it is processed.
LEMMA LifeStepFacts ==
    ASSUME LifeTypeOK, NEW c \in Connections, LifeStep(c)
    PROVE  /\ LifeTypeOK' 
           /\ \A d \in Connections : stage'[d] = "barrier" /\ d \notin inbox' =>
                 stage[d] = "barrier" /\ d \notin inbox
<1> USE DEF LifeTypeOK, Move, Stages
<1>1. CASE \E r \in Replicas : LifeBind(c, r)
  BY <1>1 DEF LifeBind
<1>2. CASE LifeRegister(c)
  BY <1>2 DEF LifeRegister
<1>3. CASE LifeLeave(c)
  BY <1>3 DEF LifeLeave
<1>4. CASE LifeUnwind(c)
  BY <1>4 DEF LifeUnwind
<1>5. CASE LifeClose(c)
  BY <1>5 DEF LifeClose
<1>6. CASE LifeGiveUp(c)
  BY <1>6 DEF LifeGiveUp
<1>7. CASE LifeForget(c)
  BY <1>7 DEF LifeForget
<1> QED
  BY <1>1, <1>2, <1>3, <1>4, <1>5, <1>6, <1>7 DEF LifeStep

LEMMA CloseGenerationOut ==
    ASSUME OutInv, NEW w \in Sockets, CloseGeneration(w)
    PROVE  OutInv'
<1>1. /\ state' = [o \in Requests |-> IF o \in Outstanding(w) THEN "answered" ELSE state[o]]
      /\ Respond(Outstanding(w)) /\ outActive' = [outActive EXCEPT ![w] = 0]
      /\ gens' = gens \ {w} /\ UNCHANGED <<stage, inbox, via>>
  BY DEF CloseGeneration, lifeVars
<1>2. Outstanding(w) \in SUBSET PendingOnes /\ OutboundTypeOK
  BY DEF Outstanding, PendingOnes, OutInv
<1>3. PendingOnes' = PendingOnes \ Outstanding(w)
  BY <1>1, <1>2 DEF PendingOnes, Pending
<1>4. IsFiniteSet(PendingOnes') /\ Cardinality(PendingOnes') <= OutboundCapacity
  <2>1. IsFiniteSet(PendingOnes) /\ Cardinality(PendingOnes) <= OutboundCapacity
    BY DEF OutInv, OutboundTypeOK, PendingOnes
  <2>2. PendingOnes' \in SUBSET PendingOnes
    BY <1>3
  <2>3. IsFiniteSet(PendingOnes') /\ Cardinality(PendingOnes') <= Cardinality(PendingOnes)
    BY <2>1, <2>2, FS_Subset
  <2> QED
    BY <2>1, <2>3, FS_CardinalityType, WsRequestAssumption
<1>5. /\ answers \in [Requests -> Nat]
      /\ \A o \in Outstanding(w) : o \in Requests /\ answers[o] = 0
  BY DEF OutInv, OutboundTypeOK, OutSettled, Unanswered, Outstanding, Pending
<1>6. /\ answers' \in [Requests -> Nat]
      /\ \A o \in Requests : answers'[o] = answers[o] \/ (o \in Outstanding(w) /\ answers'[o] = answers[o] + 1)
  BY <1>1, <1>5 DEF Respond
<1>7. OutboundTypeOK'
  <2>1. /\ state' \in [Requests -> {"new", "pending", "answered", "cancelled", "failed", "detached"}]
        /\ outActive' \in [Sockets -> 0 .. OutboundPerGeneration]
    BY <1>1, <1>2, WsRequestAssumption DEF OutboundTypeOK
  <2> QED
    BY <1>1, <1>2, <1>4, <1>6, <2>1 DEF OutboundTypeOK, PendingOnes
<1>8. OutExact'
  <2> SUFFICES ASSUME NEW v \in Sockets PROVE outActive'[v] = Cardinality(Outstanding(v)')
    BY DEF OutExact
  <2>1. CASE v = w
    <3>1. Outstanding(v)' = {}
      BY <1>1, <2>1 DEF Outstanding, Pending
    <3> QED
      BY <1>1, <1>2, <2>1, <3>1, FS_EmptySet DEF OutboundTypeOK
  <2>2. CASE v # w
    <3>1. Outstanding(v)' = Outstanding(v)
      BY <1>1, <2>2 DEF Outstanding, Pending
    <3> QED
      BY <1>1, <1>2, <2>2, <3>1 DEF OutboundTypeOK, OutInv, OutExact
  <2> QED
    BY <2>1, <2>2
<1>9. OutSettled'
  <2> SUFFICES ASSUME NEW o \in Requests PROVE answers'[o] <= 1 /\ (state'[o] \in Unanswered => answers'[o] = 0)
    BY DEF OutSettled
  <2>1. answers[o] <= 1 /\ (state[o] \in Unanswered => answers[o] = 0)
    BY DEF OutInv, OutSettled
  <2>2. CASE o \in Outstanding(w)
    BY <1>1, <1>5, <1>6, <2>2 DEF Unanswered
  <2>3. CASE o \notin Outstanding(w)
    BY <1>1, <1>6, <2>1, <2>3
  <2> QED
    BY <2>2, <2>3
<1>10. OutOwned'
  BY <1>1 DEF OutInv, OutOwned, Outstanding, Pending
<1> QED
  BY <1>4, <1>7, <1>8, <1>9, <1>10 DEF OutInv
-----------------------------------------------------------------------------
(* Calls of the peers *)

CallTypes ==
    /\ active \subseteq Call /\ IsFiniteSet(active) /\ Cardinality(active) <= InboundCapacity
    /\ inActive \in [Sockets -> 0 .. InboundPerGeneration] /\ execs \in [Sockets -> 0 .. MaxExecutions]
    /\ inserting \in Call \cup {NoCall}
    /\ calls \subseteq Call /\ wire \subseteq Call /\ results \subseteq Call /\ timers \subseteq Call
    /\ told \in [Call -> Seq(Replies)]

InExact == \A w \in Sockets : inActive[w] = Cardinality(CallsOf(w))

\* An execution token that was not drawn yet is in no place.
FreshTokens ==
    \A c \in Call : c.exec >= execs[c.sock] =>
        /\ told[c] = <<>> /\ c \notin active /\ c \notin calls /\ c \notin wire /\ c \notin results
        /\ c # inserting

\* Who takes a call from the broker is alone with it.
ToldOnce == \A c \in Call : Len(told[c]) <= 1 /\ (c \in active => told[c] = <<>>)

\* A result on its way, or told, left frame and store of its own execution behind.
OwnResult ==
    \A c \in Call : c \in results \/ told[c] = <<"result">> =>
        c \notin wire /\ c \notin calls /\ c # inserting

ActiveOwned == \A c \in active : c.sock \in gens

CallInv == CallTypes /\ InExact /\ FreshTokens /\ ToldOnce /\ OwnResult /\ ActiveOwned

LEMMA CallKept ==
    ASSUME CallInv, UNCHANGED <<active, inActive, execs, told, inserting, calls, wire, results, timers>>,
           gens \subseteq gens'
    PROVE  CallInv'
<1>1. CallTypes' /\ InExact'
  BY DEF CallInv, CallTypes, InExact, CallsOf
<1>2. FreshTokens' /\ ToldOnce' /\ OwnResult' /\ ActiveOwned'
  BY DEF CallInv, FreshTokens, ToldOnce, OwnResult, ActiveOwned
<1> QED
  BY <1>1, <1>2 DEF CallInv

LEMMA DetachInboundFacts ==
    ASSUME CallInv, NEW S \in SUBSET active, DetachInbound(S)
    PROVE  /\ active' = active \ S /\ IsFiniteSet(active') /\ Cardinality(active') <= InboundCapacity
           /\ inActive' \in [Sockets -> 0 .. InboundPerGeneration] /\ InExact'
<1>1. active' = active \ S
  BY DEF DetachInbound
<1>2. IsFiniteSet(active) /\ Cardinality(active) <= InboundCapacity
  BY DEF CallInv, CallTypes
<1>3. IsFiniteSet(active') /\ Cardinality(active') <= InboundCapacity
  <2>1. active' \in SUBSET active
    BY <1>1
  <2>2. IsFiniteSet(active') /\ Cardinality(active') <= Cardinality(active)
    BY <1>2, <2>1, FS_Subset
  <2> QED
    BY <1>2, <2>2, FS_CardinalityType, WsRequestAssumption
<1>4. ASSUME NEW w \in Sockets
      PROVE  inActive'[w] = Cardinality(CallsOf(w)') /\ inActive'[w] \in 0 .. InboundPerGeneration
  <2> DEFINE D == {c \in S : c.sock = w}
  <2>1. CallsOf(w)' = CallsOf(w) \ D /\ D \in SUBSET CallsOf(w)
    BY <1>1 DEF CallsOf
  <2>2. IsFiniteSet(CallsOf(w))
    <3>1. CallsOf(w) \in SUBSET active
      BY DEF CallsOf
    <3> QED
      BY <1>2, <3>1, FS_Subset
  <2>3. inActive'[w] = inActive[w] - Cardinality(D) /\ inActive[w] = Cardinality(CallsOf(w))
    BY DEF DetachInbound, CallInv, InExact
  <2>4. inActive[w] \in 0 .. InboundPerGeneration
    BY DEF CallInv, CallTypes
  <2> HIDE DEF D
  <2>5. /\ Cardinality(CallsOf(w) \ D) = Cardinality(CallsOf(w)) - Cardinality(D)
        /\ Cardinality(D) \in Nat /\ Cardinality(CallsOf(w) \ D) \in Nat
    BY <2>1, <2>2, CountWithout
  <2> QED
    BY <2>1, <2>3, <2>4, <2>5, WsRequestAssumption
<1>5. inActive' \in [Sockets -> 0 .. InboundPerGeneration]
  <2>1. inActive' = [w \in Sockets |-> inActive'[w]]
    BY DEF DetachInbound
  <2> QED
    BY <1>4, <2>1
<1> QED
  BY <1>1, <1>3, <1>4, <1>5 DEF InExact

\* A step that starts no execution: calls leave the broker, told or not, and move on
\* between frame, store and result.
LEMMA CallMoves ==
    ASSUME CallInv, execs' = execs,
           active' \subseteq active, IsFiniteSet(active'), Cardinality(active') <= InboundCapacity,
           inActive' \in [Sockets -> 0 .. InboundPerGeneration], InExact', ActiveOwned',
           inserting' = inserting \/ inserting' = NoCall,
           wire' \subseteq wire, timers' \subseteq Call,
           \A c \in calls' : c \in calls \/ (c = inserting /\ inserting # NoCall /\ inserting' = NoCall),
           \A c \in results' : c \in results \/ (c \in calls /\ c \notin calls' /\ c \notin wire' /\ c # inserting),
           told' \in [Call -> Seq(Replies)],
           \A c \in Call : \/ told'[c] = told[c]
                           \/ /\ c \in active /\ c \notin active'
                              /\ \E reply \in Replies : told'[c] = Append(told[c], reply)
                                                        /\ (reply = "result" => c \in results)
    PROVE  CallInv'
<1>1. NoCall \notin Call
  BY WsRequestAssumption
<1>2. CallTypes'
  BY DEF CallInv, CallTypes
<1>3. ASSUME NEW c \in Call, told'[c] # told[c]
      PROVE  /\ c \in active /\ c \notin active' /\ told[c] = <<>>
             /\ \E reply \in Replies : told'[c] = <<reply>> /\ (reply = "result" => c \in results)
  <2>1. PICK reply \in Replies : /\ c \in active /\ c \notin active' /\ told'[c] = Append(told[c], reply)
                                 /\ (reply = "result" => c \in results)
    BY <1>3
  <2>2. told[c] = <<>>
    BY <2>1 DEF CallInv, ToldOnce
  <2>3. told'[c] = <<reply>>
    BY <2>1, <2>2
  <2> QED
    BY <2>1, <2>2, <2>3
<1>4. FreshTokens'
  <2> SUFFICES ASSUME NEW c \in Call, c.exec >= execs[c.sock]
               PROVE  /\ told'[c] = <<>> /\ c \notin active' /\ c \notin calls' /\ c \notin wire'
                      /\ c \notin results' /\ c # inserting'
    BY DEF FreshTokens
  <2>1. /\ told[c] = <<>> /\ c \notin active /\ c \notin calls /\ c \notin wire /\ c \notin results
        /\ c # inserting
    BY DEF CallInv, FreshTokens
  <2>2. told'[c] = told[c]
    BY <1>3, <2>1
  <2> QED
    BY <1>1, <2>1, <2>2
<1>5. ToldOnce'
  <2> SUFFICES ASSUME NEW c \in Call PROVE Len(told'[c]) <= 1 /\ (c \in active' => told'[c] = <<>>)
    BY DEF ToldOnce
  <2>1. Len(told[c]) <= 1 /\ (c \in active => told[c] = <<>>)
    BY DEF CallInv, ToldOnce
  <2>2. CASE told'[c] = told[c]
    BY <2>1, <2>2
  <2>3. CASE told'[c] # told[c]
    BY <1>3, <2>3
  <2> QED
    BY <2>2, <2>3
<1>6. OwnResult'
  <2> SUFFICES ASSUME NEW c \in Call, c \in results' \/ told'[c] = <<"result">>
               PROVE  c \notin wire' /\ c \notin calls' /\ c # inserting'
    BY DEF OwnResult
  <2>1. CASE c \in results \/ told[c] = <<"result">>
    <3>1. c \notin wire /\ c \notin calls /\ c # inserting
      BY <2>1 DEF CallInv, OwnResult
    <3> QED
      BY <1>1, <3>1
  <2>2. CASE c \in results' /\ c \notin results
    BY <1>1, <2>2
  <2>3. CASE told'[c] = <<"result">> /\ told[c] # <<"result">>
    <3>1. PICK reply \in Replies : told'[c] = <<reply>> /\ (reply = "result" => c \in results)
      BY <1>3, <2>3
    <3>2. reply = "result"
      <4>1. <<reply>>[1] = <<"result">>[1]
        BY <2>3, <3>1
      <4> QED
        BY <4>1
    <3> QED
      BY <2>1, <3>1, <3>2
  <2> QED
    BY <2>1, <2>2, <2>3
<1> QED
  BY <1>2, <1>4, <1>5, <1>6 DEF CallInv
\* A new execution has a token that is nowhere yet.
LEMMA NewCallFacts ==
    ASSUME CallInv, NEW w \in Sockets, NEW p \in PeerIds, execs[w] < MaxExecutions,
           execs' = [execs EXCEPT ![w] = @ + 1]
    PROVE  /\ NewCall(w, p) \in Call /\ NewCall(w, p).sock = w
           /\ told[NewCall(w, p)] = <<>> /\ NewCall(w, p) \notin active /\ NewCall(w, p) \notin calls
           /\ NewCall(w, p) \notin wire /\ NewCall(w, p) \notin results /\ NewCall(w, p) # inserting
           /\ execs' \in [Sockets -> 0 .. MaxExecutions]
           /\ \A d \in Call : d.exec >= execs'[d.sock] => d # NewCall(w, p) /\ d.exec >= execs[d.sock]
<1>1. execs \in [Sockets -> 0 .. MaxExecutions] /\ MaxExecutions \in Nat
  BY WsRequestAssumption DEF CallInv, CallTypes
<1>2. execs[w] \in 0 .. MaxExecutions - 1
  BY <1>1
<1>3. PICK n \in Call : n = NewCall(w, p) /\ n.sock = w /\ n.exec = execs[w]
  <2>1. NewCall(w, p) \in Call
    BY <1>2 DEF NewCall, Call
  <2>2. NewCall(w, p).sock = w /\ NewCall(w, p).exec = execs[w]
    BY DEF NewCall
  <2> QED
    BY <2>1, <2>2
<1>4. /\ told[n] = <<>> /\ n \notin active /\ n \notin calls /\ n \notin wire /\ n \notin results
      /\ n # inserting
  BY <1>2, <1>3 DEF CallInv, FreshTokens
<1>5. execs' \in [Sockets -> 0 .. MaxExecutions]
  BY <1>1, <1>2
<1>6. ASSUME NEW d \in Call, d.exec >= execs'[d.sock] PROVE d # n /\ d.exec >= execs[d.sock]
  <2>1. d.sock \in Sockets /\ d.exec \in Nat
    BY <1>1 DEF Call
  <2>2. CASE d.sock = w
    BY <1>1, <1>2, <1>3, <1>6, <2>1, <2>2
  <2>3. CASE d.sock # w
    BY <1>1, <1>3, <1>6, <2>1, <2>3
  <2> QED
    BY <2>2, <2>3
<1> QED
  BY <1>3, <1>4, <1>5, <1>6

LEMMA PeerCallCalls ==
    ASSUME CallInv, NEW w \in Sockets, NEW p \in PeerIds, PeerCall(w, p)
    PROVE  CallInv'
<1>1. /\ w \in gens /\ Cardinality(active) < InboundCapacity /\ execs[w] < MaxExecutions
      /\ inActive[w] < InboundPerGeneration
      /\ active' = active \cup {NewCall(w, p)} /\ wire' = wire \cup {NewCall(w, p)}
      /\ inserting' = NewCall(w, p)
      /\ execs' = [execs EXCEPT ![w] = @ + 1] /\ inActive' = [inActive EXCEPT ![w] = @ + 1]
      /\ UNCHANGED <<gens, told, calls, results, timers>>
  BY DEF PeerCall, HasInboundRoom, clientVars
<1>2. PICK n \in Call :
         /\ n = NewCall(w, p) /\ n.sock = w
         /\ told[n] = <<>> /\ n \notin active /\ n \notin calls
         /\ n \notin wire /\ n \notin results /\ n # inserting
         /\ execs' \in [Sockets -> 0 .. MaxExecutions]
         /\ \A d \in Call : d.exec >= execs'[d.sock] => d # n /\ d.exec >= execs[d.sock]
  BY <1>1, NewCallFacts
<1>3. /\ IsFiniteSet(active) /\ active \subseteq Call /\ inActive \in [Sockets -> 0 .. InboundPerGeneration]
  BY DEF CallInv, CallTypes
<1>4. IsFiniteSet(active') /\ Cardinality(active') <= InboundCapacity
  <2>1. IsFiniteSet(active \cup {n}) /\ Cardinality(active \cup {n}) = Cardinality(active) + 1
        /\ Cardinality(active) \in Nat
    BY <1>2, <1>3, CountWith
  <2> QED
    BY <1>1, <1>2, <2>1, WsRequestAssumption
<1>5. CallTypes'
  <2>1. inActive' \in [Sockets -> 0 .. InboundPerGeneration]
    <3>1. inActive[w] \in 0 .. InboundPerGeneration
      BY <1>3
    <3>2. inActive[w] + 1 \in 0 .. InboundPerGeneration
      BY <1>1, <3>1, WsRequestAssumption
    <3> QED
      BY <1>1, <1>3, <3>2
  <2> QED
    BY <1>1, <1>2, <1>4, <2>1 DEF CallInv, CallTypes
<1>6. InExact'
  <2> SUFFICES ASSUME NEW v \in Sockets PROVE inActive'[v] = Cardinality(CallsOf(v)')
    BY DEF InExact
  <2>1. inActive[v] = Cardinality(CallsOf(v))
    BY DEF CallInv, InExact
  <2>2. CASE v = w
    <3>1. CallsOf(v)' = CallsOf(v) \cup {n} /\ n \notin CallsOf(v)
      BY <1>1, <1>2, <2>2 DEF CallsOf
    <3>2. IsFiniteSet(CallsOf(v))
      <4>1. CallsOf(v) \in SUBSET active
        BY DEF CallsOf
      <4> QED
        BY <1>3, <4>1, FS_Subset
    <3>3. inActive'[v] = inActive[v] + 1
      BY <1>1, <1>3, <2>2
    <3> QED
      BY <2>1, <3>1, <3>2, <3>3, CountWith
  <2>3. CASE v # w
    <3>1. CallsOf(v)' = CallsOf(v)
      BY <1>1, <1>2, <2>3 DEF CallsOf
    <3> QED
      BY <1>1, <1>3, <2>1, <2>3, <3>1
  <2> QED
    BY <2>2, <2>3
<1>7. FreshTokens'
  BY <1>1, <1>2 DEF CallInv, FreshTokens
<1>8. ToldOnce' /\ ActiveOwned'
  BY <1>1, <1>2 DEF CallInv, ToldOnce, ActiveOwned
<1>9. OwnResult'
  <2>1. told[n] # <<"result">>
    BY <1>2
  <2> QED
    BY <1>1, <1>2, <2>1 DEF CallInv, OwnResult
<1> QED
  BY <1>5, <1>6, <1>7, <1>8, <1>9 DEF CallInv

LEMMA PeerCallFailsCalls ==
    ASSUME CallInv, NEW w \in Sockets, NEW p \in PeerIds, PeerCallFails(w, p)
    PROVE  CallInv'
<1>1. /\ execs[w] < MaxExecutions /\ execs' = [execs EXCEPT ![w] = @ + 1]
      /\ UNCHANGED <<gens, active, inActive, inserting, calls, wire, results, timers>>
      /\ told' = told \/ told' = [told EXCEPT ![NewCall(w, p)] = Append(@, "error")]
  BY DEF PeerCallFails, storeVars, Reply
<1>2. PICK n \in Call :
         /\ n = NewCall(w, p) /\ n.sock = w
         /\ told[n] = <<>> /\ n \notin active /\ n \notin calls
         /\ n \notin wire /\ n \notin results /\ n # inserting
         /\ execs' \in [Sockets -> 0 .. MaxExecutions]
         /\ \A d \in Call : d.exec >= execs'[d.sock] => d # n /\ d.exec >= execs[d.sock]
  BY <1>1, NewCallFacts
<1>3. /\ told' \in [Call -> Seq(Replies)] /\ \A d \in Call \ {n} : told'[d] = told[d]
      /\ told'[n] = <<>> \/ told'[n] = <<"error">>
  <2>1. told \in [Call -> Seq(Replies)] /\ Append(told[n], "error") = <<"error">>
        /\ <<"error">> \in Seq(Replies)
    BY <1>2 DEF CallInv, CallTypes, Replies
  <2> QED
    BY <1>1, <1>2, <2>1, ZenonT(60)
<1>4. CallTypes' /\ InExact'
  BY <1>1, <1>2, <1>3 DEF CallInv, CallTypes, InExact, CallsOf
<1>5. FreshTokens' /\ ActiveOwned'
  BY <1>1, <1>2, <1>3 DEF CallInv, FreshTokens, ActiveOwned
<1>6. ToldOnce'
  <2>1. Len(told'[n]) <= 1
    <3>1. CASE told'[n] = <<>>
      BY <3>1
    <3>2. CASE told'[n] = <<"error">>
      BY <3>2
    <3> QED
      BY <1>3, <3>1, <3>2
  <2> QED
    BY <1>1, <1>2, <1>3, <2>1 DEF CallInv, ToldOnce
<1>7. OwnResult'
  BY <1>1, <1>2, <1>3 DEF CallInv, OwnResult
<1> QED
  BY <1>4, <1>5, <1>6, <1>7 DEF CallInv
-----------------------------------------------------------------------------
(* Permits of the pool *)

\* A call of the store, or about to enter it, holds a permit of the session of its client;
\* the other permits taken are those of connects.
PermitExact == \A s \in Connections : inFlight[s] = connecting[s] + Cardinality(HeldBy(s))

PermitInv ==
    /\ IsFiniteSet(calls) /\ inFlight \in [Connections -> 0 .. MaxConcurrency]
    /\ connecting \in [Connections -> Nat] /\ PermitExact
    /\ \A c \in Call : c \in calls \/ c = inserting => runtime[c.sock] \in Connections
    /\ inserting \notin calls

ClientInv == ClientTypeOK /\ \A w \in pins : runtime[w] \in Connections

LEMMA HeldFinite ==
    ASSUME PermitInv, NEW s PROVE IsFiniteSet(HeldBy(s))
<1>1. IsFiniteSet(calls \cup {inserting})
  BY FS_AddElement DEF PermitInv
<1>2. HeldBy(s) \in SUBSET (calls \cup {inserting})
  BY DEF HeldBy
<1> QED
  BY <1>1, <1>2, FS_Subset

LEMMA PermitKept ==
    ASSUME PermitInv, UNCHANGED <<calls, inserting, inFlight, connecting, runtime>>
    PROVE  PermitInv'
BY DEF PermitInv, PermitExact, HeldBy

\* Calls leave the store and give their permits back.
LEMMA PermitsFreed ==
    ASSUME PermitInv, NEW D \in SUBSET calls, calls' = calls \ D, UNCHANGED <<inserting, runtime, connecting>>,
           inFlight' = [s \in Connections |-> inFlight'[s]],
           \A s \in Connections : inFlight'[s] = inFlight[s] - Cardinality({c \in D : runtime[c.sock] = s})
    PROVE  PermitInv'
<1>1. IsFiniteSet(calls')
  <2>1. IsFiniteSet(calls) /\ calls' \in SUBSET calls
    BY DEF PermitInv
  <2> QED
    BY <2>1, FS_Subset
<1>2. ASSUME NEW s \in Connections
      PROVE  inFlight'[s] = connecting'[s] + Cardinality(HeldBy(s)') /\ inFlight'[s] \in 0 .. MaxConcurrency
  <2> DEFINE E == {c \in D : runtime[c.sock] = s}
  <2>1. HeldBy(s)' = HeldBy(s) \ E /\ E \in SUBSET HeldBy(s)
    <3>1. inserting \notin calls
      BY DEF PermitInv
    <3>2. inserting \notin D
      BY <3>1
    <3> QED
      BY <3>1, <3>2 DEF HeldBy
  <2>2. IsFiniteSet(HeldBy(s))
    BY HeldFinite
  <2>3. inFlight'[s] = inFlight[s] - Cardinality(E) /\ inFlight[s] = connecting[s] + Cardinality(HeldBy(s))
        /\ inFlight[s] \in 0 .. MaxConcurrency /\ connecting[s] \in Nat /\ connecting' = connecting
    BY DEF PermitInv, PermitExact
  <2> HIDE DEF E
  <2>4. /\ Cardinality(HeldBy(s) \ E) = Cardinality(HeldBy(s)) - Cardinality(E)
        /\ Cardinality(HeldBy(s)) \in Nat /\ Cardinality(E) \in Nat /\ Cardinality(HeldBy(s) \ E) \in Nat
    BY <2>1, <2>2, CountWithout
  <2> QED
    BY <2>1, <2>3, <2>4, WsRequestAssumption
<1>3. inFlight' \in [Connections -> 0 .. MaxConcurrency]
  BY <1>2
<1>4. inserting' \notin calls' /\ \A c \in Call : c \in calls' \/ c = inserting' => runtime'[c.sock] \in Connections
  BY DEF PermitInv
<1> QED
  BY <1>1, <1>2, <1>3, <1>4 DEF PermitInv, PermitExact

\* Connects take and return permits beside the calls.
LEMMA ConnectPermits ==
    ASSUME PermitInv, NEW c \in Connections, ConnectReserves(c) \/ ConnectReleases(c)
    PROVE  PermitInv'
<1>1. /\ inFlight \in [Connections -> 0 .. MaxConcurrency] /\ connecting \in [Connections -> Nat]
      /\ \A s \in Connections : inFlight[s] = connecting[s] + Cardinality(HeldBy(s))
  BY DEF PermitInv, PermitExact
<1>2. UNCHANGED <<calls, inserting, runtime>>
  BY DEF ConnectReserves, ConnectReleases, clientVars
<1>3. \A s \in Connections : Cardinality(HeldBy(s)) \in Nat /\ HeldBy(s)' = HeldBy(s)
  BY <1>2, HeldFinite, FS_CardinalityType DEF HeldBy
<1>4. PICK d \in {1, -1} : /\ inFlight' = [inFlight EXCEPT ![c] = @ + d]
                           /\ connecting' = [connecting EXCEPT ![c] = @ + d]
                           /\ inFlight[c] + d \in 0 .. MaxConcurrency /\ connecting[c] + d \in Nat
  <2>1. /\ inFlight[c] \in 0 .. MaxConcurrency /\ connecting[c] \in Nat
        /\ inFlight[c] = connecting[c] + Cardinality(HeldBy(c)) /\ Cardinality(HeldBy(c)) \in Nat
    BY <1>1, <1>3
  <2>2. CASE ConnectReserves(c)
    <3>1. inFlight[c] + 1 \in 0 .. MaxConcurrency /\ connecting[c] + 1 \in Nat
      BY <2>1, <2>2, WsRequestAssumption DEF ConnectReserves
    <3> QED
      BY <2>2, <3>1 DEF ConnectReserves
  <2>3. CASE ConnectReleases(c)
    <3>1. inFlight[c] - 1 \in 0 .. MaxConcurrency /\ connecting[c] - 1 \in Nat
      BY <2>1, <2>3, WsRequestAssumption DEF ConnectReleases
    <3>2. inFlight[c] + (-1) = inFlight[c] - 1 /\ connecting[c] + (-1) = connecting[c] - 1
      BY <2>1
    <3>3. /\ inFlight' = [inFlight EXCEPT ![c] = @ + (-1)]
          /\ connecting' = [connecting EXCEPT ![c] = @ + (-1)]
      BY <2>3, <3>2 DEF ConnectReleases
    <3> QED
      BY <3>1, <3>2, <3>3
  <2> QED
    BY <2>2, <2>3
<1>5. inFlight' \in [Connections -> 0 .. MaxConcurrency] /\ connecting' \in [Connections -> Nat]
  BY <1>1, <1>4
<1>6. ASSUME NEW s \in Connections PROVE inFlight'[s] = connecting'[s] + Cardinality(HeldBy(s)')
  <2>1. /\ inFlight[s] \in Int /\ connecting[s] \in Nat /\ Cardinality(HeldBy(s)) \in Nat
        /\ inFlight[s] = connecting[s] + Cardinality(HeldBy(s)) /\ HeldBy(s)' = HeldBy(s)
    BY <1>1, <1>3
  <2>2. /\ inFlight'[s] = (IF s = c THEN inFlight[s] + d ELSE inFlight[s])
        /\ connecting'[s] = (IF s = c THEN connecting[s] + d ELSE connecting[s])
    BY <1>1, <1>4
  <2> QED
    BY <2>1, <2>2
<1> QED
  BY <1>2, <1>5, <1>6 DEF PermitInv, PermitExact

\* A client opens: no call holds a permit of its session for it yet.
LEMMA OpenPermits ==
    ASSUME CallTypes, ClientInv, PermitInv, NEW w \in Sockets, NEW c \in Connections, Open(w, c)
    PROVE  PermitInv' /\ ClientInv'
<1>1. /\ runtime[w] = NoConnection /\ runtime' = [runtime EXCEPT ![w] = c]
      /\ attached' = attached \cup {w} /\ gens' = gens \cup {w} /\ pins' = pins \cup {w}
      /\ UNCHANGED <<calls, inserting, inFlight, connecting, closing>>
  BY DEF Open, storeVars
<1>2. /\ runtime \in [Sockets -> Connections \cup {NoConnection}] /\ NoConnection \notin Connections
  BY WsRequestAssumption DEF ClientInv, ClientTypeOK
<1>3. \A d \in Call : d \in calls \/ d = inserting => runtime'[d.sock] = runtime[d.sock] /\ runtime[d.sock] \in Connections
  <2>1. \A d \in Call : d \in calls \/ d = inserting => runtime[d.sock] \in Connections /\ d.sock \in Sockets
    BY DEF PermitInv, Call
  <2> QED
    BY <1>1, <1>2, <2>1
<1>4. \A d \in calls \cup ({inserting} \ {NoCall}) : d \in Call
  BY DEF CallTypes
<1>5. \A s : HeldBy(s)' = HeldBy(s)
  BY <1>1, <1>3, <1>4 DEF HeldBy
<1>6. PermitInv'
  BY <1>1, <1>3, <1>5 DEF PermitInv, PermitExact
<1>7. ClientInv'
  <2>1. runtime' \in [Sockets -> Connections \cup {NoConnection}]
    BY <1>1, <1>2
  <2>2. \A v \in pins' : runtime'[v] \in Connections
    BY <1>1, <1>2 DEF ClientInv, ClientTypeOK
  <2> QED
    BY <1>1, <2>1, <2>2 DEF ClientInv, ClientTypeOK
<1> QED
  BY <1>6, <1>7

\* The permit is taken before the frame is written and the call inserted.
LEMMA PeerCallPermits ==
    ASSUME CallInv, ClientInv, PermitInv, NEW w \in Sockets, NEW p \in PeerIds, PeerCall(w, p)
    PROVE  PermitInv'
<1>1. /\ inserting = NoCall /\ execs[w] < MaxExecutions /\ execs' = [execs EXCEPT ![w] = @ + 1]
      /\ w \in pins /\ inFlight[runtime[w]] < MaxConcurrency
      /\ inserting' = NewCall(w, p) /\ inFlight' = [inFlight EXCEPT ![runtime[w]] = @ + 1]
      /\ UNCHANGED <<calls, runtime, connecting>>
  BY DEF PeerCall, BrokerFree, CanDispatch, clientVars
<1>2. PICK n \in Call : n = NewCall(w, p) /\ n.sock = w /\ n \notin calls
  BY <1>1, NewCallFacts
<1>3. PICK r \in Connections : r = runtime[w]
  BY <1>1 DEF ClientInv
<1>4. inFlight \in [Connections -> 0 .. MaxConcurrency] /\ NoCall \notin Call
  BY WsRequestAssumption DEF PermitInv
<1>5. inFlight' \in [Connections -> 0 .. MaxConcurrency]
  <2>1. inFlight[r] \in 0 .. MaxConcurrency /\ inFlight[r] < MaxConcurrency
    BY <1>1, <1>3, <1>4
  <2>2. inFlight[r] + 1 \in 0 .. MaxConcurrency
    BY <2>1, WsRequestAssumption
  <2> QED
    BY <1>1, <1>3, <1>4, <2>2
<1>6. ASSUME NEW s \in Connections PROVE inFlight'[s] = connecting[s] + Cardinality(HeldBy(s)')
  <2>1. /\ inFlight[s] = connecting[s] + Cardinality(HeldBy(s)) /\ n \notin HeldBy(s)
        /\ connecting[s] \in Nat
    BY <1>1, <1>2 DEF PermitInv, PermitExact, HeldBy
  <2>2. CASE s = r
    <3>1. HeldBy(s)' = HeldBy(s) \cup {n}
      BY <1>1, <1>2, <1>3, <1>4, <2>2 DEF HeldBy
    <3>2. inFlight'[s] = inFlight[s] + 1
      BY <1>1, <1>3, <1>4, <2>2
    <3> QED
      BY <2>1, <3>1, <3>2, HeldFinite, CountWith
  <2>3. CASE s # r
    <3>1. HeldBy(s)' = HeldBy(s)
      BY <1>1, <1>2, <1>3, <2>3 DEF HeldBy
    <3> QED
      BY <1>1, <1>3, <1>4, <2>1, <2>3, <3>1
  <2> QED
    BY <2>2, <2>3
<1> QED
  BY <1>1, <1>2, <1>3, <1>5, <1>6 DEF PermitInv, PermitExact
-----------------------------------------------------------------------------
(* Steps *)

RpcInv == LifeTypeOK /\ ClientInv /\ OutInv /\ CallInv /\ PermitInv

LEMMA RpcInitInv == RpcInit => RpcInv
<1> SUFFICES ASSUME RpcInit PROVE RpcInv
  OBVIOUS
<1>1. LifeTypeOK /\ ClientInv
  BY DEF RpcInit, LifeInit, LifeTypeOK, Stages, ClientInv, ClientTypeOK
<1>2. PendingOnes = {} /\ (\A w : Outstanding(w) = {} /\ CallsOf(w) = {}) /\ (\A s : HeldBy(s) = {})
  BY DEF RpcInit, PendingOnes, Outstanding, Pending, CallsOf, HeldBy
<1>3. OutInv
  <2>1. IsFiniteSet(PendingOnes) /\ Cardinality(PendingOnes) <= OutboundCapacity
    BY <1>2, FS_EmptySet, WsRequestAssumption
  <2>2. OutboundTypeOK
    BY <2>1, WsRequestAssumption DEF RpcInit, OutboundTypeOK, PendingOnes
  <2>3. OutExact
    BY <1>2, FS_EmptySet DEF RpcInit, OutExact
  <2> QED
    BY <2>1, <2>2, <2>3 DEF RpcInit, OutInv, OutSettled, OutOwned, Pending
<1>4. CallInv
  <2>1. IsFiniteSet(active) /\ Cardinality(active) <= InboundCapacity
    BY FS_EmptySet, WsRequestAssumption DEF RpcInit
  <2>2. CallTypes
    BY <2>1, WsRequestAssumption DEF RpcInit, CallTypes
  <2>3. InExact
    BY <1>2, FS_EmptySet DEF RpcInit, InExact
  <2>4. \A c \in Call : told[c] = <<>> /\ c # inserting
    BY WsRequestAssumption DEF RpcInit
  <2>5. ToldOnce /\ OwnResult /\ FreshTokens /\ ActiveOwned
    BY <2>4 DEF RpcInit, ToldOnce, OwnResult, FreshTokens, ActiveOwned
  <2> QED
    BY <2>2, <2>3, <2>5 DEF CallInv
<1>5. PermitInv
  <2>1. IsFiniteSet(calls) /\ \A s \in Connections : Cardinality(HeldBy(s)) = 0
    BY <1>2, FS_EmptySet DEF RpcInit
  <2> QED
    BY <2>1, WsRequestAssumption DEF RpcInit, PermitInv, PermitExact
<1> QED
  BY <1>1, <1>3, <1>4, <1>5 DEF RpcInv

\* Only the client ends, or only tombstones change.
LEMMA QuietInv ==
    ASSUME RpcInv, attached' \subseteq attached,
           UNCHANGED <<lifeVars, gens, pins, runtime, state, via, outActive, answers, active, inActive, execs,
                       told, inserting, calls, inFlight, connecting, wire, results, timers, closing>>
    PROVE  RpcInv'
<1>1. LifeTypeOK' /\ UNCHANGED <<stage, inbox>>
  BY DEF RpcInv, LifeTypeOK, lifeVars
<1>2. ClientInv'
  BY DEF RpcInv, ClientInv, ClientTypeOK
<1>3. OutInv'
  BY <1>1, OutKept DEF RpcInv
<1>4. CallInv' /\ PermitInv'
  BY CallKept, PermitKept DEF RpcInv
<1> QED
  BY <1>1, <1>2, <1>3, <1>4 DEF RpcInv

LEMMA SessionMovesInv ==
    ASSUME RpcInv, SessionMoves
    PROVE  RpcInv'
<1>1. PICK c \in Connections : LifeStep(c)
  BY DEF SessionMoves
<1>2. UNCHANGED <<attached, gens, pins, runtime, state, via, outActive, answers, active, inActive, execs,
                  told, inserting, calls, inFlight, connecting, wire, results, timers, closing>>
  BY DEF SessionMoves, rpcVars, clientVars, outVars, brokerVars, storeVars
<1>3. /\ LifeTypeOK' 
      /\ \A d \in Connections : stage'[d] = "barrier" /\ d \notin inbox' =>
            stage[d] = "barrier" /\ d \notin inbox
  BY <1>1, LifeStepFacts DEF RpcInv
<1>4. ClientInv'
  BY <1>2 DEF RpcInv, ClientInv, ClientTypeOK
<1>5. OutInv'
  BY <1>2, <1>3, OutKept DEF RpcInv
<1>6. CallInv' /\ PermitInv'
  BY <1>2, CallKept, PermitKept DEF RpcInv
<1> QED
  BY <1>3, <1>4, <1>5, <1>6 DEF RpcInv

\* A step of the outbound half touches nothing of the inbound one.
LEMMA OutboundStep ==
    ASSUME RpcInv, LifeTypeOK', OutInv', attached' \subseteq attached,
           closing' \in Connections \cup {NoConnection},
           UNCHANGED <<gens, pins, runtime, active, inActive, execs, told, inserting, calls, inFlight, connecting, wire,
                       results, timers>>
    PROVE  RpcInv'
<1>1. ClientInv'
  BY DEF RpcInv, ClientInv, ClientTypeOK
<1>2. CallInv' /\ PermitInv'
  BY CallKept, PermitKept DEF RpcInv
<1> QED
  BY <1>1, <1>2 DEF RpcInv

LEMMA RuntimeRequestInv ==
    ASSUME RpcInv, NEW o \in Requests, NEW c \in Connections, NEW w \in Sockets,
           RequestRefused(o, c, w) \/ RequestWritten(o, c, w) \/ RequestUnwritten(o, c, w)
    PROVE  RpcInv'
<1>1. OutInv'
  BY RequestInv DEF RpcInv
<1>2. UNCHANGED <<attached, gens, pins, runtime, active, inActive, execs, told, inserting, calls, inFlight, connecting, wire,
                  results, timers, closing>>
  BY DEF RequestRefused, RequestWritten, RequestUnwritten, clientVars, brokerVars, storeVars
<1>3. LifeTypeOK'
  <2>1. CASE RequestUnwritten(o, c, w)
    BY <2>1 DEF RequestUnwritten, LifeLeave, Move, RpcInv, LifeTypeOK, Stages
  <2>2. CASE RequestRefused(o, c, w) \/ RequestWritten(o, c, w)
    BY <2>2 DEF RequestRefused, RequestWritten, RpcInv, LifeTypeOK, lifeVars
  <2> QED
    BY <2>1, <2>2
<1>4. closing' \in Connections \cup {NoConnection}
  BY <1>2 DEF RpcInv, ClientInv, ClientTypeOK
<1> QED
  BY <1>1, <1>2, <1>3, <1>4, OutboundStep

LEMMA RequestCancelInv ==
    ASSUME RpcInv, NEW o \in Requests, RequestCancel(o)
    PROVE  RpcInv'
<1>1. /\ {o} \in SUBSET PendingOnes /\ DetachOutbound({o}, "cancelled")
      /\ UNCHANGED <<stage, inbox, attached, gens, pins, runtime, via, answers, active, inActive, execs, told,
                     inserting, calls, inFlight, connecting, wire, results, timers, closing>>
  BY DEF RequestCancel, PendingOnes, lifeVars, clientVars, brokerVars, storeVars
<1>2. LifeTypeOK' /\ closing' \in Connections \cup {NoConnection}
  BY DEF RequestCancel, RpcInv, ClientInv, ClientTypeOK, LifeTypeOK, lifeVars
<1>3. OutInv'
  BY <1>1, SettleInv DEF RpcInv
<1> QED
  BY <1>1, <1>2, <1>3, OutboundStep

LEMMA PeerRespondsInv ==
    ASSUME RpcInv, NEW o \in Requests, PeerResponds(o)
    PROVE  RpcInv'
<1>1. /\ attached' \subseteq attached
      /\ UNCHANGED <<lifeVars, gens, pins, runtime, via, active, inActive, execs, told,
                     inserting, calls, inFlight, connecting, wire, results, timers, closing>>
  BY DEF PeerResponds, brokerVars, storeVars
<1>2. CASE Pending(o) /\ DetachOutbound({o}, "answered") /\ Respond({o})
  <2>1. {o} \in SUBSET PendingOnes
    BY <1>2 DEF PendingOnes
  <2>2. UNCHANGED <<stage, inbox>> /\ LifeTypeOK' /\ closing' \in Connections \cup {NoConnection}
    BY <1>1 DEF RpcInv, ClientInv, ClientTypeOK, LifeTypeOK, lifeVars
  <2>3. OutInv'
    BY <1>1, <1>2, <2>1, <2>2, SettleInv DEF RpcInv
  <2> QED
    BY <1>1, <2>2, <2>3, OutboundStep
<1>3. CASE UNCHANGED <<state, outActive, outTomb, answers>>
  BY <1>1, <1>3, QuietInv
<1> QED
  BY <1>2, <1>3 DEF PeerResponds

\* The broker detaches the requests of the session whose terminal has been processed.
LEMMA ConsumeEndInv ==
    ASSUME RpcInv, NEW s \in Connections, ConsumeEnd(s)
    PROVE  RpcInv'
<1> DEFINE S == {o \in Requests : Pending(o) /\ via[o].session = s}
<1>1. /\ attached' \subseteq attached /\ closing' = NoConnection /\ inbox' = inbox \ {s}
      /\ DetachOutbound(S, "detached")
      /\ UNCHANGED <<stage, bound, current, ready, gens, pins, runtime, via, answers, active, inActive, execs,
                     told, inserting, calls, inFlight, connecting, wire, results, timers>>
  BY DEF ConsumeEnd, LifeConsume, brokerVars, storeVars
<1>2. S \in SUBSET PendingOnes /\ \A o \in PendingOnes \ S : via[o].session # s
  BY DEF PendingOnes
<1>3. LifeTypeOK'
  BY <1>1 DEF RpcInv, LifeTypeOK
<1> HIDE DEF S
<1>4. OutInv'
  BY <1>1, <1>2, SettleInv DEF RpcInv
<1> QED
  BY <1>1, <1>3, <1>4, OutboundStep
\* A step of the inbound half touches nothing of the outbound one.
LEMMA InboundStep ==
    ASSUME RpcInv, CallInv', PermitInv', attached' \subseteq attached, pins' \subseteq pins,
           closing' \in Connections \cup {NoConnection},
           UNCHANGED <<lifeVars, gens, runtime, state, via, outActive, answers>>
    PROVE  RpcInv'
<1>1. LifeTypeOK' /\ UNCHANGED <<stage, inbox>>
  BY DEF RpcInv, LifeTypeOK, lifeVars
<1>2. ClientInv'
  BY DEF RpcInv, ClientInv, ClientTypeOK
<1>3. OutInv'
  BY <1>1, OutKept DEF RpcInv
<1> QED
  BY <1>1, <1>2, <1>3 DEF RpcInv

LEMMA OpenInv ==
    ASSUME RpcInv, NEW w \in Sockets, NEW c \in Connections, Open(w, c)
    PROVE  RpcInv'
<1>1. ClientInv' /\ PermitInv'
  BY OpenPermits DEF RpcInv, CallInv
<1>2. /\ UNCHANGED <<stage, bound, current, ready, inbox, state, via, outActive, answers, active, inActive, execs,
                     told, inserting, calls, wire, results, timers>>
      /\ gens \subseteq gens'
  BY DEF Open, lifeVars, outVars, brokerVars, storeVars
<1>3. LifeTypeOK' /\ OutInv' /\ CallInv'
  BY <1>2, OutKept, CallKept DEF RpcInv, LifeTypeOK
<1> QED
  BY <1>1, <1>3 DEF RpcInv

LEMMA ConnectInv ==
    ASSUME RpcInv, NEW c \in Connections, ConnectReserves(c) \/ ConnectReleases(c)
    PROVE  RpcInv'
<1>1. PermitInv'
  BY ConnectPermits DEF RpcInv
<1>2. UNCHANGED <<lifeVars, attached, gens, pins, runtime, state, via, outActive, answers, active, inActive, execs,
                  told, inserting, calls, wire, results, timers, closing>>
  BY DEF ConnectReserves, ConnectReleases, clientVars, outVars, brokerVars
<1>3. CallInv' /\ closing' \in Connections \cup {NoConnection}
  BY <1>2, CallKept DEF RpcInv, ClientInv, ClientTypeOK
<1> QED
  BY <1>1, <1>2, <1>3, InboundStep

LEMMA PeerCallInv ==
    ASSUME RpcInv, NEW w \in Sockets, NEW p \in PeerIds, PeerCall(w, p) \/ PeerCallFails(w, p)
    PROVE  RpcInv'
<1>1. /\ UNCHANGED <<lifeVars, gens, pins, runtime, state, via, outActive, answers>>
      /\ attached' \subseteq attached /\ closing' \in Connections \cup {NoConnection}
  BY DEF PeerCall, PeerCallFails, Reply, clientVars, outVars, RpcInv, ClientInv, ClientTypeOK
<1>2. CallInv'
  BY PeerCallCalls, PeerCallFailsCalls DEF RpcInv
<1>3. PermitInv'
  <2>1. CASE PeerCall(w, p)
    BY <2>1, PeerCallPermits DEF RpcInv
  <2>2. CASE PeerCallFails(w, p)
    BY <2>2, PermitKept DEF PeerCallFails, storeVars, RpcInv
  <2> QED
    BY <2>1, <2>2
<1> QED
  BY <1>1, <1>2, <1>3, InboundStep

LEMMA CallInsertedInv ==
    ASSUME RpcInv, CallInserted
    PROVE  RpcInv'
<1>1. /\ inserting # NoCall /\ calls' = calls \cup {inserting} /\ timers' = timers \cup {inserting}
      /\ inserting' = NoCall
      /\ UNCHANGED <<lifeVars, attached, gens, pins, runtime, state, via, outActive, answers, active, inActive,
                     execs, told, inFlight, connecting, wire, results, closing>>
  BY DEF CallInserted, clientVars, outVars, brokerVars
<1>2. /\ inserting \in Call /\ NoCall \notin Call /\ calls \subseteq Call /\ timers \subseteq Call
      /\ active \subseteq Call /\ IsFiniteSet(active) /\ Cardinality(active) <= InboundCapacity
      /\ inActive \in [Sockets -> 0 .. InboundPerGeneration] /\ told \in [Call -> Seq(Replies)] /\ ActiveOwned /\ InExact
  BY <1>1, WsRequestAssumption DEF RpcInv, CallInv, CallTypes
<1>3. ActiveOwned' /\ InExact' /\ timers' \subseteq Call
  BY <1>1, <1>2 DEF ActiveOwned, InExact, CallsOf
<1>4. CallInv'
  BY <1>1, <1>2, <1>3, CallMoves DEF RpcInv
<1>5. PermitInv'
  <2>1. \A s : HeldBy(s)' = HeldBy(s)
    BY <1>1, <1>2 DEF HeldBy
  <2>2. IsFiniteSet(calls')
    BY <1>1, FS_AddElement DEF RpcInv, PermitInv
  <2> QED
    BY <1>1, <1>2, <2>1, <2>2 DEF RpcInv, PermitInv, PermitExact
<1>6. closing' \in Connections \cup {NoConnection}
  BY <1>1 DEF RpcInv, ClientInv, ClientTypeOK
<1> QED
  BY <1>1, <1>4, <1>5, <1>6, InboundStep

\* The store is the first to let go of a call: its permit is free, its result on the way.
LEMMA StoreDropsInv ==
    ASSUME RpcInv, NEW D \in SUBSET calls, calls' = calls \ D, wire' \subseteq wire,
           \A c \in results' : c \in results \/ (c \in D /\ c \notin wire'),
           inFlight' = [s \in Connections |-> inFlight'[s]],
           \A s \in Connections : inFlight'[s] = inFlight[s] - Cardinality({c \in D : runtime[c.sock] = s}),
           attached' \subseteq attached, pins' \subseteq pins,
           UNCHANGED <<lifeVars, gens, runtime, state, via, outActive, answers, active, inActive,
                       execs, told, inserting, connecting, timers, closing>>
    PROVE  RpcInv'
<1>1. PermitInv'
  BY PermitsFreed DEF RpcInv
<1>2. /\ active' \subseteq active /\ IsFiniteSet(active') /\ Cardinality(active') <= InboundCapacity
      /\ inActive' \in [Sockets -> 0 .. InboundPerGeneration] /\ told' \in [Call -> Seq(Replies)] /\ timers' \subseteq Call
      /\ closing' \in Connections \cup {NoConnection}
  BY DEF RpcInv, CallInv, CallTypes, ClientInv, ClientTypeOK
<1>3. InExact' /\ ActiveOwned'
  BY DEF RpcInv, CallInv, InExact, CallsOf, ActiveOwned
<1>4. \A c \in D : c # inserting /\ c \notin calls'
  BY DEF RpcInv, PermitInv
<1>5. CallInv'
  BY <1>2, <1>3, <1>4, CallMoves DEF RpcInv
<1> QED
  BY <1>1, <1>2, <1>5, InboundStep

LEMMA RuntimeAnswersInv ==
    ASSUME RpcInv, NEW c \in Call, RuntimeAnswers(c)
    PROVE  RpcInv'
<1>1. /\ wire' = wire \ {c} /\ calls' = calls \ ({c} \cap calls) /\ results' = results \cup ({c} \cap calls)
      /\ UNCHANGED <<lifeVars, attached, gens, pins, runtime, state, via, outActive, answers, active, inActive,
                     execs, told, inserting, connecting, timers, closing>>
  BY DEF RuntimeAnswers, clientVars, outVars, brokerVars
<1>2. /\ inFlight' = [s \in Connections |-> inFlight'[s]]
      /\ \A s \in Connections : inFlight'[s] = inFlight[s] - Cardinality({d \in {c} \cap calls : runtime[d.sock] = s})
  BY DEF RuntimeAnswers, Free
<1>3. {c} \cap calls \in SUBSET calls
  OBVIOUS
<1> QED
  BY <1>1, <1>2, <1>3, StoreDropsInv

LEMMA UnregisterInv ==
    ASSUME RpcInv, NEW w \in Sockets, Unregister(w)
    PROVE  RpcInv'
<1> DEFINE mine == {c \in calls : c.sock = w}
<1>1. /\ calls' = calls \ mine /\ pins' = pins \ {w}
      /\ inFlight' = [inFlight EXCEPT ![runtime[w]] = @ - Cardinality(mine)]
      /\ w \in pins \/ mine # {}
      /\ UNCHANGED <<lifeVars, attached, gens, runtime, state, via, outActive, answers, active, inActive,
                     execs, told, inserting, connecting, wire, results, timers, closing>>
  BY DEF Unregister, outVars, brokerVars
<1>2. PICK r \in Connections : r = runtime[w]
  BY <1>1 DEF RpcInv, ClientInv, CallInv, CallTypes, PermitInv
<1>3. inFlight \in [Connections -> 0 .. MaxConcurrency]
  BY DEF RpcInv, PermitInv
<1>4. \A s \in Connections : {c \in mine : runtime[c.sock] = s} = (IF s = r THEN mine ELSE {})
  BY <1>2
<1>5. mine \in SUBSET calls
  OBVIOUS
<1> HIDE DEF mine
<1>6. inFlight' = [s \in Connections |-> inFlight'[s]]
  BY <1>1, <1>3
<1>7. ASSUME NEW s \in Connections
      PROVE  inFlight'[s] = inFlight[s] - Cardinality({c \in mine : runtime[c.sock] = s})
  <2>1. CASE s = r
    BY <1>1, <1>2, <1>3, <1>4, <2>1
  <2>2. CASE s # r
    <3>1. {c \in mine : runtime[c.sock] = s} = {} /\ inFlight'[s] = inFlight[s] /\ inFlight[s] \in Nat
      BY <1>1, <1>2, <1>3, <1>4, <2>2, WsRequestAssumption
    <3>2. Cardinality({c \in mine : runtime[c.sock] = s}) = 0
      BY <3>1, FS_EmptySet
    <3> QED
      BY <3>1, <3>2
  <2> QED
    BY <2>1, <2>2
<1> QED
  BY <1>1, <1>5, <1>6, <1>7, StoreDropsInv
\* The broker lets go of calls, and who took them tells the peer at most once.
LEMMA BrokerDropsInv ==
    ASSUME RpcInv, NEW S \in SUBSET active, DetachInbound(S), NEW T \in SUBSET S, NEW reply \in Replies,
           reply = "result" => T \subseteq results,
           told' \in [Call -> Seq(Replies)],
           \A c \in Call : told'[c] = (IF c \in T THEN Append(told[c], reply) ELSE told[c]),
           results' \subseteq results, timers' \subseteq timers, wire' = wire, calls' \subseteq calls, execs' = execs,
           inserting' = inserting, gens' = gens
    PROVE  CallInv'
<1>1. CallInv
  BY DEF RpcInv
<1>2. /\ active' = active \ S /\ IsFiniteSet(active') /\ Cardinality(active') <= InboundCapacity
      /\ inActive' \in [Sockets -> 0 .. InboundPerGeneration] /\ InExact'
  BY <1>1, DetachInboundFacts
<1>3. ActiveOwned' /\ timers' \subseteq Call
  BY <1>1, <1>2 DEF CallInv, CallTypes, ActiveOwned
<1>4. \A c \in Call : \/ told'[c] = told[c]
                      \/ /\ c \in active /\ c \notin active'
                         /\ \E r \in Replies : told'[c] = Append(told[c], r) /\ (r = "result" => c \in results)
  BY <1>2
<1> QED
  BY <1>1, <1>2, <1>3, <1>4, CallMoves

LEMMA CompleteInboundInv ==
    ASSUME RpcInv, NEW c \in Call, CompleteInbound(c)
    PROVE  RpcInv'
<1>1. /\ c \in results /\ results' = results \ {c}
      /\ UNCHANGED <<lifeVars, gens, pins, runtime, state, via, outActive, answers, execs, inserting, calls,
                     inFlight, connecting, wire, timers, closing>>
  BY DEF CompleteInbound, outVars
<1>2. attached' \subseteq attached /\ closing' \in Connections \cup {NoConnection}
  BY <1>1 DEF CompleteInbound, Reply, RpcInv, ClientInv, ClientTypeOK
<1>3. PermitInv'
  BY <1>1, PermitKept DEF RpcInv
<1>4. told \in [Call -> Seq(Replies)] /\ CallInv
  BY DEF RpcInv, CallInv, CallTypes
<1>5. CallInv'
  <2>1. CASE c \in active
    <3>1. DetachInbound({c}) /\ \E ok \in Writes(c.sock) : Reply(c, "result", ok)
      BY <2>1 DEF CompleteInbound
    <3>2. PICK T \in SUBSET {c} : told' = (IF T = {} THEN told ELSE [told EXCEPT ![c] = Append(@, "result")])
      BY <3>1 DEF Reply
    <3>3. told' \in [Call -> Seq(Replies)]
      <4>1. Append(told[c], "result") \in Seq(Replies)
        BY <1>4 DEF Replies
      <4> QED
        BY <1>4, <3>2, <4>1
    <3>4. \A d \in Call : told'[d] = (IF d \in T THEN Append(told[d], "result") ELSE told[d])
      BY <1>4, <3>2
    <3>5. {c} \in SUBSET active /\ T \subseteq results /\ "result" \in Replies
      BY <1>1, <2>1 DEF Replies
    <3> QED
      BY <1>1, <3>1, <3>3, <3>4, <3>5, BrokerDropsInv
  <2>2. CASE c \notin active
    <3>1. UNCHANGED <<active, inActive, told>>
      BY <2>2 DEF CompleteInbound
    <3>2. InExact' /\ ActiveOwned' /\ active \subseteq Call /\ IsFiniteSet(active) /\ timers \subseteq Call
          /\ Cardinality(active) <= InboundCapacity /\ inActive \in [Sockets -> 0 .. InboundPerGeneration]
      BY <1>1, <1>4, <3>1 DEF CallInv, CallTypes, InExact, CallsOf, ActiveOwned
    <3> QED
      BY <1>1, <1>4, <3>1, <3>2, CallMoves
  <2> QED
    BY <2>1, <2>2
<1> QED
  BY <1>1, <1>2, <1>3, <1>5, InboundStep

LEMMA InboundDeadlineInv ==
    ASSUME RpcInv, NEW c \in Call, InboundDeadline(c)
    PROVE  RpcInv'
<1>1. /\ timers' = timers \ {c}
      /\ UNCHANGED <<lifeVars, attached, gens, pins, runtime, state, via, outActive, answers, execs, inserting,
                     calls, inFlight, connecting, wire, results, closing>>
  BY DEF InboundDeadline, outVars, clientVars
<1>2. closing' \in Connections \cup {NoConnection}
  BY <1>1 DEF RpcInv, ClientInv, ClientTypeOK
<1>3. PermitInv'
  BY <1>1, PermitKept DEF RpcInv
<1>4. told \in [Call -> Seq(Replies)] /\ CallInv
  BY DEF RpcInv, CallInv, CallTypes
<1>5. CallInv'
  <2>1. CASE c \in active
    <3>1. DetachInbound({c})
      BY <2>1 DEF InboundDeadline
    <3>2. PICK T \in SUBSET {c} : told' = (IF T = {} THEN told ELSE [told EXCEPT ![c] = Append(@, "timeout")])
      BY <2>1 DEF InboundDeadline
    <3>3. told' \in [Call -> Seq(Replies)]
      <4>1. Append(told[c], "timeout") \in Seq(Replies)
        BY <1>4 DEF Replies
      <4> QED
        BY <1>4, <3>2, <4>1
    <3>4. \A d \in Call : told'[d] = (IF d \in T THEN Append(told[d], "timeout") ELSE told[d])
      BY <1>4, <3>2
    <3>5. {c} \in SUBSET active /\ "timeout" \in Replies
      BY <2>1 DEF Replies
    <3> QED
      BY <1>1, <3>1, <3>3, <3>4, <3>5, BrokerDropsInv
  <2>2. CASE c \notin active
    <3>1. UNCHANGED <<active, inActive, told>>
      BY <2>2 DEF InboundDeadline
    <3>2. InExact' /\ ActiveOwned' /\ active \subseteq Call /\ IsFiniteSet(active) /\ timers \subseteq Call
          /\ Cardinality(active) <= InboundCapacity /\ inActive \in [Sockets -> 0 .. InboundPerGeneration]
      BY <1>1, <1>4, <3>1 DEF CallInv, CallTypes, InExact, CallsOf, ActiveOwned
    <3> QED
      BY <1>1, <1>4, <3>1, <3>2, CallMoves
  <2> QED
    BY <2>1, <2>2
<1> QED
  BY <1>1, <1>2, <1>3, <1>5, InboundStep
LEMMA CloseGenerationInv ==
    ASSUME RpcInv, NEW w \in Sockets, CloseGeneration(w)
    PROVE  RpcInv'
<1>1. /\ gens' = gens \ {w} /\ inActive' = [inActive EXCEPT ![w] = 0] /\ active' = {c \in active : c.sock # w}
      /\ UNCHANGED <<stage, bound, current, ready, inbox, attached, pins, runtime, execs, told, inserting, calls,
                     inFlight, connecting, wire, results, timers, closing>>
  BY DEF CloseGeneration, lifeVars, storeVars
<1>2. LifeTypeOK' /\ ClientInv'
  BY <1>1 DEF RpcInv, LifeTypeOK, ClientInv, ClientTypeOK
<1>3. OutInv'
  BY CloseGenerationOut DEF RpcInv
<1>4. PermitInv'
  BY <1>1, PermitKept DEF RpcInv
<1>5. /\ CallInv /\ active \subseteq Call /\ IsFiniteSet(active) /\ Cardinality(active) <= InboundCapacity
      /\ inActive \in [Sockets -> 0 .. InboundPerGeneration] /\ told \in [Call -> Seq(Replies)] /\ timers \subseteq Call
  BY DEF RpcInv, CallInv, CallTypes
<1>6. IsFiniteSet(active') /\ Cardinality(active') <= InboundCapacity
  <2>1. active' \in SUBSET active
    BY <1>1
  <2>2. IsFiniteSet(active') /\ Cardinality(active') <= Cardinality(active)
    BY <1>5, <2>1, FS_Subset
  <2> QED
    BY <1>5, <2>2, FS_CardinalityType, WsRequestAssumption
<1>7. inActive' \in [Sockets -> 0 .. InboundPerGeneration]
  BY <1>1, <1>5, WsRequestAssumption
<1>8. InExact'
  <2> SUFFICES ASSUME NEW v \in Sockets PROVE inActive'[v] = Cardinality(CallsOf(v)')
    BY DEF InExact
  <2>1. CASE v = w
    <3>1. CallsOf(v)' = {}
      BY <1>1, <2>1 DEF CallsOf
    <3> QED
      BY <1>1, <1>5, <2>1, <3>1, FS_EmptySet
  <2>2. CASE v # w
    <3>1. CallsOf(v)' = CallsOf(v)
      BY <1>1, <2>2 DEF CallsOf
    <3> QED
      BY <1>1, <1>5, <2>2, <3>1 DEF CallInv, InExact
  <2> QED
    BY <2>1, <2>2
<1>9. ActiveOwned'
  BY <1>1, <1>5 DEF CallInv, ActiveOwned
<1>10. CallInv'
  BY <1>1, <1>5, <1>6, <1>7, <1>8, <1>9, CallMoves
<1> QED
  BY <1>2, <1>3, <1>4, <1>10 DEF RpcInv

\* The store drops the calls of a closed session and the broker those still active.
LEMMA ConsumeBeginInv ==
    ASSUME RpcInv, NEW s \in Connections, ConsumeBegin(s)
    PROVE  RpcInv'
<1> DEFINE mine == {c \in calls : c.sock \in Pinned(s)}
           S == mine \cap active
<1>1. /\ closing' = s /\ pins' = pins \ Pinned(s) /\ calls' = calls \ mine /\ Free(mine) /\ DetachInbound(S)
      /\ UNCHANGED <<lifeVars, gens, runtime, state, via, outActive, answers, execs, inserting, connecting, wire,
                     results, timers>>
  BY DEF ConsumeBegin, outVars
<1>2. \E D : /\ attached' = attached \ D
             /\ told' = [c \in Call |-> IF c \in S /\ c.sock \notin D THEN Append(told[c], "error") ELSE told[c]]
  BY DEF ConsumeBegin
<1>3. mine \in SUBSET calls /\ S \in SUBSET active
  OBVIOUS
<1> HIDE DEF mine, S
<1>4. PermitInv'
  <2>1. /\ inFlight' = [r \in Connections |-> inFlight'[r]]
        /\ \A r \in Connections : inFlight'[r] = inFlight[r] - Cardinality({c \in mine : runtime[c.sock] = r})
    BY <1>1 DEF Free
  <2> QED
    BY <1>1, <1>3, <2>1, PermitsFreed DEF RpcInv
<1>5. PICK T \in SUBSET S : told' = [c \in Call |-> IF c \in T THEN Append(told[c], "error") ELSE told[c]]
  <2>1. PICK D : told' = [c \in Call |-> IF c \in S /\ c.sock \notin D THEN Append(told[c], "error") ELSE told[c]]
    BY <1>2
  <2>2. {c \in S : c.sock \notin D} \in SUBSET S
    OBVIOUS
  <2> QED
    BY <2>1, <2>2
<1>6. told' \in [Call -> Seq(Replies)]
  <2>1. \A c \in Call : told[c] \in Seq(Replies)
    BY DEF RpcInv, CallInv, CallTypes
  <2>2. \A c \in Call : Append(told[c], "error") \in Seq(Replies)
    BY <2>1 DEF Replies
  <2> QED
    BY <1>5, <2>1, <2>2
<1>7. "error" \in Replies /\ \A c \in Call : told'[c] = (IF c \in T THEN Append(told[c], "error") ELSE told[c])
  BY <1>5 DEF Replies
<1>8. CallInv'
  BY <1>1, <1>3, <1>6, <1>7, BrokerDropsInv
<1>9. attached' \subseteq attached
  BY <1>2
<1> QED
  BY <1>1, <1>4, <1>8, <1>9, InboundStep

LEMMA RpcStepInv ==
    ASSUME RpcInv, [RpcNext]_rpcAll
    PROVE  RpcInv'
<1>1. CASE SessionMoves
  BY <1>1, SessionMovesInv
<1>2. CASE TombstoneExpires
  BY <1>2, QuietInv DEF TombstoneExpires, clientVars, storeVars
<1>3. CASE CallInserted
  BY <1>3, CallInsertedInv
<1>4. CASE Settle
  BY <1>4, CompleteInboundInv, InboundDeadlineInv DEF Settle
<1>5. CASE \E s \in Connections : Consumer(s) \/ ConnectReserves(s) \/ ConnectReleases(s)
  BY <1>5, ConsumeBeginInv, ConsumeEndInv, ConnectInv DEF Consumer
<1>6. CASE \E c \in Call : RuntimeAnswers(c)
  BY <1>6, RuntimeAnswersInv
<1>7. ASSUME NEW w \in Sockets, Finish(w) PROVE RpcInv'
  BY <1>7, QuietInv DEF Finish, outVars, brokerVars, storeVars
<1>8. ASSUME NEW w \in Sockets, CloseGeneration(w) \/ Unregister(w) PROVE RpcInv'
  BY <1>8, CloseGenerationInv, UnregisterInv
<1>9. ASSUME NEW w \in Sockets, NEW s \in Connections, Open(w, s) PROVE RpcInv'
  BY <1>9, OpenInv
<1>10. ASSUME NEW w \in Sockets, NEW p \in PeerIds, PeerRepeats(w, p) \/ PeerCallRefused(w, p) PROVE RpcInv'
  <2>1. /\ attached' \subseteq attached
        /\ UNCHANGED <<lifeVars, gens, pins, runtime, state, via, outActive, answers, active, inActive, execs,
                       told, inserting, calls, inFlight, connecting, wire, results, timers, closing>>
    BY <1>10 DEF PeerRepeats, PeerCallRefused, outVars, brokerVars, storeVars
  <2> QED
    BY <2>1, QuietInv
<1>11. ASSUME NEW w \in Sockets, NEW p \in PeerIds, PeerCall(w, p) \/ PeerCallFails(w, p) PROVE RpcInv'
  BY <1>11, PeerCallInv
<1>12. ASSUME NEW w \in Sockets, NEW o \in Requests, NEW s \in Connections,
              RequestRefused(o, s, w) \/ RequestWritten(o, s, w) \/ RequestUnwritten(o, s, w)
       PROVE  RpcInv'
  BY <1>12, RuntimeRequestInv
<1>13. ASSUME NEW o \in Requests, RequestCancel(o) \/ PeerResponds(o) PROVE RpcInv'
  BY <1>13, RequestCancelInv, PeerRespondsInv
<1>14. CASE UNCHANGED rpcAll
  BY <1>14, QuietInv DEF rpcAll, rpcVars, clientVars, outVars, brokerVars, storeVars
<1> QED
  BY <1>1, <1>2, <1>3, <1>4, <1>5, <1>6, <1>7, <1>8, <1>9, <1>10, <1>11, <1>12, <1>13, <1>14 DEF RpcNext

LEMMA RpcIsInductive == RpcSpec => []RpcInv
<1>1. RpcInit => RpcInv
  BY RpcInitInv
<1>2. RpcInv /\ [RpcNext]_rpcAll => RpcInv'
  BY RpcStepInv
<1> QED
  BY <1>1, <1>2, PTL DEF RpcSpec

-----------------------------------------------------------------------------
(* Theorems *)

\* Every limit holds in every state: pending requests and active calls, of the broker and of
\* each client, and the permits of a session, for which connects and calls race (broker.rs
\* handle_runtime_request, handle_inbound_request; supervisor/ws.rs dispatch_inbound, select).
THEOREM RpcWithinLimits == RpcSpec => [](ClientTypeOK /\ OutboundTypeOK /\ InboundTypeOK)
<1>1. RpcInv => ClientTypeOK /\ OutboundTypeOK /\ InboundTypeOK
  BY DEF RpcInv, ClientInv, OutInv, CallInv, CallTypes, PermitInv, InboundTypeOK
<1> QED
  BY <1>1, RpcIsInductive, PTL

\* The counters the limits are checked against never drift from what is really pending
\* (broker.rs detach_outbound, detach_inbound, close_generation; supervisor/ws.rs select and
\* release, one pool for connects and calls).
THEOREM RpcCountersExact == RpcSpec => []CountersAreExact
<1>1. RpcInv => CountersAreExact
  <2> SUFFICES ASSUME RpcInv PROVE CountersAreExact
    OBVIOUS
  <2>1. \A w \in gens : outActive[w] = Cardinality(Outstanding(w))
                        /\ inActive[w] = Cardinality({c \in active : c.sock = w})
    BY DEF RpcInv, ClientInv, ClientTypeOK, OutInv, OutExact, CallInv, InExact, CallsOf
  <2>2. \A s \in Connections :
           inFlight[s] = connecting[s]
                         + Cardinality({c \in calls \cup ({inserting} \ {NoCall}) : runtime[c.sock] = s})
    BY DEF RpcInv, PermitInv, PermitExact, HeldBy
  <2> QED
    BY <2>1, <2>2 DEF CountersAreExact
<1> QED
  BY <1>1, RpcIsInductive, PTL

\* A request is answered at most once and a call told at most once, in every race of
\* response, cancel, deadline, lost session and closed client (broker.rs).
THEOREM RpcSettledOnce == RpcSpec => []SettledOnce
<1>1. RpcInv => SettledOnce
  <2> SUFFICES ASSUME RpcInv PROVE SettledOnce
    OBVIOUS
  <2>1. \A o \in Requests : answers[o] <= (IF state[o] \in {"cancelled", "detached"} THEN 0 ELSE 1)
    BY DEF RpcInv, OutInv, OutSettled, Unanswered
  <2>2. \A c \in Call : Len(told[c]) <= 1
    BY DEF RpcInv, CallInv, ToldOnce
  <2> QED
    BY <2>1, <2>2 DEF SettledOnce
<1> QED
  BY <1>1, RpcIsInductive, PTL

\* A result is told to the execution that produced it: its frame and its store entry are
\* gone, whatever calls reuse its JSON-RPC id (broker.rs complete_inbound).
THEOREM RpcResultsOwn == RpcSpec => []ResultIsOwn
<1>1. RpcInv => ResultIsOwn
  BY DEF RpcInv, CallInv, OwnResult, ResultIsOwn
<1> QED
  BY <1>1, RpcIsInductive, PTL

\* Nothing is pending for a client whose generation was closed, or for a session whose
\* loss was processed (broker.rs close_generation, runtime_disconnected).
THEOREM RpcPendingOwned == RpcSpec => []PendingHasOwners
<1>1. RpcInv => PendingHasOwners
  BY DEF RpcInv, CallInv, ActiveOwned, OutInv, OutOwned, PendingHasOwners
<1> QED
  BY <1>1, RpcIsInductive, PTL
=============================================================================
