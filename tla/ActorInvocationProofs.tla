------------------------ MODULE ActorInvocationProofs ------------------------
(***************************************************************************)
(* Theorems about ActorInvocation, for any number of sessions, calls and   *)
(* actors: the types and the bound of the relay, that a call ends once,    *)
(* and that nothing is left of the calls of a closed session.              *)
(***************************************************************************)
EXTENDS ActorInvocation, FiniteSetTheorems, TLAPS

\* The session of c is inside a handler of call i: of the invoke frame it sent, or of the
\* answer it sent as the owner.
Busy(c, i) ==
    \/ call[i] # NoCall /\ call[i].caller = c /\ call[i].step \in {"found", "relayed", "correlated"}
    \/ i \in settled /\ call[i].owner = c

\* A session handles one frame at a time, and while it does its connection stays.
OneHandler == \A c \in Connections, i, j \in Invocations : Busy(c, i) /\ Busy(c, j) => i = j
BusyIsOpen == \A c \in Connections, i \in Invocations : Busy(c, i) => stage[c] = "registered"

InboxIsClosed == \A c \in inbox : stage[c] \in {"barrier", "gone"}

Cancels(i) == IF i \in cancelled THEN 1 ELSE 0
Ends(i) == told[i] + reported[i] + Cancels(i)

\* Relay and sink each know a call for a while; whoever takes it out of the relay (answer,
\* deadline, cancel, close) is alone with it, and a call with a correlation has not ended.
PlaceOf(i) ==
    /\ call[i] = NoCall \/ At(i, "found") => i \notin pending /\ i \notin expired
    /\ call[i] = NoCall \/ At(i, "found") \/ At(i, "relayed") =>
          i \notin corr /\ i \notin settled /\ Ends(i) = 0
    /\ i \in settled => At(i, "out") /\ i \notin pending /\ i \notin expired
    /\ i \in pending => i \notin expired
    /\ i \in corr \/ i \in settled => Ends(i) = 0
    /\ Ends(i) <= 1

PlaceInv ==
    /\ \A i \in Invocations : PlaceOf(i)
    /\ \A f \in wire : At(f.inv, "out")

\* A session whose close is being processed, or is, has no calls left; while the consumer
\* is between sink and relay it has no new ones either.
CallerGone(c) == \A i \in Invocations : i \in pending \/ i \in corr => call[i].caller # c

ForgottenInv ==
    /\ closing # NoConnection => closing \in inbox /\ CallerGone(closing)
    /\ \A c \in Connections : stage[c] = "barrier" /\ c \notin inbox => CallerGone(c)

\* A session that announced itself, as the owner picked for a task has, has a replica.
BoundInv ==
    /\ \A c \in Connections : stage[c] # "absent" => bound[c] \in Replicas
    /\ \A i \in Invocations : IsTask(i) => bound[call[i].owner] \in Replicas

TypeInv == LifeTypeOK /\ InvocationTypeOK /\ IsFiniteSet(pending)

InvocationInv ==
    TypeInv /\ OneHandler /\ BusyIsOpen /\ InboxIsClosed /\ PlaceInv /\ ForgottenInv /\ BoundInv

-----------------------------------------------------------------------------

LEMMA CancelsCounted ==
    ASSUME NEW i PROVE Cardinality({i} \cap cancelled) = Cancels(i)
<1>1. CASE i \in cancelled
  <2>1. {i} \cap cancelled = {i}
    BY <1>1
  <2> QED
    BY <1>1, <2>1, FS_Singleton DEF Cancels
<1>2. CASE i \notin cancelled
  <2>1. {i} \cap cancelled = {}
    BY <1>2
  <2> QED
    BY <1>2, <2>1, FS_EmptySet DEF Cancels
<1> QED
  BY <1>1, <1>2

LEMMA InvocationInitInv == InvocationInit => InvocationInv
<1> SUFFICES ASSUME InvocationInit PROVE InvocationInv
  OBVIOUS
<1>1. TypeInv
  <2>1. LifeTypeOK
    BY DEF InvocationInit, LifeInit, LifeTypeOK, Stages
  <2>2. IsFiniteSet(pending) /\ Cardinality(pending) <= MaxPending
    BY FS_EmptySet, InvocationAssumption DEF InvocationInit
  <2>3. InvocationTypeOK
    BY <2>2 DEF InvocationInit, InvocationTypeOK
  <2> QED
    BY <2>1, <2>2, <2>3 DEF TypeInv
<1>2. OneHandler /\ BusyIsOpen
  BY DEF InvocationInit, OneHandler, BusyIsOpen, Busy
<1>3. InboxIsClosed /\ ForgottenInv
  BY DEF InvocationInit, LifeInit, InboxIsClosed, ForgottenInv, CallerGone
<1>4. PlaceInv /\ BoundInv
  BY DEF InvocationInit, LifeInit, PlaceInv, PlaceOf, At, Ends, Cancels, BoundInv, IsTask
<1> QED
  BY <1>1, <1>2, <1>3, <1>4 DEF InvocationInv

-----------------------------------------------------------------------------
(* Calls and sessions *)

\* A call moves on and keeps what it recorded.
LEMMA StepToFacts ==
    ASSUME TypeInv, NEW i \in Invocations, NEW s \in Steps, call[i] # NoCall, StepTo(i, s)
    PROVE  /\ call' \in [Invocations -> Call \cup {NoCall}]
           /\ call'[i] # NoCall /\ call'[i].step = s
           /\ call'[i].caller = call[i].caller /\ call'[i].owner = call[i].owner
           /\ call'[i].target = call[i].target
           /\ \A j \in Invocations \ {i} : call'[j] = call[j]
<1>1. call \in [Invocations -> Call \cup {NoCall}] /\ call[i] \in Call
  BY DEF TypeInv, InvocationTypeOK
<1>2. call'[i] = [call[i] EXCEPT !.step = s] /\ \A j \in Invocations \ {i} : call'[j] = call[j]
  BY <1>1 DEF StepTo
<1>3. [call[i] EXCEPT !.step = s] \in Call
  BY <1>1 DEF Call
<1>4. call' = [call EXCEPT ![i] = [call[i] EXCEPT !.step = s]]
  BY <1>1 DEF StepTo
<1>5. NoCall \notin Call
  BY InvocationAssumption
<1>6. /\ call'[i].step = s /\ call'[i].caller = call[i].caller /\ call'[i].owner = call[i].owner
      /\ call'[i].target = call[i].target
  BY <1>1, <1>2 DEF Call
<1>7. call' \in [Invocations -> Call \cup {NoCall}]
  <2> DEFINE r == [call[i] EXCEPT !.step = s]
  <2>1. call' = [call EXCEPT ![i] = r] /\ r \in Call
    BY <1>3, <1>4
  <2> HIDE DEF r
  <2> QED
    BY <1>1, <2>1
<1> QED
  BY <1>2, <1>3, <1>5, <1>6, <1>7

\* What a step of a session changes for the other ones and for the consumer.
LEMMA LifeStepFacts ==
    ASSUME LifeTypeOK, InboxIsClosed, NEW c \in Connections, LifeStep(c)
    PROVE  /\ LifeTypeOK' /\ InboxIsClosed'
           /\ \A d \in Connections \ {c} : stage'[d] = stage[d]
           /\ \A d \in inbox : d \in inbox'
           /\ \A d \in Connections : stage'[d] = "barrier" /\ d \notin inbox' =>
                 stage[d] = "barrier" /\ d \notin inbox
           /\ \A d \in Connections : bound[d] \in Replicas => bound'[d] \in Replicas
           /\ \A d \in Connections : stage'[d] # "absent" => stage[d] # "absent" \/ bound'[d] \in Replicas
<1> USE DEF LifeTypeOK, Move, Stages, InboxIsClosed
<1>1. CASE \E r \in Replicas : LifeBind(c, r)
  BY <1>1 DEF LifeBind
<1>2. CASE LifeRegister(c)
  BY <1>2 DEF LifeRegister
<1>3. CASE LifeLeave(c)
  BY <1>3 DEF LifeLeave
<1>4. CASE LifeUnwind(c)
  BY <1>4 DEF LifeUnwind
<1>5. CASE LifeClose(c)
  BY <1>5 DEF LifeClose
<1>6. CASE LifeGiveUp(c)
  BY <1>6 DEF LifeGiveUp
<1>7. CASE LifeForget(c)
  BY <1>7 DEF LifeForget
<1> QED
  BY <1>1, <1>2, <1>3, <1>4, <1>5, <1>6, <1>7 DEF LifeStep

LEMMA HandlingIsBusy ==
    ASSUME TypeInv, NEW c
    PROVE  Handling(c) <=> \E i \in Invocations : Busy(c, i)
BY DEF TypeInv, InvocationTypeOK, Handling, Busy

\* A call of whose caller a handler runs, is not one of a session being closed.
LEMMA BusyNotGone ==
    ASSUME InvocationInv, NEW i \in Invocations, call[i] # NoCall,
           call[i].step \in {"found", "relayed", "correlated"}
    PROVE  /\ closing # NoConnection => call[i].caller # closing
           /\ \A c \in Connections : stage[c] # "registered" => call[i].caller # c
           /\ \A c \in inbox : call[i].caller # c
<1>1. \A c \in Connections : call[i].caller = c => Busy(c, i)
  BY DEF Busy
<1>2. \A c \in Connections : stage[c] # "registered" => call[i].caller # c
  BY <1>1 DEF InvocationInv, BusyIsOpen
<1>3. inbox \subseteq Connections /\ closing \in Connections \cup {NoConnection}
      /\ call[i].caller \in Connections \cup {TaskCaller}
  BY DEF InvocationInv, TypeInv, LifeTypeOK, InvocationTypeOK, Call
<1>4. \A c \in inbox : call[i].caller # c
  BY <1>2, <1>3 DEF InvocationInv, InboxIsClosed
<1> QED
  BY <1>2, <1>3, <1>4 DEF InvocationInv, ForgottenInv
-----------------------------------------------------------------------------
(* What stays when a step touches other calls or other sessions *)

LEMMA HandlersKept ==
    ASSUME OneHandler, BusyIsOpen,
           \A c \in Connections, i \in Invocations : Busy(c, i)' => Busy(c, i) /\ stage'[c] = stage[c]
    PROVE  OneHandler' /\ BusyIsOpen'
BY DEF OneHandler, BusyIsOpen

\* A session that reads a frame is inside no other handler.
LEMMA HandlerTaken ==
    ASSUME TypeInv, OneHandler, BusyIsOpen, NEW c \in Connections, NEW i \in Invocations, Reads(c),
           stage' = stage,
           \A d \in Connections, j \in Invocations :
               Busy(d, j)' => Busy(d, j) \/ (d = c /\ j = i)
    PROVE  OneHandler' /\ BusyIsOpen'
<1>1. stage[c] = "registered" /\ \A j \in Invocations : ~Busy(c, j)
  BY HandlingIsBusy DEF Reads
<1> QED
  BY <1>1 DEF OneHandler, BusyIsOpen

LEMMA PlaceKept ==
    ASSUME NEW j \in Invocations, PlaceOf(j), call'[j] = call[j], Ends(j)' = Ends(j),
           j \in pending' => j \in pending, j \in corr' => j \in corr,
           j \in expired' => j \in expired, j \in settled' => j \in settled
    PROVE  PlaceOf(j)'
BY DEF PlaceOf, At

LEMMA EndsKept ==
    ASSUME NEW j, told'[j] = told[j], reported'[j] = reported[j], j \in cancelled' <=> j \in cancelled
    PROVE  Ends(j)' = Ends(j)
BY DEF Ends, Cancels

LEMMA EndsType ==
    ASSUME TypeInv, NEW i \in Invocations
    PROVE  told[i] \in Nat /\ reported[i] \in Nat /\ Cancels(i) \in {0, 1} /\ Ends(i) \in Nat
<1>1. told[i] \in Nat /\ reported[i] \in Nat /\ Cancels(i) \in {0, 1}
  BY DEF TypeInv, InvocationTypeOK, Cancels
<1> QED
  BY <1>1 DEF Ends

LEMMA ForgottenKept ==
    ASSUME ForgottenInv, closing' = closing,
           \A d \in inbox : d \in inbox',
           \A d \in Connections : stage'[d] = "barrier" /\ d \notin inbox' =>
               stage[d] = "barrier" /\ d \notin inbox,
           \A i \in Invocations : i \in pending' \/ i \in corr' =>
               \/ (i \in pending \/ i \in corr) /\ call'[i].caller = call[i].caller
               \/ /\ closing # NoConnection => call'[i].caller # closing
                  /\ \A d \in Connections : stage[d] # "registered" => call'[i].caller # d
    PROVE  ForgottenInv'
<1>1. closing' # NoConnection => closing' \in inbox' /\ CallerGone(closing)'
  BY DEF ForgottenInv, CallerGone
<1>2. ASSUME NEW c \in Connections, stage'[c] = "barrier", c \notin inbox' PROVE CallerGone(c)'
  <2>1. stage[c] = "barrier" /\ CallerGone(c)
    BY <1>2 DEF ForgottenInv
  <2> QED
    BY <2>1 DEF CallerGone
<1> QED
  BY <1>1, <1>2 DEF ForgottenInv

LEMMA RelayShrinks ==
    ASSUME TypeInv, pending' \subseteq pending
    PROVE  IsFiniteSet(pending') /\ Cardinality(pending') <= MaxPending /\ pending' \subseteq Invocations
<1>1. IsFiniteSet(pending') /\ Cardinality(pending') <= Cardinality(pending)
  BY FS_Subset DEF TypeInv
<1>2. Cardinality(pending') \in Nat /\ Cardinality(pending) \in Nat
  BY <1>1, FS_CardinalityType DEF TypeInv
<1>3. Cardinality(pending) <= MaxPending /\ pending \subseteq Invocations
  BY DEF TypeInv, InvocationTypeOK
<1> QED
  BY <1>1, <1>2, <1>3, InvocationAssumption

-----------------------------------------------------------------------------
(* Steps *)

LEMMA SessionMovesInv ==
    ASSUME InvocationInv, NEW c \in Connections, SessionMoves(c)
    PROVE  InvocationInv'
<1>1. LifeStep(c) /\ UNCHANGED callVars /\ \A i \in Invocations : ~Busy(c, i)
  BY HandlingIsBusy DEF SessionMoves, InvocationInv
<1>2. UNCHANGED <<fence, call, pending, expired, corr, settled, wire, told, reported, cancelled, closing>>
  BY <1>1 DEF callVars, relayVars, answerVars
<1>3. /\ LifeTypeOK' /\ InboxIsClosed'
      /\ \A d \in Connections \ {c} : stage'[d] = stage[d]
      /\ \A d \in inbox : d \in inbox'
      /\ \A d \in Connections : stage'[d] = "barrier" /\ d \notin inbox' =>
            stage[d] = "barrier" /\ d \notin inbox
  BY <1>1, LifeStepFacts DEF InvocationInv, TypeInv
<1>8. BoundInv'
  <2>1. /\ \A d \in Connections : bound[d] \in Replicas => bound'[d] \in Replicas
        /\ \A d \in Connections : stage'[d] # "absent" => stage[d] # "absent" \/ bound'[d] \in Replicas
    BY <1>1, LifeStepFacts DEF InvocationInv, TypeInv
  <2>2. \A i \in Invocations : call[i] # NoCall => call[i].owner \in Connections
    BY DEF InvocationInv, TypeInv, InvocationTypeOK, Call
  <2> QED
    BY <1>2, <2>1, <2>2 DEF InvocationInv, BoundInv, IsTask
<1>4. TypeInv'
  BY <1>2, <1>3 DEF InvocationInv, TypeInv, InvocationTypeOK
<1>5. OneHandler' /\ BusyIsOpen'
  <2>1. \A d \in Connections, i \in Invocations : Busy(d, i)' => Busy(d, i)
    BY <1>2 DEF Busy
  <2> QED
    BY <1>1, <1>3, <2>1, HandlersKept DEF InvocationInv
<1>6. PlaceInv'
  BY <1>2 DEF InvocationInv, PlaceInv, PlaceOf, At, Ends, Cancels
<1>7. ForgottenInv'
  BY <1>2, <1>3, ForgottenKept DEF InvocationInv
<1> QED
  BY <1>3, <1>4, <1>5, <1>6, <1>7, <1>8 DEF InvocationInv

LEMMA FenceChangesInv ==
    ASSUME InvocationInv, NEW a \in Actors, FenceChanges(a)
    PROVE  InvocationInv'
<1>1. UNCHANGED <<lifeVars, call, pending, expired, corr, settled, wire, told, reported, cancelled, closing>>
  BY DEF FenceChanges, relayVars, answerVars
<1>2. TypeInv'
  <2>1. fence' \in [Actors -> Replicas \cup {NoReplica}]
    BY DEF FenceChanges, InvocationInv, TypeInv, InvocationTypeOK, LifeTypeOK
  <2> QED
    BY <1>1, <2>1 DEF InvocationInv, TypeInv, InvocationTypeOK, LifeTypeOK, lifeVars
<1>3. OneHandler' /\ BusyIsOpen' /\ InboxIsClosed'
  BY <1>1 DEF InvocationInv, OneHandler, BusyIsOpen, Busy, InboxIsClosed, lifeVars
<1>4. PlaceInv'
  BY <1>1 DEF InvocationInv, PlaceInv, PlaceOf, At, Ends, Cancels
<1>5. ForgottenInv' /\ BoundInv'
  BY <1>1 DEF InvocationInv, ForgottenInv, CallerGone, BoundInv, IsTask, lifeVars
<1> QED
  BY <1>2, <1>3, <1>4, <1>5 DEF InvocationInv
\* A new call, of a session or of a task.
LEMMA StartInv ==
    ASSUME InvocationInv, NEW i \in Invocations, NEW a \in Actors,
           FindForTask(i, a) \/ \E c \in Connections : Find(i, a, c)
    PROVE  InvocationInv'
<1>1. /\ UNCHANGED <<lifeVars, fence, pending, expired, corr, settled, wire, told, reported, cancelled, closing>>
      /\ call[i] = NoCall
  BY DEF FindForTask, Find, relayVars, answerVars
<1>2. PICK who \in Connections \cup {TaskCaller}, c \in Connections, r \in Replicas :
         /\ Start(i, "found", a, who, c, r)
         /\ who \in Connections => Reads(who)
         /\ who = TaskCaller => bound[c] \in Replicas
  <2>1. CASE FindForTask(i, a)
    <3>1. fence[a] \in Replicas
      BY <2>1 DEF FindForTask, InvocationInv, TypeInv, InvocationTypeOK
    <3>2. PICK c \in Connections : Start(i, "found", a, TaskCaller, c, fence[a]) /\ bound[c] \in Replicas
      <4> DEFINE S == {c \in Connections : Selectable(c)}
      <4>1. S # {} /\ Start(i, "found", a, TaskCaller, OwnerCandidate(S), fence[a])
        BY <2>1 DEF FindForTask
      <4>2. OwnerCandidate(S) \in S
        BY <4>1 DEF OwnerCandidate
      <4>3. OwnerCandidate(S) \in Connections /\ bound[OwnerCandidate(S)] \in Replicas
        <5>1. PICK o \in Connections : o = OwnerCandidate(S) /\ Selectable(o)
          BY <4>2
        <5> QED
          BY <5>1 DEF InvocationInv, BoundInv, Selectable
      <4> HIDE DEF S
      <4> QED
        BY <4>1, <4>3
    <3> QED
      BY <3>1, <3>2, InvocationAssumption
  <2>2. ASSUME NEW w \in Connections, Find(i, a, w)
        PROVE  \E who \in Connections \cup {TaskCaller}, c \in Connections, r \in Replicas :
                  /\ Start(i, "found", a, who, c, r)
                  /\ who \in Connections => Reads(who)
                  /\ who = TaskCaller => bound[c] \in Replicas
    <3>1. fence[a] \in Replicas /\ current[fence[a]] \in Connections
      BY <2>2 DEF Find, InvocationInv, TypeInv, InvocationTypeOK, LifeTypeOK
    <3>2. Start(i, "found", a, w, current[fence[a]], fence[a]) /\ Reads(w)
      BY <2>2 DEF Find
    <3> QED
      BY <3>1, <3>2, InvocationAssumption
  <2> QED
    BY <2>1, <2>2
<1>3. PICK new \in Call : /\ call' = [call EXCEPT ![i] = new]
                          /\ new.step = "found" /\ new.caller = who /\ new.owner = c
  <2> DEFINE n == [step |-> "found", actor |-> a, caller |-> who, owner |-> c, target |-> r]
  <2>1. n \in Call /\ n.step = "found" /\ n.caller = who /\ n.owner = c
    BY DEF Call, Steps
  <2>2. call' = [call EXCEPT ![i] = n]
    BY <1>2 DEF Start
  <2> HIDE DEF n
  <2> QED
    BY <2>1, <2>2
<1>4. /\ call \in [Invocations -> Call \cup {NoCall}] /\ NoCall \notin Call /\ TaskCaller \notin Connections
      /\ PlaceOf(i)
  BY InvocationAssumption DEF InvocationInv, TypeInv, InvocationTypeOK, PlaceInv
<1>5. call'[i] = new /\ (\A j \in Invocations \ {i} : call'[j] = call[j])
      /\ call' \in [Invocations -> Call \cup {NoCall}]
  BY <1>3, <1>4
<1>6. TypeInv'
  BY <1>1, <1>5 DEF InvocationInv, TypeInv, InvocationTypeOK, LifeTypeOK, lifeVars
<1>7. \A j \in Invocations : Ends(j)' = Ends(j)
  BY <1>1, EndsKept
<1>8. PlaceInv'
  <2>1. i \notin pending /\ i \notin corr /\ i \notin expired /\ i \notin settled /\ Ends(i) = 0
    BY <1>1, <1>4 DEF PlaceOf
  <2>2. PlaceOf(i)'
    BY <1>1, <1>7, <2>1 DEF PlaceOf
  <2>3. \A j \in Invocations \ {i} : PlaceOf(j)'
    BY <1>1, <1>5, <1>7, PlaceKept DEF InvocationInv, PlaceInv
  <2>4. \A f \in wire : f.inv \in Invocations /\ At(f.inv, "out")
    BY DEF InvocationInv, TypeInv, InvocationTypeOK, InvokeFrame, PlaceInv
  <2>5. \A f \in wire' : At(f.inv, "out")'
    BY <1>1, <1>5, <2>4 DEF At
  <2> QED
    BY <2>2, <2>3, <2>5 DEF PlaceInv
<1>9. i \notin pending /\ i \notin corr /\ i \notin settled
  BY <1>1, <1>4 DEF PlaceOf
<1>10. OneHandler' /\ BusyIsOpen'
  <2>1. \A d \in Connections, j \in Invocations : Busy(d, j)' => Busy(d, j) \/ (d = who /\ j = i)
    BY <1>1, <1>3, <1>5, <1>9 DEF Busy
  <2>2. stage' = stage
    BY <1>1 DEF lifeVars
  <2>3. CASE who \in Connections
    BY <1>2, <2>1, <2>2, <2>3, HandlerTaken DEF InvocationInv
  <2>4. CASE who \notin Connections
    BY <2>1, <2>2, <2>4, HandlersKept DEF InvocationInv
  <2> QED
    BY <2>3, <2>4
<1>11. ForgottenInv' /\ InboxIsClosed'
  BY <1>1, <1>5, <1>9 DEF InvocationInv, ForgottenInv, CallerGone, InboxIsClosed, lifeVars
<1>12. BoundInv'
  BY <1>1, <1>2, <1>3, <1>5 DEF InvocationInv, BoundInv, IsTask, lifeVars
<1> QED
  BY <1>6, <1>8, <1>10, <1>11, <1>12 DEF InvocationInv

\* The handler of a call goes on: relay, sink, write.
LEMMA HandlerInv ==
    ASSUME InvocationInv, NEW i \in Invocations, Handler(i)
    PROVE  InvocationInv'
<1>1. call[i] # NoCall /\ call[i].step \in {"found", "relayed", "correlated"}
  BY DEF Handler, RelayInvoke, Correlate, InvokeWritten, InvokeUnwritten, At
<1>2. UNCHANGED <<fence, expired, settled, told, reported, cancelled, closing>>
  BY DEF Handler, RelayInvoke, Correlate, InvokeWritten, InvokeUnwritten, relayVars, answerVars
<1>3. PICK s \in Steps \ {"found"} : StepTo(i, s)
  BY DEF Handler, RelayInvoke, Correlate, InvokeWritten, InvokeUnwritten, Steps
<1>4. /\ call' \in [Invocations -> Call \cup {NoCall}]
      /\ call'[i] # NoCall /\ call'[i].step = s
      /\ call'[i].caller = call[i].caller /\ call'[i].owner = call[i].owner
      /\ \A j \in Invocations \ {i} : call'[j] = call[j]
  BY <1>1, <1>3, StepToFacts DEF InvocationInv
<1>5. \A j \in Invocations : Ends(j)' = Ends(j)
  BY <1>2, EndsKept
<1>6. /\ closing # NoConnection => call[i].caller # closing
      /\ \A c \in Connections : stage[c] # "registered" => call[i].caller # c
  BY <1>1, BusyNotGone
<1>7. PlaceOf(i) /\ i \notin settled
  <2>1. PlaceOf(i)
    BY DEF InvocationInv, PlaceInv
  <2> QED
    BY <1>1, <2>1 DEF PlaceOf, At
<1>8. \A d \in Connections, j \in Invocations : Busy(d, j)' => Busy(d, j)
  BY <1>1, <1>2, <1>4 DEF Busy
<1>9. ASSUME NEW f \in wire PROVE f \in InvokeFrame /\ f.inv \in Invocations \ {i} /\ At(f.inv, "out")'
  <2>1. f \in InvokeFrame /\ f.inv \in Invocations /\ At(f.inv, "out")
    BY <1>9 DEF InvocationInv, TypeInv, InvocationTypeOK, InvokeFrame, PlaceInv
  <2>2. f.inv # i
    BY <1>1, <2>1 DEF At
  <2> QED
    BY <1>4, <2>1, <2>2 DEF At
<1>10. ForgottenInv' /\ PlaceInv' /\ TypeInv'
  <2>1. CASE RelayInvoke(i)
    <3>1. UNCHANGED <<lifeVars, corr, wire>> /\ At(i, "found")
      BY <2>1 DEF RelayInvoke
    <3>2. \/ Cardinality(pending) < MaxPending /\ pending' = pending \cup {i} /\ call'[i].step = "relayed"
          \/ pending' = pending /\ call'[i].step = "dropped"
      BY <2>1, <1>4, StepToFacts DEF RelayInvoke, Steps, At, InvocationInv
    <3>3. TypeInv'
      <4>1. IsFiniteSet(pending') /\ Cardinality(pending') <= MaxPending
        <5>1. IsFiniteSet(pending) /\ Cardinality(pending) <= MaxPending /\ i \notin pending
          BY <1>7, <3>1 DEF InvocationInv, TypeInv, InvocationTypeOK, PlaceOf
        <5>2. IsFiniteSet(pending \cup {i}) /\ Cardinality(pending \cup {i}) = Cardinality(pending) + 1
          BY <5>1, FS_AddElement
        <5>3. Cardinality(pending) \in Nat
          BY <5>1, FS_CardinalityType
        <5> QED
          BY <3>2, <5>1, <5>2, <5>3, InvocationAssumption
      <4> QED
        BY <1>2, <1>4, <3>1, <3>2, <4>1 DEF InvocationInv, TypeInv, InvocationTypeOK, LifeTypeOK, lifeVars
    <3>4. PlaceOf(i)'
      BY <1>2, <1>4, <1>5, <1>7, <3>1, <3>2 DEF PlaceOf, At
    <3>5. PlaceInv'
      BY <1>2, <1>4, <1>5, <1>9, <3>1, <3>2, <3>4, PlaceKept DEF InvocationInv, PlaceInv
    <3>6. ForgottenInv'
      BY <1>2, <1>4, <1>6, <3>1, <3>2, ForgottenKept DEF InvocationInv, lifeVars
    <3> QED
      BY <3>3, <3>5, <3>6
  <2>2. CASE Correlate(i)
    <3>1. /\ UNCHANGED <<lifeVars, pending, wire>> /\ At(i, "relayed") /\ corr' = corr \cup {i}
          /\ call'[i].step = "correlated"
      BY <2>2, <1>4, StepToFacts DEF Correlate, relayVars, Steps, At, InvocationInv
    <3>2. TypeInv'
      BY <1>2, <1>4, <3>1 DEF InvocationInv, TypeInv, InvocationTypeOK, LifeTypeOK, lifeVars
    <3>3. PlaceOf(i)'
      BY <1>2, <1>4, <1>5, <1>7, <3>1 DEF PlaceOf, At
    <3>4. PlaceInv'
      BY <1>2, <1>4, <1>5, <1>9, <3>1, <3>3, PlaceKept DEF InvocationInv, PlaceInv
    <3>5. ForgottenInv'
      BY <1>2, <1>4, <1>6, <3>1, ForgottenKept DEF InvocationInv, lifeVars
    <3> QED
      BY <3>2, <3>4, <3>5
  <2>3. CASE InvokeWritten(i)
    <3>1. /\ UNCHANGED <<lifeVars, pending, corr>> /\ call'[i].step = "out"
          /\ wire' = wire \cup {[inv |-> i, conn |-> InvokeConnection(i)]}
      BY <2>3, <1>4, StepToFacts DEF InvokeWritten, relayVars, Steps, At, InvocationInv
    <3>2. InvokeConnection(i) \in Connections
      <4>1. call[i] \in Call /\ InvokeConnection(i) # NoConnection
        BY <1>1, <2>3 DEF InvokeWritten, InvocationInv, TypeInv, InvocationTypeOK
      <4>2. call[i].owner \in Connections
        BY <4>1 DEF Call
      <4>3. IsTask(i) => bound[call[i].owner] \in Replicas
        BY DEF InvocationInv, BoundInv
      <4>4. current \in [Replicas -> Connections \cup {NoConnection}]
        BY DEF InvocationInv, TypeInv, LifeTypeOK
      <4> QED
        BY <4>1, <4>2, <4>3, <4>4 DEF InvokeConnection, Of
    <3>3. TypeInv'
      <4>1. [inv |-> i, conn |-> InvokeConnection(i)] \in InvokeFrame
        BY <3>2 DEF InvokeFrame
      <4> QED
        BY <1>2, <1>4, <3>1, <4>1 DEF InvocationInv, TypeInv, InvocationTypeOK, LifeTypeOK, lifeVars
    <3>4. PlaceOf(i)'
      BY <1>2, <1>4, <1>5, <1>7, <3>1 DEF PlaceOf, At
    <3>5. \A f \in wire' : At(f.inv, "out")'
      BY <1>4, <1>9, <3>1 DEF At
    <3>6. PlaceInv'
      BY <1>2, <1>4, <1>5, <3>1, <3>4, <3>5, PlaceKept DEF InvocationInv, PlaceInv
    <3>7. ForgottenInv'
      BY <1>2, <1>4, <1>6, <3>1, ForgottenKept DEF InvocationInv, lifeVars
    <3> QED
      BY <3>3, <3>6, <3>7
  <2>4. CASE InvokeUnwritten(i)
    <3>1. /\ UNCHANGED wire /\ call'[i].step = "failed" /\ pending' \subseteq pending /\ corr' \subseteq corr
          /\ At(i, "correlated")
      BY <2>4, <1>4, StepToFacts DEF InvokeUnwritten, Steps, At, InvocationInv
    <3>2. /\ LifeTypeOK' /\ (\A d \in inbox : d \in inbox')
          /\ \A d \in Connections : stage'[d] = "barrier" /\ d \notin inbox' =>
                stage[d] = "barrier" /\ d \notin inbox
      <4>1. CASE UNCHANGED lifeVars
        BY <4>1 DEF InvocationInv, TypeInv, LifeTypeOK, lifeVars
      <4>2. CASE ~IsTask(i) /\ LifeLeave(Of(i).caller)
        <5>1. Of(i).caller \in Connections
          BY <1>1, <4>2 DEF InvocationInv, TypeInv, InvocationTypeOK, Call, IsTask, Of
        <5> QED
          BY <4>2, <5>1, LifeStepFacts DEF LifeStep, InvocationInv, TypeInv
      <4> QED
        BY <2>4, <4>1, <4>2 DEF InvokeUnwritten
    <3>3. TypeInv'
      BY <1>2, <1>4, <3>1, <3>2, RelayShrinks DEF InvocationInv, TypeInv, InvocationTypeOK
    <3>4. PlaceOf(i)'
      BY <1>2, <1>4, <1>5, <1>7, <3>1 DEF PlaceOf, At
    <3>5. PlaceInv'
      BY <1>2, <1>4, <1>5, <1>9, <3>1, <3>4, PlaceKept DEF InvocationInv, PlaceInv
    <3>6. ForgottenInv'
      BY <1>2, <1>4, <1>6, <3>1, <3>2, ForgottenKept DEF InvocationInv
    <3> QED
      BY <3>3, <3>5, <3>6
  <2> QED
    BY <2>1, <2>2, <2>3, <2>4 DEF Handler
<1>11. OneHandler' /\ BusyIsOpen' /\ InboxIsClosed' /\ BoundInv'
  <2>1. CASE UNCHANGED lifeVars
    <3>1. \A j \in Invocations : IsTask(j)' => IsTask(j) /\ call'[j].owner = call[j].owner
      BY <1>1, <1>4 DEF IsTask
    <3> QED
      BY <1>8, <2>1, <3>1, HandlersKept DEF InvocationInv, InboxIsClosed, BoundInv, lifeVars
  <2>2. CASE call'[i].step = "failed" /\ ~IsTask(i) /\ LifeLeave(Of(i).caller)
    <3>1. PICK c \in Connections : c = call[i].caller /\ LifeLeave(c)
      BY <1>1, <2>2 DEF InvocationInv, TypeInv, InvocationTypeOK, Call, IsTask, Of
    <3>2. /\ InboxIsClosed' /\ \A d \in Connections \ {c} : stage'[d] = stage[d]
          /\ bound' = bound /\ \A d \in Connections : stage'[d] # "absent" => stage[d] # "absent" \/ bound'[d] \in Replicas
      BY <3>1, LifeStepFacts DEF LifeStep, LifeLeave, InvocationInv, TypeInv
    <3>3. Busy(c, i) /\ ~Busy(c, i)'
      BY <1>1, <1>2, <1>4, <1>7, <2>2, <3>1 DEF Busy
    <3>4. \A j \in Invocations : ~Busy(c, j)'
      BY <1>8, <3>3 DEF InvocationInv, OneHandler
    <3>5. OneHandler' /\ BusyIsOpen'
      BY <1>8, <3>2, <3>4, HandlersKept DEF InvocationInv
    <3>6. \A j \in Invocations : IsTask(j)' => IsTask(j) /\ call'[j].owner = call[j].owner
      BY <1>1, <1>4 DEF IsTask
    <3>7. BoundInv'
      BY <3>2, <3>6 DEF InvocationInv, BoundInv
    <3> QED
      BY <3>2, <3>5, <3>7
  <2>3. InvokeUnwritten(i) => call'[i].step = "failed"
    BY <1>1, StepToFacts DEF InvokeUnwritten, Steps, InvocationInv
  <2> QED
    BY <2>1, <2>2, <2>3 DEF Handler, RelayInvoke, Correlate, InvokeWritten, InvokeUnwritten
<1> QED
  BY <1>10, <1>11 DEF InvocationInv
-----------------------------------------------------------------------------
(* The end of a call *)

\* Calls that end change nothing of what the other calls recorded.
LEMMA EndKeepsPlaces ==
    ASSUME InvocationInv, LifeTypeOK', UNCHANGED <<fence, call>>,
           wire' \subseteq wire, pending' \subseteq pending, corr' \subseteq corr,
           expired' \subseteq Invocations, settled' \subseteq Invocations, cancelled' \subseteq Invocations,
           told' \in [Invocations -> Nat], reported' \in [Invocations -> Nat],
           closing' \in Connections \cup {NoConnection},
           \A j \in Invocations : PlaceOf(j)'
    PROVE  TypeInv' /\ PlaceInv'
<1>1. TypeInv'
  BY RelayShrinks DEF InvocationInv, TypeInv, InvocationTypeOK
<1>2. \A f \in wire' : At(f.inv, "out")'
  BY DEF InvocationInv, PlaceInv, At
<1> QED
  BY <1>1, <1>2 DEF PlaceInv

\* No session moves.
LEMMA StayKeeps ==
    ASSUME InvocationInv, UNCHANGED <<lifeVars, call, closing>>,
           pending' \subseteq pending, corr' \subseteq corr
    PROVE  /\ LifeTypeOK' /\ InboxIsClosed' /\ ForgottenInv' /\ BoundInv'
           /\ settled' \subseteq settled => OneHandler' /\ BusyIsOpen'
<1>1. stage' = stage /\ inbox' = inbox /\ bound' = bound
  BY DEF lifeVars
<1>2. LifeTypeOK' /\ InboxIsClosed' /\ BoundInv'
  BY DEF InvocationInv, TypeInv, LifeTypeOK, InboxIsClosed, BoundInv, IsTask, lifeVars
<1>3. ForgottenInv'
  BY <1>1, ForgottenKept DEF InvocationInv
<1>4. ASSUME settled' \subseteq settled PROVE OneHandler' /\ BusyIsOpen'
  <2>1. \A d \in Connections, j \in Invocations : Busy(d, j)' => Busy(d, j)
    BY <1>4 DEF Busy
  <2> QED
    BY <1>1, <2>1, HandlersKept DEF InvocationInv
<1> QED
  BY <1>2, <1>3, <1>4

\* A session leaves at the end of its handler.
LEMMA LeaveKeeps ==
    ASSUME InvocationInv, NEW c \in Connections, LifeLeave(c), UNCHANGED <<call, closing>>,
           pending' \subseteq pending, corr' \subseteq corr, settled' \subseteq settled,
           \A j \in Invocations : ~Busy(c, j)'
    PROVE  LifeTypeOK' /\ InboxIsClosed' /\ ForgottenInv' /\ BoundInv' /\ OneHandler' /\ BusyIsOpen'
<1>1. /\ LifeTypeOK' /\ InboxIsClosed' /\ (\A d \in Connections \ {c} : stage'[d] = stage[d])
      /\ \A d \in inbox : d \in inbox'
      /\ \A d \in Connections : stage'[d] = "barrier" /\ d \notin inbox' =>
            stage[d] = "barrier" /\ d \notin inbox
      /\ \A d \in Connections : stage'[d] # "absent" => stage[d] # "absent" \/ bound'[d] \in Replicas
  BY LifeStepFacts DEF LifeStep, InvocationInv, TypeInv
<1>2. bound' = bound
  BY DEF LifeLeave
<1>3. BoundInv'
  BY <1>1, <1>2 DEF InvocationInv, BoundInv, IsTask
<1>4. ForgottenInv'
  BY <1>1, ForgottenKept DEF InvocationInv
<1>5. \A d \in Connections, j \in Invocations : Busy(d, j)' => Busy(d, j)
  BY DEF Busy
<1>6. OneHandler' /\ BusyIsOpen'
  BY <1>1, <1>5, HandlersKept DEF InvocationInv
<1> QED
  BY <1>1, <1>3, <1>4, <1>6

LEMMA OwnerAnswersInv ==
    ASSUME InvocationInv, NEW f \in wire, OwnerAnswers(f)
    PROVE  InvocationInv'
<1>1. PICK i \in Invocations, c \in Connections : i = f.inv /\ c = f.conn
  BY DEF InvocationInv, TypeInv, InvocationTypeOK, InvokeFrame
<1>2. /\ UNCHANGED <<lifeVars, fence, call, expired, corr, told, reported, cancelled, closing>>
      /\ Reads(c) /\ wire' \subseteq wire
      /\ \/ /\ i \in corr /\ i \in pending /\ call[i].owner = c
            /\ pending' = pending \ {i} /\ settled' = settled \cup {i}
         \/ UNCHANGED <<pending, settled>>
  BY <1>1 DEF OwnerAnswers, answerVars, Of
<1>3. LifeTypeOK' /\ InboxIsClosed' /\ ForgottenInv' /\ BoundInv'
  BY <1>2, StayKeeps
<1>4. ASSUME NEW j \in Invocations PROVE PlaceOf(j)'
  <2>1. Ends(j)' = Ends(j)
    BY <1>2, EndsKept
  <2>2. PlaceOf(j)
    BY DEF InvocationInv, PlaceInv
  <2>3. CASE j # i \/ UNCHANGED <<pending, settled>>
    BY <1>2, <2>1, <2>2, <2>3, PlaceKept
  <2>4. CASE j = i /\ i \in corr /\ i \in pending /\ pending' = pending \ {i} /\ settled' = settled \cup {i}
    <3>1. At(i, "out")
      BY <1>1 DEF InvocationInv, PlaceInv
    <3> QED
      BY <1>2, <2>1, <2>2, <2>4, <3>1 DEF PlaceOf, At
  <2> QED
    BY <1>2, <2>3, <2>4
<1>5. TypeInv' /\ PlaceInv'
  <2>1. settled' \subseteq Invocations /\ expired' \subseteq Invocations /\ cancelled' \subseteq Invocations
        /\ told' \in [Invocations -> Nat] /\ reported' \in [Invocations -> Nat]
        /\ closing' \in Connections \cup {NoConnection}
    BY <1>2 DEF InvocationInv, TypeInv, InvocationTypeOK
  <2> QED
    BY <1>2, <1>3, <1>4, <2>1, EndKeepsPlaces
<1>6. OneHandler' /\ BusyIsOpen'
  <2>1. \A d \in Connections, j \in Invocations : Busy(d, j)' => Busy(d, j) \/ (d = c /\ j = i)
    BY <1>2 DEF Busy
  <2> QED
    BY <1>2, <2>1, HandlerTaken DEF InvocationInv, lifeVars
<1> QED
  BY <1>3, <1>5, <1>6 DEF InvocationInv

LEMMA OwnerRefusesInv ==
    ASSUME InvocationInv, NEW f \in wire, OwnerRefuses(f)
    PROVE  InvocationInv'
<1>1. PICK c \in Connections : c = f.conn
  BY DEF InvocationInv, TypeInv, InvocationTypeOK, InvokeFrame
<1>2. /\ UNCHANGED <<fence, call, pending, expired, corr, settled, told, reported, cancelled, closing>>
      /\ Reads(c) /\ wire' \subseteq wire /\ LifeLeave(c)
  BY <1>1 DEF OwnerRefuses, relayVars, answerVars
<1>3. \A j \in Invocations : ~Busy(c, j)'
  BY <1>2, HandlingIsBusy DEF Reads, Busy, InvocationInv
<1>4. LifeTypeOK' /\ InboxIsClosed' /\ ForgottenInv' /\ BoundInv' /\ OneHandler' /\ BusyIsOpen'
  BY <1>2, <1>3, LeaveKeeps
<1>5. \A j \in Invocations : PlaceOf(j)'
  BY <1>2, PlaceKept, EndsKept DEF InvocationInv, PlaceInv
<1>6. TypeInv' /\ PlaceInv'
  BY <1>2, <1>4, <1>5, EndKeepsPlaces DEF InvocationInv, TypeInv, InvocationTypeOK
<1> QED
  BY <1>4, <1>6 DEF InvocationInv
\* The owner's handler ends: the answer is written, reported, or the write fails.
LEMMA ForwardInv ==
    ASSUME InvocationInv, NEW i \in Invocations, Forward(i) \/ ForwardFails(i)
    PROVE  InvocationInv'
<1>1. /\ UNCHANGED <<fence, call, pending, expired, wire, cancelled, closing>>
      /\ i \in settled /\ settled' = settled \ {i} /\ corr' = corr \ {i}
  BY DEF Forward, ForwardFails, relayVars, answerVars
<1>2. PlaceOf(i) /\ Ends(i) = 0
  BY <1>1 DEF InvocationInv, PlaceInv, PlaceOf
<1>3. /\ told \in [Invocations -> Nat] /\ reported \in [Invocations -> Nat]
      /\ told[i] \in Nat /\ reported[i] \in Nat /\ Cancels(i) \in {0, 1}
  BY EndsType DEF InvocationInv, TypeInv, InvocationTypeOK
<1>4. /\ told' \in [Invocations -> Nat] /\ reported' \in [Invocations -> Nat]
      /\ \/ told'[i] = told[i] + 1 /\ reported'[i] = reported[i]
         \/ reported'[i] = reported[i] + 1 /\ told'[i] = told[i]
         \/ told'[i] = told[i] /\ reported'[i] = reported[i]
      /\ \A j \in Invocations \ {i} : told'[j] = told[j] /\ reported'[j] = reported[j]
  BY <1>3 DEF Forward, ForwardFails, answerVars
<1>5. Ends(i)' <= 1
  <2>1. Cancels(i)' = Cancels(i)
    BY <1>1 DEF Cancels
  <2> QED
    BY <1>2, <1>3, <1>4, <2>1 DEF Ends
<1>6. PlaceOf(i)'
  BY <1>1, <1>2, <1>5 DEF PlaceOf, At
<1>7. \A j \in Invocations \ {i} : PlaceOf(j)'
  BY <1>1, <1>4, PlaceKept, EndsKept DEF InvocationInv, PlaceInv
<1>8. LifeTypeOK' /\ InboxIsClosed' /\ ForgottenInv' /\ BoundInv' /\ OneHandler' /\ BusyIsOpen'
  <2>1. CASE Forward(i)
    <3>1. UNCHANGED lifeVars
      BY <2>1 DEF Forward
    <3> QED
      BY <1>1, <3>1, StayKeeps
  <2>2. CASE ForwardFails(i)
    <3>1. PICK c \in Connections : c = call[i].owner /\ LifeLeave(c)
      <4>1. call[i] \in Call
        BY <1>1, <1>2 DEF PlaceOf, At, InvocationInv, TypeInv, InvocationTypeOK
      <4> QED
        BY <2>2, <4>1 DEF ForwardFails, Of, Call
    <3>2. Busy(c, i) /\ ~Busy(c, i)'
      BY <1>1, <1>2, <3>1 DEF Busy, PlaceOf, At
    <3>3. \A j \in Invocations : Busy(c, j)' => Busy(c, j)
      BY <1>1 DEF Busy
    <3>4. \A j \in Invocations : ~Busy(c, j)'
      BY <3>2, <3>3 DEF InvocationInv, OneHandler
    <3> QED
      BY <1>1, <3>1, <3>4, LeaveKeeps
  <2> QED
    BY <2>1, <2>2
<1>9. TypeInv' /\ PlaceInv'
  <2>1. expired' \subseteq Invocations /\ settled' \subseteq Invocations /\ cancelled' \subseteq Invocations
        /\ closing' \in Connections \cup {NoConnection}
    BY <1>1 DEF InvocationInv, TypeInv, InvocationTypeOK
  <2> QED
    BY <1>1, <1>4, <1>6, <1>7, <1>8, <2>1, EndKeepsPlaces
<1> QED
  BY <1>8, <1>9 DEF InvocationInv

LEMMA CallerCancelsInv ==
    ASSUME InvocationInv, NEW i \in Invocations, CallerCancels(i)
    PROVE  InvocationInv'
<1>1. /\ UNCHANGED <<fence, call, expired, settled, wire, told, reported, closing>>
      /\ i \in corr /\ i \in pending /\ pending' = pending \ {i} /\ corr' = corr \ {i}
      /\ cancelled' = cancelled \cup {i} /\ At(i, "out")
  BY DEF CallerCancels
<1>2. PlaceOf(i) /\ Ends(i) = 0
  BY <1>1 DEF InvocationInv, PlaceInv, PlaceOf
<1>3. told[i] \in Nat /\ reported[i] \in Nat /\ Cancels(i) \in {0, 1}
  BY EndsType DEF InvocationInv
<1>4. Ends(i)' <= 1
  <2>1. Cancels(i)' = 1
    BY <1>1 DEF Cancels
  <2> QED
    BY <1>1, <1>2, <1>3, <2>1 DEF Ends
<1>5. PlaceOf(i)'
  BY <1>1, <1>2, <1>4 DEF PlaceOf, At
<1>6. \A j \in Invocations \ {i} : PlaceOf(j)'
  BY <1>1, PlaceKept, EndsKept DEF InvocationInv, PlaceInv
<1>7. LifeTypeOK' /\ InboxIsClosed' /\ ForgottenInv' /\ BoundInv' /\ OneHandler' /\ BusyIsOpen'
  <2>1. CASE UNCHANGED lifeVars
    BY <1>1, <2>1, StayKeeps
  <2>2. CASE LifeLeave(Of(i).caller)
    <3>1. PICK c \in Connections : c = call[i].caller /\ LifeLeave(c) /\ Reads(c)
      <4>1. call[i] \in Call /\ ~IsTask(i) /\ call[i] # NoCall
        BY <1>1 DEF CallerCancels, At, InvocationInv, TypeInv, InvocationTypeOK
      <4> QED
        BY <2>2, <4>1 DEF CallerCancels, Of, Call, IsTask
    <3>2. \A j \in Invocations : ~Busy(c, j)'
      BY <1>1, <3>1, HandlingIsBusy DEF Reads, Busy, InvocationInv
    <3> QED
      BY <1>1, <3>1, <3>2, LeaveKeeps
  <2> QED
    BY <2>1, <2>2 DEF CallerCancels
<1>8. TypeInv' /\ PlaceInv'
  <2>1. expired' \subseteq Invocations /\ settled' \subseteq Invocations /\ cancelled' \subseteq Invocations
        /\ told' \in [Invocations -> Nat] /\ reported' \in [Invocations -> Nat]
        /\ closing' \in Connections \cup {NoConnection}
    BY <1>1 DEF InvocationInv, TypeInv, InvocationTypeOK
  <2> QED
    BY <1>1, <1>5, <1>6, <1>7, <2>1, EndKeepsPlaces
<1> QED
  BY <1>7, <1>8 DEF InvocationInv

\* The deadline sweep, in the relay and then in the sink.
LEMMA DeadlineInv ==
    ASSUME InvocationInv, NEW i \in Invocations, Deadline(i) \/ DeadlineReported(i)
    PROVE  InvocationInv'
<1>1. /\ UNCHANGED <<lifeVars, fence, call, settled, wire, told, cancelled, closing>>
      /\ pending' \subseteq pending /\ corr' \subseteq corr /\ expired' \subseteq Invocations
  BY DEF Deadline, DeadlineReported, answerVars, InvocationInv, TypeInv, InvocationTypeOK
<1>2. PlaceOf(i) /\ reported \in [Invocations -> Nat] /\ told[i] \in Nat /\ reported[i] \in Nat
      /\ Cancels(i) \in {0, 1}
  BY EndsType DEF InvocationInv, PlaceInv, TypeInv, InvocationTypeOK
<1>3. reported' \in [Invocations -> Nat] /\ (\A j \in Invocations : PlaceOf(j)')
  <2>1. CASE Deadline(i)
    <3>1. /\ UNCHANGED <<corr, reported>> /\ i \in pending
          /\ pending' = pending \ {i} /\ expired' = expired \cup {i}
      BY <2>1 DEF Deadline, answerVars
    <3>2. \A j \in Invocations : Ends(j)' = Ends(j)
      BY <1>1, <3>1, EndsKept
    <3>3. PlaceOf(i)'
      BY <1>1, <1>2, <3>1, <3>2 DEF PlaceOf, At
    <3>4. \A j \in Invocations \ {i} : PlaceOf(j)'
      BY <1>1, <3>1, <3>2, PlaceKept DEF InvocationInv, PlaceInv
    <3> QED
      BY <1>2, <3>1, <3>3, <3>4
  <2>2. CASE DeadlineReported(i)
    <3>1. /\ UNCHANGED pending /\ i \in expired /\ expired' = expired \ {i} /\ corr' = corr \ {i}
          /\ reported'[i] = reported[i] \/ (i \in corr /\ reported'[i] = reported[i] + 1)
          /\ \A j \in Invocations \ {i} : reported'[j] = reported[j]
      BY <1>2, <2>2 DEF DeadlineReported
    <3>2. reported' \in [Invocations -> Nat]
      BY <1>2, <2>2 DEF DeadlineReported
    <3>3. Ends(i)' <= 1 /\ (i \notin corr => Ends(i)' = Ends(i))
      <4>1. Cancels(i)' = Cancels(i) /\ told'[i] = told[i]
        BY <1>1 DEF Cancels
      <4>2. (i \in corr => Ends(i) = 0) /\ Ends(i) <= 1
        BY <1>2 DEF PlaceOf
      <4> QED
        BY <1>2, <3>1, <4>1, <4>2 DEF Ends
    <3>4. PlaceOf(i)'
      BY <1>1, <1>2, <3>1, <3>3 DEF PlaceOf, At
    <3>5. \A j \in Invocations \ {i} : PlaceOf(j)'
      BY <1>1, <3>1, PlaceKept, EndsKept DEF InvocationInv, PlaceInv
    <3> QED
      BY <3>2, <3>4, <3>5
  <2> QED
    BY <2>1, <2>2
<1>4. LifeTypeOK' /\ InboxIsClosed' /\ ForgottenInv' /\ BoundInv' /\ OneHandler' /\ BusyIsOpen'
  BY <1>1, StayKeeps
<1>5. TypeInv' /\ PlaceInv'
  <2>1. settled' \subseteq Invocations /\ cancelled' \subseteq Invocations
        /\ told' \in [Invocations -> Nat] /\ closing' \in Connections \cup {NoConnection}
    BY <1>1 DEF InvocationInv, TypeInv, InvocationTypeOK
  <2> QED
    BY <1>1, <1>3, <1>4, <2>1, EndKeepsPlaces
<1> QED
  BY <1>4, <1>5 DEF InvocationInv
-----------------------------------------------------------------------------
(* The consumer of closed sessions, in the sink and then in the relay *)

LEMMA CloseCorrelationsInv ==
    ASSUME InvocationInv, NEW c \in Connections, CloseCorrelations(c)
    PROVE  InvocationInv'
<1>1. /\ UNCHANGED <<lifeVars, fence, call, expired, settled, wire, told, cancelled>>
      /\ c \in inbox /\ closing' = c
      /\ pending' \subseteq pending /\ corr' \subseteq corr
      /\ \A i \in pending' : call[i].caller # c
      /\ \A i \in corr' : call[i].caller # c /\ call[i].owner # c
  BY DEF CloseCorrelations, Of
<1>2. reported' \in [Invocations -> Nat]
      /\ \A i \in Invocations : \/ reported'[i] = reported[i]
                                \/ i \in corr /\ call[i].owner = c /\ reported'[i] = reported[i] + 1
  <2>1. \A i \in Invocations : reported[i] \in Nat
    BY EndsType DEF InvocationInv
  <2> QED
    BY <2>1 DEF CloseCorrelations, Of
<1>3. ASSUME NEW i \in Invocations PROVE PlaceOf(i)'
  <2>1. PlaceOf(i) /\ told[i] \in Nat /\ reported[i] \in Nat /\ Cancels(i) \in {0, 1}
    BY EndsType DEF InvocationInv, PlaceInv
  <2>2. CASE reported'[i] = reported[i]
    BY <1>1, <2>1, <2>2, PlaceKept, EndsKept
  <2>3. CASE i \in corr /\ call[i].owner = c /\ reported'[i] = reported[i] + 1
    <3>1. i \notin settled
      <4>1. ~Busy(c, i)
        BY <1>1 DEF InvocationInv, BusyIsOpen, InboxIsClosed
      <4> QED
        BY <2>3, <4>1 DEF Busy
    <3>2. Ends(i) = 0
      BY <2>1, <2>3 DEF PlaceOf
    <3>3. Ends(i)' <= 1 /\ (i \notin corr => Ends(i)' = Ends(i))
      <4>1. Cancels(i)' = Cancels(i) /\ told'[i] = told[i]
        BY <1>1 DEF Cancels
      <4> QED
        BY <2>1, <2>3, <3>2, <4>1 DEF Ends
    <3>4. i \notin corr'
      BY <1>1, <2>3
    <3> QED
      BY <1>1, <2>1, <2>3, <3>1, <3>3, <3>4 DEF PlaceOf, At
  <2> QED
    BY <1>2, <2>2, <2>3
<1>4. LifeTypeOK' /\ InboxIsClosed' /\ BoundInv'
  BY <1>1 DEF InvocationInv, TypeInv, LifeTypeOK, InboxIsClosed, BoundInv, IsTask, lifeVars
<1>5. OneHandler' /\ BusyIsOpen'
  BY <1>1 DEF InvocationInv, OneHandler, BusyIsOpen, Busy, lifeVars
<1>6. ForgottenInv'
  <2>1. CallerGone(c)'
    BY <1>1 DEF CallerGone
  <2>2. \A d \in Connections : CallerGone(d) => CallerGone(d)'
    BY <1>1 DEF CallerGone
  <2> QED
    BY <1>1, <2>1, <2>2 DEF InvocationInv, ForgottenInv, lifeVars, CallerGone
<1>7. TypeInv' /\ PlaceInv'
  <2>1. expired' \subseteq Invocations /\ settled' \subseteq Invocations /\ cancelled' \subseteq Invocations
        /\ told' \in [Invocations -> Nat]
    BY <1>1 DEF InvocationInv, TypeInv, InvocationTypeOK
  <2> QED
    BY <1>1, <1>2, <1>3, <1>4, <2>1, EndKeepsPlaces
<1> QED
  BY <1>4, <1>5, <1>6, <1>7 DEF InvocationInv

LEMMA ClosePendingInv ==
    ASSUME InvocationInv, ClosePending
    PROVE  InvocationInv'
<1>1. /\ UNCHANGED <<stage, bound, current, ready, fence, call, expired, corr, settled, wire, told, reported,
                     cancelled>>
      /\ closing # NoConnection /\ closing' = NoConnection /\ inbox' = inbox \ {closing}
      /\ pending' \subseteq pending
  BY DEF ClosePending, LifeConsume, answerVars
<1>2. LifeTypeOK' /\ InboxIsClosed' /\ BoundInv'
  BY <1>1 DEF InvocationInv, TypeInv, LifeTypeOK, InboxIsClosed, BoundInv, IsTask
<1>3. OneHandler' /\ BusyIsOpen'
  BY <1>1 DEF InvocationInv, OneHandler, BusyIsOpen, Busy
<1>4. ForgottenInv'
  <2>1. ASSUME NEW d \in Connections, stage'[d] = "barrier", d \notin inbox' PROVE CallerGone(d)'
    <3>1. CallerGone(d)
      BY <1>1, <2>1 DEF InvocationInv, ForgottenInv
    <3> QED
      BY <1>1, <3>1 DEF CallerGone
  <2> QED
    BY <1>1, <2>1 DEF ForgottenInv
<1>5. \A j \in Invocations : PlaceOf(j)'
  BY <1>1, PlaceKept, EndsKept DEF InvocationInv, PlaceInv
<1>6. TypeInv' /\ PlaceInv'
  BY <1>1, <1>2, <1>5, EndKeepsPlaces DEF InvocationInv, TypeInv, InvocationTypeOK
<1> QED
  BY <1>2, <1>3, <1>4, <1>6 DEF InvocationInv

LEMMA InvocationStepInv ==
    ASSUME InvocationInv, [InvocationNext]_invocationVars
    PROVE  InvocationInv'
<1>1. CASE \E a \in Actors : FenceChanges(a)
  BY <1>1, FenceChangesInv
<1>2. CASE \E i \in Invocations, a \in Actors : FindForTask(i, a) \/ \E c \in Connections : Find(i, a, c)
  BY <1>2, StartInv
<1>3. CASE \E i \in Invocations : Handler(i)
  BY <1>3, HandlerInv
<1>4. CASE \E i \in Invocations : Forward(i) \/ ForwardFails(i)
  BY <1>4, ForwardInv
<1>5. CASE \E i \in Invocations : CallerCancels(i)
  BY <1>5, CallerCancelsInv
<1>6. CASE \E i \in Invocations : Deadline(i) \/ DeadlineReported(i)
  BY <1>6, DeadlineInv
<1>7. CASE \E f \in wire : OwnerAnswers(f) \/ OwnerRefuses(f)
  BY <1>7, OwnerAnswersInv, OwnerRefusesInv
<1>8. CASE \E c \in Connections : CloseCorrelations(c) \/ SessionMoves(c)
  BY <1>8, CloseCorrelationsInv, SessionMovesInv
<1>9. CASE ClosePending
  BY <1>9, ClosePendingInv
<1>10. CASE UNCHANGED invocationVars
  <2>1. /\ UNCHANGED <<stage, bound, current, ready, inbox>>
        /\ UNCHANGED <<fence, call, pending, expired, corr, settled, wire, told, reported, cancelled, closing>>
    BY <1>10 DEF invocationVars, lifeVars, callVars, relayVars, answerVars
  <2>2. TypeInv' /\ OneHandler' /\ BusyIsOpen' /\ InboxIsClosed'
    BY <2>1 DEF InvocationInv, TypeInv, LifeTypeOK, InvocationTypeOK, OneHandler, BusyIsOpen, Busy, InboxIsClosed
  <2>3. PlaceInv' /\ ForgottenInv' /\ BoundInv'
    BY <2>1 DEF InvocationInv, PlaceInv, PlaceOf, At, Ends, Cancels, ForgottenInv, CallerGone, BoundInv, IsTask
  <2> QED
    BY <2>2, <2>3 DEF InvocationInv
<1> QED
  BY <1>1, <1>2, <1>3, <1>4, <1>5, <1>6, <1>7, <1>8, <1>9, <1>10 DEF InvocationNext

LEMMA InvocationIsInductive == InvocationSpec => []InvocationInv
<1>1. InvocationInit => InvocationInv
  BY InvocationInitInv
<1>2. InvocationInv /\ [InvocationNext]_invocationVars => InvocationInv'
  BY InvocationStepInv
<1> QED
  BY <1>1, <1>2, PTL DEF InvocationSpec

-----------------------------------------------------------------------------
(* Theorems *)

\* The types of relay and sink; the relay never holds more than max_concurrency calls,
\* whatever order calls are relayed and taken out in (invocation.rs invoke).
THEOREM InvocationTypesCorrect == InvocationSpec => []InvocationTypeOK
<1>1. InvocationInv => InvocationTypeOK
  BY DEF InvocationInv, TypeInv
<1> QED
  BY <1>1, InvocationIsInductive, PTL

\* A call ends at most once, for its caller or for the task plane, in every race of answer,
\* deadline, cancel and session close over the two locks that know it
\* (actor_sink.rs on_owner_settle, on_relay_deadline, on_runtime_session_closed).
THEOREM CallsEndOnce == InvocationSpec => []EndsOnce
<1>1. InvocationInv => EndsOnce
  <2> SUFFICES ASSUME InvocationInv, NEW i \in Invocations
               PROVE  told[i] + reported[i] + Cardinality({i} \cap cancelled) <= 1
    BY DEF EndsOnce
  <2>1. PlaceOf(i)
    BY DEF InvocationInv, PlaceInv
  <2> QED
    BY <2>1, CancelsCounted DEF PlaceOf, Ends
<1> QED
  BY <1>1, InvocationIsInductive, PTL

\* When the consumer is done with the terminal of a session, and the session layer may
\* delete its record, neither relay nor sink holds a call that session made: none was added
\* between the two parts of the cleanup (on_runtime_session_closed, on_caller_disconnect).
THEOREM ClosedCallersForgotten == InvocationSpec => []ClosedCallerIsForgotten
<1>1. InvocationInv => ClosedCallerIsForgotten
  <2> SUFFICES ASSUME InvocationInv, NEW c \in Connections, stage[c] = "barrier", c \notin inbox,
                      NEW i \in pending \cup corr
               PROVE  Of(i).caller # c
    BY DEF ClosedCallerIsForgotten
  <2>1. i \in Invocations
    BY DEF InvocationInv, TypeInv, InvocationTypeOK
  <2> QED
    BY <2>1 DEF InvocationInv, ForgottenInv, CallerGone, Of
<1> QED
  BY <1>1, InvocationIsInductive, PTL
=============================================================================
