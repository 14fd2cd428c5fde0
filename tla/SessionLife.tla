------------------------------ MODULE SessionLife ------------------------------
(***************************************************************************)
(* What a runtime session is to the lane that uses it: an abstraction of   *)
(* RuntimeSession as one installed session consumer sees it.  A connection *)
(* binds a replica and becomes its current session, may become a candidate *)
(* for work, leaves, loses its writer and its facts, reports its terminal  *)
(* to the consumer, and is forgotten only after the consumer has processed *)
(* that terminal, unless the Router gives up and fail-stops.               *)
(***************************************************************************)

CONSTANTS Connections, Replicas, NoReplica, NoConnection

VARIABLES
    stage,    \* where a connection is in its life, once it announced a replica
    bound,    \* the replica it announced
    current,  \* current_by_replica
    ready,    \* sessions with a routable record
    inbox     \* terminals the consumer has still to process

lifeVars == <<stage, bound, current, ready, inbox>>

Stages == {"absent", "binding", "registered", "closed", "writerGone", "factsGone",
           "barrier", "gone"}

LifeTypeOK ==
    /\ stage \in [Connections -> Stages]
    /\ bound \in [Connections -> Replicas \cup {NoReplica}]
    /\ current \in [Replicas -> Connections \cup {NoConnection}]
    /\ ready \subseteq Connections
    /\ inbox \subseteq Connections

LifeInit ==
    /\ stage = [c \in Connections |-> "absent"]
    /\ bound = [c \in Connections |-> NoReplica]
    /\ current = [r \in Replicas |-> NoConnection]
    /\ ready = {}
    /\ inbox = {}

\* A frame can be queued on the session.
Writable(c) == stage[c] \in {"binding", "registered", "closed"}

\* The candidate view: current, routable, not cancelled, facts registered.
Selectable(c) ==
    /\ c \in ready /\ current[bound[c]] = c
    /\ stage[c] \in {"registered", "closed", "writerGone"}

Move(c, from, to) == stage[c] \in from /\ stage' = [stage EXCEPT ![c] = to]

-----------------------------------------------------------------------------

\* The connection announces its replica and replaces its current session; it
\* ends at once when the registered frame cannot be queued.
LifeBind(c, r) ==
    /\ \E to \in {"binding", "closed"} : Move(c, {"absent"}, to)
    /\ bound' = [bound EXCEPT ![c] = r]
    /\ current' = [current EXCEPT ![r] = c]
    /\ UNCHANGED <<ready, inbox>>

\* The registered frame is out: a session replaced meanwhile stays unroutable.
LifeRegister(c) ==
    /\ Move(c, {"binding"}, "registered")
    /\ ready' = IF current[bound[c]] = c THEN ready \cup {c} ELSE ready
    /\ UNCHANGED <<bound, current, inbox>>

LifeLeave(c) ==
    /\ Move(c, {"binding", "registered"}, "closed")
    /\ UNCHANGED <<bound, current, ready, inbox>>

LifeUnwind(c) ==
    /\ Move(c, {"closed"}, "writerGone") \/ Move(c, {"writerGone"}, "factsGone")
    /\ UNCHANGED <<bound, current, ready, inbox>>

\* The terminal goes to the consumer.
LifeClose(c) ==
    /\ Move(c, {"factsGone"}, "barrier")
    /\ inbox' = inbox \cup {c}
    /\ UNCHANGED <<bound, current, ready>>

\* The Router fail-stops: the terminal may not have reached this consumer, or
\* is not processed in time; the record stays.
LifeGiveUp(c) ==
    /\ \/ Move(c, {"factsGone"}, "gone") /\ inbox' \in {inbox, inbox \cup {c}}
       \/ Move(c, {"barrier"}, "gone") /\ UNCHANGED inbox
    /\ UNCHANGED <<bound, current, ready>>

\* The consumer has processed the terminal.
LifeConsume(c) ==
    /\ c \in inbox
    /\ inbox' = inbox \ {c}
    /\ UNCHANGED <<stage, bound, current, ready>>

\* The record is deleted, and the current entry if it is this session's.
LifeForget(c) ==
    /\ c \notin inbox
    /\ Move(c, {"barrier"}, "gone")
    /\ ready' = ready \ {c}
    /\ current' = IF current[bound[c]] = c THEN [current EXCEPT ![bound[c]] = NoConnection]
                  ELSE current
    /\ UNCHANGED <<bound, inbox>>

\* A step of the session itself, the consumer's part left out.
LifeStep(c) ==
    \/ \E r \in Replicas : LifeBind(c, r)
    \/ LifeRegister(c) \/ LifeLeave(c) \/ LifeUnwind(c) \/ LifeClose(c)
    \/ LifeGiveUp(c) \/ LifeForget(c)

LifeNext == \E c \in Connections : LifeStep(c) \/ LifeConsume(c)

LifeSpec == LifeInit /\ [][LifeNext]_lifeVars
=============================================================================
