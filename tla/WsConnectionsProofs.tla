------------------------ MODULE WsConnectionsProofs ------------------------
(***************************************************************************)
(* Theorems about WsConnections, for any number of sockets, business keys, *)
(* runtime sessions and acceptances: the business order of a key lists its *)
(* live connections and respects their limit, a generation of the broker   *)
(* has an owner, the first terminal stays, and the index stays within its  *)
(* limits.                                                                 *)
(***************************************************************************)
EXTENDS WsConnections, FiniteSetTheorems, WellFoundedInduction, NaturalsInduction, TLAPS

----------------------------------------------------------------------------
(* Induction over a sequence.  A set of naturals that is not empty has a   *)
(* least member; the set of counterexamples to a property has none when    *)
(* the property carries over from one number to the next.                  *)

LessThan == {p \in Nat \X Nat : p[1] < p[2]}

LEMMA LeastMember ==
    ASSUME NEW T \in SUBSET Nat, T # {}
    PROVE  \E n \in T : \A m \in T : n <= m
<1>1. IsWellFoundedOn(OpToRel(<, Nat), Nat)
  BY NatLessThanWellFounded
<1>2. OpToRel(<, Nat) = LessThan
  BY Zenon DEF OpToRel, LessThan
<1>3. IsWellFoundedOn(LessThan, Nat)
  BY <1>1, <1>2, Zenon
<1>4. PICK n \in T : \A m \in T : ~(<<m, n>> \in LessThan)
  BY <1>3, WFMin
<1>5. \A m \in Nat : m < n => <<m, n>> \in LessThan
  BY DEF LessThan
<1>6. ASSUME NEW m \in T PROVE n <= m
  <2>1. ~(m < n)
    BY <1>4, <1>5
  <2> QED BY <2>1
<1> QED BY <1>6

\* A set of naturals that holds 0 and the successor of each of its members up
\* to N holds 0 .. N.
LEMMA UpTo ==
    ASSUME NEW N \in Nat, NEW P, 0 \in P, \A n \in 0 .. N : n # 0 /\ n - 1 \in P => n \in P
    PROVE  \A n \in 0 .. N : n \in P
<1> DEFINE T == {n \in 0 .. N : n \notin P}
<1> SUFFICES ASSUME T # {} PROVE FALSE
  OBVIOUS
<1>1. PICK n \in T : \A m \in T : n <= m
  <2>1. T \in SUBSET Nat
    OBVIOUS
  <2> HIDE DEF T
  <2> QED BY <2>1, LeastMember
<1>2. n \in 0 .. N /\ n \notin P /\ n # 0
  BY <1>1
<1>3. n - 1 \in 0 .. N /\ n - 1 \notin T
  BY <1>1, <1>2
<1> QED BY <1>2, <1>3

\* One step of retain.
Retain(g, seq, S, n) ==
    g[n] = IF n = 0 THEN <<>> ELSE IF seq[n] \in S THEN g[n - 1] ELSE Append(g[n - 1], seq[n])

\* The recursion of Without has a solution, step by step.
LEMMA WithoutSteps ==
    ASSUME NEW D, NEW seq \in Seq(D), NEW S
    PROVE  \E g : /\ g \in [0 .. Len(seq) -> Seq(D)]
                  /\ \A n \in 0 .. Len(seq) : Retain(g, seq, S, n)
                  /\ Without(seq, S) = g[Len(seq)]
<1> DEFINE N == Len(seq)
<1>0. N \in Nat
  OBVIOUS
<1> DEFINE Sol(m) == {g \in [0 .. m -> Seq(D)] : \A n \in 0 .. m : Retain(g, seq, S, n)}
           P == {m \in Nat : Sol(m) # {}}
<1>1. 0 \in P
  <2> DEFINE g == [i \in 0 .. 0 |-> <<>>]
  <2>1. g \in [0 .. 0 -> Seq(D)] /\ \A n \in 0 .. 0 : Retain(g, seq, S, n)
    BY DEF Retain
  <2> HIDE DEF g
  <2> QED BY <2>1
<1>2. ASSUME NEW m \in 0 .. N, m # 0, m - 1 \in P PROVE m \in P
  <2>1. PICK g \in [0 .. m - 1 -> Seq(D)] : \A n \in 0 .. m - 1 : Retain(g, seq, S, n)
    BY <1>2
  <2>2. m \in Nat /\ m - 1 \in 0 .. m - 1 /\ seq[m] \in D
    BY <1>0, <1>2
  <2>3. g[m - 1] \in Seq(D)
    BY <2>1, <2>2
  <2>4. PICK last \in Seq(D) : last = IF seq[m] \in S THEN g[m - 1] ELSE Append(g[m - 1], seq[m])
    BY <2>2, <2>3
  <2> DEFINE h == [i \in 0 .. m |-> IF i = m THEN last ELSE g[i]]
  <2>5. h \in [0 .. m -> Seq(D)]
    BY <2>1, <2>2
  <2>6. h[m] = last /\ \A i \in 0 .. m - 1 : h[i] = g[i]
    BY <2>2
  <2> HIDE DEF h
  <2>7. \A n \in 0 .. m : Retain(h, seq, S, n)
    <3>1. Retain(h, seq, S, m)
      BY <1>2, <2>2, <2>4, <2>6 DEF Retain
    <3>2. ASSUME NEW n \in 0 .. m - 1 PROVE Retain(h, seq, S, n)
      <4>1. Retain(g, seq, S, n) /\ h[n] = g[n] /\ (n # 0 => h[n - 1] = g[n - 1])
        BY <2>1, <2>2, <2>6
      <4> QED BY <4>1 DEF Retain
    <3> QED BY <2>2, <3>1, <3>2
  <2> QED BY <2>2, <2>5, <2>7
<1>3. N \in P
  <2> HIDE DEF P, N
  <2> QED BY <1>0, <1>1, <1>2, UpTo, SMTT(30)
<1>4. PICK g \in [0 .. N -> Seq(D)] : \A n \in 0 .. N : Retain(g, seq, S, n)
  BY <1>3
<1> DEFINE Body(f) == [n \in 0 .. N |-> IF n = 0 THEN <<>>
                                        ELSE IF seq[n] \in S THEN f[n - 1] ELSE Append(f[n - 1], seq[n])]
<1>5. g = Body(g)
  BY <1>4 DEF Retain
<1>6. PICK f : f = Body(f) /\ Without(seq, S) = f[N]
  <2>1. PICK f : f = (CHOOSE k : k = Body(k)) /\ Without(seq, S) = f[N]
    BY DEF Without
  <2>2. f = Body(f)
    BY <1>5, <2>1
  <2> HIDE DEF Body, N
  <2> QED BY <2>1, <2>2, Zenon
<1>7. \A n \in 0 .. N : Retain(f, seq, S, n)
  BY <1>6 DEF Retain
<1>8. f \in [0 .. N -> Seq(D)]
  <2> DEFINE Q == {n \in 0 .. N : f[n] \in Seq(D)}
  <2>1. 0 \in Q
    <3>1. 0 \in 0 .. N /\ Retain(f, seq, S, 0)
      BY <1>0, <1>7
    <3>2. f[0] = <<>>
      BY <3>1 DEF Retain
    <3>3. f[0] \in Seq(D)
      BY <3>2
    <3> QED BY <3>1, <3>3
  <2>2. ASSUME NEW n \in 0 .. N, n # 0, n - 1 \in Q PROVE n \in Q
    <3>1. seq[n] \in D /\ f[n - 1] \in Seq(D) /\ Retain(f, seq, S, n)
      BY <1>0, <1>7, <2>2
    <3>2. f[n] = IF seq[n] \in S THEN f[n - 1] ELSE Append(f[n - 1], seq[n])
      BY <2>2, <3>1 DEF Retain
    <3>3. Append(f[n - 1], seq[n]) \in Seq(D)
      BY <3>1
    <3>4. f[n] \in Seq(D)
      BY <3>1, <3>2, <3>3
    <3> QED BY <2>2, <3>4
  <2>3. \A n \in 0 .. N : n \in Q
    <3> HIDE DEF Q, N
    <3> QED BY <1>0, <2>1, <2>2, UpTo
  <2>4. f = [n \in 0 .. N |-> f[n]]
    BY <1>6
  <2> HIDE DEF N
  <2> QED BY <2>3, <2>4
<1> QED BY <1>6, <1>7, <1>8
\* The members of the first n places of a sequence.
FirstOnes(seq, n) == {seq[i] : i \in 1 .. n}

Elems(seq) == FirstOnes(seq, Len(seq))

Distinct(seq) == \A i, j \in 1 .. Len(seq) : seq[i] = seq[j] => i = j

LEMMA AppendFacts ==
    ASSUME NEW D, NEW s \in Seq(D), NEW x \in D
    PROVE  /\ Elems(Append(s, x)) = Elems(s) \cup {x}
           /\ Len(Append(s, x)) = Len(s) + 1
           /\ Distinct(s) /\ x \notin Elems(s) => Distinct(Append(s, x))
<1> DEFINE r == Append(s, x)
<1>1. /\ r \in Seq(D) /\ Len(s) \in Nat /\ Len(r) = Len(s) + 1
      /\ r[Len(s) + 1] = x /\ \A i \in 1 .. Len(s) : r[i] = s[i]
  OBVIOUS
<1> HIDE DEF r
<1>2. 1 .. Len(r) = (1 .. Len(s)) \cup {Len(s) + 1}
  BY <1>1
<1>3. Elems(r) = Elems(s) \cup {x}
  BY <1>1, <1>2 DEF Elems, FirstOnes
<1>4. ASSUME Distinct(s), x \notin Elems(s) PROVE Distinct(r)
  <2>1. \A i \in 1 .. Len(s) : s[i] # x
    BY <1>4 DEF Elems, FirstOnes
  <2>2. ASSUME NEW i \in 1 .. Len(r), NEW j \in 1 .. Len(r), r[i] = r[j] PROVE i = j
    <3>1. CASE i \in 1 .. Len(s) /\ j \in 1 .. Len(s)
      BY <1>1, <1>4, <2>2, <3>1 DEF Distinct
    <3>2. CASE i = Len(s) + 1 \/ j = Len(s) + 1
      BY <1>1, <1>2, <2>1, <2>2, <3>2
    <3> QED BY <1>2, <3>1, <3>2
  <2> QED BY <2>2 DEF Distinct
<1> QED BY <1>1, <1>3, <1>4 DEF r

\* What retain leaves: the members that are not removed, each as often as before at
\* most, and no more of them than there were.
LEMMA WithoutFacts ==
    ASSUME NEW D, NEW seq \in Seq(D), NEW S
    PROVE  /\ Without(seq, S) \in Seq(D)
           /\ Len(Without(seq, S)) <= Len(seq)
           /\ Elems(Without(seq, S)) = Elems(seq) \ S
           /\ Distinct(seq) => Distinct(Without(seq, S))
<1>1. PICK g : /\ g \in [0 .. Len(seq) -> Seq(D)]
               /\ \A n \in 0 .. Len(seq) : Retain(g, seq, S, n)
               /\ Without(seq, S) = g[Len(seq)]
  BY WithoutSteps
<1>2. PICK N \in Nat : N = Len(seq)
  OBVIOUS
<1> DEFINE P == {n \in 0 .. N : /\ Len(g[n]) <= n
                                /\ Elems(g[n]) = FirstOnes(seq, n) \ S
                                /\ Distinct(seq) => Distinct(g[n])}
<1>3. 0 \in P
  <2>1. g[0] = <<>> /\ 0 \in 0 .. N
    BY <1>1, <1>2 DEF Retain
  <2>2. Len(g[0]) = 0
    BY <2>1
  <2>3. Elems(g[0]) = {} /\ FirstOnes(seq, 0) = {} /\ Distinct(g[0])
    BY <2>2 DEF Elems, FirstOnes, Distinct
  <2> QED BY <2>1, <2>2, <2>3
<1>4. ASSUME NEW n \in 0 .. N, n # 0, n - 1 \in P PROVE n \in P
  <2>1. /\ n - 1 \in 0 .. N /\ n - 1 \in Nat /\ n \in Nat /\ n \in 1 .. N
        /\ Len(g[n - 1]) <= n - 1 /\ Elems(g[n - 1]) = FirstOnes(seq, n - 1) \ S
        /\ Distinct(seq) => Distinct(g[n - 1])
    BY <1>2, <1>4
  <2>2. g[n - 1] \in Seq(D) /\ seq[n] \in D /\ Len(g[n - 1]) \in Nat
    BY <1>1, <1>2, <2>1
  <2>3. g[n] = IF seq[n] \in S THEN g[n - 1] ELSE Append(g[n - 1], seq[n])
    BY <1>1, <1>2, <1>4 DEF Retain
  <2>4. FirstOnes(seq, n) = FirstOnes(seq, n - 1) \cup {seq[n]}
    <3>1. 1 .. n = (1 .. n - 1) \cup {n}
      BY <2>1
    <3> QED BY <3>1 DEF FirstOnes
  <2>5. CASE seq[n] \in S
    BY <2>1, <2>2, <2>3, <2>4, <2>5
  <2>6. CASE seq[n] \notin S
    <3>1. g[n] = Append(g[n - 1], seq[n])
      BY <2>3, <2>6
    <3>2. /\ Elems(g[n]) = Elems(g[n - 1]) \cup {seq[n]} /\ Len(g[n]) = Len(g[n - 1]) + 1
          /\ Distinct(g[n - 1]) /\ seq[n] \notin Elems(g[n - 1]) => Distinct(g[n])
      BY <2>2, <3>1, AppendFacts
    <3>3. Distinct(seq) => seq[n] \notin Elems(g[n - 1])
      <4>1. Distinct(seq) => \A i \in 1 .. n - 1 : seq[i] # seq[n]
        BY <1>2, <2>1 DEF Distinct
      <4>2. Distinct(seq) => seq[n] \notin FirstOnes(seq, n - 1)
        BY <4>1 DEF FirstOnes
      <4> QED BY <2>1, <4>2
    <3>4. Len(g[n]) <= n
      BY <2>1, <2>2, <3>2
    <3>5. Elems(g[n]) = FirstOnes(seq, n) \ S
      BY <2>1, <2>4, <2>6, <3>2
    <3> QED BY <2>1, <3>2, <3>3, <3>4, <3>5
  <2> QED BY <2>5, <2>6
<1>5. N \in P
  <2>1. \A n \in 0 .. N : n \in P
    <3> HIDE DEF P
    <3> QED BY <1>2, <1>3, <1>4, UpTo
  <2> QED BY <1>2, <2>1
<1> QED BY <1>1, <1>2, <1>5 DEF Elems

\* Removing the first m members leaves no more than the others.
LEMMA WithoutFront ==
    ASSUME NEW D, NEW seq \in Seq(D), NEW m \in 0 .. Len(seq)
    PROVE  Len(Without(seq, FirstOnes(seq, m))) <= Len(seq) - m
<1>1. PICK S : S = FirstOnes(seq, m)
  OBVIOUS
<1>2. PICK g : /\ g \in [0 .. Len(seq) -> Seq(D)]
               /\ \A n \in 0 .. Len(seq) : Retain(g, seq, S, n)
               /\ Without(seq, S) = g[Len(seq)]
  BY WithoutSteps
<1>3. PICK N \in Nat : N = Len(seq)
  OBVIOUS
<1> DEFINE P == {n \in 0 .. N : (n <= m => Len(g[n]) = 0) /\ (n > m => Len(g[n]) <= n - m)}
<1>4. 0 \in P
  <2>1. g[0] = <<>> /\ 0 \in 0 .. N
    BY <1>2, <1>3 DEF Retain
  <2>2. Len(g[0]) = 0
    BY <2>1
  <2> QED BY <1>3, <2>1, <2>2
<1>5. ASSUME NEW n \in 0 .. N, n # 0, n - 1 \in P PROVE n \in P
  <2>1. /\ n - 1 \in 0 .. N /\ n \in 1 .. N /\ m \in Nat
        /\ n - 1 <= m => Len(g[n - 1]) = 0
        /\ n - 1 > m => Len(g[n - 1]) <= n - 1 - m
    BY <1>3, <1>5
  <2>2. g[n - 1] \in Seq(D) /\ seq[n] \in D /\ Len(g[n - 1]) \in Nat
    <3>1. g[n - 1] \in Seq(D)
      BY <1>2, <1>3, <2>1
    <3>2. seq[n] \in D
      BY <1>3, <2>1
    <3> QED BY <3>1, <3>2
  <2>3. g[n] = IF seq[n] \in S THEN g[n - 1] ELSE Append(g[n - 1], seq[n])
    BY <1>2, <1>3, <1>5 DEF Retain
  <2>4. Len(Append(g[n - 1], seq[n])) = Len(g[n - 1]) + 1
    BY <2>2
  <2>5. n <= m => seq[n] \in S
    BY <1>1, <2>1 DEF FirstOnes
  <2>6. Len(g[n]) = Len(g[n - 1]) \/ (Len(g[n]) = Len(g[n - 1]) + 1 /\ n > m)
    BY <2>1, <2>3, <2>4, <2>5
  <2> QED BY <1>3, <2>1, <2>2, <2>6
<1>6. N \in P
  <2>1. \A n \in 0 .. N : n \in P
    <3> HIDE DEF P
    <3> QED BY <1>3, <1>4, <1>5, UpTo
  <2> QED BY <1>3, <2>1
<1>7. N > m => Len(Without(seq, S)) <= N - m
  BY <1>2, <1>3, <1>6
<1>8. N = m => Len(Without(seq, S)) = 0
  BY <1>2, <1>3, <1>6
<1> QED BY <1>1, <1>3, <1>7, <1>8
----------------------------------------------------------------------------
(* The inductive invariant *)

Records == {"none", "Reserved", "Admitted", "Attached"}

IndexTypes ==
    /\ rec \in [Sockets -> Records]
    /\ terminal \in [Sockets -> Terminals]
    /\ fin \in [Sockets -> {"none", "detach", "drain", "done"}]
    /\ order \in [Keys -> Seq(Sockets)]
    /\ highWater \in [Keys -> Nat \cup {NoRank}]

UpgradeTypes ==
    /\ up \in [Sockets -> Ups]
    /\ policy \in [Sockets -> Accepts \cup {NoAnswer}]
    /\ runtime \in [Sockets -> Connections \cup {NoConnection}]
    /\ permits \subseteq Sockets /\ connects \subseteq Sockets /\ asked \subseteq Sockets
    /\ answer \in [Sockets -> Accepts \cup {Rejected, Unavailable, NoAnswer}]

PeerTypes ==
    /\ pins \subseteq Sockets /\ gens \subseteq Sockets
    /\ socket \in [Sockets -> {"none", "open", "closeSent", "aborted"}]
    /\ notified \in [Sockets -> Nat]
    /\ closing \in Connections \cup {NoConnection}

\* Where the handler is while its record is Reserved, and Admitted.
Waiting == {"reserved", "selected", "written", "connecting", "accepted"}
Opening == {"admitted", "registered", "starting", "attaching"}

\* How the record, finalizer, terminal and acceptance of a socket fit the place its
\* handler or peer task has reached; an ended handler may leave a record behind.
Fits(u, r, f, t, p) ==
    /\ u \in {"new", "refused", "refusedRegistered", "leaving"} => r = "none"
    /\ u \in Waiting => r = "Reserved"
    /\ r = "Reserved" => u \in Waiting \cup {"ended"}
    /\ r = "Admitted" => u \in Opening \cup {"ended"}
    /\ r = "Attached" => u = "reading"
    /\ f # "none" => r = "none" /\ u \in {"reading", "leaving", "ended"}
    /\ t # "none" => r = "none" /\ u # "new"
    /\ u = "accepted" \/ r \in {"Admitted", "Attached"} => p \in Accepts

SocketInv(w) == Fits(up[w], rec[w], fin[w], terminal[w], policy[w])

Live(w) == rec[w] \in {"Admitted", "Attached"}

\* OrderIsIndexed and BusinessLimit for one key.
OrderInv(k) ==
    /\ Distinct(order[k])
    /\ \A w \in Sockets : w \in Elems(order[k]) <=> (Live(w) /\ policy[w].key = k)

LimitInv(k) ==
    \/ Len(order[k]) = 0
    \/ \E a \in Accepts : a.key = k /\ Len(order[k]) <= a.max

\* The index is finite and within its limits.
CapacityInv ==
    /\ IsFiniteSet({w \in Sockets : rec[w] # "none"})
    /\ Cardinality({w \in Sockets : rec[w] # "none"}) <= ConnectionLimit
    /\ IsFiniteSet({k \in Keys : highWater[k] # NoRank})
    /\ Cardinality({k \in Keys : highWater[k] # NoRank}) <= HighWaterCapacity

WsInv ==
    /\ IndexTypes /\ UpgradeTypes /\ PeerTypes
    /\ \A w \in Sockets : SocketInv(w)
    /\ \A k \in Keys : OrderInv(k) /\ LimitInv(k)
    /\ CapacityInv
    /\ GenerationHasOwner

----------------------------------------------------------------------------
(* What a step does to the index: nothing, or one of five things. *)

FinishSome ==
    \E S \in SUBSET {v \in Sockets : Indexed(v)}, t \in Terminals \ {"none"} :
        FinishAll(S, t, highWater)

IndexStep ==
    \/ UNCHANGED <<rec, terminal, order, highWater, fin, policy>>
    \/ UNCHANGED <<rec, terminal, order, highWater, policy>> /\ \E w \in Sockets : Finalizer(w)
    \/ \E w \in Sockets : ConnectAccepted(w)
    \/ \E w \in Sockets : Reserve(w)
    \/ \E w \in Sockets : AttachRecord(w)
    \/ \E w \in Sockets : Admit(w)
    \/ FinishSome /\ UNCHANGED policy

LEMMA FinishIsSome ==
    ASSUME NEW w \in Sockets, NEW t \in Terminals \ {"none"}, Finish(w, t)
    PROVE  FinishSome
BY DEF Finish, FinishSome

LEMMA FailIsSome ==
    ASSUME NEW w \in Sockets, NEW t \in Terminals \ {"none"}, Fail(w, t)
    PROVE  FinishSome
BY FinishIsSome DEF Fail

LEMMA IndexSteps ==
    ASSUME [WsNext]_wsAll
    PROVE  IndexStep
<1>0. {"peerClose", "policyRejected", "runtimeDisconnect", "slowClient", "protocolClose",
       "releaseTimeout"} \subseteq Terminals \ {"none"}
  BY DEF Terminals
<1>1. CASE UNCHANGED wsAll
  BY <1>1 DEF wsAll, wsVars, indexVars, IndexStep
<1>2. CASE SessionMoves
  BY <1>2 DEF SessionMoves, wsVars, indexVars, IndexStep
<1>3. CASE \E c \in Connections : ConsumeBegin(c)
  BY <1>3 DEF ConsumeBegin, indexVars, IndexStep
<1>4. CASE \E c \in Connections : ConsumeEnd(c)
  <2>1. PICK c \in Connections : ConsumeEnd(c)
    BY <1>4
  <2>2. PICK S : S = {w \in Pinned(c) : rec[w] = "Attached"}
    OBVIOUS
  <2>3. S \in SUBSET {v \in Sockets : Indexed(v)}
    BY <2>2 DEF Pinned, Indexed
  <2>4. FinishAll(S, "runtimeDisconnect", highWater) /\ UNCHANGED policy
    BY <2>1, <2>2 DEF ConsumeEnd
  <2>5. FinishSome
    BY <1>0, <2>3, <2>4 DEF FinishSome
  <2> QED BY <2>4, <2>5 DEF IndexStep
<1>5. ASSUME NEW w \in Sockets,
             \/ Reserve(w) \/ ConnectAccepted(w) \/ AttachRecord(w) \/ Admit(w)
      PROVE  IndexStep
  BY <1>5 DEF IndexStep
<1>6. ASSUME NEW w \in Sockets,
             \/ UpgradeDropped(w) \/ (\E c \in Connections : Select(w, c)) \/ ConnectInsert(w)
             \/ Register(w) \/ UpgradeEnds(w) \/ PeerStarts(w) \/ AttachGeneration(w)
             \/ ReaderEnds(w) \/ Finalizer(w)
             \/ (\E a \in Accepts \cup {Rejected, Unavailable} : ConnectAnswered(w, a))
      PROVE  IndexStep
  BY <1>6 DEF UpgradeDropped, Select, ConnectInsert, Register, UpgradeEnds, PeerStarts,
              AttachGeneration, ReaderEnds, Finalizer, Detach, Drain, ConnectAnswered, indexVars,
              IndexStep
<1>7. ASSUME NEW w \in Sockets,
             SelectRefused(w) \/ ConnectWrite(w) \/ ConnectTimeout(w) \/ ConnectRefused(w)
      PROVE  IndexStep
  <2>1. UNCHANGED policy
    BY <1>7 DEF SelectRefused, ConnectWrite, ConnectTimeout, ConnectRefused
  <2>2. \/ UNCHANGED <<rec, terminal, order, highWater, fin>>
        \/ Fail(w, "policyRejected") \/ Fail(w, "releaseTimeout")
    BY <1>7 DEF SelectRefused, ConnectWrite, ConnectTimeout, ConnectRefused, indexVars
  <2> QED BY <1>0, <2>1, <2>2, FailIsSome DEF IndexStep
<1>8. ASSUME NEW w \in Sockets,
             \/ AdmitRefused(w) \/ PeerDisconnect(w)
             \/ \E t \in {"protocolClose", "slowClient"} : Terminate(w, t)
      PROVE  IndexStep
  <2>1. UNCHANGED policy
    BY <1>8 DEF AdmitRefused, PeerDisconnect, Terminate
  <2>2. \E t \in Terminals \ {"none"} : Finish(w, t)
    BY <1>0, <1>8 DEF AdmitRefused, PeerDisconnect, Terminate
  <2> QED BY <2>1, <2>2, FinishIsSome DEF IndexStep
<1> QED BY <1>1, <1>2, <1>3, <1>4, <1>5, <1>6, <1>7, <1>8
        DEF WsNext, Consumer, Handler, Finalizer
----------------------------------------------------------------------------
(* Types *)

LEMMA AcceptanceTypes ==
    ASSUME NEW a \in Accepts
    PROVE  /\ a.key \in Keys \cup {NoKey} /\ a.rank \in Nat \cup {NoRank}
           /\ a.max \in Nat \ {0} /\ a.overflow \in {"closeOldest", "rejectNew"}
BY WsAssumption DEF Acceptance

LEMMA WithoutTypes ==
    ASSUME order \in [Keys -> Seq(Sockets)], NEW S
    PROVE  \A k \in Keys : order[k] \in Seq(Sockets) /\ Without(order[k], S) \in Seq(Sockets)
BY WithoutFacts

LEMMA FinishAllTypes ==
    ASSUME IndexTypes, NEW S, NEW t \in Terminals, FinishAll(S, t, highWater)
    PROVE  IndexTypes'
<1>1. rec' \in [Sockets -> Records] /\ terminal' \in [Sockets -> Terminals]
  BY DEF IndexTypes, FinishAll, Records
<1>2. fin' \in [Sockets -> {"none", "detach", "drain", "done"}]
  BY DEF IndexTypes, FinishAll
<1>3. order' \in [Keys -> Seq(Sockets)]
  BY WithoutTypes DEF IndexTypes, FinishAll
<1>4. highWater' \in [Keys -> Nat \cup {NoRank}]
  BY DEF IndexTypes, FinishAll
<1> QED BY <1>1, <1>2, <1>3, <1>4 DEF IndexTypes

LEMMA AdmitTypes ==
    ASSUME IndexTypes, UpgradeTypes, NEW w \in Sockets, policy[w] \in Accepts, Admit(w)
    PROVE  IndexTypes'
<1>1. PICK a : a = policy[w] /\ a \in Accepts
  OBVIOUS
<1>2. PICK out : out = IF a.key = NoKey THEN {} ELSE Replaced(a)
  OBVIOUS
<1>3. PICK fence : fence = IF a.key # NoKey /\ Ranked(a) THEN [highWater EXCEPT ![a.key] = a.rank]
                           ELSE highWater
  OBVIOUS
<1>4. fence \in [Keys -> Nat \cup {NoRank}]
  BY <1>1, <1>3, AcceptanceTypes DEF IndexTypes
<1>5. rec' \in [Sockets -> Records]
  BY DEF Admit, IndexTypes, Records
<1>6. terminal' \in [Sockets -> Terminals]
  BY DEF Admit, IndexTypes, Terminals
<1>7. fin' \in [Sockets -> {"none", "detach", "drain", "done"}]
  BY DEF Admit, IndexTypes
<1>8. order' = [k \in Keys |-> IF k = a.key THEN Append(Without(order[k], out), w) ELSE order[k]]
  BY <1>1, <1>2, Zenon DEF Admit
<1>9. order' \in [Keys -> Seq(Sockets)]
  <2>1. \A k \in Keys : order[k] \in Seq(Sockets) /\ Without(order[k], out) \in Seq(Sockets)
    BY WithoutTypes DEF IndexTypes
  <2>2. \A k \in Keys : Append(Without(order[k], out), w) \in Seq(Sockets)
    BY <2>1
  <2> QED BY <1>8, <2>1, <2>2
<1>10. highWater' = [k \in Keys |-> IF order[k] # <<>> /\ Without(order[k], out) = <<>> THEN NoRank
                                    ELSE fence[k]]
  <2>1. highWater' = [k \in Keys |->
            IF order[k] # <<>> /\ Without(order[k], IF a.key = NoKey THEN {} ELSE Replaced(a)) = <<>>
            THEN NoRank
            ELSE (IF a.key # NoKey /\ Ranked(a) THEN [highWater EXCEPT ![a.key] = a.rank]
                  ELSE highWater)[k]]
    BY <1>1 DEF Admit
  <2> QED BY <1>2, <1>3, <2>1
<1>11. highWater' \in [Keys -> Nat \cup {NoRank}]
  BY <1>4, <1>10
<1> QED BY <1>5, <1>6, <1>7, <1>9, <1>11 DEF IndexTypes

LEMMA IndexTypesKept ==
    ASSUME IndexTypes, UpgradeTypes, \A w \in Sockets : SocketInv(w), [WsNext]_wsAll
    PROVE  IndexTypes'
<1>1. CASE UNCHANGED <<rec, terminal, order, highWater, fin, policy>>
  BY <1>1 DEF IndexTypes
<1>2. CASE UNCHANGED <<rec, terminal, order, highWater, policy>> /\ \E w \in Sockets : Finalizer(w)
  BY <1>2 DEF IndexTypes, Finalizer, Detach, Drain
<1>3. CASE \E w \in Sockets : ConnectAccepted(w)
  BY <1>3 DEF IndexTypes, ConnectAccepted, indexVars
<1>4. CASE \E w \in Sockets : Reserve(w)
  BY <1>4 DEF IndexTypes, Reserve, Records
<1>5. CASE \E w \in Sockets : AttachRecord(w)
  BY <1>5 DEF IndexTypes, AttachRecord, Records
<1>6. CASE \E w \in Sockets : Admit(w)
  BY <1>6, AdmitTypes DEF SocketInv, Fits, Admit, At
<1>7. CASE FinishSome
  BY <1>7, FinishAllTypes DEF FinishSome
<1>8. IndexStep
  BY IndexSteps
<1> QED BY <1>1, <1>2, <1>3, <1>4, <1>5, <1>6, <1>7, <1>8 DEF IndexStep

LEMMA UpgradeTypesKept ==
    ASSUME UpgradeTypes, [WsNext]_wsAll
    PROVE  UpgradeTypes'
<1> USE DEF UpgradeTypes
<1>1. up' \in [Sockets -> Ups]
  <2>1. CASE up' = up
    BY <2>1
  <2>2. CASE \E w \in Sockets, u \in Ups : Goto(w, u)
    BY <2>2 DEF Goto
  <2>3. ASSUME NEW w \in Sockets, Handler(w) \/ Reserve(w) \/ UpgradeDropped(w) \/ PeerDisconnect(w)
        PROVE  \E v \in Sockets, u \in Ups : Goto(v, u)
    BY <2>3 DEF Handler, Reserve, UpgradeDropped, SelectRefused, Select, ConnectWrite, ConnectInsert,
                ConnectTimeout, ConnectRefused, ConnectAccepted, AdmitRefused, Admit, Register,
                UpgradeEnds, PeerStarts, AttachGeneration, AttachRecord, ReaderEnds, PeerDisconnect,
                Fail, Ups
  <2>4. CASE UNCHANGED wsAll \/ SessionMoves \/ \E c \in Connections : Consumer(c)
    BY <2>4 DEF wsAll, wsVars, SessionMoves, Consumer, ConsumeBegin, ConsumeEnd
  <2>5. ASSUME NEW w \in Sockets,
               \/ Finalizer(w)
               \/ (\E a \in Accepts \cup {Rejected, Unavailable} : ConnectAnswered(w, a))
               \/ \E t \in {"protocolClose", "slowClient"} : Terminate(w, t)
        PROVE  up' = up
    BY <2>5 DEF Finalizer, Detach, Drain, ConnectAnswered, Terminate
  <2> QED BY <2>1, <2>2, <2>3, <2>4, <2>5 DEF WsNext
<1>2. /\ policy' \in [Sockets -> Accepts \cup {NoAnswer}]
      /\ runtime' \in [Sockets -> Connections \cup {NoConnection}]
      /\ answer' \in [Sockets -> Accepts \cup {Rejected, Unavailable, NoAnswer}]
  <2>1. CASE UNCHANGED <<policy, runtime, answer>>
    BY <2>1
  <2>2. CASE \E w \in Sockets : ConnectAccepted(w)
    BY <2>2 DEF ConnectAccepted
  <2>3. CASE \E w \in Sockets, c \in Connections : Select(w, c)
    BY <2>3 DEF Select
  <2>4. CASE \E w \in Sockets, a \in Accepts \cup {Rejected, Unavailable} : ConnectAnswered(w, a)
    BY <2>4 DEF ConnectAnswered
  <2>5. CASE \E c \in Connections : ConsumeBegin(c)
    BY <2>5 DEF ConsumeBegin
  <2>6. CASE UNCHANGED wsAll \/ SessionMoves \/ \E c \in Connections : ConsumeEnd(c)
    BY <2>6 DEF wsAll, wsVars, SessionMoves, ConsumeEnd, connectVars
  <2>7. ASSUME NEW w \in Sockets,
               \/ Reserve(w) \/ UpgradeDropped(w) \/ Finalizer(w) \/ PeerDisconnect(w)
               \/ (\E t \in {"protocolClose", "slowClient"} : Terminate(w, t))
               \/ SelectRefused(w) \/ ConnectWrite(w) \/ ConnectInsert(w) \/ ConnectTimeout(w)
               \/ ConnectRefused(w) \/ AdmitRefused(w) \/ Admit(w) \/ Register(w)
               \/ UpgradeEnds(w) \/ PeerStarts(w) \/ AttachGeneration(w) \/ AttachRecord(w)
               \/ ReaderEnds(w)
        PROVE  UNCHANGED <<policy, runtime, answer>>
    BY <2>7 DEF Reserve, UpgradeDropped, Finalizer, Detach, Drain, PeerDisconnect, Terminate,
                SelectRefused, ConnectWrite, ConnectInsert, ConnectTimeout, ConnectRefused,
                AdmitRefused, Admit, Register, UpgradeEnds, PeerStarts, AttachGeneration,
                AttachRecord, ReaderEnds, connectVars
  <2> QED BY <2>1, <2>2, <2>3, <2>4, <2>5, <2>6, <2>7 DEF WsNext, Consumer, Handler
<1>3. permits' \subseteq Sockets /\ connects' \subseteq Sockets /\ asked' \subseteq Sockets
  <2>1. CASE UNCHANGED wsAll \/ SessionMoves \/ \E c \in Connections : Consumer(c)
    BY <2>1 DEF wsAll, wsVars, SessionMoves, Consumer, ConsumeBegin, ConsumeEnd, connectVars
  <2>2. ASSUME NEW w \in Sockets,
               \/ Reserve(w) \/ UpgradeDropped(w) \/ Finalizer(w) \/ PeerDisconnect(w)
               \/ (\E t \in {"protocolClose", "slowClient"} : Terminate(w, t))
               \/ AdmitRefused(w) \/ Admit(w) \/ Register(w)
               \/ UpgradeEnds(w) \/ PeerStarts(w) \/ AttachGeneration(w) \/ AttachRecord(w)
               \/ ReaderEnds(w)
        PROVE  UNCHANGED connectVars
    BY <2>2 DEF Reserve, UpgradeDropped, Finalizer, Detach, Drain, PeerDisconnect, Terminate,
                AdmitRefused, Admit, Register, UpgradeEnds, PeerStarts, AttachGeneration,
                AttachRecord, ReaderEnds
  <2>3. ASSUME NEW w \in Sockets,
               \/ (\E a \in Accepts \cup {Rejected, Unavailable} : ConnectAnswered(w, a))
               \/ SelectRefused(w) \/ (\E c \in Connections : Select(w, c))
               \/ ConnectWrite(w) \/ ConnectInsert(w) \/ ConnectTimeout(w)
               \/ ConnectRefused(w) \/ ConnectAccepted(w)
        PROVE  permits' \subseteq permits \cup {w} /\ connects' \subseteq connects \cup {w} /\ asked' \subseteq asked \cup {w}
    BY <2>3 DEF ConnectAnswered, SelectRefused, Select, ConnectWrite, ConnectInsert, ConnectTimeout,
                ConnectRefused, ConnectAccepted, Fail
  <2> QED BY <2>1, <2>2, <2>3 DEF WsNext, Handler, connectVars
<1> QED BY <1>1, <1>2, <1>3

LEMMA PeerTypesKept ==
    ASSUME PeerTypes, [WsNext]_wsAll
    PROVE  PeerTypes'
<1> USE DEF PeerTypes
<1>1. CASE UNCHANGED wsAll \/ SessionMoves \/ \E c \in Connections : Consumer(c)
  BY <1>1 DEF wsAll, wsVars, SessionMoves, Consumer, ConsumeBegin, ConsumeEnd
<1>2. ASSUME NEW w \in Sockets,
             \/ Reserve(w) \/ UpgradeDropped(w) \/ PeerDisconnect(w)
             \/ (\E t \in {"protocolClose", "slowClient"} : Terminate(w, t))
             \/ (\E a \in Accepts \cup {Rejected, Unavailable} : ConnectAnswered(w, a))
             \/ SelectRefused(w) \/ (\E c \in Connections : Select(w, c))
             \/ ConnectWrite(w) \/ ConnectInsert(w) \/ ConnectTimeout(w)
             \/ ConnectRefused(w) \/ ConnectAccepted(w)
             \/ AdmitRefused(w) \/ Admit(w) \/ PeerStarts(w)
      PROVE  UNCHANGED <<pins, gens, socket, notified, closing>>
  BY <1>2 DEF Reserve, UpgradeDropped, PeerDisconnect, Terminate, ConnectAnswered, SelectRefused,
              Select, ConnectWrite, ConnectInsert, ConnectTimeout, ConnectRefused, ConnectAccepted,
              AdmitRefused, Admit, PeerStarts
<1>3. ASSUME NEW w \in Sockets, Register(w) \/ AttachGeneration(w) \/ Detach(w) \/ Drain(w)
      PROVE  PeerTypes'
  BY <1>3 DEF Register, AttachGeneration, Detach, Drain
<1>4. ASSUME NEW w \in Sockets, UpgradeEnds(w) \/ ReaderEnds(w) \/ AttachRecord(w)
      PROVE  PeerTypes'
  BY <1>4 DEF UpgradeEnds, ReaderEnds, AttachRecord, Unregister
<1> QED BY <1>1, <1>2, <1>3, <1>4 DEF WsNext, Handler, Finalizer
----------------------------------------------------------------------------
(* The socket invariant *)

LEMMA FitsFinished ==
    ASSUME NEW u \in Ups, NEW r \in Records, NEW f, NEW t, NEW p, NEW t2,
           Fits(u, r, f, t, p), r \in {"Admitted", "Attached"}
    PROVE  Fits(u, "none", IF r = "Attached" THEN "detach" ELSE f, t2, p)
BY DEF Fits, Ups, Records, Waiting, Opening

\* The record of a handler that stops waiting is finished with its failure.
LEMMA FitsFailed ==
    ASSUME NEW u \in Waiting, NEW r \in Records, NEW f, NEW t, NEW p, NEW t2,
           NEW u2 \in {"ended", "refused"}, Fits(u, r, f, t, p)
    PROVE  r = "Reserved" /\ f = "none" /\ Fits(u2, "none", f, t2, p)
BY DEF Fits, Records, Waiting, Opening

\* A socket that a step leaves alone.
Untouched(v) ==
    /\ up'[v] = up[v] /\ rec'[v] = rec[v] /\ fin'[v] = fin[v]
    /\ terminal'[v] = terminal[v] /\ policy'[v] = policy[v]

LEMMA UntouchedFits ==
    ASSUME NEW v \in Sockets, SocketInv(v), Untouched(v)
    PROVE  SocketInv(v)'
BY DEF SocketInv, Untouched

LEMMA FinishOne ==
    ASSUME IndexTypes, NEW w \in Sockets, NEW t, Finish(w, t)
    PROVE  /\ \A v \in Sockets \ {w} : rec'[v] = rec[v] /\ fin'[v] = fin[v] /\ terminal'[v] = terminal[v]
           /\ rec[w] # "none" => /\ rec'[w] = "none" /\ terminal'[w] = t
                                 /\ fin'[w] = IF rec[w] = "Attached" THEN "detach" ELSE fin[w]
           /\ rec[w] = "none" => rec'[w] = "none" /\ terminal'[w] = terminal[w] /\ fin'[w] = fin[w]
<1>1. PICK S : S = {w} \cap {v \in Sockets : Indexed(v)}
  OBVIOUS
<1>2. /\ \A v \in Sockets \ {w} : v \notin S
      /\ rec[w] # "none" <=> w \in S
  BY <1>1 DEF Indexed
<1>3. FinishAll(S, t, highWater)
  BY <1>1 DEF Finish
<1>4. \A v \in Sockets : /\ rec'[v] = IF v \in S THEN "none" ELSE rec[v]
                         /\ terminal'[v] = IF v \in S THEN t ELSE terminal[v]
                         /\ fin'[v] = IF v \in S /\ rec[v] = "Attached" THEN "detach" ELSE fin[v]
  BY <1>3 DEF FinishAll
<1> QED BY <1>2, <1>4

LEMMA GotoOne ==
    ASSUME UpgradeTypes, NEW w \in Sockets, NEW u, Goto(w, u)
    PROVE  up'[w] = u /\ \A v \in Sockets \ {w} : up'[v] = up[v]
BY DEF UpgradeTypes, Goto

\* The handler fails the reservation it waits with.
LEMMA FailFits ==
    ASSUME IndexTypes, UpgradeTypes, NEW w \in Sockets, SocketInv(w), up[w] \in Waiting,
           NEW t, NEW u \in {"ended", "refused"}, Finish(w, t), Goto(w, u), UNCHANGED policy,
           NEW v \in Sockets, SocketInv(v)
    PROVE  SocketInv(v)'
<1>1. CASE v # w
  <2>1. up'[v] = up[v]
    BY <1>1, GotoOne
  <2>2. rec'[v] = rec[v] /\ fin'[v] = fin[v] /\ terminal'[v] = terminal[v]
    BY <1>1, FinishOne
  <2> QED BY <2>1, <2>2, UntouchedFits DEF Untouched
<1>2. CASE v = w
  <2>1. rec[w] \in Records
    BY DEF IndexTypes
  <2>2. rec[w] = "Reserved" /\ fin[w] = "none" /\ Fits(u, "none", fin[w], t, policy[w])
    BY <2>1, FitsFailed DEF SocketInv
  <2>3. up'[w] = u
    BY GotoOne
  <2>4. rec'[w] = "none" /\ fin'[w] = fin[w] /\ terminal'[w] = t
    BY <2>2, FinishOne
  <2> QED BY <1>2, <2>2, <2>3, <2>4 DEF SocketInv
<1> QED BY <1>1, <1>2

\* A handler or peer task moves on and leaves the index alone.
LEMMA MoveFits ==
    ASSUME UpgradeTypes, NEW w \in Sockets, NEW u, Goto(w, u),
           Fits(u, rec[w], fin[w], terminal[w], policy[w]),
           UNCHANGED <<rec, fin, terminal, policy>>,
           NEW v \in Sockets, SocketInv(v)
    PROVE  SocketInv(v)'
<1>1. CASE v # w
  <2>1. up'[v] = up[v]
    BY <1>1, GotoOne
  <2> QED BY <2>1, UntouchedFits DEF Untouched
<1>2. CASE v = w
  <2>1. up'[w] = u
    BY GotoOne
  <2> QED BY <1>2, <2>1 DEF SocketInv
<1> QED BY <1>1, <1>2

\* Where a handler or peer task may move on to without the index.
LEMMA FitsMove ==
    ASSUME NEW u \in Ups, NEW r \in Records, NEW f, NEW t, NEW p, Fits(u, r, f, t, p)
    PROVE  /\ u = "reserved" => Fits("selected", r, f, t, p)
           /\ u = "selected" => Fits("written", r, f, t, p)
           /\ u = "written" => Fits("connecting", r, f, t, p)
           /\ u = "connecting" => Fits("ended", r, f, t, p)
           /\ u = "admitted" => Fits("registered", r, f, t, p)
           /\ u = "refused" => Fits("refusedRegistered", r, f, t, p)
           /\ u \in {"registered", "refusedRegistered", "leaving"} => Fits("ended", r, f, t, p)
           /\ u = "registered" => Fits("starting", r, f, t, p)
           /\ u = "starting" => Fits("attaching", r, f, t, p)
           /\ u = "attaching" /\ r = "none" => Fits("ended", r, f, t, p)
BY DEF Fits, Ups, Records, Waiting, Opening
LEMMA ExistingElems ==
    ASSUME order \in [Keys -> Seq(Sockets)], NEW k \in Keys
    PROVE  Existing(k) = Elems(order[k]) /\ Elems(order[k]) \subseteq Sockets
<1>1. PICK s \in Seq(Sockets) : s = order[k]
  OBVIOUS
<1>2. DOMAIN s = 1 .. Len(s) /\ \A i \in 1 .. Len(s) : s[i] \in Sockets
  OBVIOUS
<1> QED BY <1>1, <1>2 DEF Existing, Elems, FirstOnes

\* What an admission replaces is in the order of its key, and alive.
LEMMA ReplacedLive ==
    ASSUME IndexTypes, NEW a \in Accepts, a.key \in Keys, OrderInv(a.key)
    PROVE  /\ Replaced(a) \subseteq Elems(order[a.key])
           /\ \A v \in Replaced(a) : v \in Sockets /\ Live(v) /\ policy[v].key = a.key
<1>1. Replaced(a) \subseteq Elems(order[a.key])
  <2>1. Existing(a.key) = Elems(order[a.key])
    BY ExistingElems DEF IndexTypes
  <2>2. PICK n \in Nat : n = Len(order[a.key])
    BY DEF IndexTypes
  <2>3. a.max \in Nat \ {0}
    BY AcceptanceTypes
  <2>4. 1 .. (n + 1 - a.max) \subseteq 1 .. n
    BY <2>3
  <2>5. {order[a.key][i] : i \in 1 .. (n + 1 - a.max)} \subseteq {order[a.key][i] : i \in 1 .. n}
    BY <2>4
  <2> QED BY <2>1, <2>2, <2>5 DEF Replaced, Elems, FirstOnes
<1>2. Elems(order[a.key]) \subseteq Sockets
  BY ExistingElems DEF IndexTypes
<1> QED BY <1>1, <1>2 DEF OrderInv

\* The effect of an admission, socket by socket; a is the acceptance, out what it
\* replaces.
LEMMA AdmitEffect ==
    ASSUME IndexTypes, UpgradeTypes, NEW w \in Sockets, SocketInv(w), Admit(w),
           \A k \in Keys : OrderInv(k)
    PROVE  \E a \in Accepts, out \in SUBSET Sockets :
              /\ a = policy[w] /\ out = (IF a.key = NoKey THEN {} ELSE Replaced(a)) /\ ~Refused(a)
              /\ rec[w] = "Reserved" /\ up[w] = "accepted" /\ up'[w] = "admitted" /\ w \notin out
              /\ \A v \in out : Live(v) /\ policy[v].key = a.key /\ a.key \in Keys
              /\ \A v \in Sockets : /\ v # w => up'[v] = up[v]
                                    /\ policy'[v] = policy[v]
                                    /\ terminal'[v] = IF v \in out THEN "replacement" ELSE terminal[v]
                                    /\ rec'[v] = IF v = w THEN "Admitted" ELSE IF v \in out THEN "none" ELSE rec[v]
                                    /\ fin'[v] = IF v \in out /\ rec[v] = "Attached" THEN "detach" ELSE fin[v]
              /\ \A k \in Keys : order'[k] = IF k = a.key THEN Append(Without(order[k], out), w) ELSE order[k]
<1>1. up[w] = "accepted" /\ ~Refused(policy[w])
  BY DEF Admit, At
<1>2. policy[w] \in Accepts /\ rec[w] = "Reserved"
  BY <1>1 DEF SocketInv, Fits, Waiting
<1>3. PICK a \in Accepts : a = policy[w]
  BY <1>2
<1>4. PICK out : out = IF a.key = NoKey THEN {} ELSE Replaced(a)
  OBVIOUS
<1>5. a.key # NoKey => a.key \in Keys
  BY AcceptanceTypes
<1>6. \A v \in out : v \in Sockets /\ Live(v) /\ policy[v].key = a.key /\ a.key \in Keys
  BY <1>4, <1>5, ReplacedLive
<1>7. out \in SUBSET Sockets /\ w \notin out
  BY <1>2, <1>6 DEF Live
<1>8. up'[w] = "admitted" /\ \A v \in Sockets \ {w} : up'[v] = up[v]
  <2>1. Goto(w, "admitted")
    BY DEF Admit
  <2> QED BY <2>1, GotoOne
<1>9. UNCHANGED policy
  BY DEF Admit
<1>10. /\ terminal' = [v \in Sockets |-> IF v \in out THEN "replacement" ELSE terminal[v]]
       /\ rec' = [v \in Sockets |-> IF v = w THEN "Admitted" ELSE IF v \in out THEN "none" ELSE rec[v]]
       /\ fin' = [v \in Sockets |-> IF v \in out /\ rec[v] = "Attached" THEN "detach" ELSE fin[v]]
       /\ order' = [k \in Keys |-> IF k = a.key THEN Append(Without(order[k], out), w) ELSE order[k]]
  BY <1>3, <1>4, Zenon DEF Admit
<1>11. /\ \A v \in Sockets : /\ terminal'[v] = IF v \in out THEN "replacement" ELSE terminal[v]
                             /\ rec'[v] = IF v = w THEN "Admitted" ELSE IF v \in out THEN "none" ELSE rec[v]
                             /\ fin'[v] = IF v \in out /\ rec[v] = "Attached" THEN "detach" ELSE fin[v]
       /\ \A k \in Keys : order'[k] = IF k = a.key THEN Append(Without(order[k], out), w) ELSE order[k]
  BY <1>10
<1> QED BY <1>1, <1>2, <1>3, <1>4, <1>6, <1>7, <1>8, <1>9, <1>11

LEMMA SocketKept ==
    ASSUME IndexTypes, UpgradeTypes, \A w \in Sockets : SocketInv(w), \A k \in Keys : OrderInv(k),
           [WsNext]_wsAll, NEW v \in Sockets
    PROVE  SocketInv(v)'
<1>0. SocketInv(v) /\ \A w \in Sockets : up[w] \in Ups /\ rec[w] \in Records
  BY DEF IndexTypes, UpgradeTypes
<1>1. CASE UNCHANGED wsAll \/ SessionMoves \/ \E c \in Connections : ConsumeBegin(c)
  BY <1>0, <1>1, UntouchedFits DEF Untouched, wsAll, wsVars, indexVars, SessionMoves, ConsumeBegin
<1>2. CASE \E c \in Connections : ConsumeEnd(c)
  <2>1. PICK c \in Connections : ConsumeEnd(c)
    BY <1>2
  <2>2. PICK S : S = {w \in Pinned(c) : rec[w] = "Attached"}
    OBVIOUS
  <2>3. FinishAll(S, "runtimeDisconnect", highWater) /\ UNCHANGED <<up, policy>>
    BY <2>1, <2>2 DEF ConsumeEnd
  <2>4. /\ rec'[v] = IF v \in S THEN "none" ELSE rec[v]
        /\ terminal'[v] = IF v \in S THEN "runtimeDisconnect" ELSE terminal[v]
        /\ fin'[v] = IF v \in S /\ rec[v] = "Attached" THEN "detach" ELSE fin[v]
    BY <2>3 DEF FinishAll
  <2>5. CASE v \in S
    <3>1. rec[v] = "Attached"
      BY <2>2, <2>5
    <3>2. Fits(up[v], "none", IF rec[v] = "Attached" THEN "detach" ELSE fin[v], "runtimeDisconnect", policy[v])
      BY <1>0, <3>1, FitsFinished DEF SocketInv
    <3> QED BY <2>3, <2>4, <2>5, <3>1, <3>2 DEF SocketInv
  <2>6. CASE v \notin S
    BY <1>0, <2>3, <2>4, <2>6, UntouchedFits DEF Untouched
  <2> QED BY <2>5, <2>6
<1>3. ASSUME NEW w \in Sockets, Reserve(w) PROVE SocketInv(v)'
  <2>1. up[w] = "new" /\ Goto(w, "reserved") /\ UNCHANGED <<terminal, fin, policy>>
    BY <1>3 DEF Reserve, At
  <2>2. rec'[w] = "Reserved" /\ \A x \in Sockets \ {w} : rec'[x] = rec[x]
    BY <1>3 DEF Reserve, IndexTypes
  <2>3. up'[w] = "reserved" /\ \A x \in Sockets \ {w} : up'[x] = up[x]
    BY <2>1, GotoOne
  <2>4. CASE v = w
    <3>1. SocketInv(w)
      OBVIOUS
    <3> QED BY <2>1, <2>2, <2>3, <2>4, <3>1 DEF SocketInv, Fits, Waiting, Opening
  <2>5. CASE v # w
    BY <1>0, <2>1, <2>2, <2>3, <2>5, UntouchedFits DEF Untouched
  <2> QED BY <2>4, <2>5
<1>4. ASSUME NEW w \in Sockets,
             \/ UpgradeDropped(w) \/ (\E c \in Connections : Select(w, c)) \/ ConnectInsert(w)
             \/ (ConnectWrite(w) /\ Goto(w, "written"))
             \/ Register(w) \/ UpgradeEnds(w) \/ PeerStarts(w) \/ AttachGeneration(w)
             \/ ReaderEnds(w) \/ (AttachRecord(w) /\ ~Indexed(w))
      PROVE  SocketInv(v)'
  <2>1. SocketInv(w)
    OBVIOUS
  <2>2. \E u \in Ups : Goto(w, u) /\ Fits(u, rec[w], fin[w], terminal[w], policy[w])
    <3>0. up[w] \in Ups /\ rec[w] \in Records /\ Fits(up[w], rec[w], fin[w], terminal[w], policy[w])
      BY <1>0, <2>1 DEF SocketInv
    <3>1. CASE UpgradeDropped(w)
      <4>1. Goto(w, "ended") /\ up[w] = "connecting" /\ "ended" \in Ups
        BY <3>1 DEF UpgradeDropped, At, Ups
      <4> QED BY <3>0, <4>1, FitsMove
    <3>2. CASE \E c \in Connections : Select(w, c)
      <4>1. Goto(w, "selected") /\ up[w] = "reserved" /\ "selected" \in Ups
        BY <3>2 DEF Select, At, Ups
      <4> QED BY <3>0, <4>1, FitsMove
    <3>3. CASE ConnectInsert(w)
      <4>1. Goto(w, "connecting") /\ up[w] = "written" /\ "connecting" \in Ups
        BY <3>3 DEF ConnectInsert, At, Ups
      <4> QED BY <3>0, <4>1, FitsMove
    <3>4. CASE ConnectWrite(w) /\ Goto(w, "written")
      <4>1. Goto(w, "written") /\ up[w] = "selected" /\ "written" \in Ups
        BY <3>4 DEF ConnectWrite, At, Ups
      <4> QED BY <3>0, <4>1, FitsMove
    <3>5. CASE Register(w)
      <4>1. \/ up[w] = "admitted" /\ Goto(w, "registered")
            \/ up[w] = "refused" /\ Goto(w, "refusedRegistered")
        BY <3>5 DEF Register, At
      <4>2. "registered" \in Ups /\ "refusedRegistered" \in Ups
        BY DEF Ups
      <4> QED BY <3>0, <4>1, <4>2, FitsMove
    <3>6. CASE UpgradeEnds(w) \/ ReaderEnds(w)
      <4>1. up[w] \in {"registered", "refusedRegistered", "leaving"} /\ Goto(w, "ended") /\ "ended" \in Ups
        BY <3>6 DEF UpgradeEnds, ReaderEnds, At, Ups
      <4> QED BY <3>0, <4>1, FitsMove
    <3>7. CASE PeerStarts(w)
      <4>1. up[w] = "registered" /\ (Goto(w, "starting") \/ Goto(w, "ended"))
        BY <3>7 DEF PeerStarts, At
      <4>2. "starting" \in Ups /\ "ended" \in Ups
        BY DEF Ups
      <4> QED BY <3>0, <4>1, <4>2, FitsMove
    <3>8. CASE AttachGeneration(w)
      <4>1. up[w] = "starting" /\ Goto(w, "attaching") /\ "attaching" \in Ups
        BY <3>8 DEF AttachGeneration, At, Ups
      <4> QED BY <3>0, <4>1, FitsMove
    <3>9. CASE AttachRecord(w) /\ ~Indexed(w)
      <4>1. up[w] = "attaching" /\ rec[w] = "none" /\ Goto(w, "ended") /\ "ended" \in Ups
        BY <3>9 DEF AttachRecord, At, Indexed, Ups
      <4> QED BY <3>0, <4>1, FitsMove
    <3> QED BY <1>4, <3>1, <3>2, <3>3, <3>4, <3>5, <3>6, <3>7, <3>8, <3>9
  <2>3. UNCHANGED <<rec, fin, terminal, policy>>
    <3>1. CASE ConnectWrite(w) /\ Goto(w, "written")
      <4>1. ~Goto(w, "ended")
        BY <1>0, <3>1, GotoOne
      <4> QED BY <3>1, <4>1 DEF ConnectWrite, Fail, indexVars
    <3>2. CASE ~ConnectWrite(w)
      BY <1>4, <3>2 DEF UpgradeDropped, Select, ConnectInsert, Register, UpgradeEnds, PeerStarts,
                        AttachGeneration, ReaderEnds, AttachRecord, indexVars
    <3>3. CASE ConnectWrite(w) /\ ~Goto(w, "written")
      BY <1>4, <3>3 DEF UpgradeDropped, Select, ConnectInsert, Register, UpgradeEnds, PeerStarts,
                        AttachGeneration, ReaderEnds, AttachRecord, indexVars
    <3> QED BY <3>1, <3>2, <3>3
  <2> QED BY <1>0, <2>2, <2>3, MoveFits
<1>5. ASSUME NEW w \in Sockets,
             \/ SelectRefused(w) \/ (ConnectWrite(w) /\ ~Goto(w, "written")) \/ ConnectTimeout(w)
             \/ ConnectRefused(w) \/ AdmitRefused(w)
      PROVE  SocketInv(v)'
  <2>1. SocketInv(w) /\ up[w] \in Waiting /\ UNCHANGED policy
    BY <1>5 DEF SelectRefused, ConnectWrite, ConnectTimeout, ConnectRefused, AdmitRefused, At, Waiting
  <2>2. \E t \in Terminals, u \in {"ended", "refused"} : Finish(w, t) /\ Goto(w, u)
    BY <1>5 DEF SelectRefused, ConnectWrite, ConnectTimeout, ConnectRefused, AdmitRefused, Fail,
                Terminals
  <2> QED BY <1>0, <2>1, <2>2, FailFits
<1>6. ASSUME NEW w \in Sockets, ConnectAccepted(w) PROVE SocketInv(v)'
  <2>1. /\ up[w] = "connecting" /\ answer[w] \in Accepts /\ Goto(w, "accepted")
        /\ UNCHANGED <<rec, terminal, fin>>
    BY <1>6 DEF ConnectAccepted, At, indexVars
  <2>2. policy'[w] = answer[w] /\ \A x \in Sockets \ {w} : policy'[x] = policy[x]
    BY <1>6 DEF ConnectAccepted, UpgradeTypes
  <2>3. up'[w] = "accepted" /\ \A x \in Sockets \ {w} : up'[x] = up[x]
    BY <2>1, GotoOne
  <2>4. CASE v = w
    <3>1. SocketInv(w)
      OBVIOUS
    <3> QED BY <2>1, <2>2, <2>3, <2>4, <3>1 DEF SocketInv, Fits, Waiting, Opening
  <2>5. CASE v # w
    BY <1>0, <2>1, <2>2, <2>3, <2>5, UntouchedFits DEF Untouched
  <2> QED BY <2>4, <2>5
<1>7. ASSUME NEW w \in Sockets, AttachRecord(w), Indexed(w) PROVE SocketInv(v)'
  <2>1. up[w] = "attaching" /\ rec[w] # "none" /\ Goto(w, "reading") /\ UNCHANGED <<terminal, fin, policy>>
    BY <1>7 DEF AttachRecord, At, Indexed
  <2>2. rec'[w] = "Attached" /\ \A x \in Sockets \ {w} : rec'[x] = rec[x]
    BY <1>7 DEF AttachRecord, IndexTypes
  <2>3. up'[w] = "reading" /\ \A x \in Sockets \ {w} : up'[x] = up[x]
    BY <2>1, GotoOne
  <2>4. CASE v = w
    <3>1. SocketInv(w) /\ rec[w] \in Records
      BY <1>0
    <3> QED BY <2>1, <2>2, <2>3, <2>4, <3>1 DEF SocketInv, Fits, Waiting, Opening, Records
  <2>5. CASE v # w
    BY <1>0, <2>1, <2>2, <2>3, <2>5, UntouchedFits DEF Untouched
  <2> QED BY <2>4, <2>5
<1>8. ASSUME NEW w \in Sockets, Admit(w) PROVE SocketInv(v)'
  <2>1. PICK a \in Accepts, out \in SUBSET Sockets :
              /\ a = policy[w] /\ rec[w] = "Reserved" /\ up[w] = "accepted" /\ up'[w] = "admitted"
              /\ w \notin out /\ \A x \in out : Live(x)
              /\ \A x \in Sockets :
                    /\ x # w => up'[x] = up[x]
                    /\ policy'[x] = policy[x]
                    /\ terminal'[x] = IF x \in out THEN "replacement" ELSE terminal[x]
                    /\ rec'[x] = IF x = w THEN "Admitted" ELSE IF x \in out THEN "none" ELSE rec[x]
                    /\ fin'[x] = IF x \in out /\ rec[x] = "Attached" THEN "detach" ELSE fin[x]
    BY <1>8, AdmitEffect
  <2>2. CASE v = w
    <3>1. SocketInv(w)
      OBVIOUS
    <3> QED BY <2>1, <2>2, <3>1 DEF SocketInv, Fits, Waiting, Opening
  <2>3. CASE v \in out
    <3>1. Fits(up[v], "none", IF rec[v] = "Attached" THEN "detach" ELSE fin[v], "replacement", policy[v])
      BY <1>0, <2>1, <2>3, FitsFinished DEF SocketInv, Live
    <3>2. /\ up'[v] = up[v] /\ rec'[v] = "none" /\ terminal'[v] = "replacement" /\ policy'[v] = policy[v]
          /\ fin'[v] = IF rec[v] = "Attached" THEN "detach" ELSE fin[v]
      BY <2>1, <2>3
    <3> QED BY <3>1, <3>2 DEF SocketInv
  <2>4. CASE v # w /\ v \notin out
    BY <1>0, <2>1, <2>4, UntouchedFits DEF Untouched
  <2> QED BY <2>2, <2>3, <2>4
<1>9. ASSUME NEW w \in Sockets, NEW t, Terminate(w, t) PROVE SocketInv(v)'
  <2>1. Finish(w, t) /\ rec[w] = "Attached" /\ up' = up /\ policy' = policy
    BY <1>9 DEF Terminate
  <2>2. CASE v = w
    <3>1. rec'[v] = "none" /\ terminal'[v] = t /\ fin'[v] = "detach"
      BY <2>1, <2>2, FinishOne
    <3>2. Fits(up[v], "none", IF rec[v] = "Attached" THEN "detach" ELSE fin[v], t, policy[v])
      BY <1>0, <2>1, <2>2, FitsFinished DEF SocketInv
    <3> QED BY <2>1, <2>2, <3>1, <3>2 DEF SocketInv
  <2>3. CASE v # w
    <3>1. rec'[v] = rec[v] /\ fin'[v] = fin[v] /\ terminal'[v] = terminal[v]
      BY <2>1, <2>3, FinishOne
    <3> QED BY <1>0, <2>1, <3>1, UntouchedFits DEF Untouched
  <2> QED BY <2>2, <2>3
<1>10. ASSUME NEW w \in Sockets, PeerDisconnect(w) PROVE SocketInv(v)'
  <2>1. Finish(w, "peerClose") /\ up[w] = "reading" /\ Goto(w, "leaving") /\ policy' = policy
    BY <1>10 DEF PeerDisconnect, At
  <2>2. up'[w] = "leaving" /\ \A x \in Sockets \ {w} : up'[x] = up[x]
    BY <2>1, GotoOne
  <2>3. CASE v = w
    <3>1. /\ rec'[w] = "none"
          /\ rec[w] # "none" => terminal'[w] = "peerClose" /\ fin'[w] = IF rec[w] = "Attached" THEN "detach" ELSE fin[w]
          /\ rec[w] = "none" => terminal'[w] = terminal[w] /\ fin'[w] = fin[w]
      BY <2>1, FinishOne
    <3>2. Fits("leaving", "none", fin'[w], terminal'[w], policy[w])
      BY <1>0, <2>1, <2>3, <3>1 DEF SocketInv, Fits, Waiting, Opening
    <3> QED BY <2>1, <2>2, <2>3, <3>1, <3>2 DEF SocketInv
  <2>4. CASE v # w
    <3>1. rec'[v] = rec[v] /\ fin'[v] = fin[v] /\ terminal'[v] = terminal[v]
      BY <2>1, <2>4, FinishOne
    <3> QED BY <1>0, <2>1, <2>2, <2>4, <3>1, UntouchedFits DEF Untouched
  <2> QED BY <2>3, <2>4
<1>11. ASSUME NEW w \in Sockets, Finalizer(w) PROVE SocketInv(v)'
  <2>1. /\ fin[w] # "none" /\ fin'[w] # "none" /\ \A x \in Sockets \ {w} : fin'[x] = fin[x]
        /\ UNCHANGED <<up, rec, terminal, policy>>
    BY <1>11 DEF Finalizer, Detach, Drain, IndexTypes, indexVars
  <2>2. CASE v = w
    BY <1>0, <2>1, <2>2 DEF SocketInv, Fits
  <2>3. CASE v # w
    BY <1>0, <2>1, <2>3, UntouchedFits DEF Untouched
  <2> QED BY <2>2, <2>3
<1>12. ASSUME NEW w \in Sockets, NEW a, ConnectAnswered(w, a) PROVE SocketInv(v)'
  BY <1>0, <1>12, UntouchedFits DEF Untouched, ConnectAnswered, indexVars
<1> QED BY <1>1, <1>2, <1>3, <1>4, <1>5, <1>6, <1>7, <1>8, <1>9, <1>10, <1>11, <1>12
        DEF WsNext, Consumer, Handler
----------------------------------------------------------------------------
(* The business order *)

LEMMA EmptyElems ==
    ASSUME NEW s \in Seq(Sockets)
    PROVE  (Elems(s) = {} => Len(s) = 0) /\ (s = <<>> <=> Len(s) = 0)
<1>1. Len(s) \in Nat /\ (s = <<>> <=> Len(s) = 0)
  OBVIOUS
<1>2. ASSUME Len(s) # 0 PROVE s[1] \in Elems(s)
  BY <1>1, <1>2 DEF Elems, FirstOnes
<1> QED BY <1>1, <1>2

\* An order that stays, with the connections that are alive.
LEMMA OrderStays ==
    ASSUME NEW k \in Keys, OrderInv(k), LimitInv(k), order'[k] = order[k],
           \A v \in Sockets : (Live(v) /\ policy[v].key = k)' <=> (Live(v) /\ policy[v].key = k)
    PROVE  OrderInv(k)' /\ LimitInv(k)'
<1>1. PICK s : s = order[k] /\ s = order'[k]
  OBVIOUS
<1>2. Distinct(s) /\ \A v \in Sockets : v \in Elems(s) <=> (Live(v) /\ policy[v].key = k)
  BY <1>1 DEF OrderInv
<1>3. \A v \in Sockets : v \in Elems(s) <=> (Live(v) /\ policy[v].key = k)'
  BY <1>2
<1>4. OrderInv(k)'
  <2>1. Distinct(order[k])' /\ \A v \in Sockets : v \in Elems(order'[k]) <=> (Live(v) /\ policy[v].key = k)'
    BY <1>1, <1>2, <1>3
  <2> QED BY <2>1 DEF OrderInv
<1>5. LimitInv(k)'
  BY <1>1 DEF LimitInv
<1> QED BY <1>4, <1>5

LEMMA OrderFinished ==
    ASSUME IndexTypes, NEW k \in Keys, OrderInv(k), LimitInv(k), FinishSome, UNCHANGED policy
    PROVE  OrderInv(k)' /\ LimitInv(k)'
<1>1. PICK S \in SUBSET {v \in Sockets : Indexed(v)}, t \in Terminals : FinishAll(S, t, highWater)
  BY DEF FinishSome
<1>2. PICK s \in Seq(Sockets) : s = order[k]
  BY DEF IndexTypes
<1>3. PICK r \in Seq(Sockets) : r = Without(s, S)
  BY WithoutFacts
<1>4. Len(r) <= Len(s) /\ Elems(r) = Elems(s) \ S /\ (Distinct(s) => Distinct(r))
  BY <1>3, WithoutFacts
<1>5. order'[k] = r
  BY <1>1, <1>2, <1>3 DEF FinishAll
<1>6. Distinct(s) /\ \A v \in Sockets : v \in Elems(s) <=> (Live(v) /\ policy[v].key = k)
  BY <1>2 DEF OrderInv
<1>7. \A v \in Sockets : rec'[v] = IF v \in S THEN "none" ELSE rec[v]
  BY <1>1 DEF FinishAll
<1>8. \A v \in Sockets : v \in Elems(r) <=> (rec'[v] \in {"Admitted", "Attached"} /\ policy'[v].key = k)
  BY <1>4, <1>6, <1>7 DEF Live
<1>9. OrderInv(k)'
  BY <1>4, <1>5, <1>6, <1>8 DEF OrderInv, Live
<1>10. LimitInv(k)'
  <2>1. Len(r) \in Nat /\ Len(s) \in Nat
    OBVIOUS
  <2>2. CASE Len(s) = 0
    <3>1. Len(r) = 0
      BY <1>4, <2>1, <2>2
    <3> QED BY <1>5, <3>1 DEF LimitInv
  <2>3. CASE Len(s) # 0
    <3>1. PICK a \in Accepts : a.key = k /\ Len(s) <= a.max
      BY <1>2, <2>3 DEF LimitInv
    <3>2. a.max \in Nat
      BY AcceptanceTypes
    <3>3. Len(r) <= a.max
      BY <1>4, <2>1, <3>1, <3>2
    <3> QED BY <1>5, <3>1, <3>3 DEF LimitInv
  <2> QED BY <2>2, <2>3
<1> QED BY <1>9, <1>10

\* What is left of an order when an admission has replaced what it must: room for one.
LEMMA RoomLeft ==
    ASSUME IndexTypes, NEW a \in Accepts, a.key \in Keys, ~Refused(a)
    PROVE  Len(Without(order[a.key], Replaced(a))) + 1 <= a.max
<1>1. PICK s \in Seq(Sockets) : s = order[a.key]
  BY DEF IndexTypes
<1>2. PICK n \in Nat : n = Len(s)
  OBVIOUS
<1>3. a.max \in Nat \ {0} /\ a.overflow \in {"closeOldest", "rejectNew"}
  BY AcceptanceTypes
<1>4. Len(Without(s, Replaced(a))) \in Nat /\ Len(Without(s, Replaced(a))) <= n
  <2>1. PICK r \in Seq(Sockets) : r = Without(s, Replaced(a)) /\ Len(r) <= Len(s)
    BY WithoutFacts
  <2>2. Len(r) \in Nat
    OBVIOUS
  <2> QED BY <1>2, <2>1, <2>2
<1>5. CASE Ranked(a)
  <2>1. Replaced(a) = Elems(s)
    BY <1>1, <1>5, ExistingElems DEF Replaced, IndexTypes
  <2>2. PICK r \in Seq(Sockets) : r = Without(s, Replaced(a)) /\ Elems(r) = Elems(s) \ Replaced(a)
    BY WithoutFacts
  <2>3. Len(r) = 0
    BY <2>1, <2>2, EmptyElems
  <2> QED BY <1>1, <1>3, <2>2, <2>3
<1>6. CASE ~Ranked(a) /\ n + 1 > a.max
  <2>1. a.overflow = "closeOldest"
    <3>1. a.key # NoKey
      BY WsAssumption
    <3>2. ~PolicyRefuses(a)
      BY <3>1 DEF Refused
    <3>3. n >= a.max
      BY <1>3, <1>6
    <3> QED BY <1>1, <1>2, <1>3, <1>6, <3>2, <3>3 DEF PolicyRefuses
  <2>2. Replaced(a) = FirstOnes(s, n + 1 - a.max)
    BY <1>1, <1>2, <1>6, <2>1 DEF Replaced, FirstOnes
  <2>3. n + 1 - a.max \in 0 .. Len(s)
    BY <1>2, <1>3, <1>6
  <2>4. Len(Without(s, Replaced(a))) <= Len(s) - (n + 1 - a.max)
    BY <2>2, <2>3, WithoutFront
  <2> QED BY <1>1, <1>2, <1>3, <1>4, <2>4
<1>7. CASE n + 1 <= a.max
  BY <1>1, <1>3, <1>4, <1>7
<1> QED BY <1>3, <1>5, <1>6, <1>7

LEMMA OrderAdmitted ==
    ASSUME IndexTypes, UpgradeTypes, \A v \in Sockets : SocketInv(v),
           \A l \in Keys : OrderInv(l) /\ LimitInv(l),
           NEW w \in Sockets, Admit(w), NEW k \in Keys
    PROVE  OrderInv(k)' /\ LimitInv(k)'
<1>1. PICK a \in Accepts, out \in SUBSET Sockets :
           /\ a = policy[w] /\ out = (IF a.key = NoKey THEN {} ELSE Replaced(a)) /\ ~Refused(a)
           /\ rec[w] = "Reserved" /\ w \notin out
           /\ \A v \in out : Live(v) /\ policy[v].key = a.key
           /\ \A v \in Sockets :
                 /\ policy'[v] = policy[v]
                 /\ rec'[v] = IF v = w THEN "Admitted" ELSE IF v \in out THEN "none" ELSE rec[v]
           /\ \A l \in Keys : order'[l] = IF l = a.key THEN Append(Without(order[l], out), w) ELSE order[l]
  <2>1. \A l \in Keys : OrderInv(l)
    OBVIOUS
  <2> QED BY <2>1, AdmitEffect
<1>2. CASE k # a.key
  <2>1. order'[k] = order[k]
    BY <1>1, <1>2
  <2>2. \A v \in Sockets : (Live(v) /\ policy[v].key = k)' <=> (Live(v) /\ policy[v].key = k)
    BY <1>1, <1>2 DEF Live
  <2> QED BY <2>1, <2>2, OrderStays
<1>3. CASE k = a.key
  <2>1. out = Replaced(a) /\ a.key # NoKey
    BY <1>1, <1>3, WsAssumption
  <2>2. PICK s \in Seq(Sockets) : s = order[k]
    BY DEF IndexTypes
  <2>3. PICK r \in Seq(Sockets) : /\ r = Without(s, out) /\ Elems(r) = Elems(s) \ out
                                  /\ Distinct(s) => Distinct(r)
    BY WithoutFacts
  <2>4. order'[k] = Append(r, w)
    BY <1>1, <1>3, <2>2, <2>3
  <2>5. Distinct(s) /\ \A v \in Sockets : v \in Elems(s) <=> (Live(v) /\ policy[v].key = k)
    BY <2>2 DEF OrderInv
  <2>6. w \notin Elems(r)
    BY <1>1, <2>3, <2>5 DEF Live
  <2>7. PICK q \in Seq(Sockets) : /\ q = Append(r, w) /\ Elems(q) = Elems(r) \cup {w}
                                  /\ Len(q) = Len(r) + 1 /\ Distinct(q)
    <3>1. Append(r, w) \in Seq(Sockets)
      OBVIOUS
    <3>2. /\ Elems(Append(r, w)) = Elems(r) \cup {w} /\ Len(Append(r, w)) = Len(r) + 1
          /\ Distinct(r) /\ w \notin Elems(r) => Distinct(Append(r, w))
      BY AppendFacts
    <3> QED BY <2>3, <2>5, <2>6, <3>1, <3>2
  <2>8. \A v \in Sockets : v \in Elems(q) <=> (rec'[v] \in {"Admitted", "Attached"} /\ policy'[v].key = k)
    BY <1>1, <1>3, <2>3, <2>5, <2>7 DEF Live
  <2>9. OrderInv(k)'
    BY <2>4, <2>7, <2>8 DEF OrderInv, Live
  <2>10. Len(q) <= a.max
    BY <1>1, <1>3, <2>1, <2>2, <2>3, <2>7, RoomLeft
  <2>11. LimitInv(k)'
    BY <1>3, <2>4, <2>7, <2>10 DEF LimitInv
  <2> QED BY <2>9, <2>11
<1> QED BY <1>2, <1>3

LEMMA OrderKept ==
    ASSUME IndexTypes, UpgradeTypes, \A w \in Sockets : SocketInv(w),
           \A k \in Keys : OrderInv(k) /\ LimitInv(k), [WsNext]_wsAll, NEW k \in Keys
    PROVE  OrderInv(k)' /\ LimitInv(k)'
<1>1. CASE UNCHANGED <<rec, terminal, order, highWater, policy>>
  BY <1>1, OrderStays DEF Live
<1>2. CASE \E w \in Sockets : ConnectAccepted(w)
  <2>1. PICK w \in Sockets : ConnectAccepted(w)
    BY <1>2
  <2>2. UNCHANGED <<rec, order>> /\ \A x \in Sockets \ {w} : policy'[x] = policy[x]
    BY <2>1 DEF ConnectAccepted, indexVars, UpgradeTypes
  <2>3. rec[w] = "Reserved"
    BY <2>1 DEF ConnectAccepted, At, SocketInv, Fits, Waiting
  <2>4. \A v \in Sockets : (Live(v) /\ policy[v].key = k)' <=> (Live(v) /\ policy[v].key = k)
    BY <2>2, <2>3 DEF Live
  <2> QED BY <2>2, <2>4, OrderStays
<1>3. CASE \E w \in Sockets : Reserve(w)
  <2>1. PICK w \in Sockets : Reserve(w)
    BY <1>3
  <2>2. UNCHANGED <<policy, order>> /\ rec'[w] = "Reserved" /\ \A x \in Sockets \ {w} : rec'[x] = rec[x]
    BY <2>1 DEF Reserve, IndexTypes
  <2>3. rec[w] = "none"
    BY <2>1 DEF Reserve, At, SocketInv, Fits
  <2>4. \A v \in Sockets : (Live(v) /\ policy[v].key = k)' <=> (Live(v) /\ policy[v].key = k)
    BY <2>2, <2>3 DEF Live
  <2> QED BY <2>2, <2>4, OrderStays
<1>4. CASE \E w \in Sockets : AttachRecord(w)
  <2>1. PICK w \in Sockets : AttachRecord(w)
    BY <1>4
  <2>2. /\ UNCHANGED <<policy, order>> /\ up[w] = "attaching"
        /\ IF Indexed(w) THEN rec' = [rec EXCEPT ![w] = "Attached"] ELSE rec' = rec
    BY <2>1 DEF AttachRecord, At
  <2>3. Indexed(w) => rec[w] = "Admitted"
    <3>1. SocketInv(w) /\ rec[w] \in Records
      BY DEF IndexTypes
    <3> QED BY <2>2, <3>1 DEF SocketInv, Fits, Waiting, Opening, Records, Indexed
  <2>4. \A v \in Sockets : (Live(v) /\ policy[v].key = k)' <=> (Live(v) /\ policy[v].key = k)
    BY <2>2, <2>3 DEF Live, IndexTypes
  <2> QED BY <2>2, <2>4, OrderStays
<1>5. CASE \E w \in Sockets : Admit(w)
  BY <1>5, OrderAdmitted
<1>6. CASE FinishSome /\ UNCHANGED policy
  BY <1>6, OrderFinished
<1>7. IndexStep
  BY IndexSteps
<1> QED BY <1>1, <1>2, <1>3, <1>4, <1>5, <1>6, <1>7 DEF IndexStep
----------------------------------------------------------------------------
(* The limits of the index *)

LEMMA FewerStillFit ==
    ASSUME NEW A, NEW B, NEW n \in Nat, IsFiniteSet(A), Cardinality(A) <= n, B \subseteq A
    PROVE  IsFiniteSet(B) /\ Cardinality(B) <= n
<1>1. IsFiniteSet(B) /\ Cardinality(B) <= Cardinality(A)
  BY FS_Subset
<1>2. Cardinality(A) \in Nat /\ Cardinality(B) \in Nat
  BY <1>1, FS_CardinalityType
<1> QED BY <1>1, <1>2

LEMMA OneMoreFits ==
    ASSUME NEW A, NEW B, NEW n \in Nat, NEW x, IsFiniteSet(A), Cardinality(A) < n,
           B \subseteq A \cup {x}
    PROVE  IsFiniteSet(B) /\ Cardinality(B) <= n
<1>1. IsFiniteSet(A \cup {x}) /\ Cardinality(A) \in Nat /\ Cardinality(A \cup {x}) \in Nat
      /\ Cardinality(A \cup {x}) <= Cardinality(A) + 1
  <2>1. CASE x \in A
    <3>1. A \cup {x} = A /\ Cardinality(A) \in Nat
      BY <2>1, FS_CardinalityType
    <3> QED BY <3>1
  <2>2. CASE x \notin A
    <3>1. IsFiniteSet(A \cup {x}) /\ Cardinality(A \cup {x}) = Cardinality(A) + 1
      BY <2>2, FS_AddElement
    <3>2. Cardinality(A) \in Nat
      BY FS_CardinalityType
    <3> QED BY <3>1, <3>2
  <2> QED BY <2>1, <2>2
<1>2. Cardinality(A \cup {x}) <= n
  BY <1>1
<1> QED BY <1>1, <1>2, FewerStillFit

LEMMA RecordsFit ==
    ASSUME IndexTypes, UpgradeTypes, \A w \in Sockets : SocketInv(w), \A k \in Keys : OrderInv(k),
           CapacityInv, [WsNext]_wsAll
    PROVE  /\ IsFiniteSet({w \in Sockets : rec'[w] # "none"})
           /\ Cardinality({w \in Sockets : rec'[w] # "none"}) <= ConnectionLimit
<1>1. PICK A : A = {w \in Sockets : rec[w] # "none"}
  OBVIOUS
<1>2. PICK B : B = {w \in Sockets : rec'[w] # "none"}
  OBVIOUS
<1>3. IsFiniteSet(A) /\ Cardinality(A) <= ConnectionLimit /\ ConnectionLimit \in Nat
  BY <1>1, WsAssumption DEF CapacityInv
<1>4. CASE B \subseteq A
  BY <1>2, <1>3, <1>4, FewerStillFit
<1>5. CASE \E w \in Sockets : Reserve(w)
  <2>1. PICK w \in Sockets : Reserve(w)
    BY <1>5
  <2>2. Cardinality({v \in Sockets : Indexed(v)}) < ConnectionLimit
    BY <2>1 DEF Reserve
  <2>3. Cardinality(A) < ConnectionLimit
    BY <1>1, <2>2 DEF Indexed
  <2>4. B \subseteq A \cup {w}
    BY <1>1, <1>2, <2>1 DEF Reserve, IndexTypes
  <2> QED BY <1>2, <1>3, <2>3, <2>4, OneMoreFits
<1>6. CASE UNCHANGED rec
  BY <1>1, <1>2, <1>4, <1>6
<1>7. CASE \E w \in Sockets : AttachRecord(w)
  BY <1>1, <1>2, <1>4, <1>7 DEF AttachRecord, IndexTypes, Indexed
<1>8. CASE \E w \in Sockets : Admit(w)
  <2>1. PICK w \in Sockets : Admit(w)
    BY <1>8
  <2>2. \A v \in Sockets : rec[w] = "Reserved" /\ (v # w => rec'[v] \in {"none", rec[v]})
    BY <2>1, AdmitEffect
  <2> QED BY <1>1, <1>2, <1>4, <2>2
<1>9. CASE FinishSome
  <2>1. \A v \in Sockets : rec'[v] \in {"none", rec[v]}
    BY <1>9 DEF FinishSome, FinishAll
  <2> QED BY <1>1, <1>2, <1>4, <2>1
<1>10. IndexStep
  BY IndexSteps
<1> QED BY <1>5, <1>6, <1>7, <1>8, <1>9, <1>10 DEF IndexStep, ConnectAccepted, indexVars

LEMMA FencesFit ==
    ASSUME IndexTypes, UpgradeTypes, \A w \in Sockets : SocketInv(w), CapacityInv, [WsNext]_wsAll
    PROVE  /\ IsFiniteSet({k \in Keys : highWater'[k] # NoRank})
           /\ Cardinality({k \in Keys : highWater'[k] # NoRank}) <= HighWaterCapacity
<1>1. PICK A : A = {k \in Keys : highWater[k] # NoRank}
  OBVIOUS
<1>2. PICK B : B = {k \in Keys : highWater'[k] # NoRank}
  OBVIOUS
<1>3. IsFiniteSet(A) /\ Cardinality(A) <= HighWaterCapacity /\ HighWaterCapacity \in Nat
  BY <1>1, WsAssumption DEF CapacityInv
<1>4. CASE B \subseteq A
  BY <1>2, <1>3, <1>4, FewerStillFit
<1>5. CASE UNCHANGED highWater
  BY <1>1, <1>2, <1>4, <1>5
<1>6. CASE FinishSome
  <2>1. \A k \in Keys : highWater'[k] \in {NoRank, highWater[k]}
    BY <1>6 DEF FinishSome, FinishAll
  <2> QED BY <1>1, <1>2, <1>4, <2>1
<1>7. CASE \E w \in Sockets : Admit(w)
  <2>1. PICK w \in Sockets : Admit(w)
    BY <1>7
  <2>2. PICK a \in Accepts : a = policy[w] /\ ~Refused(a)
    BY <2>1 DEF Admit, At, SocketInv, Fits
  <2>3. PICK fence : fence = IF a.key # NoKey /\ Ranked(a) THEN [highWater EXCEPT ![a.key] = a.rank]
                             ELSE highWater
    OBVIOUS
  <2>4. \A k \in Keys : highWater'[k] \in {NoRank, fence[k]}
    <3>1. highWater' = [k \in Keys |->
            IF order[k] # <<>> /\ Without(order[k], IF a.key = NoKey THEN {} ELSE Replaced(a)) = <<>>
            THEN NoRank
            ELSE (IF a.key # NoKey /\ Ranked(a) THEN [highWater EXCEPT ![a.key] = a.rank]
                  ELSE highWater)[k]]
      BY <2>1, <2>2 DEF Admit
    <3> QED BY <2>3, <3>1
  <2>5. \A k \in Keys : k # a.key => fence[k] = highWater[k]
    BY <2>3 DEF IndexTypes
  <2>6. CASE a.key \in A \/ a.key \notin Keys \/ ~Ranked(a)
    <3>1. \A k \in Keys : fence[k] # NoRank => highWater[k] # NoRank
      BY <1>1, <2>3, <2>5, <2>6
    <3> QED BY <1>1, <1>2, <1>4, <2>4, <3>1
  <2>7. CASE a.key \in Keys /\ a.key \notin A /\ Ranked(a)
    <3>1. ~FenceFull(a) /\ highWater[a.key] = NoRank
      BY <1>1, <2>2, <2>7, WsAssumption DEF Refused
    <3>2. ~(Cardinality(A) >= HighWaterCapacity)
      BY <1>1, <2>7, <3>1 DEF FenceFull
    <3>3. Cardinality(A) < HighWaterCapacity
      <4>1. Cardinality(A) \in Nat
        BY <1>3, FS_CardinalityType
      <4> QED BY <1>3, <3>2, <4>1
    <3>4. B \subseteq A \cup {a.key}
      BY <1>1, <1>2, <2>4, <2>5
    <3> QED BY <1>2, <1>3, <3>3, <3>4, OneMoreFits
  <2> QED BY <2>6, <2>7
<1>8. IndexStep
  BY IndexSteps
<1> QED BY <1>5, <1>6, <1>7, <1>8 DEF IndexStep, ConnectAccepted, Reserve, AttachRecord, indexVars

LEMMA CapacityKept ==
    ASSUME IndexTypes, UpgradeTypes, \A w \in Sockets : SocketInv(w), \A k \in Keys : OrderInv(k),
           CapacityInv, [WsNext]_wsAll
    PROVE  CapacityInv'
BY RecordsFit, FencesFit DEF CapacityInv

----------------------------------------------------------------------------
(* Generations and terminals *)

\* A socket owns its generation.
Owns(w) == up[w] = "attaching" \/ rec[w] = "Attached" \/ fin[w] = "detach"

LEMMA GenerationOwners == GenerationHasOwner <=> gens = {w \in Sockets : Owns(w)}
BY DEF GenerationHasOwner, Owns, At

\* A step that neither opens nor closes a generation.
LEMMA OwnersStay ==
    ASSUME GenerationHasOwner, gens' = gens, \A v \in Sockets : Owns(v)' <=> Owns(v)
    PROVE  GenerationHasOwner'
BY DEF GenerationHasOwner, Owns, At
\* finish hands the generation of an attached record to the finalizer.
LEMMA FinishKeepsOwners ==
    ASSUME FinishSome, NEW v \in Sockets
    PROVE  (rec'[v] = "Attached" \/ fin'[v] = "detach") <=> (rec[v] = "Attached" \/ fin[v] = "detach")
BY DEF FinishSome, FinishAll

LEMMA GotoKeepsOwners ==
    ASSUME UpgradeTypes, NEW w \in Sockets, NEW u, Goto(w, u), u # "attaching", up[w] # "attaching",
           NEW v \in Sockets
    PROVE  up'[v] = "attaching" <=> up[v] = "attaching"
BY DEF UpgradeTypes, Goto

LEMMA GenerationKept ==
    ASSUME IndexTypes, UpgradeTypes, PeerTypes, \A w \in Sockets : SocketInv(w),
           \A k \in Keys : OrderInv(k), GenerationHasOwner, [WsNext]_wsAll
    PROVE  GenerationHasOwner'
<1>0. {"peerClose", "policyRejected", "runtimeDisconnect", "slowClient", "protocolClose",
       "releaseTimeout"} \subseteq Terminals \ {"none"}
  BY DEF Terminals
<1>1. CASE UNCHANGED wsAll \/ SessionMoves \/ \E c \in Connections : ConsumeBegin(c)
  BY <1>1, OwnersStay DEF Owns, wsAll, wsVars, indexVars, SessionMoves, ConsumeBegin
<1>2. CASE \E c \in Connections : ConsumeEnd(c)
  <2>1. PICK c \in Connections : ConsumeEnd(c)
    BY <1>2
  <2>2. PICK S : S = {w \in Pinned(c) : rec[w] = "Attached"}
    OBVIOUS
  <2>3. S \in SUBSET {v \in Sockets : Indexed(v)}
    BY <2>2 DEF Pinned, Indexed
  <2>4. FinishAll(S, "runtimeDisconnect", highWater) /\ UNCHANGED <<up, gens>>
    BY <2>1, <2>2 DEF ConsumeEnd
  <2>5. FinishSome
    BY <1>0, <2>3, <2>4 DEF FinishSome
  <2>6. \A v \in Sockets : Owns(v)' <=> Owns(v)
    BY <2>4, <2>5, FinishKeepsOwners DEF Owns
  <2> QED BY <2>4, <2>6, OwnersStay
<1>3. ASSUME NEW w \in Sockets,
             \/ UpgradeDropped(w) \/ (\E c \in Connections : Select(w, c)) \/ ConnectInsert(w)
             \/ Register(w) \/ UpgradeEnds(w) \/ PeerStarts(w) \/ ReaderEnds(w)
             \/ ConnectAccepted(w)
      PROVE  GenerationHasOwner'
  <2>1. UNCHANGED <<rec, fin, gens>>
    BY <1>3 DEF UpgradeDropped, Select, ConnectInsert, Register, UpgradeEnds, PeerStarts,
                ReaderEnds, ConnectAccepted, indexVars
  <2>2. up[w] # "attaching" /\ \E u \in Ups : u # "attaching" /\ Goto(w, u)
    BY <1>3 DEF UpgradeDropped, Select, ConnectInsert, Register, UpgradeEnds, PeerStarts,
                ReaderEnds, ConnectAccepted, At, Ups
  <2>3. \A v \in Sockets : Owns(v)' <=> Owns(v)
    BY <2>1, <2>2, GotoKeepsOwners DEF Owns
  <2> QED BY <2>1, <2>3, OwnersStay
<1>4. ASSUME NEW w \in Sockets,
             \/ SelectRefused(w) \/ ConnectWrite(w) \/ ConnectTimeout(w) \/ ConnectRefused(w)
             \/ AdmitRefused(w) \/ PeerDisconnect(w)
      PROVE  GenerationHasOwner'
  <2>1. gens' = gens /\ (FinishSome \/ UNCHANGED <<rec, fin>>)
    BY <1>0, <1>4, FailIsSome, FinishIsSome
       DEF SelectRefused, ConnectWrite, ConnectTimeout, ConnectRefused, AdmitRefused,
           PeerDisconnect, indexVars
  <2>2. up[w] # "attaching" /\ \E u \in Ups : u # "attaching" /\ Goto(w, u)
    BY <1>4 DEF SelectRefused, ConnectWrite, ConnectTimeout, ConnectRefused, AdmitRefused,
                PeerDisconnect, Fail, At, Ups
  <2>3. \A v \in Sockets : Owns(v)' <=> Owns(v)
    BY <2>1, <2>2, GotoKeepsOwners, FinishKeepsOwners DEF Owns
  <2> QED BY <2>1, <2>3, OwnersStay
<1>5. ASSUME NEW w \in Sockets, NEW t \in {"protocolClose", "slowClient"}, Terminate(w, t)
      PROVE  GenerationHasOwner'
  <2>1. FinishSome /\ UNCHANGED <<up, gens>>
    BY <1>0, <1>5, FinishIsSome DEF Terminate
  <2>2. \A v \in Sockets : Owns(v)' <=> Owns(v)
    BY <2>1, FinishKeepsOwners DEF Owns
  <2> QED BY <2>1, <2>2, OwnersStay
<1>6. ASSUME NEW w \in Sockets, Reserve(w) PROVE GenerationHasOwner'
  <2>1. up[w] = "new" /\ Goto(w, "reserved") /\ UNCHANGED <<fin, gens>>
    BY <1>6 DEF Reserve, At
  <2>2. rec[w] = "none" /\ rec' = [rec EXCEPT ![w] = "Reserved"]
    BY <1>6, <2>1 DEF Reserve, SocketInv, Fits
  <2>3. \A v \in Sockets : rec'[v] = "Attached" <=> rec[v] = "Attached"
    BY <2>2 DEF IndexTypes
  <2>4. \A v \in Sockets : Owns(v)' <=> Owns(v)
    BY <2>1, <2>3, GotoKeepsOwners DEF Owns
  <2> QED BY <2>1, <2>4, OwnersStay
<1>7. ASSUME NEW w \in Sockets, Admit(w) PROVE GenerationHasOwner'
  <2>1. PICK a \in Accepts, out \in SUBSET Sockets :
              /\ rec[w] = "Reserved" /\ up[w] = "accepted" /\ up'[w] = "admitted"
              /\ w \notin out
              /\ \A v \in Sockets :
                    /\ v # w => up'[v] = up[v]
                    /\ rec'[v] = IF v = w THEN "Admitted" ELSE IF v \in out THEN "none" ELSE rec[v]
                    /\ fin'[v] = IF v \in out /\ rec[v] = "Attached" THEN "detach" ELSE fin[v]
    BY <1>7, AdmitEffect
  <2>2. gens' = gens
    BY <1>7 DEF Admit
  <2>3. \A v \in Sockets : Owns(v)' <=> Owns(v)
    BY <2>1 DEF Owns
  <2> QED BY <2>2, <2>3, OwnersStay
<1>8. ASSUME NEW w \in Sockets, AttachGeneration(w) PROVE GenerationHasOwner'
  <2>1. gens' = gens \cup {w} /\ Goto(w, "attaching") /\ UNCHANGED <<rec, fin>>
    BY <1>8 DEF AttachGeneration, indexVars
  <2>2. up'[w] = "attaching" /\ \A v \in Sockets \ {w} : up'[v] = up[v]
    BY <2>1, GotoOne
  <2> QED BY <2>1, <2>2 DEF GenerationHasOwner, At
<1>9. ASSUME NEW w \in Sockets, AttachRecord(w) PROVE GenerationHasOwner'
  <2>0. SocketInv(w) /\ up[w] = "attaching" /\ fin' = fin
    BY <1>9 DEF AttachRecord, At
  <2>1. fin[w] = "none"
    BY <2>0 DEF SocketInv, Fits
  <2>2. CASE Indexed(w)
    <3>1. rec' = [rec EXCEPT ![w] = "Attached"] /\ gens' = gens /\ Goto(w, "reading")
      BY <1>9, <2>2 DEF AttachRecord
    <3>2. up'[w] = "reading" /\ \A v \in Sockets \ {w} : up'[v] = up[v]
      BY <3>1, GotoOne
    <3>3. rec'[w] = "Attached" /\ \A v \in Sockets \ {w} : rec'[v] = rec[v]
      BY <3>1 DEF IndexTypes
    <3>4. \A v \in Sockets : Owns(v)' <=> Owns(v)
      BY <2>0, <3>2, <3>3 DEF Owns
    <3> QED BY <3>1, <3>4, OwnersStay
  <2>3. CASE ~Indexed(w)
    <3>1. rec' = rec /\ gens' = gens \ {w} /\ Goto(w, "ended") /\ rec[w] = "none"
      BY <1>9, <2>3 DEF AttachRecord, Indexed
    <3>2. up'[w] = "ended" /\ \A v \in Sockets \ {w} : up'[v] = up[v]
      BY <3>1, GotoOne
    <3> QED BY <2>0, <2>1, <3>1, <3>2 DEF GenerationHasOwner, At
  <2> QED BY <2>2, <2>3
<1>10. ASSUME NEW w \in Sockets, Detach(w) PROVE GenerationHasOwner'
  <2>1. SocketInv(w) /\ fin[w] = "detach" /\ gens' = gens \ {w} /\ UNCHANGED <<up, rec>>
    BY <1>10 DEF Detach, indexVars
  <2>2. rec[w] = "none" /\ up[w] # "attaching"
    BY <2>1 DEF SocketInv, Fits
  <2>3. fin'[w] = "drain" /\ \A v \in Sockets \ {w} : fin'[v] = fin[v]
    BY <1>10 DEF Detach, IndexTypes
  <2> QED BY <2>1, <2>2, <2>3 DEF GenerationHasOwner, At
<1>11. ASSUME NEW w \in Sockets, Drain(w) PROVE GenerationHasOwner'
  <2>1. fin[w] = "drain" /\ UNCHANGED <<up, rec, gens>>
    BY <1>11 DEF Drain, indexVars
  <2>2. fin'[w] = "done" /\ \A v \in Sockets \ {w} : fin'[v] = fin[v]
    BY <1>11 DEF Drain, IndexTypes
  <2>3. \A v \in Sockets : Owns(v)' <=> Owns(v)
    BY <2>1, <2>2 DEF Owns
  <2> QED BY <2>1, <2>3, OwnersStay
<1>12. ASSUME NEW w \in Sockets, NEW a, ConnectAnswered(w, a) PROVE GenerationHasOwner'
  BY <1>12, OwnersStay DEF Owns, ConnectAnswered, indexVars
<1> QED BY <1>1, <1>2, <1>3, <1>4, <1>5, <1>6, <1>7, <1>8, <1>9, <1>10, <1>11, <1>12
        DEF WsNext, Consumer, Handler, Finalizer

\* A step leaves a terminal, and a record that has one, alone.
LEMMA TerminalKept ==
    ASSUME IndexTypes, UpgradeTypes, \A w \in Sockets : SocketInv(w), \A k \in Keys : OrderInv(k),
           [WsNext]_wsAll, NEW v \in Sockets, terminal[v] # "none"
    PROVE  terminal'[v] = terminal[v] /\ rec'[v] = "none"
<1>1. rec[v] = "none" /\ up[v] # "new"
  BY DEF SocketInv, Fits
<1>2. CASE UNCHANGED <<rec, terminal, order, highWater, policy>>
  BY <1>1, <1>2
<1>3. CASE \E w \in Sockets : ConnectAccepted(w)
  BY <1>1, <1>3 DEF ConnectAccepted, indexVars
<1>4. CASE \E w \in Sockets : Reserve(w)
  BY <1>1, <1>4 DEF Reserve, At, IndexTypes
<1>5. CASE \E w \in Sockets : AttachRecord(w)
  BY <1>1, <1>5 DEF AttachRecord, Indexed, IndexTypes
<1>6. CASE \E w \in Sockets : Admit(w)
  <2>1. PICK w \in Sockets : Admit(w)
    BY <1>6
  <2>2. PICK a \in Accepts, out \in SUBSET Sockets :
              /\ rec[w] = "Reserved" /\ \A x \in out : Live(x)
              /\ terminal'[v] = IF v \in out THEN "replacement" ELSE terminal[v]
              /\ rec'[v] = IF v = w THEN "Admitted" ELSE IF v \in out THEN "none" ELSE rec[v]
    BY <2>1, AdmitEffect
  <2> QED BY <1>1, <2>2 DEF Live
<1>7. CASE FinishSome
  BY <1>1, <1>7 DEF FinishSome, FinishAll, Indexed
<1>8. IndexStep
  BY IndexSteps
<1> QED BY <1>2, <1>3, <1>4, <1>5, <1>6, <1>7, <1>8 DEF IndexStep

----------------------------------------------------------------------------
(* The theorems *)

LEMMA WsInitially ==
    ASSUME WsInit
    PROVE  WsInv
<1>1. IndexTypes
  BY DEF WsInit, IndexTypes, Records, Terminals
<1>2. UpgradeTypes
  BY DEF WsInit, UpgradeTypes, Ups
<1>3. PeerTypes
  BY DEF WsInit, PeerTypes
<1>4. \A w \in Sockets : SocketInv(w)
  BY DEF WsInit, SocketInv, Fits, Waiting, Opening
<1>5. ASSUME NEW k \in Keys PROVE OrderInv(k) /\ LimitInv(k)
  <2>1. order[k] = <<>>
    BY DEF WsInit
  <2>2. Len(order[k]) = 0
    BY <2>1
  <2>3. Distinct(order[k]) /\ Elems(order[k]) = {}
    BY <2>2 DEF Distinct, Elems, FirstOnes
  <2>4. \A w \in Sockets : ~Live(w)
    BY DEF WsInit, Live
  <2> QED BY <2>2, <2>3, <2>4 DEF OrderInv, LimitInv
<1>6. CapacityInv
  <2>1. {w \in Sockets : rec[w] # "none"} = {} /\ {k \in Keys : highWater[k] # NoRank} = {}
    BY DEF WsInit
  <2>2. IsFiniteSet({}) /\ Cardinality({}) = 0
    BY FS_EmptySet
  <2> QED BY <2>1, <2>2, WsAssumption DEF CapacityInv
<1>7. GenerationHasOwner
  BY DEF WsInit, GenerationHasOwner, At
<1> QED BY <1>1, <1>2, <1>3, <1>4, <1>5, <1>6, <1>7 DEF WsInv

LEMMA WsStep ==
    ASSUME WsInv, [WsNext]_wsAll
    PROVE  WsInv'
<1> USE DEF WsInv
<1>1. \A k \in Keys : OrderInv(k)
  OBVIOUS
<1>2. IndexTypes' /\ UpgradeTypes' /\ PeerTypes'
  BY IndexTypesKept, UpgradeTypesKept, PeerTypesKept
<1>3. ASSUME NEW w \in Sockets PROVE SocketInv(w)'
  BY <1>1, SocketKept
<1>4. ASSUME NEW k \in Keys PROVE OrderInv(k)' /\ LimitInv(k)'
  BY OrderKept
<1>5. CapacityInv'
  BY <1>1, CapacityKept
<1>6. GenerationHasOwner'
  BY <1>1, GenerationKept
<1> QED BY <1>2, <1>3, <1>4, <1>5, <1>6

LEMMA WsInvMeans ==
    ASSUME WsInv
    PROVE  WsTypeOK /\ OrderIsIndexed /\ BusinessLimit /\ GenerationHasOwner
<1>1. WsTypeOK
  BY DEF WsInv, IndexTypes, UpgradeTypes, PeerTypes, CapacityInv, WsTypeOK, Records
<1>2. OrderIsIndexed
  <2> SUFFICES ASSUME NEW k \in Keys
               PROVE  /\ IsInjective(order[k])
                      /\ \A w \in Sockets : (w \in Existing(k)) <=> /\ rec[w] \in {"Admitted", "Attached"}
                                                                    /\ policy[w].key = k
    BY DEF OrderIsIndexed
  <2>1. order \in [Keys -> Seq(Sockets)] /\ OrderInv(k)
    BY DEF WsInv, IndexTypes
  <2>2. Existing(k) = Elems(order[k])
    BY <2>1, ExistingElems
  <2>3. IsInjective(order[k])
    <3>1. PICK s \in Seq(Sockets) : s = order[k]
      BY <2>1
    <3>2. DOMAIN s = 1 .. Len(s) /\ Distinct(s)
      BY <2>1, <3>1 DEF OrderInv
    <3> QED BY <3>1, <3>2 DEF IsInjective, Distinct
  <2> QED BY <2>1, <2>2, <2>3 DEF OrderInv, Live
<1>3. BusinessLimit
  <2> SUFFICES ASSUME NEW k \in Keys, order[k] # <<>>
               PROVE  \E a \in Accepts : a.key = k /\ Len(order[k]) <= a.max
    BY DEF BusinessLimit
  <2>1. order[k] \in Seq(Sockets) /\ LimitInv(k)
    BY DEF WsInv, IndexTypes
  <2> QED BY <2>1, EmptyElems DEF LimitInv
<1> QED BY <1>1, <1>2, <1>3 DEF WsInv

\* The variables of the listener, the index, the broker and the store keep their types, and
\* the index never exceeds its connection limit or its fence capacity (ws/index.rs reserve, admit).
THEOREM WsTypesCorrect == WsSpec => []WsTypeOK
<1>1. WsInit => WsInv
  BY WsInitially
<1>2. WsInv /\ [WsNext]_wsAll => WsInv'
  BY WsStep
<1>3. WsInv => WsTypeOK
  BY WsInvMeans
<1> QED BY <1>1, <1>2, <1>3, PTL DEF WsSpec

\* The business order of every key lists exactly its live connections, each once, after any
\* interleaving of admissions, replacements, closes and runtime losses (ws/index.rs admit,
\* finish_locked).
THEOREM OrdersIndexed == WsSpec => []OrderIsIndexed
<1>1. WsInit => WsInv
  BY WsInitially
<1>2. WsInv /\ [WsNext]_wsAll => WsInv'
  BY WsStep
<1>3. WsInv => OrderIsIndexed
  BY WsInvMeans
<1> QED BY <1>1, <1>2, <1>3, PTL DEF WsSpec

\* A business key never has more live connections than the largest limit an acceptance gave
\* for it, whatever mix of ranked, closeOldest and rejectNew acceptances (ws/index.rs admit).
THEOREM BusinessLimited == WsSpec => []BusinessLimit
<1>1. WsInit => WsInv
  BY WsInitially
<1>2. WsInv /\ [WsNext]_wsAll => WsInv'
  BY WsStep
<1>3. WsInv => BusinessLimit
  BY WsInvMeans
<1> QED BY <1>1, <1>2, <1>3, PTL DEF WsSpec

\* The broker has a generation exactly for an attach in progress, an attached connection and
\* a finalizer that is about to close it (ws/index.rs attach, ws/broker.rs close_generation).
THEOREM GenerationsOwned == WsSpec => []GenerationHasOwner
<1>1. WsInit => WsInv
  BY WsInitially
<1>2. WsInv /\ [WsNext]_wsAll => WsInv'
  BY WsStep
<1>3. WsInv => GenerationHasOwner
  BY DEF WsInv
<1> QED BY <1>1, <1>2, <1>3, PTL DEF WsSpec

\* The first terminal of a connection is its last, and the index never takes the connection
\* back (ws/index.rs finish, finish_locked).
THEOREM TerminalsStay == WsSpec => FirstTerminalStays
<1> DEFINE Kept == \A w \in Sockets : terminal[w] # "none" => terminal'[w] = terminal[w] /\ rec'[w] = "none"
<1>1. WsInit => WsInv
  BY WsInitially
<1>2. WsInv /\ [WsNext]_wsAll => WsInv'
  BY WsStep
<1>3. WsInv /\ [WsNext]_wsAll => Kept
  <2> SUFFICES ASSUME WsInv, [WsNext]_wsAll, NEW v \in Sockets, terminal[v] # "none"
               PROVE  terminal'[v] = terminal[v] /\ rec'[v] = "none"
    OBVIOUS
  <2>1. /\ IndexTypes /\ UpgradeTypes /\ \A w \in Sockets : SocketInv(w)
        /\ \A k \in Keys : OrderInv(k)
    BY DEF WsInv
  <2> QED BY <2>1, TerminalKept
<1>4. WsInv /\ [WsNext]_wsAll => [Kept]_wsAll
  BY <1>3
<1> QED BY <1>1, <1>2, <1>4, PTL DEF WsSpec, FirstTerminalStays
=============================================================================
