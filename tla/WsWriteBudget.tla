--------------------------- MODULE WsWriteBudget ----------------------------
(***************************************************************************)
(* The slow-client budget of one attached client connection of the Router  *)
(* (router/src/ws/index.rs, router/src/listener.rs).                       *)
(*                                                                         *)
(* Threads that run connection.send write through the captured writer:     *)
(* they reserve the bytes against the budget under the index mutex, put    *)
(* the frame into the bounded queue of the socket's writer task, and only  *)
(* then count it in the atomic `buffered`.  The writer task takes a frame, *)
(* sends it and subtracts it.  An over-budget write finishes the           *)
(* connection, whose finalizer closes the writer.                          *)
(***************************************************************************)
EXTENDS Integers, Sequences, SequencesExt

CONSTANTS
    Threads,        \* runtime session tasks that handle a connection.send
    Sizes,          \* sizes of a frame, none of them zero
    Budget,         \* slow_client_budget_bytes
    QueueCapacity,  \* mpsc::channel::<Outbound>(64)
    Modulus,        \* 2^64, the width of the counter `buffered`; above Budget
    MaxWrites       \* bound: writes in a behaviour

VARIABLES
    state,      \* "Attached"; "Finished": finish_locked ran; "Closed": its finalizer too
    observed,   \* observed_write_bytes of the record
    buffered,   \* the atomic counter SocketPeerWriter and writer_loop share
    queue,      \* frames by size, CloseFrame last
    writer,     \* writer_loop: Idle, Ended, or the size of the frame it sends
    write,      \* per thread: the step of its write and its size
    writes      \* writes begun, up to MaxWrites

budgetVars == <<state, observed, buffered, queue, writer, write, writes>>

CloseFrame == 0
Idle == 0
Ended == -1
None == [step |-> "none", size |-> 0]
Steps == {"none", "reserved", "queued", "unsent"}

BudgetInit ==
    /\ state = "Attached" /\ observed = 0 /\ buffered = 0
    /\ queue = <<>> /\ writer = Idle
    /\ write = [t \in Threads |-> None] /\ writes = 0

\* u64::saturating_add
SaturatingAdd(a, b) == IF a + b < Modulus THEN a + b ELSE Modulus - 1

At(t, s) == write[t].step = s
Go(t, s) == write' = [write EXCEPT ![t].step = s]
Leave(t) == write' = [write EXCEPT ![t] = None]
CanSend == writer # Ended /\ Len(queue) < QueueCapacity

OverBudget(n) == SaturatingAdd(SaturatingAdd(buffered, observed), n) > Budget

\* reserve_write, Accepted.
Reserve(t, n) ==
    /\ At(t, "none") /\ writes < MaxWrites /\ state = "Attached" /\ ~OverBudget(n)
    /\ observed' = observed + n /\ writes' = writes + 1
    /\ write' = [write EXCEPT ![t] = [step |-> "reserved", size |-> n]]
    /\ UNCHANGED <<state, buffered, queue, writer>>

\* reserve_write, OverBudget: the connection is finished, the write refused.
Refuse(t, n) ==
    /\ At(t, "none") /\ writes < MaxWrites /\ state = "Attached" /\ OverBudget(n)
    /\ state' = "Finished" /\ writes' = writes + 1
    /\ UNCHANGED <<observed, buffered, queue, writer, write>>

\* try_send of the frame.
Enqueue(t) ==
    /\ At(t, "reserved") /\ CanSend
    /\ queue' = Append(queue, write[t].size)
    /\ Go(t, "queued")
    /\ UNCHANGED <<state, observed, buffered, writer, writes>>

EnqueueFails(t) ==
    /\ At(t, "reserved") /\ ~CanSend
    /\ Go(t, "unsent")
    /\ UNCHANGED <<state, observed, buffered, queue, writer, writes>>

\* fetch_add, after the frame is in the queue: wraps below zero and back.
Count(t) ==
    /\ At(t, "queued")
    /\ buffered' = (buffered + write[t].size) % Modulus
    /\ Leave(t)
    /\ UNCHANGED <<state, observed, queue, writer, writes>>

\* complete_write, called for a failed write only: the record of a finished
\* connection is gone.
CompleteWrite(t) ==
    /\ At(t, "unsent")
    /\ observed' = IF state = "Attached" THEN observed - write[t].size ELSE observed
    /\ Leave(t)
    /\ UNCHANGED <<state, buffered, queue, writer, writes>>

\* writer_loop takes the next frame; a close frame is its last.
Receive ==
    /\ writer = Idle /\ queue # <<>>
    /\ writer' = IF Head(queue) = CloseFrame THEN Ended ELSE Head(queue)
    /\ queue' = Tail(queue)
    /\ UNCHANGED <<state, observed, buffered, write, writes>>

Subtract(n) == buffered' = (buffered + Modulus - n) % Modulus

\* The send of a frame completes, or fails and ends the task.
Sent ==
    /\ writer \in Sizes
    /\ Subtract(writer) /\ writer' = Idle
    /\ UNCHANGED <<state, observed, queue, write, writes>>

SendFails ==
    /\ writer \in Sizes
    /\ Subtract(writer) /\ writer' = Ended
    /\ UNCHANGED <<state, observed, queue, write, writes>>

\* The finalizer's close_writer: the close frame goes into the queue; only when it
\* does not fit is the task aborted.
CloseWriter ==
    /\ state = "Finished"
    /\ state' = "Closed"
    /\ \/ CanSend /\ queue' = Append(queue, CloseFrame) /\ writer' = writer
       \/ ~CanSend /\ queue' = queue /\ writer' = Ended
    /\ UNCHANGED <<observed, buffered, write, writes>>

\* The peer's close or the loss of the runtime finishes the connection as well.
Finish ==
    /\ state = "Attached" /\ state' = "Finished"
    /\ UNCHANGED <<observed, buffered, queue, writer, write, writes>>

BudgetNext ==
    \/ Receive \/ Sent \/ SendFails \/ CloseWriter \/ Finish
    \/ \E t \in Threads :
          \/ \E n \in Sizes : Reserve(t, n) \/ Refuse(t, n)
          \/ Enqueue(t) \/ EnqueueFails(t) \/ Count(t) \/ CompleteWrite(t)

\* The Router's tasks run.  Nothing makes the client read: Sent is not fair.
BudgetFairness ==
    /\ WF_budgetVars(CloseWriter) /\ WF_budgetVars(Receive)
    /\ \A t \in Threads : WF_budgetVars(Enqueue(t) \/ EnqueueFails(t) \/ Count(t) \/ CompleteWrite(t))

BudgetSpec == BudgetInit /\ [][BudgetNext]_budgetVars
FairBudgetSpec == BudgetSpec /\ BudgetFairness

-----------------------------------------------------------------------------
(* Properties *)

Sum(s) == FoldSeq(LAMBDA a, b : a + b, 0, s)
SumOf(step) ==
    Sum([i \in 1..Len(SetToSeq(Threads)) |->
           LET t == SetToSeq(Threads)[i] IN IF At(t, step) THEN write[t].size ELSE 0])

\* The bytes that are in the queue or being sent.
InTransport == Sum(queue) + (IF writer \in Sizes THEN writer ELSE 0)

BudgetTypeOK ==
    /\ state \in {"Attached", "Finished", "Closed"}
    /\ observed \in Nat /\ buffered \in 0..(Modulus - 1)
    /\ queue \in Seq(Sizes \cup {CloseFrame}) /\ Len(queue) <= QueueCapacity
    /\ writer \in {Idle, Ended} \cup Sizes
    /\ \A t \in Threads : write[t].step \in Steps /\ write[t].size \in Sizes \cup {0}
    /\ writes \in 0..MaxWrites

\* However writers and the writer task interleave, and although the counter passes
\* through values below zero, it is off by exactly the frames that are queued and not
\* counted yet (listener.rs write_text, writer_loop).
BufferedIsExact ==
    writer # Ended => (buffered + SumOf("queued")) % Modulus = InTransport % Modulus

\* A client that does not read is ended by the budget: what waits for it in the Router
\* never exceeds the budget, whatever writes are in flight at once (index.rs
\* reserve_write).
QueueIsBounded == InTransport + SumOf("reserved") <= Budget

\* A connection is finished as too slow only when what it is charged for and what
\* really waits in the transport exceed the budget with the new frame (index.rs
\* reserve_write).  Holds for one writer.
BudgetIsMeasured ==
    [][\A t \in Threads, n \in Sizes :
          Refuse(t, n) => observed + InTransport + n > Budget]_budgetVars

\* Nothing is in flight: every frame was sent and no thread is inside a write.
Quiet == queue = <<>> /\ writer = Idle /\ \A t \in Threads : At(t, "none")

\* Only writes in flight count against the budget: a client that was sent everything and is
\* written nothing is never too slow for a frame that fits the budget.  Violated: the bytes
\* of a write that succeeded are never given back (index.rs write_text, complete_write).
InFlightOnly ==
    [][\A t \in Threads, n \in Sizes : Quiet /\ n <= Budget => ~Refuse(t, n)]_budgetVars

\* The transport of a connection that was finished ends, whether or not the client
\* reads.  Violated: the close frame is queued behind the frames it does not read.
FinishedTransportEnds == state = "Finished" ~> writer = Ended
=============================================================================
