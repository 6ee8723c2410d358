------------------------ MODULE CompileWorker_proofs ------------------------
(***************************************************************************)
(* Proofs about the compile worker, for any number of edits and signals.   *)
(***************************************************************************)
EXTENDS CompileWorker, TLAPS

-----------------------------------------------------------------------------
(* What the channel's two operations do to the messages in it.             *)

\* A send adds its message to those queued, and no other.
LEMMA QueuedAppend ==
    ASSUME queue \in Seq(Msg), NEW n \in Msg, queue' = Append(queue, n)
    PROVE  \A m \in Msg : Queued(m)' <=> Queued(m) \/ m = n
<1> SUFFICES ASSUME NEW m \in Msg PROVE Queued(m)' <=> Queued(m) \/ m = n
    OBVIOUS
<1>1. Len(queue') = Len(queue) + 1 /\ Len(queue) \in Nat
    OBVIOUS
<1>2. \A i \in 1..Len(queue) : queue'[i] = queue[i]
    OBVIOUS
<1>3. queue'[Len(queue) + 1] = n
    OBVIOUS
<1>4. QED
    BY <1>1, <1>2, <1>3 DEF Queued

\* A receive takes one message out and keeps the rest.
LEMMA QueuedTail ==
    ASSUME queue \in Seq(Msg), queue # <<>>, queue' = Tail(queue)
    PROVE  \A m \in Msg : Queued(m) <=> Queued(m)' \/ m = Head(queue)
<1> SUFFICES ASSUME NEW m \in Msg
             PROVE  Queued(m) <=> Queued(m)' \/ m = Head(queue)
    OBVIOUS
<1>1. Len(queue) \in Nat /\ Len(queue) > 0 /\ Len(queue') = Len(queue) - 1
    OBVIOUS
<1>2. Head(queue) = queue[1]
    OBVIOUS
<1>3. \A i \in 1..Len(queue') : queue'[i] = queue[i + 1]
    OBVIOUS
<1>4. \A i \in 2..Len(queue) : i - 1 \in 1..Len(queue') /\ queue[i] = queue'[i - 1]
    BY <1>1, <1>3
<1>5. QED
    BY <1>1, <1>2, <1>3, <1>4 DEF Queued

\* Nothing is queued in an empty channel.
LEMMA QueuedEmpty == queue = <<>> => \A m \in Msg : ~Queued(m)
    BY DEF Queued

\* A step that leaves the channel alone leaves what is queued.
LEMMA QueuedSame == queue' = queue => \A m \in Msg : Queued(m)' <=> Queued(m)
    BY DEF Queued

-----------------------------------------------------------------------------
(* Type correctness.                                                        *)

\* A channel of one message, as create_worker leaves it.
LEMMA OneMessage ==
    ASSUME NEW m \in Msg
    PROVE  <<m>> \in Seq(Msg) /\ Len(<<m>>) = 1 /\ <<m>>[1] = m
    OBVIOUS

\* The worker starts with its first signal queued.
LEMMA TypeInit == Init => TypeOK
<1>1. "Recompile" \in Msg
    BY DEF Msg
<1>2. <<"Recompile">> \in Seq(Msg)
    BY <1>1, OneMessage
<1>3. Init => queue \in Seq(Msg)
    BY <1>2 DEF Init
<1>4. Init => /\ owner \in {"live", "joining", "joined", "dropped"}
              /\ thread \in {"recv", "drain", "running", "rendering", "exited"}
              /\ shutdown \in BOOLEAN
    BY Zenon DEF Init
<1>5. Init => text \in Nat /\ signalled \in Nat /\ sent \in Nat /\ compiled \in Nat
    <2>1. 0 \in Nat
        OBVIOUS
    <2>2. QED
        BY <2>1, Zenon DEF Init
<1>6. QED
    BY <1>3, <1>4, <1>5 DEF TypeOK

\* No step of the owner or of the thread leaves the types.
LEMMA TypeStep == TypeOK /\ [Next]_vars => TypeOK'
<1> SUFFICES ASSUME TypeOK, [Next]_vars PROVE TypeOK'
    OBVIOUS
<1> "Recompile" \in Msg /\ "Shutdown" \in Msg
    BY DEF Msg
<1> USE DEF TypeOK
<1>1. CASE Write        BY <1>1 DEF Write
<1>2. CASE Recompile    BY <1>2 DEF Recompile
<1>3. CASE DropWorker   BY <1>3 DEF DropWorker
<1>4. CASE BeginShutdown BY <1>4 DEF BeginShutdown
<1>5. CASE Join         BY <1>5 DEF Join
<1>6. CASE Recv
    <2>1. queue' \in Seq(Msg)
        BY <1>6 DEF Recv
    <2>2. QED
        BY <1>6, <2>1, Zenon DEF Recv
<1>7. CASE TryRecv      BY <1>7 DEF TryRecv
<1>8. CASE DrainEmpty   BY <1>8 DEF DrainEmpty
<1>9. CASE CompileRead  BY <1>9 DEF CompileRead
<1>10. CASE CompileDone BY <1>10 DEF CompileDone
<1>11. CASE UNCHANGED vars BY <1>11 DEF vars
<1>12. QED
    BY <1>1, <1>2, <1>3, <1>4, <1>5, <1>6, <1>7, <1>8, <1>9, <1>10, <1>11
    DEF Next, Worker, Caller

\* Every variable of the worker keeps its type, for any bounds.
THEOREM TypeCorrect == Spec => []TypeOK
    BY TypeInit, TypeStep, PTL DEF Spec

-----------------------------------------------------------------------------
(* The inductive invariant.  NoLostSignal is not inductive alone: the       *)
(* compile clears the debt only because nothing was signalled beyond what   *)
(* is written, and a drain that ends in a compile clears it only because a  *)
(* raised flag means the owner is gone.                                     *)

NothingBeyondText == compiled <= text /\ signalled <= text

ShutdownMeansStopped ==
    (Queued("Shutdown") \/ (thread = "drain" /\ shutdown)) => owner # "live"

IInv ==
    /\ TypeOK
    /\ NothingBeyondText
    /\ ShutdownMeansStopped
    /\ AliveWhileOwned
    /\ NoLostSignal
    /\ NoLostShutdown

\* At the start nothing is lost and the thread is alive.
LEMMA InvInit == Init => IInv
<1> SUFFICES ASSUME Init PROVE IInv
    OBVIOUS
<1>1. queue \in Seq(Msg) /\ Len(queue) = 1 /\ queue[1] = "Recompile"
    <2>1. "Recompile" \in Msg
        BY DEF Msg
    <2>2. QED
        BY <2>1, OneMessage DEF Init
<1>2. Queued("Recompile") /\ ~Queued("Shutdown")
    BY <1>1 DEF Queued
<1>3. QED
    BY <1>2, TypeInit DEF Init, IInv, NothingBeyondText, ShutdownMeansStopped,
       AliveWhileOwned, NoLostSignal, NoLostShutdown

\* Draining the channel loses neither the signal nor the shutdown.
LEMMA InvStep == IInv /\ [Next]_vars => IInv'
<1> SUFFICES ASSUME IInv, [Next]_vars PROVE IInv'
    OBVIOUS
<1>0. TypeOK' /\ TypeOK
    BY TypeStep DEF IInv
<1> "Recompile" \in Msg /\ "Shutdown" \in Msg
    BY DEF Msg
<1> USE <1>0 DEF IInv, NothingBeyondText, ShutdownMeansStopped, AliveWhileOwned,
        NoLostSignal, NoLostShutdown
<1>1. CASE Write
    BY <1>1, QueuedSame DEF Write, TypeOK
<1>2. CASE Recompile
    <2>1. \A m \in Msg : Queued(m)' <=> Queued(m) \/ m = "Recompile"
        BY <1>2, QueuedAppend DEF Recompile, TypeOK
    <2>2. QED
        BY <1>2, <2>1 DEF Recompile, TypeOK
<1>3. CASE DropWorker \/ BeginShutdown
    <2>1. \A m \in Msg : Queued(m)' <=> Queued(m) \/ m = "Shutdown"
        BY <1>3, QueuedAppend DEF DropWorker, BeginShutdown, TypeOK
    <2>2. QED
        BY <1>3, <2>1 DEF DropWorker, BeginShutdown, TypeOK
<1>4. CASE Join
    BY <1>4, QueuedSame DEF Join, TypeOK
<1>5. CASE Recv
    <2>1. \A m \in Msg : Queued(m) <=> Queued(m)' \/ m = Head(queue)
        BY <1>5, QueuedTail DEF Recv, TypeOK
    <2>2. Head(queue) \in Msg
        BY <1>5 DEF Recv, TypeOK
    <2>3. CASE Head(queue) = "Shutdown"
        BY <1>5, <2>1, <2>3 DEF Recv, TypeOK
    <2>4. CASE Head(queue) # "Shutdown"
        BY <1>5, <2>1, <2>2, <2>4 DEF Recv, TypeOK, Msg
    <2>5. QED
        BY <2>3, <2>4
<1>6. CASE TryRecv
    <2>1. \A m \in Msg : Queued(m) <=> Queued(m)' \/ m = Head(queue)
        BY <1>6, QueuedTail DEF TryRecv, TypeOK
    <2>2. QED
        BY <1>6, <2>1 DEF TryRecv, TypeOK
<1>7. CASE DrainEmpty
    <2>1. ~Queued("Shutdown") /\ ~Queued("Recompile")
        BY <1>7, QueuedEmpty DEF DrainEmpty
    <2>2. QED
        BY <1>7, <2>1, QueuedSame DEF DrainEmpty, TypeOK
<1>8. CASE CompileRead
    BY <1>8, QueuedSame DEF CompileRead, TypeOK
<1>9. CASE CompileDone
    BY <1>9, QueuedSame DEF CompileDone, TypeOK
<1>10. CASE UNCHANGED vars
    BY <1>10, QueuedSame DEF vars, TypeOK
<1>11. QED
    BY <1>1, <1>2, <1>3, <1>4, <1>5, <1>6, <1>7, <1>8, <1>9, <1>10
    DEF Next, Worker, Caller

\* The inductive invariant of the signal and shutdown protocol.
THEOREM Invariance == Spec => []IInv
    BY InvInit, InvStep, PTL DEF Spec

\* No signal sent to a live worker is lost to coalescing.
THEOREM SignalsKept == Spec => []NoLostSignal
<1>1. IInv => NoLostSignal
    BY DEF IInv
<1>2. QED
    BY <1>1, Invariance, PTL

\* No Shutdown is lost to the drain loop, so the thread is told to exit.
THEOREM ShutdownsKept == Spec => []NoLostShutdown
<1>1. IInv => NoLostShutdown
    BY DEF IInv
<1>2. QED
    BY <1>1, Invariance, PTL

\* A worker whose owner is live has a thread that receives.
THEOREM Alive == Spec => []AliveWhileOwned
<1>1. IInv => AliveWhileOwned
    BY DEF IInv
<1>2. QED
    BY <1>1, Invariance, PTL

\* A compile only starts while nobody has asked the worker to stop.
THEOREM StopIsRespected == Spec => NoStartAfterStop
<1>1. IInv /\ [Next]_vars =>
        [thread # "running" /\ thread' = "running" => owner = "live"]_vars
    <2> SUFFICES ASSUME IInv, Next, thread # "running", thread' = "running"
                 PROVE  owner = "live"
        BY DEF vars
    <2>1. DrainEmpty
        BY DEF Next, Worker, Caller, Write, Recompile, DropWorker, BeginShutdown, Join,
           Recv, TryRecv, DrainEmpty, CompileRead, CompileDone
    <2>2. ~Queued("Shutdown") /\ ~shutdown
        BY <2>1, QueuedEmpty DEF DrainEmpty, Msg
    <2>3. QED
        BY <2>1, <2>2 DEF IInv, NoLostShutdown, DrainEmpty
<1>2. QED
    BY <1>1, Invariance, PTL DEF Spec, NoStartAfterStop

-----------------------------------------------------------------------------
(* Refinement: every step of the worker is a step of RecompileRequests or   *)
(* leaves its variables alone.  Fairness stays with the model checker.      *)

\* The worker starts as one that owes a compile.
LEMMA RefinesInit == Init => Requests!Init
<1> SUFFICES ASSUME Init PROVE Requests!Init
    OBVIOUS
<1>1. Queued("Recompile")
    <2>1. Len(queue) = 1 /\ queue[1] = "Recompile"
        BY DEF Init
    <2>2. QED
        BY <2>1 DEF Queued
<1>2. QED
    BY <1>1 DEF Init, Requests!Init

\* Each step of the channel and thread is one of the abstract requests, or none.
LEMMA RefinesStep == IInv /\ [Next]_vars => [Requests!Next]_Requests!vars
<1> SUFFICES ASSUME IInv, [Next]_vars PROVE [Requests!Next]_Requests!vars
    OBVIOUS
<1>0. TypeOK /\ "Recompile" \in Msg /\ "Shutdown" \in Msg
    BY DEF IInv, Msg
<1> USE <1>0
<1>1. CASE Write
    <2>1. Queued("Recompile")' <=> Queued("Recompile")
        BY <1>1, QueuedSame DEF Write
    <2>2. Requests!Write
        BY <1>1, <2>1 DEF Write, Requests!Write
    <2>3. QED
        BY <2>2 DEF Requests!Next
<1>2. CASE Recompile
    <2>1. Queued("Recompile")'
        BY <1>2, QueuedAppend DEF Recompile, TypeOK
    <2>2. thread # "exited"
        BY <1>2 DEF Recompile, IInv, AliveWhileOwned
    <2>3. Requests!Request
        BY <1>2, <2>1, <2>2 DEF Recompile, Requests!Request
    <2>4. QED
        BY <2>3 DEF Requests!Next
<1>3. CASE DropWorker \/ BeginShutdown
    <2>1. Queued("Recompile")' <=> Queued("Recompile")
        BY <1>3, QueuedAppend DEF DropWorker, BeginShutdown, TypeOK
    <2>2. Requests!Stop
        BY <1>3, <2>1 DEF DropWorker, BeginShutdown, Requests!Stop
    <2>3. QED
        BY <2>2 DEF Requests!Next
<1>4. CASE Join
    <2>1. Queued("Recompile")' <=> Queued("Recompile")
        BY <1>4, QueuedSame DEF Join
    <2>2. QED
        BY <1>4, <2>1 DEF Join, Requests!vars
<1>5. CASE Recv
    <2>1. \A m \in Msg : Queued(m) <=> Queued(m)' \/ m = Head(queue)
        BY <1>5, QueuedTail DEF Recv, TypeOK
    <2>2. Head(queue) \in Msg
        BY <1>5 DEF Recv, TypeOK
    <2>3. CASE Head(queue) = "Shutdown"
        <3>1. owner # "live"
            BY <1>5, <2>1, <2>3 DEF IInv, ShutdownMeansStopped, Recv
        <3>2. Requests!Exit
            BY <1>5, <2>3, <3>1 DEF Recv, Requests!Exit
        <3>3. QED
            BY <3>2 DEF Requests!Next
    <2>4. CASE Head(queue) = "Recompile"
        BY <1>5, <2>1, <2>4 DEF Recv, Requests!vars
    <2>5. QED
        BY <2>2, <2>3, <2>4 DEF Msg
<1>6. CASE TryRecv
    BY <1>6 DEF TryRecv, Requests!vars
<1>7. CASE DrainEmpty
    <2>1. ~Queued("Recompile") /\ ~Queued("Recompile")' /\ ~Queued("Shutdown")
        BY <1>7, QueuedEmpty, QueuedSame DEF DrainEmpty
    <2>2. CASE shutdown
        <3>1. Requests!Exit
            BY <1>7, <2>1, <2>2 DEF DrainEmpty, Requests!Exit, IInv, ShutdownMeansStopped
        <3>2. QED
            BY <3>1 DEF Requests!Next
    <2>3. CASE ~shutdown
        <3>1. owner = "live"
            BY <1>7, <2>1, <2>3 DEF IInv, NoLostShutdown, DrainEmpty
        <3>2. Requests!Start
            BY <1>7, <2>1, <2>3, <3>1 DEF DrainEmpty, Requests!Start
        <3>3. QED
            BY <3>2 DEF Requests!Next
    <2>4. QED
        BY <2>2, <2>3
<1>8. CASE CompileRead
    <2>1. Queued("Recompile")' <=> Queued("Recompile")
        BY <1>8, QueuedSame DEF CompileRead
    <2>2. Requests!Read
        BY <1>8, <2>1 DEF CompileRead, Requests!Read
    <2>3. QED
        BY <2>2 DEF Requests!Next
<1>9. CASE CompileDone
    <2>1. Queued("Recompile")' <=> Queued("Recompile")
        BY <1>9, QueuedSame DEF CompileDone
    <2>2. Requests!Finish
        BY <1>9, <2>1 DEF CompileDone, Requests!Finish
    <2>3. QED
        BY <2>2 DEF Requests!Next
<1>10. CASE UNCHANGED vars
    <2>1. Queued("Recompile")' <=> Queued("Recompile")
        BY <1>10, QueuedSame DEF vars
    <2>2. QED
        BY <1>10, <2>1 DEF vars, Requests!vars
<1>11. QED
    BY <1>1, <1>2, <1>3, <1>4, <1>5, <1>6, <1>7, <1>8, <1>9, <1>10
    DEF Next, Worker, Caller

\* The thread, its channel and its drain loop implement the safety part of
\* RecompileRequests: callers cannot tell the queue from one pending bit.
THEOREM Refinement == Spec => Requests!Init /\ [][Requests!Next]_Requests!vars
    BY RefinesInit, RefinesStep, Invariance, PTL DEF Spec

=============================================================================
