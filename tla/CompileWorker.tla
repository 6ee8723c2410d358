--------------------------- MODULE CompileWorker ---------------------------
(***************************************************************************)
(* One tab's compile thread: an unbounded mpsc channel of Recompile and    *)
(* Shutdown messages, and a loop that blocks on it, drains what queued,    *)
(* then runs the compile closure.  The callers write the world's text      *)
(* first and send Recompile after, as two steps.                           *)
(***************************************************************************)
EXTENDS Naturals, Sequences

CONSTANTS
    MaxText,        \* bound on the number of edits
    MaxSignals      \* bound on the Recompile messages ever sent after the first

ASSUME BoundsAreNat == MaxText \in Nat /\ MaxSignals \in Nat

Msg == {"Recompile", "Shutdown"}

VARIABLES
    text,           \* version of the buffer the world holds
    signalled,      \* newest version some Recompile was sent for
    sent,           \* Recompile messages sent so far, the bounded counter
    queue,          \* the channel
    owner,          \* the CompileWorker value: live, being joined, joined, dropped
    thread,         \* where the worker thread is
    shutdown,       \* the drain loop's local flag
    compiled        \* version the latest compile read

vars == <<text, signalled, sent, queue, owner, thread, shutdown, compiled>>

Queued(m) == \E i \in 1..Len(queue) : queue[i] = m

TypeOK ==
    /\ text \in Nat
    /\ signalled \in Nat
    /\ sent \in Nat
    /\ queue \in Seq(Msg)
    /\ owner \in {"live", "joining", "joined", "dropped"}
    /\ thread \in {"recv", "drain", "running", "rendering", "exited"}
    /\ shutdown \in BOOLEAN
    /\ compiled \in Nat

-----------------------------------------------------------------------------

\* create_worker spawns the thread and signals the initial compile before the
\* worker becomes reachable through the map.
Init ==
    /\ text = 0
    /\ signalled = 0
    /\ sent = 0
    /\ queue = <<"Recompile">>
    /\ owner = "live"
    /\ thread = "recv"
    /\ shutdown = FALSE
    /\ compiled = 0

Write ==
    /\ text < MaxText
    /\ text' = text + 1
    /\ UNCHANGED <<signalled, sent, queue, owner, thread, shutdown, compiled>>

\* An edit signals after its write; a refresh or a changed dependency signals
\* without one.
Recompile ==
    /\ owner = "live"
    /\ sent < MaxSignals
    /\ sent' = sent + 1
    /\ queue' = Append(queue, "Recompile")
    /\ signalled' = text
    /\ UNCHANGED <<text, owner, thread, shutdown, compiled>>

\* Closing the tab drops the worker (no join); an explicit shutdown joins.
DropWorker ==
    /\ owner = "live"
    /\ owner' = "dropped"
    /\ queue' = Append(queue, "Shutdown")
    /\ UNCHANGED <<text, signalled, sent, thread, shutdown, compiled>>

BeginShutdown ==
    /\ owner = "live"
    /\ owner' = "joining"
    /\ queue' = Append(queue, "Shutdown")
    /\ UNCHANGED <<text, signalled, sent, thread, shutdown, compiled>>

Join ==
    /\ owner = "joining"
    /\ thread = "exited"
    /\ owner' = "joined"
    /\ UNCHANGED <<text, signalled, sent, queue, thread, shutdown, compiled>>

-----------------------------------------------------------------------------

\* Mutant: recv goes straight to the compile, one compile per message.
RecvNoDrain ==
    /\ thread = "recv"
    /\ queue # <<>>
    /\ queue' = Tail(queue)
    /\ thread' = IF Head(queue) = "Shutdown" THEN "exited" ELSE "running"
    /\ UNCHANGED <<text, signalled, sent, owner, shutdown, compiled>>

Recv ==
    /\ thread = "recv"
    /\ queue # <<>>
    /\ queue' = Tail(queue)
    /\ thread' = IF Head(queue) = "Shutdown" THEN "exited" ELSE "drain"
    /\ shutdown' = FALSE
    /\ UNCHANGED <<text, signalled, sent, owner, compiled>>

TryRecv ==
    /\ thread = "drain"
    /\ queue # <<>>
    /\ queue' = Tail(queue)
    /\ shutdown' = (shutdown \/ Head(queue) = "Shutdown")
    /\ UNCHANGED <<text, signalled, sent, owner, thread, compiled>>

DrainEmpty ==
    /\ thread = "drain"
    /\ queue = <<>>
    /\ thread' = IF shutdown THEN "exited" ELSE "running"
    /\ UNCHANGED <<text, signalled, sent, queue, owner, shutdown, compiled>>

CompileRead ==
    /\ thread = "running"
    /\ compiled' = text
    /\ thread' = "rendering"
    /\ UNCHANGED <<text, signalled, sent, queue, owner, shutdown>>

\* Mutant: the loop drains after the compile as well.
CompileDoneDrains ==
    /\ thread = "rendering"
    /\ thread' = "recv"
    /\ queue' = SelectSeq(queue, LAMBDA m : m = "Shutdown")
    /\ UNCHANGED <<text, signalled, sent, owner, shutdown, compiled>>

CompileDone ==
    /\ thread = "rendering"
    /\ thread' = "recv"
    /\ UNCHANGED <<text, signalled, sent, queue, owner, shutdown, compiled>>

-----------------------------------------------------------------------------

Worker == Recv \/ TryRecv \/ DrainEmpty \/ CompileRead \/ CompileDone

Caller == Write \/ Recompile \/ DropWorker \/ BeginShutdown \/ Join

Next == Worker \/ Caller

\* The OS schedules the worker thread and a joining caller; nothing obliges
\* anybody to edit, signal or close.
Spec == Init /\ [][Next]_vars /\ WF_vars(Worker) /\ WF_vars(Join)

-----------------------------------------------------------------------------

\* A version that was signalled and not read yet is still going to be: its
\* message is queued, being drained, or stands for the compile about to read.
NoLostSignal ==
    (owner = "live" /\ compiled < signalled) =>
        \/ Queued("Recompile")
        \/ thread \in {"drain", "running"}

\* Coalescing must not swallow a Shutdown: until the thread exits, a stop that
\* was asked for is in the channel or in the drain loop's flag.
NoLostShutdown ==
    (owner # "live" /\ thread # "exited") =>
        \/ Queued("Shutdown")
        \/ thread = "drain" /\ shutdown

\* The thread never exits under a live owner, so recompile() never sends into
\* a channel nobody reads.
AliveWhileOwned == owner = "live" => thread # "exited"

\* No compile starts after a shutdown or a drop was requested, however many
\* Recompile messages are queued before it.
NoStartAfterStop ==
    [][thread # "running" /\ thread' = "running" => owner = "live"]_vars

\* Every signalled version is read by a compile, or the worker is stopped.
SignalledIsCompiled ==
    \A v \in 1..MaxText :
        (signalled = v) ~> (compiled >= v \/ owner # "live")

-----------------------------------------------------------------------------

\* The channel is invisible to the callers: due is a message somewhere on the
\* way to the next compile.
Requests == INSTANCE RecompileRequests WITH
    due   <- \/ thread = "drain"
             \/ thread # "exited" /\ Queued("Recompile"),
    stop  <- owner # "live",
    phase <- CASE thread \in {"recv", "drain"} -> "idle"
               [] thread = "exited" -> "stopped"
               [] OTHER -> thread

\* The worker implements RecompileRequests, its fairness included.
Implements == Requests!Spec

=============================================================================
