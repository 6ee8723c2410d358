-------------------------- MODULE CompilePipeline --------------------------
(***************************************************************************)
(* The compile pipeline of several open tabs: one worker thread per tab    *)
(* generation, a process-wide semaphore, panic backoff, the slow-compile   *)
(* watchdog and the shutdown drain.                                        *)
(*                                                                         *)
(* A worker is <<d, g>>: document d, generation g of its TabState (a Save  *)
(* As, rename or workspace change replaces the TabState and rotates the    *)
(* worker under the same id).  The channel is the pending bit and the stop *)
(* bit of RecompileRequests, which CompileWorker implements.  Texts are    *)
(* version numbers; pages and diagnostics are not represented here.        *)
(***************************************************************************)
EXTENDS Integers, FiniteSets

CONSTANTS
    Docs,               \* document ids
    Cap,                \* permits of the semaphore (at most 4 in the code)
    PanicThreshold,     \* consecutive panics that arm the cooldown (3)
    MaxGen,             \* bound on the generations of one document
    MaxText,            \* bound on the edits of one document
    MayPanic,           \* documents whose compiles and renders may panic
    SlowCompiles        \* documents whose compiles may outlast the slow threshold

ASSUME PipelineAssumption ==
    /\ IsFiniteSet(Docs)
    /\ Cap \in Nat \ {0}
    /\ PanicThreshold \in Nat \ {0}
    /\ MaxGen \in Nat \ {0}
    /\ MaxText \in Nat
    /\ MayPanic \subseteq Docs
    /\ SlowCompiles \subseteq Docs

Gens == 1..MaxGen
Workers == Docs \X Gens

VARIABLES
    open,       \* the tabs map has the document
    gen,        \* generation of its TabState, the last one when closed
    mapped,     \* generation of the worker in the workers map, 0 when none
    rotation,   \* where the rotation of a replaced tab's worker is
    rev, text,  \* revision and text version of each TabState
    req, stop,  \* the worker's channel: a Recompile queued, a Shutdown queued
    unheard,    \* history: documents whose last signal found no worker
    pc,         \* where the worker thread is
    snap,       \* its local (revision, text_before)
    read,       \* text version the running compile reads
    outcome,    \* how the running compile ended
    panics,     \* consecutive_panic_count
    cooling,    \* panic_cooldown_until is in the future
    last,       \* last_compiled_revision, success, and the version of last_doc
    armed,      \* the running compile's watchdog sleeps with its flag true
    slow,       \* revisions whose watchdog passed its checks, not emitted yet
    free,       \* free permits
    shutdown,   \* the supervisor's flag
    drained,    \* wait_for_drain returned because every permit was free
    status,     \* latest status event of each document
    shown       \* latest compiled event of each document

tabVars    == <<open, gen, mapped, rotation, rev, text>>
chanVars   == <<req, stop, unheard>>
localVars  == <<pc, snap, read, outcome>>
resultVars == <<panics, cooling, last>>
dogVars    == <<armed, slow>>
supVars    == <<free, shutdown, drained>>
eventVars  == <<status, shown>>
vars == <<tabVars, chanVars, localVars, resultVars, dogVars, supVars, eventVars>>

Versions == -1..MaxText

Steps == {"none", "idle", "checked", "waiting", "compiling", "finished",
          "tail", "publish", "exited"}

TypeOK ==
    /\ open \in [Docs -> BOOLEAN]
    /\ gen \in [Docs -> Gens]
    /\ mapped \in [Docs -> 0..MaxGen]
    /\ rotation \in [Docs -> {"none", "remove", "spawn", "insert"}]
    /\ rev \in [Workers -> 0..MaxText]
    /\ text \in [Workers -> 0..MaxText]
    /\ req \in [Workers -> BOOLEAN]
    /\ stop \in [Workers -> BOOLEAN]
    /\ unheard \subseteq Docs
    /\ pc \in [Workers -> Steps]
    /\ snap \in [Workers -> [rev : 0..MaxText, text : 0..MaxText]]
    /\ read \in [Workers -> 0..MaxText]
    /\ outcome \in [Workers -> {"ok", "failed", "panic"}]
    /\ panics \in [Workers -> 0..PanicThreshold]
    /\ cooling \in [Workers -> BOOLEAN]
    /\ last \in [Workers -> [rev : Versions, ver : Versions, ok : BOOLEAN]]
    /\ armed \in [Workers -> BOOLEAN]
    /\ slow \in [Workers -> SUBSET (0..MaxText)]
    /\ free \in 0..Cap
    /\ shutdown \in BOOLEAN
    /\ drained \in BOOLEAN
    /\ status \in [Docs -> [st : {"idle", "compiling", "slow", "success", "error"},
                            rev : Versions]]
    /\ shown \in [Docs -> [rev : Versions, ver : Versions]]

NoSnap == [rev |-> 0, text |-> 0]

Current(w) == open[w[1]] /\ gen[w[1]] = w[2]

\* A thread holds its permit from acquire to the end of do_compile_for_tab,
\* the render and emit tail included.
Holding(w) == pc[w] \in {"compiling", "finished", "tail", "publish"}

-----------------------------------------------------------------------------

\* Every document is open with its first worker inserted and signalled.
Init ==
    /\ open = [d \in Docs |-> TRUE]
    /\ gen = [d \in Docs |-> 1]
    /\ mapped = [d \in Docs |-> 1]
    /\ rotation = [d \in Docs |-> "none"]
    /\ rev = [w \in Workers |-> 0]
    /\ text = [w \in Workers |-> 0]
    /\ req = [w \in Workers |-> w[2] = 1]
    /\ stop = [w \in Workers |-> FALSE]
    /\ unheard = {}
    /\ pc = [w \in Workers |-> IF w[2] = 1 THEN "idle" ELSE "none"]
    /\ snap = [w \in Workers |-> NoSnap]
    /\ read = [w \in Workers |-> 0]
    /\ outcome = [w \in Workers |-> "ok"]
    /\ panics = [w \in Workers |-> 0]
    /\ cooling = [w \in Workers |-> FALSE]
    /\ last = [w \in Workers |-> [rev |-> -1, ver |-> -1, ok |-> FALSE]]
    /\ armed = [w \in Workers |-> FALSE]
    /\ slow = [w \in Workers |-> {}]
    /\ free = Cap
    /\ shutdown = FALSE
    /\ drained = FALSE
    /\ status = [d \in Docs |-> [st |-> "idle", rev |-> -1]]
    /\ shown = [d \in Docs |-> [rev |-> -1, ver |-> -1]]

-----------------------------------------------------------------------------
(* The document service's side.                                             *)

\* Mutant: no signal while a compile of the document is running.
SignalUnlessBusy(d) ==
    /\ req' = IF mapped[d] = 0 \/ Holding(<<d, mapped[d]>>)
              THEN req ELSE [req EXCEPT ![<<d, mapped[d]>>] = TRUE]
    /\ unheard' = IF mapped[d] = 0 THEN unheard \union {d} ELSE unheard \ {d}

\* worker.recompile() on whatever worker the map holds for d.
Signal(d) ==
    IF mapped[d] = 0
    THEN req' = req /\ unheard' = unheard \union {d}
    ELSE req' = [req EXCEPT ![<<d, mapped[d]>>] = TRUE] /\ unheard' = unheard \ {d}

\* An edit adopts a newer revision, or replaces the text at the same revision
\* when the editor wins over a backend reload.
Edit(d, bump) ==
    LET w == <<d, gen[d]>> IN
    /\ open[d]
    /\ text[w] < MaxText
    /\ text' = [text EXCEPT ![w] = @ + 1]
    /\ rev' = IF bump THEN [rev EXCEPT ![w] = @ + 1] ELSE rev
    /\ Signal(d)
    /\ UNCHANGED <<open, gen, mapped, rotation, stop, localVars, resultVars, dogVars, supVars,
                   eventVars>>

\* The same snapshot again, or an edit of an included document.
Refresh(d) ==
    /\ open[d]
    /\ Signal(d)
    /\ UNCHANGED <<tabVars, stop, localVars, resultVars, dogVars, supVars, eventVars>>

\* swap_world: the rebuilt TabState takes the old one's place with its text
\* and revision; the worker is rotated in three further steps.
Replace(d) ==
    LET w == <<d, gen[d]>>  n == <<d, gen[d] + 1>> IN
    /\ open[d]
    /\ gen[d] < MaxGen
    /\ rotation[d] = "none"
    /\ gen' = [gen EXCEPT ![d] = @ + 1]
    /\ rev' = [rev EXCEPT ![n] = rev[w]]
    /\ text' = [text EXCEPT ![n] = text[w]]
    /\ rotation' = [rotation EXCEPT ![d] = "remove"]
    /\ UNCHANGED <<open, mapped, chanVars, localVars, resultVars, dogVars, supVars, eventVars>>

\* Taking a worker out of the map drops it, which sends Shutdown.
Unmap(d) ==
    /\ mapped' = [mapped EXCEPT ![d] = 0]
    /\ stop' = IF mapped[d] = 0 THEN stop ELSE [stop EXCEPT ![<<d, mapped[d]>>] = TRUE]

RemoveWorker(d) ==
    /\ rotation[d] = "remove"
    /\ Unmap(d)
    /\ rotation' = [rotation EXCEPT ![d] = "spawn"]
    /\ UNCHANGED <<open, gen, rev, text, req, unheard, localVars, resultVars, dogVars,
                   supVars, eventVars>>

\* create_worker: spawn the thread and signal the initial compile ...
SpawnWorker(d) ==
    LET n == <<d, gen[d]>> IN
    /\ rotation[d] = "spawn"
    /\ pc' = [pc EXCEPT ![n] = "idle"]
    /\ req' = [req EXCEPT ![n] = TRUE]
    /\ unheard' = unheard \ {d}
    /\ rotation' = [rotation EXCEPT ![d] = "insert"]
    /\ UNCHANGED <<open, gen, mapped, rev, text, stop, snap, read, outcome, resultVars, dogVars,
                   supVars, eventVars>>

\* ... then publish it in the map.
InsertWorker(d) ==
    /\ rotation[d] = "insert"
    /\ mapped' = [mapped EXCEPT ![d] = gen[d]]
    /\ rotation' = [rotation EXCEPT ![d] = "none"]
    /\ UNCHANGED <<open, gen, rev, text, chanVars, localVars, resultVars, dogVars, supVars,
                   eventVars>>

\* hard_close drops the worker and removes the tab, whatever else runs on it.
Close(d) ==
    /\ open[d]
    /\ Unmap(d)
    /\ open' = [open EXCEPT ![d] = FALSE]
    /\ UNCHANGED <<gen, rev, text, rotation, req, unheard, localVars, resultVars, dogVars, supVars,
                   eventVars>>

-----------------------------------------------------------------------------
(* The worker thread.                                                       *)

\* do_compile_for_tab returns: its locals are gone and its permit is dropped.
Return(w) ==
    /\ pc' = [pc EXCEPT ![w] = "idle"]
    /\ snap' = [snap EXCEPT ![w] = NoSnap]
    /\ read' = [read EXCEPT ![w] = 0]
    /\ outcome' = [outcome EXCEPT ![w] = "ok"]
    /\ free' = free + 1

\* A message is taken; the closure returns at once for a replaced or closed
\* tab, during a cooldown, or once the supervisor shuts down.
Begin(w) ==
    /\ pc[w] = "idle"
    /\ req[w]
    /\ ~stop[w]
    /\ req' = [req EXCEPT ![w] = FALSE]
    /\ pc' = IF Current(w) /\ ~cooling[w] /\ ~shutdown
             THEN [pc EXCEPT ![w] = "checked"]
             ELSE pc
    /\ UNCHANGED <<tabVars, stop, unheard, snap, read, outcome, resultVars, dogVars, supVars,
                   eventVars>>

Exit(w) ==
    /\ pc[w] = "idle"
    /\ stop[w]
    /\ pc' = [pc EXCEPT ![w] = "exited"]
    /\ UNCHANGED <<tabVars, chanVars, snap, read, outcome, resultVars, dogVars, supVars,
                   eventVars>>

\* Revision and text under one lock, then the Compiling status.
Snapshot(w) ==
    /\ pc[w] = "checked"
    /\ snap' = [snap EXCEPT ![w] = [rev |-> rev[w], text |-> text[w]]]
    /\ status' = [status EXCEPT ![w[1]] = [st |-> "compiling", rev |-> rev[w]]]
    /\ pc' = [pc EXCEPT ![w] = "waiting"]
    /\ UNCHANGED <<tabVars, chanVars, read, outcome, resultVars, dogVars, supVars, shown>>

\* The permit, the watchdog, and the live read of the world without a lock.
Acquire(w) ==
    /\ pc[w] = "waiting"
    /\ free > 0
    /\ free' = free - 1
    /\ armed' = [armed EXCEPT ![w] = TRUE]
    /\ read' = [read EXCEPT ![w] = text[w]]
    /\ pc' = [pc EXCEPT ![w] = "compiling"]
    /\ UNCHANGED <<tabVars, chanVars, snap, outcome, resultVars, slow, shutdown, drained,
                   eventVars>>

Outcomes(w) == {"ok", "failed"} \union (IF w[1] \in MayPanic THEN {"panic"} ELSE {})

\* The compile returns or unwinds; the watchdog's flag is cleared either way.
Compile(w) ==
    /\ pc[w] = "compiling"
    /\ \E o \in Outcomes(w) : outcome' = [outcome EXCEPT ![w] = o]
    /\ armed' = [armed EXCEPT ![w] = FALSE]
    /\ pc' = [pc EXCEPT ![w] = "finished"]
    /\ UNCHANGED <<tabVars, chanVars, snap, read, resultVars, slow, supVars, eventVars>>

\* Mutant: the early return after the compile keeps the permit.
DiscardLeaks(w) ==
    /\ pc[w] = "finished"
    /\ ~Current(w) \/ shutdown
    /\ pc' = [pc EXCEPT ![w] = "idle"]
    /\ UNCHANGED <<tabVars, chanVars, snap, read, outcome, resultVars, dogVars, supVars,
                   eventVars>>

\* A result of a closed or replaced tab, or one during the drain, is dropped
\* with its permit.
Discard(w) ==
    /\ pc[w] = "finished"
    /\ ~Current(w) \/ shutdown
    /\ Return(w)
    /\ UNCHANGED <<tabVars, chanVars, resultVars, dogVars, shutdown,
                   drained, eventVars>>

\* Mutant: the drain is not checked again after the compile.
KeepDuringDrain(w) ==
    /\ pc[w] = "finished"
    /\ Current(w)
    /\ pc' = [pc EXCEPT ![w] = "tail"]
    /\ UNCHANGED <<tabVars, chanVars, snap, read, outcome, resultVars, dogVars, supVars,
                   eventVars>>

Keep(w) ==
    /\ pc[w] = "finished"
    /\ Current(w) /\ ~shutdown
    /\ pc' = [pc EXCEPT ![w] = "tail"]
    /\ UNCHANGED <<tabVars, chanVars, snap, read, outcome, resultVars, dogVars, supVars,
                   eventVars>>

\* The result under the state lock: an outcome resets the panic count.
Store(w) ==
    /\ pc[w] = "tail"
    /\ outcome[w] # "panic"
    /\ last' = [last EXCEPT ![w] =
                   [rev |-> snap[w].rev, ver |-> read[w], ok |-> outcome[w] = "ok"]]
    /\ panics' = [panics EXCEPT ![w] = 0]
    /\ cooling' = [cooling EXCEPT ![w] = FALSE]
    /\ pc' = [pc EXCEPT ![w] = "publish"]
    /\ UNCHANGED <<tabVars, chanVars, snap, read, outcome, dogVars, supVars, eventVars>>

\* Mutant: the panic path ends without a terminal status.
HandlePanicSilent(w) ==
    /\ pc[w] = "tail"
    /\ outcome[w] = "panic"
    /\ panics' = [panics EXCEPT ![w] = IF @ < PanicThreshold THEN @ + 1 ELSE @]
    /\ cooling' = [cooling EXCEPT ![w] = @ \/ panics[w] + 1 >= PanicThreshold]
    /\ last' = [last EXCEPT ![w] = [rev |-> snap[w].rev, ver |-> read[w], ok |-> FALSE]]
    /\ Return(w)
    /\ UNCHANGED <<tabVars, chanVars, dogVars, shutdown, drained, eventVars>>

\* handle_compile_panic: count (counts past the threshold act alike), maybe arm
\* the cooldown, clear the result, and end with the Error status.
HandlePanic(w) ==
    /\ pc[w] = "tail"
    /\ outcome[w] = "panic"
    /\ panics' = [panics EXCEPT ![w] = IF @ < PanicThreshold THEN @ + 1 ELSE @]
    /\ cooling' = [cooling EXCEPT ![w] = @ \/ panics[w] + 1 >= PanicThreshold]
    /\ last' = [last EXCEPT ![w] = [rev |-> snap[w].rev, ver |-> read[w], ok |-> FALSE]]
    /\ status' = [status EXCEPT ![w[1]] = [st |-> "error", rev |-> snap[w].rev]]
    /\ Return(w)
    /\ UNCHANGED <<tabVars, chanVars, dogVars, shutdown, drained,
                   shown>>

\* Success: the pages are rendered and emitted unless the text changed since
\* the snapshot; the status and the permit follow.
Publish(w) ==
    LET rendered == outcome[w] = "ok" /\ text[w] = snap[w].text IN
    /\ pc[w] = "publish"
    /\ shown' = IF rendered
                THEN [shown EXCEPT ![w[1]] = [rev |-> snap[w].rev, ver |-> read[w]]]
                ELSE shown
    /\ status' = [status EXCEPT ![w[1]] =
                     [st |-> IF outcome[w] = "ok" THEN "success" ELSE "error",
                      rev |-> snap[w].rev]]
    /\ Return(w)
    /\ UNCHANGED <<tabVars, chanVars, resultVars, dogVars, shutdown,
                   drained>>

\* The renderer panics: the tail's catch_unwind takes the panic path.
RenderPanic(w) ==
    /\ w[1] \in MayPanic
    /\ pc[w] = "publish"
    /\ outcome[w] = "ok" /\ text[w] = snap[w].text
    /\ outcome' = [outcome EXCEPT ![w] = "panic"]
    /\ pc' = [pc EXCEPT ![w] = "tail"]
    /\ UNCHANGED <<tabVars, chanVars, snap, read, resultVars, dogVars, supVars, eventVars>>

-----------------------------------------------------------------------------
(* Time, the watchdog and the supervisor.                                   *)

CooldownExpires(w) ==
    /\ cooling[w]
    /\ cooling' = [cooling EXCEPT ![w] = FALSE]
    /\ UNCHANGED <<tabVars, chanVars, localVars, panics, last, dogVars, supVars, eventVars>>

\* The watchdog wakes while the compile runs and finds the tab current.
WatchdogWakes(w) ==
    /\ w[1] \in SlowCompiles
    /\ armed[w]
    /\ Current(w)
    /\ armed' = [armed EXCEPT ![w] = FALSE]
    /\ slow' = [slow EXCEPT ![w] = @ \union {snap[w].rev}]
    /\ UNCHANGED <<tabVars, chanVars, localVars, resultVars, supVars, eventVars>>

WatchdogEmits(w) ==
    \E r \in slow[w] :
        /\ slow' = [slow EXCEPT ![w] = @ \ {r}]
        /\ status' = [status EXCEPT ![w[1]] = [st |-> "slow", rev |-> r]]
        /\ UNCHANGED <<tabVars, chanVars, localVars, resultVars, armed, supVars, shown>>

Shutdown ==
    /\ ~shutdown
    /\ shutdown' = TRUE
    /\ UNCHANGED <<tabVars, chanVars, localVars, resultVars, dogVars, free, drained,
                   eventVars>>

\* One poll of wait_for_drain sees every permit free.
DrainReturns ==
    /\ shutdown
    /\ free = Cap
    /\ ~drained
    /\ drained' = TRUE
    /\ UNCHANGED <<tabVars, chanVars, localVars, resultVars, dogVars, free, shutdown,
                   eventVars>>

-----------------------------------------------------------------------------

WorkerStep(w) ==
    \/ Begin(w)
    \/ Exit(w)
    \/ Snapshot(w)
    \/ Acquire(w)
    \/ Compile(w)
    \/ Discard(w)
    \/ Keep(w)
    \/ Store(w)
    \/ HandlePanic(w)
    \/ Publish(w)
    \/ RenderPanic(w)

DocStep(d) ==
    \/ \E bump \in BOOLEAN : Edit(d, bump)
    \/ Refresh(d)
    \/ Replace(d)
    \/ RemoveWorker(d)
    \/ SpawnWorker(d)
    \/ InsertWorker(d)
    \/ Close(d)

TimeStep(w) == CooldownExpires(w) \/ WatchdogWakes(w) \/ WatchdogEmits(w)

Next ==
    \/ \E w \in Workers : WorkerStep(w) \/ TimeStep(w)
    \/ \E d \in Docs : DocStep(d)
    \/ Shutdown
    \/ DrainReturns

\* Threads are scheduled and compiles end; a thread that is woken for a permit
\* again and again takes one at last, although the semaphore keeps no queue; a
\* rebuild that replaced the tab goes on to create its worker; the cooldown
\* passes.  Edits, closes and the shutdown are the user's.
Fairness ==
    /\ \A w \in Workers : WF_vars(WorkerStep(w)) /\ SF_vars(Acquire(w))
    /\ \A w \in Workers : WF_vars(CooldownExpires(w)) /\ WF_vars(WatchdogEmits(w))
    /\ \A d \in Docs : WF_vars(RemoveWorker(d) \/ SpawnWorker(d) \/ InsertWorker(d))

Spec == Init /\ [][Next]_vars /\ Fairness

-----------------------------------------------------------------------------

\* Every permit is free or held by exactly one worker between its acquire and
\* the end of that compile, on the early returns and the panic paths too.
PermitsConserved == free + Cardinality({w \in Workers : Holding(w)}) = Cap

\* The watchdog's flag is up only while the compile itself runs: a worker that
\* waits for its permit, renders, or panicked is never reported as slow.
WatchdogOnlyWhileCompiling == \A w \in Workers : armed[w] => pc[w] = "compiling"

\* Document d rests: its current worker is the mapped one, with nothing
\* queued, running, cooling or still to be emitted.
Settled(d) ==
    LET w == <<d, gen[d]>> IN
    /\ open[d]
    /\ mapped[d] = gen[d]
    /\ rotation[d] = "none"
    /\ ~shutdown
    /\ pc[w] = "idle" /\ ~req[w] /\ ~cooling[w]
    /\ \A g \in Gens : slow[<<d, g>>] = {} /\ ~Holding(<<d, g>>)
                       /\ pc[<<d, g>>] \notin {"checked", "waiting"}

\* At rest, a successful result an export would use is the buffer's text at
\* the buffer's revision, for a rebuilt tab too, unless its last edit came
\* while the workers map had no worker to signal.
SettledResult ==
    \A d \in Docs \ unheard : Settled(d) /\ last[<<d, gen[d]>>].ok =>
        /\ last[<<d, gen[d]>>].rev = rev[<<d, gen[d]>>]
        /\ last[<<d, gen[d]>>].ver = text[<<d, gen[d]>>]

\* At rest, the preview on screen shows the text of that successful result, as
\* long as no older TabState's worker may have emitted after a newer one's.
SettledPreview ==
    \A d \in Docs \ unheard : gen[d] = 1 /\ Settled(d) /\ last[<<d, gen[d]>>].ok =>
        shown[d].ver = text[<<d, gen[d]>>]

\* At rest, the result that is stored and the one that is shown are the latest.
SettledIsLatest == SettledResult /\ SettledPreview

\* At rest, the status bar of a tab that was never replaced does not say
\* Compiling.  (A worker that loses its tab between its check and its result
\* emits Compiling and nothing after it.)
CompilingIsTransient == \A d \in Docs : gen[d] = 1 /\ Settled(d) => status[d].st # "compiling"

\* Once wait_for_drain has seen every permit free, no result is stored or shown
\* any more, not even of a compile that passed the shutdown check before and
\* acquires a permit after.
DrainedIsFinal == [][drained => UNCHANGED <<last, shown>>]_vars

\* A worker that waits behind the cap gets a permit, however often the other
\* tabs are signalled and whatever becomes of their compiles: none of them, nor
\* an early return or a panic, keeps the permits from it for ever.
PermitGranted == \A w \in Workers : []<>(pc[w] # "waiting")

\* Every edit reaches a result of that text or a newer one, unless the tab is
\* replaced or closed or the application shuts down.  Once a tab was replaced,
\* an edit counts when it is signalled: swap_world accepts that one made while
\* there is no worker in the map is not.
EditIsCompiled ==
    \A w \in Workers : \A v \in 1..MaxText :
        (Current(w) /\ text[w] = v /\ (w[2] = 1 \/ req[w])) ~>
            (last[w].ver >= v \/ ~Current(w) \/ shutdown)

=============================================================================
