----------------------- MODULE CompilePipeline_proofs -----------------------
(***************************************************************************)
(* Proofs about the compile pipeline, for any finite set of documents, any *)
(* cap and any bounds: type correctness, the conservation of the permits,  *)
(* the watchdog's window, what holds once the drain has returned and what  *)
(* holds at rest; and about the exports that run over it: they write       *)
(* nothing older than they were asked for, and their answers are true.     *)
(***************************************************************************)
EXTENDS Exports, FiniteSetTheorems, SequenceTheorems, TLAPS

-----------------------------------------------------------------------------
(* Workers are pairs of a document and a generation; there are finitely    *)
(* many of them.                                                           *)

\* A worker is a tab and a generation of it.
LEMMA WorkerParts ==
    /\ \A w \in Workers : w[1] \in Docs /\ w[2] \in Gens /\ w = <<w[1], w[2]>>
    /\ \A d \in Docs, g \in Gens : <<d, g>> \in Workers
    BY DEF Workers

\* Holders of permits can be counted.
LEMMA WorkersFinite == IsFiniteSet(Workers)
<1>1. IsFiniteSet(Gens)
    BY PipelineAssumption, FS_Interval DEF Gens
<1>2. QED
    BY <1>1, PipelineAssumption, FS_Product DEF Workers

\* The types of everything but the permit counter are inductive alone; that
\* the counter stays within 0..Cap needs the conservation of the permits.
WeakTypeOK ==
    /\ open \in [Docs -> BOOLEAN]
    /\ gen \in [Docs -> Gens]
    /\ mapped \in [Docs -> 0..MaxGen]
    /\ rotation \in [Docs -> {"none", "remove", "spawn", "insert"}]
    /\ rev \in [Workers -> 0..MaxText]
    /\ text \in [Workers -> 0..MaxText]
    /\ req \in [Workers -> BOOLEAN]
    /\ stop \in [Workers -> BOOLEAN]
    /\ unheard \subseteq Docs
    /\ pc \in [Workers -> Steps]
    /\ snap \in [Workers -> [rev : 0..MaxText, text : 0..MaxText]]
    /\ read \in [Workers -> 0..MaxText]
    /\ outcome \in [Workers -> {"ok", "failed", "panic"}]
    /\ panics \in [Workers -> 0..PanicThreshold]
    /\ cooling \in [Workers -> BOOLEAN]
    /\ last \in [Workers -> [rev : Versions, ver : Versions, ok : BOOLEAN]]
    /\ armed \in [Workers -> BOOLEAN]
    /\ slow \in [Workers -> SUBSET (0..MaxText)]
    /\ free \in Nat
    /\ shutdown \in BOOLEAN
    /\ drained \in BOOLEAN
    /\ status \in [Docs -> [st : {"idle", "compiling", "slow", "success", "error"},
                            rev : Versions]]
    /\ shown \in [Docs -> [rev : Versions, ver : Versions]]
    /\ \A w \in Workers : rev[w] <= text[w]

USE PipelineAssumption

\* The threads, results and supervisor start out typed.
LEMMA TypeInit == Init => WeakTypeOK
<1> SUFFICES ASSUME Init PROVE WeakTypeOK
    OBVIOUS
<1> USE DEF Init
<1>1. /\ open \in [Docs -> BOOLEAN]
      /\ gen \in [Docs -> Gens]
      /\ mapped \in [Docs -> 0..MaxGen]
      /\ rotation \in [Docs -> {"none", "remove", "spawn", "insert"}]
    BY DEF Gens
<1>2. /\ rev \in [Workers -> 0..MaxText]
      /\ text \in [Workers -> 0..MaxText]
      /\ read \in [Workers -> 0..MaxText]
      /\ snap \in [Workers -> [rev : 0..MaxText, text : 0..MaxText]]
      /\ \A w \in Workers : rev[w] <= text[w]
    BY DEF NoSnap
<1>3. req \in [Workers -> BOOLEAN]
    <2>1. \A w \in Workers : (w[2] = 1) \in BOOLEAN
        OBVIOUS
    <2>2. QED
        BY <2>1, Zenon
<1>4. /\ stop \in [Workers -> BOOLEAN]
      /\ cooling \in [Workers -> BOOLEAN]
      /\ armed \in [Workers -> BOOLEAN]
      /\ slow \in [Workers -> SUBSET (0..MaxText)]
      /\ unheard \subseteq Docs
    OBVIOUS
<1>5. pc \in [Workers -> Steps]
    <2>1. \A w \in Workers : (IF w[2] = 1 THEN "idle" ELSE "none") \in Steps
        BY DEF Steps
    <2>2. QED
        BY <2>1, Zenon
<1>6. /\ outcome \in [Workers -> {"ok", "failed", "panic"}]
      /\ panics \in [Workers -> 0..PanicThreshold]
      /\ last \in [Workers -> [rev : Versions, ver : Versions, ok : BOOLEAN]]
    BY DEF Versions
<1>7. free \in Nat /\ shutdown \in BOOLEAN /\ drained \in BOOLEAN
    OBVIOUS
<1>8. /\ status \in [Docs -> [st : {"idle", "compiling", "slow", "success", "error"},
                              rev : Versions]]
      /\ shown \in [Docs -> [rev : Versions, ver : Versions]]
    BY DEF Versions
<1>9. QED
    BY <1>1, <1>2, <1>3, <1>4, <1>5, <1>6, <1>7, <1>8 DEF WeakTypeOK

\* No stage of do_compile_for_tab stores anything out of type.
LEMMA TypeWorker ==
    ASSUME WeakTypeOK, NEW w \in Workers, WorkerStep(w)
    PROVE  WeakTypeOK'
<1> USE DEF WeakTypeOK, tabVars, chanVars, localVars, resultVars, dogVars, supVars, eventVars
<1> w[1] \in Docs
    BY WorkerParts
<1>1. CASE Begin(w)
    BY <1>1 DEF Begin, Steps
<1>2. CASE Exit(w)
    BY <1>2 DEF Exit, Steps
<1>3. CASE Snapshot(w)
    BY <1>3 DEF Snapshot, Steps, Versions
<1>4. CASE Acquire(w)
    BY <1>4 DEF Acquire, Steps
<1>5. CASE Compile(w)
    BY <1>5 DEF Compile, Steps, Outcomes
<1>6. CASE Discard(w)
    BY <1>6 DEF Discard, Return, NoSnap, Steps
<1>7. CASE Keep(w)
    BY <1>7 DEF Keep, Steps
<1>8. CASE Store(w)
    BY <1>8 DEF Store, Steps, Versions
<1>9. CASE HandlePanic(w)
    BY <1>9 DEF HandlePanic, Return, NoSnap, Steps, Versions
<1>10. CASE Publish(w)
    BY <1>10 DEF Publish, Return, NoSnap, Steps, Versions
<1>11. CASE RenderPanic(w)
    BY <1>11 DEF RenderPanic, Steps
<1>12. QED
    BY <1>1, <1>2, <1>3, <1>4, <1>5, <1>6, <1>7, <1>8, <1>9, <1>10, <1>11 DEF WorkerStep

\* Nor do the watchdog and the cooldown.
LEMMA TypeTime ==
    ASSUME WeakTypeOK, NEW w \in Workers, TimeStep(w)
    PROVE  WeakTypeOK'
<1> USE DEF WeakTypeOK, tabVars, chanVars, localVars, resultVars, dogVars, supVars, eventVars
<1> w[1] \in Docs
    BY WorkerParts
<1>1. CASE CooldownExpires(w)
    BY <1>1 DEF CooldownExpires
<1>2. CASE WatchdogWakes(w)
    BY <1>2 DEF WatchdogWakes
<1>3. CASE WatchdogEmits(w)
    BY <1>3 DEF WatchdogEmits, Versions
<1>4. QED
    BY <1>1, <1>2, <1>3 DEF TimeStep

\* Nor do edits, rotations and closes of a tab.
LEMMA TypeDoc ==
    ASSUME WeakTypeOK, NEW d \in Docs, DocStep(d)
    PROVE  WeakTypeOK'
<1> USE DEF WeakTypeOK, tabVars, chanVars, localVars, resultVars, dogVars, supVars, eventVars
<1> DEFINE w == <<d, gen[d]>>
<1> w \in Workers /\ gen[d] \in 1..MaxGen
    BY WorkerParts DEF Gens
<1> mapped[d] # 0 => <<d, mapped[d]>> \in Workers
    BY WorkerParts DEF Gens
<1>s. Signal(d) => req' \in [Workers -> BOOLEAN] /\ unheard' \subseteq Docs
    BY DEF Signal
<1>u. Unmap(d) => mapped' \in [Docs -> 0..MaxGen] /\ stop' \in [Workers -> BOOLEAN]
    BY DEF Unmap
<1> HIDE DEF w
<1>1. ASSUME NEW bump \in BOOLEAN, Edit(d, bump) PROVE WeakTypeOK'
    <2>1. text' = [text EXCEPT ![w] = @ + 1] /\ text[w] < MaxText
        BY <1>1 DEF Edit, w
    <2>2. rev' = [rev EXCEPT ![w] = rev[w] + 1] \/ rev' = rev
        BY <1>1 DEF Edit, w
    <2>3. text[w] \in 0..MaxText /\ rev[w] \in 0..MaxText /\ rev[w] <= text[w]
        OBVIOUS
    <2>4. /\ text' \in [Workers -> 0..MaxText]
          /\ rev' \in [Workers -> 0..MaxText]
          /\ \A v \in Workers : rev'[v] <= text'[v]
        <3>1. text' \in [Workers -> 0..MaxText] /\ text'[w] = text[w] + 1
            BY <2>1, <2>3
        <3>2. rev' \in [Workers -> 0..MaxText] /\ rev'[w] <= rev[w] + 1
            <4>1. rev[w] + 1 \in 0..MaxText
                BY <2>1, <2>3
            <4>2. CASE rev' = [rev EXCEPT ![w] = rev[w] + 1]
                BY <4>1, <4>2
            <4>3. CASE rev' = rev
                BY <2>3, <4>3
            <4>4. QED
                BY <2>2, <4>2, <4>3
        <3>3. \A v \in Workers : v # w => rev'[v] = rev[v] /\ text'[v] = text[v]
            BY <2>1, <2>2
        <3>4. ASSUME NEW v \in Workers PROVE rev'[v] <= text'[v]
            <4>1. CASE v = w
                BY <2>3, <3>1, <3>2, <4>1
            <4>2. CASE v # w
                <5>1. rev[v] <= text[v]
                    OBVIOUS
                <5>2. QED
                    BY <3>3, <4>2, <5>1
            <4>3. QED
                BY <4>1, <4>2
        <3>5. QED
            BY <3>1, <3>2, <3>4
    <2>5. /\ Signal(d)
          /\ UNCHANGED <<open, gen, mapped, rotation, stop, localVars, resultVars, dogVars,
                         supVars, eventVars>>
        BY <1>1, Zenon DEF Edit
    <2>6. req' \in [Workers -> BOOLEAN] /\ unheard' \subseteq Docs
        BY <1>s, <2>5
    <2> HIDE DEF w
    <2>7. UNCHANGED <<open, gen, mapped, rotation, stop, pc, snap, read, outcome, panics,
                      cooling, last, armed, slow, free, shutdown, drained, status, shown>>
        BY <2>5
    <2>8. QED
        BY <2>4, <2>6, <2>7
<1>2. CASE Refresh(d)
    BY <1>2, <1>s DEF Refresh
<1>3. CASE Replace(d)
    <2>1. <<d, gen[d] + 1>> \in Workers /\ gen[d] + 1 \in Gens
        <3>1. gen[d] < MaxGen
            BY <1>3 DEF Replace
        <3>2. gen[d] + 1 \in Gens
            BY <3>1 DEF Gens
        <3>3. QED
            BY <3>2, WorkerParts
    <2> DEFINE n == <<d, gen[d] + 1>>
    <2>2. rev' = [rev EXCEPT ![n] = rev[w]] /\ text' = [text EXCEPT ![n] = text[w]]
        BY <1>3 DEF Replace, w
    <2>3. /\ text' \in [Workers -> 0..MaxText]
          /\ rev' \in [Workers -> 0..MaxText]
          /\ \A v \in Workers : rev'[v] <= text'[v]
        <3>1. n \in Workers
            BY <2>1
        <3> HIDE DEF n
        <3>2. QED
            BY <3>1, <2>2
    <2>4. /\ gen' = [gen EXCEPT ![d] = @ + 1]
          /\ rotation' = [rotation EXCEPT ![d] = "remove"]
          /\ UNCHANGED <<open, mapped, chanVars, localVars, resultVars, dogVars, supVars,
                         eventVars>>
        BY <1>3, Zenon DEF Replace
    <2>5. gen' \in [Docs -> Gens] /\ rotation' \in [Docs -> {"none", "remove", "spawn", "insert"}]
        BY <2>1, <2>4
    <2>6. QED
        BY <2>3, <2>4, <2>5
<1>4. CASE RemoveWorker(d)
    BY <1>4, <1>u DEF RemoveWorker
<1>5. CASE SpawnWorker(d)
    BY <1>5 DEF SpawnWorker, Steps, w
<1>6. CASE InsertWorker(d)
    BY <1>6 DEF InsertWorker
<1>7. CASE Close(d)
    BY <1>7, <1>u DEF Close
<1>8. QED
    BY <1>1, <1>2, <1>3, <1>4, <1>5, <1>6, <1>7 DEF DocStep

\* So every step keeps the types, those of the shutdown included.
LEMMA TypeStep == WeakTypeOK /\ [Next]_vars => WeakTypeOK'
<1> SUFFICES ASSUME WeakTypeOK, [Next]_vars PROVE WeakTypeOK'
    OBVIOUS
<1>1. ASSUME NEW w \in Workers, WorkerStep(w) \/ TimeStep(w) PROVE WeakTypeOK'
    BY <1>1, TypeWorker, TypeTime
<1>2. ASSUME NEW d \in Docs, DocStep(d) PROVE WeakTypeOK'
    BY <1>2, TypeDoc
<1>3. CASE Shutdown \/ DrainReturns
    BY <1>3 DEF Shutdown, DrainReturns, WeakTypeOK, tabVars, chanVars, localVars, resultVars,
                dogVars, eventVars
<1>4. CASE UNCHANGED vars
    BY <1>4 DEF vars, WeakTypeOK, tabVars, chanVars, localVars, resultVars, dogVars, supVars,
                eventVars
<1>5. QED
    BY <1>1, <1>2, <1>3, <1>4 DEF Next

-----------------------------------------------------------------------------
(* The permits.  Holders is finite, an acquire adds its worker to it and a *)
(* return takes its worker out.                                            *)

Holders == {w \in Workers : Holding(w)}

\* The permits in use are a number.
LEMMA HoldersFinite == IsFiniteSet(Holders) /\ Cardinality(Holders) \in Nat
<1>1. IsFiniteSet(Holders)
    BY WorkersFinite, FS_Subset DEF Holders
<1>2. QED
    BY <1>1, FS_CardinalityType

\* A step that moves no worker across the semaphore conserves the permits.
LEMMA HoldersSame ==
    ASSUME PermitsConserved, free' = free, \A w \in Workers : Holding(w)' <=> Holding(w)
    PROVE  PermitsConserved'
<1>1. {w \in Workers : Holding(w)}' = {w \in Workers : Holding(w)}
    OBVIOUS
<1>2. QED
    BY <1>1 DEF PermitsConserved

\* A worker that acquires takes one permit out of the pool.
LEMMA HoldersGain ==
    ASSUME WeakTypeOK, PermitsConserved, NEW w \in Workers, ~Holding(w), Holding(w)',
           \A v \in Workers : v # w => (Holding(v)' <=> Holding(v)),
           free' = free - 1
    PROVE  PermitsConserved'
<1>1. Holders' = Holders \union {w} /\ w \notin Holders
    BY DEF Holders
<1>2. Cardinality(Holders') = Cardinality(Holders) + 1
    BY <1>1, HoldersFinite, FS_AddElement
<1>3. free + Cardinality(Holders) = Cap
    BY DEF PermitsConserved, Holders
<1>4. free' + Cardinality(Holders') = Cap
    BY <1>2, <1>3, HoldersFinite DEF WeakTypeOK
<1>5. QED
    BY <1>4 DEF PermitsConserved, Holders

\* A worker that drops its permit puts one back.
LEMMA HoldersLose ==
    ASSUME WeakTypeOK, PermitsConserved, NEW w \in Workers, Holding(w), ~Holding(w)',
           \A v \in Workers : v # w => (Holding(v)' <=> Holding(v)),
           free' = free + 1
    PROVE  PermitsConserved'
<1>1. Holders' = Holders \ {w} /\ w \in Holders
    BY DEF Holders
<1>2. Cardinality(Holders') = Cardinality(Holders) - 1
    BY <1>1, HoldersFinite, FS_RemoveElement
<1>3. free + Cardinality(Holders) = Cap
    BY DEF PermitsConserved, Holders
<1>4. free' + Cardinality(Holders') = Cap
    BY <1>2, <1>3, HoldersFinite DEF WeakTypeOK
<1>5. QED
    BY <1>4 DEF PermitsConserved, Holders

\* do_compile_for_tab returning gives back the permit its worker held.
LEMMA ReturnConserves ==
    ASSUME WeakTypeOK, PermitsConserved, NEW w \in Workers, Holding(w), Return(w)
    PROVE  PermitsConserved'
<1>1. ~Holding(w)' /\ free' = free + 1
    BY DEF Return, Holding, WeakTypeOK
<1>2. \A v \in Workers : v # w => (Holding(v)' <=> Holding(v))
    BY DEF Return, Holding, WeakTypeOK
<1>3. QED
    BY <1>1, <1>2, HoldersLose

\* At the start every permit is in the pool.
LEMMA PermitsInit == Init => PermitsConserved
<1> SUFFICES ASSUME Init PROVE PermitsConserved
    OBVIOUS
<1>1. \A w \in Workers : ~Holding(w)
    BY DEF Init, Holding
<1>2. {w \in Workers : Holding(w)} = {}
    BY <1>1
<1>3. free = Cap
    BY DEF Init
<1>4. QED
    BY <1>2, <1>3, FS_EmptySet DEF PermitsConserved

\* Each stage of do_compile_for_tab acquires, keeps or drops exactly one permit.
LEMMA PermitsWorker ==
    ASSUME WeakTypeOK, PermitsConserved, NEW w \in Workers, WorkerStep(w)
    PROVE  PermitsConserved'
<1> USE DEF supVars, Holding
<1> DEFINE Moves(to) == pc' = [pc EXCEPT ![w] = to]
<1>m. ASSUME NEW to, Moves(to), free' = free,
             (to \in {"compiling", "finished", "tail", "publish"}) <=> Holding(w)
      PROVE  PermitsConserved'
    <2>1. \A v \in Workers : Holding(v)' <=> Holding(v)
        BY <1>m DEF WeakTypeOK
    <2>2. QED
        BY <1>m, <2>1, HoldersSame
<1> HIDE DEF Moves
<1>1. CASE Begin(w)
    <2>1. free' = free /\ ~Holding(w)
        BY <1>1 DEF Begin
    <2>2. Moves("checked") \/ pc' = pc
        BY <1>1 DEF Begin, Moves
    <2>3. CASE Moves("checked")
        BY <2>1, <2>3, <1>m
    <2>4. CASE pc' = pc
        BY <2>1, <2>4, HoldersSame
    <2>5. QED
        BY <2>2, <2>3, <2>4
<1>2. CASE Exit(w)
    BY <1>2, <1>m DEF Exit, Moves
<1>3. CASE Snapshot(w)
    BY <1>3, <1>m DEF Snapshot, Moves
<1>4. CASE Acquire(w)
    <2>1. ~Holding(w) /\ Holding(w)' /\ free' = free - 1
        BY <1>4 DEF Acquire, WeakTypeOK
    <2>2. \A v \in Workers : v # w => (Holding(v)' <=> Holding(v))
        BY <1>4 DEF Acquire, WeakTypeOK
    <2>3. QED
        BY <2>1, <2>2, HoldersGain
<1>5. CASE Compile(w)
    BY <1>5, <1>m DEF Compile, Moves
<1>6. CASE Discard(w)
    BY <1>6, ReturnConserves DEF Discard
<1>7. CASE Keep(w)
    BY <1>7, <1>m DEF Keep, Moves
<1>8. CASE Store(w)
    BY <1>8, <1>m DEF Store, Moves
<1>9. CASE HandlePanic(w)
    BY <1>9, ReturnConserves DEF HandlePanic
<1>10. CASE Publish(w)
    BY <1>10, ReturnConserves DEF Publish
<1>11. CASE RenderPanic(w)
    BY <1>11, <1>m DEF RenderPanic, Moves
<1>12. QED
    BY <1>1, <1>2, <1>3, <1>4, <1>5, <1>6, <1>7, <1>8, <1>9, <1>10, <1>11 DEF WorkerStep

-----------------------------------------------------------------------------
(* A rotation spawns a thread for a generation that has none yet.          *)

ThreadsInOrder ==
    \A d \in Docs :
        /\ rotation[d] \in {"remove", "spawn"} => pc[<<d, gen[d]>>] = "none"
        /\ \A g \in Gens : g > gen[d] => pc[<<d, g>>] = "none"

\* Only the first generation of a tab has a thread.
LEMMA ThreadsInit == Init => ThreadsInOrder
<1> SUFFICES ASSUME Init, NEW d \in Docs
             PROVE  /\ rotation[d] \notin {"remove", "spawn"}
                    /\ \A g \in Gens : g > gen[d] => pc[<<d, g>>] = "none"
    BY DEF ThreadsInOrder
<1>1. rotation[d] = "none" /\ gen[d] = 1
    BY DEF Init
<1>2. ASSUME NEW g \in Gens, g > 1 PROVE pc[<<d, g>>] = "none"
    BY <1>2, WorkerParts DEF Init
<1>3. QED
    BY <1>1, <1>2

\* A step of a worker leaves the workers without a thread alone.
LEMMA NoneStays ==
    ASSUME WeakTypeOK, NEW w \in Workers, WorkerStep(w) \/ TimeStep(w),
           NEW v \in Workers, pc[v] = "none"
    PROVE  pc'[v] = "none"
<1> USE DEF WeakTypeOK, localVars
<1>1. CASE WorkerStep(w)
    <2>1. pc[w] # "none" /\ (pc' = pc \/ \E s \in Steps : pc' = [pc EXCEPT ![w] = s])
        BY <1>1 DEF WorkerStep, Begin, Exit, Snapshot, Acquire, Compile, Discard, Keep, Store,
                    HandlePanic, Publish, RenderPanic, Return, Steps
    <2>2. QED
        BY <2>1
<1>2. CASE TimeStep(w)
    BY <1>2 DEF TimeStep, CooldownExpires, WatchdogWakes, WatchdogEmits
<1>3. QED
    BY <1>1, <1>2

\* A worker never starts the thread of another generation.
LEMMA ThreadsWorker ==
    ASSUME WeakTypeOK, ThreadsInOrder, NEW w \in Workers, WorkerStep(w) \/ TimeStep(w)
    PROVE  ThreadsInOrder'
<1>1. rotation' = rotation /\ gen' = gen
    BY DEF WorkerStep, TimeStep, Begin, Exit, Snapshot, Acquire, Compile, Discard, Keep, Store,
           HandlePanic, Publish, RenderPanic, CooldownExpires, WatchdogWakes, WatchdogEmits,
           tabVars
<1>2. \A v \in Workers : pc[v] = "none" => pc'[v] = "none"
    BY NoneStays
<1>3. \A d \in Docs : <<d, gen[d]>> \in Workers
    BY WorkerParts DEF WeakTypeOK
<1>4. QED
    BY <1>1, <1>2, <1>3, WorkerParts DEF ThreadsInOrder

\* A rotation spawns the thread of the newest generation, once.
LEMMA ThreadsDoc ==
    ASSUME WeakTypeOK, ThreadsInOrder, NEW d \in Docs, DocStep(d)
    PROVE  ThreadsInOrder'
<1> USE DEF localVars
<1> gen \in [Docs -> 1..MaxGen] /\ rotation \in [Docs -> {"none", "remove", "spawn", "insert"}]
    BY DEF WeakTypeOK, Gens
<1> DEFINE Ordered(c) ==
        /\ rotation[c] \in {"remove", "spawn"} => pc[<<c, gen[c]>>] = "none"
        /\ \A g \in Gens : g > gen[c] => pc[<<c, g>>] = "none"
<1>o. \A c \in Docs : Ordered(c)
    BY DEF ThreadsInOrder
<1> SUFFICES \A c \in Docs : Ordered(c)'
    BY DEF ThreadsInOrder
<1>1. CASE (\E bump \in BOOLEAN : Edit(d, bump)) \/ Refresh(d) \/ Close(d)
    <2>1. pc' = pc /\ gen' = gen /\ rotation' = rotation
        BY <1>1, Zenon DEF Edit, Refresh, Close, tabVars
    <2>2. QED
        BY <2>1, <1>o
<1>2. CASE Replace(d)
    <2>1. /\ pc' = pc
          /\ gen' = [gen EXCEPT ![d] = gen[d] + 1]
          /\ rotation' = [rotation EXCEPT ![d] = "remove"]
          /\ gen[d] < MaxGen
        BY <1>2 DEF Replace
    <2>2. gen[d] + 1 \in Gens /\ gen[d] + 1 > gen[d]
        BY <2>1 DEF Gens
    <2>3. pc[<<d, gen[d] + 1>>] = "none"
        BY <2>2, <1>o
    <2>4. \A g \in Gens : g > gen[d] + 1 => g > gen[d]
        BY DEF Gens
    <2>5. Ordered(d)'
        BY <2>1, <2>3, <2>4, <1>o
    <2>6. QED
        BY <2>1, <2>5, <1>o
<1>3. CASE RemoveWorker(d)
    BY <1>3, <1>o DEF RemoveWorker
<1>4. CASE SpawnWorker(d)
    <2>1. /\ pc' = [pc EXCEPT ![<<d, gen[d]>>] = "idle"]
          /\ gen' = gen
          /\ rotation' = [rotation EXCEPT ![d] = "insert"]
        BY <1>4 DEF SpawnWorker
    <2>2. \A c \in Docs, g \in Gens : <<c, g>> # <<d, gen[d]>> => pc'[<<c, g>>] = pc[<<c, g>>]
        BY <2>1, WorkerParts DEF WeakTypeOK
    <2>3. \A g \in Gens : g > gen[d] => g # gen[d]
        BY DEF Gens
    <2>4. Ordered(d)'
        BY <2>1, <2>2, <2>3, <1>o
    <2>5. ASSUME NEW c \in Docs, c # d PROVE Ordered(c)'
        BY <2>1, <2>2, <2>5, <1>o DEF Gens
    <2>6. QED
        BY <2>4, <2>5
<1>5. CASE InsertWorker(d)
    BY <1>5, <1>o DEF InsertWorker
<1>6. QED
    BY <1>1, <1>2, <1>3, <1>4, <1>5 DEF DocStep


\* What every step but a worker's does to the threads and to the permits.
LEMMA ThreadsElsewhere ==
    ASSUME WeakTypeOK, ThreadsInOrder, NEW d \in Docs, DocStep(d)
    PROVE  /\ free' = free
           /\ \A v \in Workers : pc'[v] = pc[v] \/ (pc[v] = "none" /\ pc'[v] = "idle")
<1> USE DEF localVars, supVars
<1>1. CASE SpawnWorker(d)
    <2>1. <<d, gen[d]>> \in Workers
        BY WorkerParts DEF WeakTypeOK
    <2>2. pc[<<d, gen[d]>>] = "none"
        BY <1>1 DEF SpawnWorker, ThreadsInOrder
    <2>3. pc' = [pc EXCEPT ![<<d, gen[d]>>] = "idle"] /\ free' = free
        BY <1>1 DEF SpawnWorker
    <2>4. QED
        BY <2>1, <2>2, <2>3 DEF WeakTypeOK
<1>2. CASE ~SpawnWorker(d)
    BY <1>2 DEF DocStep, Edit, Refresh, Replace, RemoveWorker, InsertWorker, Close
<1>3. QED
    BY <1>1, <1>2

\* No step, of a worker, a tab or the supervisor, loses or forges a permit.
LEMMA PermitsStep ==
    ASSUME WeakTypeOK, ThreadsInOrder, PermitsConserved, [Next]_vars
    PROVE  PermitsConserved'
<1>1. ASSUME NEW w \in Workers, WorkerStep(w) PROVE PermitsConserved'
    BY <1>1, PermitsWorker
<1>2. ASSUME NEW w \in Workers, TimeStep(w) PROVE PermitsConserved'
    <2>1. pc' = pc /\ free' = free
        BY <1>2 DEF TimeStep, CooldownExpires, WatchdogWakes, WatchdogEmits, localVars, supVars
    <2>2. QED
        BY <2>1, HoldersSame DEF Holding
<1>3. ASSUME NEW d \in Docs, DocStep(d) PROVE PermitsConserved'
    <2>1. \A v \in Workers : Holding(v)' <=> Holding(v)
        BY <1>3, ThreadsElsewhere DEF Holding
    <2>2. QED
        BY <1>3, <2>1, ThreadsElsewhere, HoldersSame
<1>4. CASE Shutdown \/ DrainReturns \/ UNCHANGED vars
    <2>1. pc' = pc /\ free' = free
        BY <1>4 DEF Shutdown, DrainReturns, vars, localVars, supVars
    <2>2. QED
        BY <2>1, HoldersSame DEF Holding
<1>5. QED
    BY <1>1, <1>2, <1>3, <1>4 DEF Next

-----------------------------------------------------------------------------
(* The watchdog and the drain.                                              *)

\* The flag goes up with the permit and down before the result is looked at.
LEMMA WatchdogStep ==
    ASSUME WeakTypeOK, ThreadsInOrder, WatchdogOnlyWhileCompiling, [Next]_vars
    PROVE  WatchdogOnlyWhileCompiling'
<1> USE DEF WatchdogOnlyWhileCompiling, dogVars, localVars
<1>1. ASSUME NEW w \in Workers, WorkerStep(w) PROVE WatchdogOnlyWhileCompiling'
    <2> USE DEF WeakTypeOK
    <2>1. CASE Acquire(w)
        BY <2>1 DEF Acquire
    <2>2. CASE Compile(w)
        BY <2>2 DEF Compile
    <2>3. CASE ~Acquire(w) /\ ~Compile(w)
        <3>1. armed' = armed /\ pc[w] # "compiling" /\
              (pc' = pc \/ \E s \in Steps : pc' = [pc EXCEPT ![w] = s])
            BY <1>1, <2>3 DEF WorkerStep, Begin, Exit, Snapshot, Discard, Keep, Store,
                              HandlePanic, Publish, RenderPanic, Return, Steps
        <3>2. QED
            BY <3>1
    <2>4. QED
        BY <2>1, <2>2, <2>3
<1>2. ASSUME NEW w \in Workers, TimeStep(w) PROVE WatchdogOnlyWhileCompiling'
    BY <1>2 DEF TimeStep, CooldownExpires, WatchdogWakes, WatchdogEmits, WeakTypeOK
<1>3. ASSUME NEW d \in Docs, DocStep(d) PROVE WatchdogOnlyWhileCompiling'
    <2>1. armed' = armed
        BY <1>3 DEF DocStep, Edit, Refresh, Replace, RemoveWorker, SpawnWorker, InsertWorker,
                    Close
    <2>2. QED
        BY <1>3, <2>1, ThreadsElsewhere
<1>4. CASE Shutdown \/ DrainReturns \/ UNCHANGED vars
    BY <1>4 DEF Shutdown, DrainReturns, vars
<1>5. QED
    BY <1>1, <1>2, <1>3, <1>4 DEF Next

\* After the drain no worker is past the check that precedes its tail.
DrainedStops == drained => shutdown /\ \A w \in Workers : pc[w] \notin {"tail", "publish"}

\* Once drained, no worker is past the check that follows the compile.
LEMMA DrainedStep ==
    ASSUME WeakTypeOK, ThreadsInOrder, PermitsConserved, DrainedStops, [Next]_vars
    PROVE  DrainedStops'
<1> USE DEF DrainedStops, supVars, localVars
<1>1. ASSUME NEW w \in Workers, WorkerStep(w) PROVE DrainedStops'
    <2>1. drained' = drained /\ shutdown' = shutdown
        BY <1>1 DEF WorkerStep, Begin, Exit, Snapshot, Acquire, Compile, Discard, Keep, Store,
                    HandlePanic, Publish, RenderPanic
    <2>2. ASSUME drained PROVE \A v \in Workers : pc'[v] \notin {"tail", "publish"}
        <3>1. pc' = pc \/ \E s \in Steps \ {"tail", "publish"} : pc' = [pc EXCEPT ![w] = s]
            BY <1>1, <2>2 DEF WorkerStep, Begin, Exit, Snapshot, Acquire, Compile, Discard,
                              Keep, Store, HandlePanic, Publish, RenderPanic, Return, Steps
        <3>2. QED
            BY <2>2, <3>1 DEF WeakTypeOK
    <2>3. QED
        BY <2>1, <2>2
<1>2. ASSUME NEW w \in Workers, TimeStep(w) PROVE DrainedStops'
    BY <1>2 DEF TimeStep, CooldownExpires, WatchdogWakes, WatchdogEmits
<1>3. ASSUME NEW d \in Docs, DocStep(d) PROVE DrainedStops'
    <2>1. drained' = drained /\ shutdown' = shutdown
        BY <1>3 DEF DocStep, Edit, Refresh, Replace, RemoveWorker, SpawnWorker, InsertWorker,
                    Close
    <2>2. QED
        BY <1>3, <2>1, ThreadsElsewhere
<1>4. CASE DrainReturns
    <2>1. free = Cap /\ shutdown /\ pc' = pc /\ shutdown' = shutdown
        BY <1>4 DEF DrainReturns
    <2>2. Cardinality(Holders) = 0
        BY <2>1, HoldersFinite DEF PermitsConserved, Holders
    <2>3. Holders = {}
        BY <2>2, HoldersFinite, FS_EmptySet
    <2>4. QED
        BY <2>1, <2>3 DEF Holders, Holding
<1>5. CASE Shutdown \/ UNCHANGED vars
    BY <1>5 DEF Shutdown, vars
<1>6. QED
    BY <1>1, <1>2, <1>3, <1>4, <1>5 DEF Next

-----------------------------------------------------------------------------
(* Nothing is overlooked: the argument behind SettledIsLatest.              *)

Newest(d) == <<d, gen[d]>>
Working == {"waiting", "compiling", "finished", "tail", "publish"}

\* The workers map has the newest worker of an open tab, or none of it while
\* the rotation is under way; only an older or a closed one is told to stop.
RotationInOrder ==
    \A d \in Docs :
        /\ rotation[d] = "none" /\ open[d] => mapped[d] = gen[d]
        /\ rotation[d] = "remove" => mapped[d] < gen[d]
        /\ rotation[d] \in {"spawn", "insert"} => mapped[d] = 0
        /\ mapped[d] <= gen[d]
        /\ open[d] => ~stop[Newest(d)]
        /\ \A g \in Gens : g > gen[d] => ~stop[<<d, g>>]

\* What a compile has read is between its snapshot and the buffer, its result
\* is stored as it was made, and no success is kept during a cooldown.
OrderOf(w) ==
    /\ pc[w] \in Working => snap[w].text <= text[w]
    /\ pc[w] \in Working \ {"waiting"} => snap[w].text <= read[w] /\ read[w] <= text[w]
    /\ pc[w] = "publish" => /\ last[w].rev = snap[w].rev /\ last[w].ver = read[w]
                            /\ last[w].ok => outcome[w] = "ok"
                            /\ outcome[w] # "panic"
    /\ cooling[w] => ~last[w].ok
CompileInOrder == \A w \in Workers : OrderOf(w)

\* The newest text of a document is compiled, is being compiled, or is going to
\* be, whichever way an edit, a signal and the worker's steps interleave.
UpToDate(d) ==
    LET w == Newest(d) IN
    \/ req[w] \/ pc[w] = "checked"
    \/ pc[w] \in Working /\ snap[w].rev = rev[w] /\ snap[w].text = text[w]
    \/ /\ pc[w] = "idle"
       /\ last[w].ok => /\ last[w].rev = rev[w] /\ last[w].ver = text[w]
                        /\ gen[d] = 1 => shown[d].ver = text[w]
NothingOverlooked ==
    \A d \in Docs \ unheard :
        open[d] /\ ~shutdown /\ rotation[d] \in {"insert", "none"} => UpToDate(d)

\* Compiling is on the status bar only while a compile is under way.
CompilingIsTrue ==
    \A d \in Docs :
        gen[d] = 1 /\ open[d] /\ ~shutdown /\ status[d].st = "compiling" => pc[<<d, 1>>] \in Working

LatestInv == RotationInOrder /\ CompileInOrder /\ NothingOverlooked /\ CompilingIsTrue

\* A step of a worker or of the watchdog leaves the tabs and the stops alone.
LEMMA TabsElsewhere ==
    ASSUME NEW w \in Workers, WorkerStep(w) \/ TimeStep(w)
    PROVE  UNCHANGED <<tabVars, stop, unheard>>
BY DEF WorkerStep, TimeStep, Begin, Exit, Snapshot, Acquire, Compile, Discard, Keep, Store,
       HandlePanic, Publish, RenderPanic, CooldownExpires, WatchdogWakes, WatchdogEmits, chanVars

\* The map, the stops and the rotation of each tab go together.
LEMMA RotationStep ==
    ASSUME WeakTypeOK, RotationInOrder, [Next]_vars
    PROVE  RotationInOrder'
<1> USE DEF RotationInOrder, Newest
<1>1. CASE UNCHANGED <<tabVars, stop>>
    BY <1>1 DEF tabVars
<1>2. ASSUME NEW d \in Docs, DocStep(d) PROVE RotationInOrder'
    <2> gen \in [Docs -> 1..MaxGen] /\ rotation \in [Docs -> {"none", "remove", "spawn", "insert"}]
        BY DEF WeakTypeOK, Gens
    <2> /\ mapped \in [Docs -> 0..MaxGen] /\ open \in [Docs -> BOOLEAN]
        /\ stop \in [Workers -> BOOLEAN]
        BY DEF WeakTypeOK
    <2>w. \A c \in Docs, g \in 1..MaxGen : <<c, g>> \in Workers
        BY WorkerParts DEF Gens
    <2>1. CASE (\E bump \in BOOLEAN : Edit(d, bump)) \/ Refresh(d)
        BY <2>1, Zenon DEF Edit, Refresh, tabVars
    <2>2. CASE Replace(d)
        BY <2>2, <2>w DEF Replace, chanVars, Gens
    <2>3. CASE RemoveWorker(d)
        BY <2>3, <2>w DEF RemoveWorker, Unmap, Gens
    <2>4. CASE SpawnWorker(d)
        BY <2>4 DEF SpawnWorker
    <2>5. CASE InsertWorker(d)
        BY <2>5 DEF InsertWorker, chanVars
    <2>6. CASE Close(d)
        BY <2>6, <2>w DEF Close, Unmap, Gens
    <2>7. QED
        BY <1>2, <1>1, <2>1, <2>2, <2>3, <2>4, <2>5, <2>6 DEF DocStep
<1>3. CASE Shutdown \/ DrainReturns \/ UNCHANGED vars
    BY <1>3, <1>1 DEF Shutdown, DrainReturns, vars, chanVars
<1>4. QED
    BY <1>1, <1>2, <1>3, TabsElsewhere DEF Next

\* Each stage of a compile hands on what the one before has read.
LEMMA CompileWorker ==
    ASSUME WeakTypeOK, CompileInOrder, NEW w \in Workers, WorkerStep(w) \/ TimeStep(w)
    PROVE  CompileInOrder'
<1> USE DEF WeakTypeOK, tabVars, localVars, resultVars, Working
<1>o. \A v \in Workers : OrderOf(v)
    BY DEF CompileInOrder
<1> SUFFICES ASSUME NEW v \in Workers PROVE OrderOf(v)'
    BY DEF CompileInOrder
<1> USE DEF OrderOf
<1>1. CASE Begin(w)
    BY <1>1, <1>o DEF Begin
<1>2. CASE Exit(w)
    BY <1>2, <1>o DEF Exit
<1>3. CASE Snapshot(w)
    BY <1>3, <1>o DEF Snapshot
<1>4. CASE Acquire(w)
    BY <1>4, <1>o DEF Acquire
<1>5. CASE Compile(w)
    BY <1>5, <1>o DEF Compile
<1>6. CASE Discard(w)
    BY <1>6, <1>o DEF Discard, Return
<1>7. CASE Keep(w)
    BY <1>7, <1>o DEF Keep
<1>8. CASE Store(w)
    BY <1>8, <1>o DEF Store
<1>9. CASE HandlePanic(w)
    BY <1>9, <1>o DEF HandlePanic, Return
<1>10. CASE Publish(w)
    BY <1>10, <1>o DEF Publish, Return
<1>11. CASE RenderPanic(w)
    BY <1>11, <1>o DEF RenderPanic
<1>12. CASE TimeStep(w)
    <2>1. /\ UNCHANGED <<text, pc, snap, read, outcome, last>>
          /\ cooling' = cooling \/ cooling' = [cooling EXCEPT ![w] = FALSE]
        BY <1>12 DEF TimeStep, CooldownExpires, WatchdogWakes, WatchdogEmits
    <2>2. OrderOf(v)
        BY <1>o
    <2>3. QED
        BY <2>1, <2>2
<1>13. QED
    BY <1>1, <1>2, <1>3, <1>4, <1>5, <1>6, <1>7, <1>8, <1>9, <1>10, <1>11, <1>12 DEF WorkerStep

\* What a step of a tab does to the texts: they grow, except that a new
\* generation begins with its predecessor's.
LEMMA TextsGrow ==
    ASSUME WeakTypeOK, ThreadsInOrder, NEW d \in Docs, DocStep(d)
    PROVE  /\ UNCHANGED <<snap, read, outcome, cooling, last, shown, status, shutdown>>
           /\ \A v \in Workers : pc[v] # "none" => text[v] <= text'[v]
           /\ \A v \in Workers : pc'[v] = pc[v] \/ (pc[v] = "none" /\ pc'[v] = "idle")
<1> USE DEF localVars, resultVars, supVars, eventVars
<1>1. \A v \in Workers : pc'[v] = pc[v] \/ (pc[v] = "none" /\ pc'[v] = "idle")
    BY ThreadsElsewhere
<1>2. UNCHANGED <<snap, read, outcome, cooling, last, shown, status, shutdown>>
    BY DEF DocStep, Edit, Refresh, Replace, RemoveWorker, SpawnWorker, InsertWorker, Close
<1>3. ASSUME NEW v \in Workers, pc[v] # "none" PROVE text[v] <= text'[v]
    <2> text \in [Workers -> 0..MaxText] /\ gen \in [Docs -> 1..MaxGen]
        BY DEF WeakTypeOK, Gens
    <2>1. CASE \E bump \in BOOLEAN : Edit(d, bump)
        BY <2>1 DEF Edit
    <2>2. CASE Replace(d)
        <3>1. gen[d] + 1 \in Gens /\ pc[<<d, gen[d] + 1>>] = "none"
            BY <2>2 DEF Replace, ThreadsInOrder, Gens
        <3>2. text' = [text EXCEPT ![<<d, gen[d] + 1>>] = text[<<d, gen[d]>>]]
            BY <2>2 DEF Replace
        <3>3. QED
            BY <1>3, <3>1, <3>2
    <2>3. CASE text' = text
        BY <2>3
    <2>4. QED
        BY <2>1, <2>2, <2>3 DEF DocStep, Refresh, RemoveWorker, SpawnWorker, InsertWorker, Close, tabVars
<1>4. QED
    BY <1>1, <1>2, <1>3

\* No step takes a compile out of order.
LEMMA CompileStep ==
    ASSUME WeakTypeOK, ThreadsInOrder, CompileInOrder, [Next]_vars
    PROVE  CompileInOrder'
<1> USE DEF CompileInOrder
<1>1. ASSUME NEW d \in Docs, DocStep(d) PROVE CompileInOrder'
    <2> USE DEF WeakTypeOK, OrderOf, Working
    <2> SUFFICES ASSUME NEW v \in Workers PROVE OrderOf(v)'
        OBVIOUS
    <2>1. /\ UNCHANGED <<snap, read, outcome, cooling, last>>
          /\ pc[v] # "none" => text[v] <= text'[v]
          /\ pc'[v] = pc[v] \/ (pc[v] = "none" /\ pc'[v] = "idle")
        BY <1>1, TextsGrow
    <2>2. text' \in [Workers -> 0..MaxText]
        BY <1>1, TypeDoc
    <2>3. OrderOf(v)
        OBVIOUS
    <2>4. QED
        BY <2>1, <2>2, <2>3
<1>2. CASE Shutdown \/ DrainReturns \/ UNCHANGED vars
    BY <1>2 DEF Shutdown, DrainReturns, vars, tabVars, localVars, resultVars, OrderOf
<1>3. QED
    BY <1>1, <1>2, CompileWorker DEF Next

\* A worker of another tab, or of an older generation of this one, does not
\* touch the newest worker; the first generation has the screen to itself.
LEMMA OthersApart ==
    ASSUME WeakTypeOK, ThreadsInOrder, NEW w \in Workers, WorkerStep(w) \/ TimeStep(w),
           NEW v \in Workers, v # w
    PROVE  /\ UNCHANGED <<req[v], pc[v], snap[v], read[v], last[v], cooling[v], slow[v]>>
           /\ v[2] = 1 /\ gen[v[1]] = 1 /\ WorkerStep(w) => UNCHANGED <<shown[v[1]], status[v[1]]>>
<1> USE DEF WeakTypeOK, localVars, resultVars, eventVars, chanVars, dogVars
<1>1. /\ UNCHANGED <<req[v], snap[v], read[v], cooling[v], slow[v]>>
      /\ UNCHANGED <<pc[v], last[v]>>
    BY DEF WorkerStep, TimeStep, Begin, Exit, Snapshot, Acquire, Compile, Discard, Keep, Store,
           HandlePanic, Publish, RenderPanic, Return, CooldownExpires, WatchdogWakes, WatchdogEmits
<1>2. ASSUME v[2] = 1, gen[v[1]] = 1, WorkerStep(w)
      PROVE  UNCHANGED <<shown[v[1]], status[v[1]]>>
    <2>1. v[1] \in Docs /\ w[1] \in Docs /\ w[2] \in 1..MaxGen /\ w = <<w[1], w[2]>> /\ v = <<v[1], v[2]>>
        BY WorkerParts DEF Gens
    <2>2. pc[w] # "none"
        BY <1>2 DEF WorkerStep, Begin, Exit, Snapshot, Acquire, Compile, Discard, Keep, Store,
                    HandlePanic, Publish, RenderPanic
    <2>3. w[1] # v[1]
        <3>1. w[1] = v[1] => w[2] > 1
            <4>1. w[1] = v[1] => w[2] # v[2]
                BY <2>1
            <4>2. QED
                BY <1>2, <2>1, <4>1
        <3>2. w[1] = v[1] => pc[<<w[1], w[2]>>] = "none"
            BY <1>2, <2>1, <3>1 DEF ThreadsInOrder, Gens
        <3>3. QED
            BY <2>1, <2>2, <3>2
    <2>4. /\ shown' = shown \/ \E x : shown' = [shown EXCEPT ![w[1]] = x]
          /\ status' = status \/ \E x : status' = [status EXCEPT ![w[1]] = x]
        BY <1>2 DEF WorkerStep, Begin, Exit, Snapshot, Acquire, Compile, Discard, Keep, Store,
                    HandlePanic, Publish, RenderPanic
    <2>5. QED
        BY <2>1, <2>3, <2>4
<1>3. QED
    BY <1>1, <1>2

\* The newest worker never comes to rest on an older text.
LEMMA OverlookedWorker ==
    ASSUME WeakTypeOK, ThreadsInOrder, RotationInOrder, CompileInOrder, NothingOverlooked,
           NEW w \in Workers, WorkerStep(w)
    PROVE  NothingOverlooked'
<1>0. UNCHANGED <<open, gen, rotation, rev, text, stop, unheard, shutdown>>
    BY TabsElsewhere DEF tabVars, WorkerStep, Begin, Exit, Snapshot, Acquire, Compile, Discard,
           Keep, Store, HandlePanic, Publish, RenderPanic, supVars
<1> SUFFICES ASSUME NEW d \in Docs \ unheard, open[d], ~shutdown, rotation[d] \in {"insert", "none"}
             PROVE  UpToDate(d)'
    BY <1>0 DEF NothingOverlooked
<1> DEFINE v == Newest(d)
<1>1. v \in Workers /\ v[1] = d /\ v[2] = gen[d] /\ v' = v /\ Current(v)
    BY <1>0, WorkerParts DEF WeakTypeOK, Newest, Current
<1>2. UpToDate(d)
    BY DEF NothingOverlooked
<1>3. CASE w # v
    <2>1. UNCHANGED <<req[v], pc[v], snap[v], read[v], last[v]>>
        BY <1>1, <1>3, OthersApart
    <2>2. gen[d] = 1 => shown'[d] = shown[d]
        BY <1>1, <1>3, OthersApart
    <2> HIDE DEF v
    <2>3. QED
        BY <1>0, <1>1, <1>2, <2>1, <2>2 DEF UpToDate, v
<1>4. CASE w = v
    <2>1. OrderOf(v) /\ ~stop[v]
        BY <1>1 DEF CompileInOrder, RotationInOrder
    <2> HIDE DEF v
    <2>2. /\ req[v] \/ pc[v] = "checked"
             \/ (pc[v] \in Working /\ snap[v].rev = rev[v] /\ snap[v].text = text[v])
             \/ (pc[v] = "idle" /\ (last[v].ok => /\ last[v].rev = rev[v] /\ last[v].ver = text[v]
                                                  /\ gen[d] = 1 => shown[d].ver = text[v]))
        BY <1>2 DEF UpToDate, v
    <2> SUFFICES req'[v] \/ pc'[v] = "checked"
             \/ (pc'[v] \in Working /\ snap'[v].rev = rev[v] /\ snap'[v].text = text[v])
             \/ (pc'[v] = "idle" /\ (last'[v].ok => /\ last'[v].rev = rev[v] /\ last'[v].ver = text[v]
                                                    /\ gen[d] = 1 => shown'[d].ver = text[v]))
        BY <1>0, <1>1 DEF UpToDate, v
    <2> USE DEF WeakTypeOK, OrderOf, Working, localVars, resultVars, eventVars, chanVars
    <2>a. CASE Begin(v)
        BY <2>a, <2>1, <2>2, <1>1 DEF Begin
    <2>b. CASE Exit(v)
        BY <2>b, <2>1 DEF Exit
    <2>c. CASE Snapshot(v)
        BY <2>c, <1>1 DEF Snapshot
    <2>d. CASE Acquire(v)
        BY <2>d, <2>2, <1>1 DEF Acquire
    <2>e. CASE Compile(v)
        BY <2>e, <2>2, <1>1 DEF Compile
    <2>f. CASE Discard(v)
        BY <2>f, <1>1 DEF Discard
    <2>g. CASE Keep(v)
        BY <2>g, <2>2, <1>1 DEF Keep
    <2>h. CASE Store(v)
        BY <2>h, <2>2, <1>1 DEF Store
    <2>i. CASE HandlePanic(v)
        BY <2>i, <2>2, <1>1 DEF HandlePanic, Return
    <2>j. CASE Publish(v)
        <3>1. /\ pc'[v] = "idle" /\ last'[v] = last[v] /\ req'[v] = req[v] /\ pc[v] = "publish"
              /\ outcome[v] = "ok" /\ text[v] = snap[v].text =>
                     shown' = [shown EXCEPT ![v[1]] = [rev |-> snap[v].rev, ver |-> read[v]]]
            BY <2>j, <1>1 DEF Publish, Return
        <3>2. outcome[v] = "ok" /\ text[v] = snap[v].text => shown'[d].ver = read[v]
            BY <3>1, <1>1
        <3>3. CASE req[v]
            BY <3>1, <3>3
        <3>4. CASE snap[v].rev = rev[v] /\ snap[v].text = text[v]
            <4>1. read[v] = text[v]
                <5>1. read[v] \in Int /\ text[v] \in Int
                    BY <1>1
                <5>2. snap[v].text <= read[v] /\ read[v] <= text[v]
                    BY <3>1, <2>1
                <5>3. \A a, b \in Int : a <= b /\ b <= a => b = a
                    OBVIOUS
                <5>4. QED
                    BY <5>1, <5>2, <5>3, <3>4, Zenon
            <4>2. QED
                BY <3>1, <3>2, <3>4, <4>1, <2>1
        <3>5. QED
            BY <3>1, <3>3, <3>4, <2>2
    <2>k. CASE RenderPanic(v)
        BY <2>k, <2>2, <1>1 DEF RenderPanic
    <2>l. QED
        BY <1>4, <2>a, <2>b, <2>c, <2>d, <2>e, <2>f, <2>g, <2>h, <2>i, <2>j, <2>k DEF WorkerStep
<1>5. QED
    BY <1>3, <1>4

\* An edit is signalled, or its document is among the unheard.
LEMMA OverlookedDoc ==
    ASSUME WeakTypeOK, ThreadsInOrder, RotationInOrder, CompileInOrder, NothingOverlooked,
           NEW d \in Docs, DocStep(d)
    PROVE  NothingOverlooked'
<1> USE DEF localVars, resultVars, supVars, eventVars
<1>t. /\ gen \in [Docs -> 1..MaxGen] /\ open \in [Docs -> BOOLEAN] /\ mapped \in [Docs -> 0..MaxGen]
      /\ rotation \in [Docs -> {"none", "remove", "spawn", "insert"}] /\ req \in [Workers -> BOOLEAN]
      /\ pc \in [Workers -> Steps] /\ text \in [Workers -> 0..MaxText] /\ rev \in [Workers -> 0..MaxText]
    BY DEF WeakTypeOK, Gens
<1>w. \A e \in Docs : Newest(e) \in Workers /\ Newest(e)[1] = e
    BY <1>t, WorkerParts DEF Newest, Gens
<1>0. UNCHANGED <<snap, last, shown, shutdown>>
    BY TextsGrow
<1> SUFFICES ASSUME NEW e \in Docs, e \notin unheard', open'[e], ~shutdown, rotation'[e] \in {"insert", "none"}
             PROVE  UpToDate(e)'
    BY <1>0 DEF NothingOverlooked
<1>1. CASE e # d
    <2>1. /\ open'[e] = open[e] /\ rotation'[e] = rotation[e] /\ gen'[e] = gen[e]
          /\ e \notin unheard
        BY <1>1, <1>t DEF DocStep, Edit, Refresh, Replace, RemoveWorker, SpawnWorker, InsertWorker, Close,
                          Signal, Unmap, tabVars, chanVars
    <2>2. \A x \in Workers : x[1] # d => UNCHANGED <<req[x], pc[x], text[x], rev[x]>>
        <3>1. \A g : <<d, g>>[1] = d
            OBVIOUS
        <3>2. QED
            BY <3>1, <1>t DEF DocStep, Edit, Refresh, Replace, RemoveWorker, SpawnWorker, InsertWorker, Close,
                              Signal, Unmap, tabVars, chanVars
    <2>3. Newest(e)' = Newest(e) /\ Newest(e)[1] # d /\ Newest(e) \in Workers
        BY <1>1, <1>w, <2>1 DEF Newest
    <2>4. UpToDate(e)
        BY <2>1 DEF NothingOverlooked
    <2>5. UNCHANGED <<req[Newest(e)], pc[Newest(e)], text[Newest(e)], rev[Newest(e)]>>
        BY <2>2, <2>3
    <2>6. QED
        BY <2>1, <2>3, <2>4, <2>5, <1>0 DEF UpToDate
<1>2. CASE e = d
    <2> DEFINE v == Newest(d)
    <2>1. CASE Signal(d) /\ UNCHANGED <<open, gen, mapped, rotation>>
        <3>1. mapped[d] # 0 /\ req' = [req EXCEPT ![<<d, mapped[d]>>] = TRUE]
            BY <1>2, <2>1 DEF Signal
        <3>2. mapped[d] = gen[d]
            BY <1>2, <2>1, <3>1 DEF RotationInOrder
        <3>3. req'[v'] /\ v' = v
            BY <3>1, <3>2, <2>1, <1>t, <1>w DEF Newest
        <3>4. QED
            BY <1>2, <3>3 DEF UpToDate
    <2>2. CASE Replace(d)
        BY <1>2, <2>2, <1>t DEF Replace
    <2>3. CASE RemoveWorker(d)
        BY <1>2, <2>3, <1>t DEF RemoveWorker
    <2>4. CASE SpawnWorker(d)
        <3>1. req'[v'] /\ v' = v
            BY <2>4, <1>t, <1>w DEF SpawnWorker, Newest
        <3>2. QED
            BY <1>2, <3>1 DEF UpToDate
    <2>5. CASE InsertWorker(d)
        <3>1. /\ UNCHANGED <<open, gen, rev, text, req, unheard, pc>>
              /\ rotation[d] = "insert"
            BY <2>5 DEF InsertWorker, chanVars
        <3>2. UpToDate(d)
            BY <1>2, <3>1 DEF NothingOverlooked
        <3>3. QED
            BY <1>2, <3>1, <3>2, <1>0 DEF UpToDate, Newest
    <2>6. CASE Close(d)
        BY <1>2, <2>6, <1>t DEF Close
    <2>7. ASSUME NEW bump \in BOOLEAN, Edit(d, bump) PROVE Signal(d) /\ UNCHANGED <<open, gen, mapped, rotation>>
        BY <2>7, Zenon DEF Edit
    <2>8. Refresh(d) => Signal(d) /\ UNCHANGED <<open, gen, mapped, rotation>>
        BY DEF Refresh, tabVars
    <2>9. QED
        BY <2>1, <2>2, <2>3, <2>4, <2>5, <2>6, <2>7, <2>8 DEF DocStep
<1>3. QED
    BY <1>1, <1>2

\* So no step of the pipeline overlooks an edit.
LEMMA OverlookedStep ==
    ASSUME WeakTypeOK, ThreadsInOrder, RotationInOrder, CompileInOrder, NothingOverlooked, [Next]_vars
    PROVE  NothingOverlooked'
<1>1. ASSUME NEW w \in Workers, TimeStep(w) PROVE NothingOverlooked'
    <2>1. UNCHANGED <<tabVars, chanVars, localVars, last, shown, shutdown>>
        BY <1>1 DEF TimeStep, CooldownExpires, WatchdogWakes, WatchdogEmits, supVars, resultVars, eventVars
    <2>2. QED
        BY <2>1 DEF NothingOverlooked, UpToDate, Newest, tabVars, chanVars, localVars
<1>2. CASE Shutdown \/ DrainReturns \/ UNCHANGED vars
    <2>1. UNCHANGED <<tabVars, chanVars, localVars, resultVars, eventVars>> /\ (~shutdown' => ~shutdown)
        BY <1>2 DEF Shutdown, DrainReturns, vars, supVars
    <2>2. QED
        BY <2>1 DEF NothingOverlooked, UpToDate, Newest, tabVars, chanVars, localVars, resultVars, eventVars
<1>3. QED
    BY <1>1, <1>2, OverlookedWorker, OverlookedDoc DEF Next

\* A worker that announced a compile of an open tab announces how it ended.
LEMMA CompilingStep ==
    ASSUME WeakTypeOK, ThreadsInOrder, CompilingIsTrue, [Next]_vars
    PROVE  CompilingIsTrue'
<1> USE DEF CompilingIsTrue
<1>1. ASSUME NEW w \in Workers, WorkerStep(w) PROVE CompilingIsTrue'
    <2>0. UNCHANGED <<open, gen, shutdown>>
        BY <1>1 DEF WorkerStep, Begin, Exit, Snapshot, Acquire, Compile, Discard, Keep, Store,
                    HandlePanic, Publish, RenderPanic, supVars, tabVars
    <2> SUFFICES ASSUME NEW d \in Docs, gen[d] = 1, open[d], ~shutdown, status'[d].st = "compiling"
                 PROVE  pc'[<<d, 1>>] \in Working
        BY <2>0
    <2>1. <<d, 1>> \in Workers /\ <<d, 1>>[1] = d /\ <<d, 1>>[2] = 1 /\ Current(<<d, 1>>)
        BY WorkerParts DEF Gens, Current
    <2>2. CASE w # <<d, 1>>
        BY <1>1, <2>1, <2>2, OthersApart
    <2>3. CASE w = <<d, 1>>
        <3> DEFINE v == <<d, 1>>
        <3>1. /\ pc' = pc \/ \E s \in Steps : pc' = [pc EXCEPT ![v] = s]
              /\ status' = status \/ \E x : status' = [status EXCEPT ![v[1]] = x]
              /\ pc[v] \in Steps
            BY <1>1, <2>1, <2>3 DEF WorkerStep, Begin, Exit, Snapshot, Acquire, Compile, Discard, Keep, Store,
                    HandlePanic, Publish, RenderPanic, Return, Steps, WeakTypeOK, eventVars, localVars
        <3>2. pc'[v] \notin Working => status'[v[1]].st # "compiling" \/ (status' = status /\ pc[v] \notin Working)
            <4> USE DEF WeakTypeOK, Working, eventVars, localVars
            <4> v[1] \in Docs
                BY <2>1
            <4> HIDE DEF v
            <4>1. CASE Begin(v) \/ Exit(v)
                BY <4>1, <2>1 DEF Begin, Exit
            <4>2. CASE Snapshot(v) \/ Acquire(v) \/ Compile(v) \/ Keep(v) \/ Store(v) \/ RenderPanic(v)
                BY <4>2, <2>1 DEF Snapshot, Acquire, Compile, Keep, Store, RenderPanic, v
            <4>3. CASE Discard(v)
                BY <4>3, <2>1 DEF Discard, v
            <4>4. CASE HandlePanic(v) \/ Publish(v)
                BY <4>4 DEF HandlePanic, Publish
            <4>5. QED
                BY <1>1, <2>3, <4>1, <4>2, <4>3, <4>4 DEF WorkerStep, v
        <3>3. QED
            BY <3>2, <2>1
    <2>4. QED
        BY <2>2, <2>3
<1>2. ASSUME NEW w \in Workers, TimeStep(w) PROVE CompilingIsTrue'
    <2>1. /\ UNCHANGED <<tabVars, localVars, shutdown>>
          /\ status' = status \/ \E r : status' = [status EXCEPT ![w[1]] = [st |-> "slow", rev |-> r]]
        BY <1>2 DEF TimeStep, CooldownExpires, WatchdogWakes, WatchdogEmits, supVars, eventVars
    <2>2. ASSUME NEW d \in Docs PROVE status'[d] = status[d] \/ status'[d].st = "slow"
        <3>1. ASSUME NEW r, status' = [status EXCEPT ![w[1]] = [st |-> "slow", rev |-> r]]
              PROVE  status'[d] = status[d] \/ status'[d].st = "slow"
            BY <3>1, w[1] = d \/ w[1] # d DEF WeakTypeOK
        <3>2. QED
            BY <2>1, <3>1
    <2>3. QED
        BY <2>1, <2>2 DEF tabVars, localVars
<1>3. ASSUME NEW d \in Docs, DocStep(d) PROVE CompilingIsTrue'
    <2>1. /\ UNCHANGED <<status, shutdown>>
          /\ \A v \in Workers : pc[v] \in Working => pc'[v] = pc[v]
        BY <1>3, TextsGrow DEF Working
    <2>2. \A e \in Docs : (open'[e] => open[e]) /\ (gen'[e] = 1 => gen[e] = 1)
        <3> gen \in [Docs -> 1..MaxGen] /\ open \in [Docs -> BOOLEAN]
            BY DEF WeakTypeOK, Gens
        <3>1. QED
            BY <1>3 DEF DocStep, Edit, Refresh, Replace, RemoveWorker, SpawnWorker, InsertWorker, Close, tabVars
    <2>3. \A e \in Docs : <<e, 1>> \in Workers
        <3>1. 1 \in Gens
            BY DEF Gens
        <3>2. QED
            BY <3>1, WorkerParts
    <2>4. QED
        BY <2>1, <2>2, <2>3
<1>4. CASE Shutdown \/ DrainReturns \/ UNCHANGED vars
    BY <1>4 DEF Shutdown, DrainReturns, vars, tabVars, localVars, eventVars, supVars
<1>5. QED
    BY <1>1, <1>2, <1>3, <1>4 DEF Next

-----------------------------------------------------------------------------
(* The inductive invariant and the theorems.                                *)

IInv ==
    /\ WeakTypeOK
    /\ ThreadsInOrder
    /\ PermitsConserved
    /\ WatchdogOnlyWhileCompiling
    /\ DrainedStops

\* Counting the permits bounds the pool by the cap.
LEMMA IInvType == IInv => TypeOK
<1> SUFFICES ASSUME IInv PROVE TypeOK
    OBVIOUS
<1>1. free + Cardinality(Holders) = Cap
    BY DEF IInv, PermitsConserved, Holders
<1>2. free \in 0..Cap
    BY <1>1, HoldersFinite DEF IInv, WeakTypeOK
<1>3. QED
    BY <1>2 DEF IInv, WeakTypeOK, TypeOK

\* The program starts in it ...
LEMMA IInvInit == Init => IInv
<1>1. Init => WatchdogOnlyWhileCompiling /\ DrainedStops
    BY DEF Init, WatchdogOnlyWhileCompiling, DrainedStops
<1>2. QED
    BY <1>1, TypeInit, ThreadsInit, PermitsInit DEF IInv

\* ... and every step keeps it.
LEMMA IInvKept == IInv /\ [Next]_vars => IInv'
<1> SUFFICES ASSUME IInv, [Next]_vars PROVE IInv'
    OBVIOUS
<1>1. ThreadsInOrder'
    <2>1. CASE Shutdown \/ DrainReturns \/ UNCHANGED vars
        BY <2>1 DEF Shutdown, DrainReturns, vars, tabVars, localVars, IInv, ThreadsInOrder
    <2>2. QED
        BY <2>1, ThreadsWorker, ThreadsDoc DEF IInv, Next
<1>2. QED
    BY <1>1, TypeStep, PermitsStep, WatchdogStep, DrainedStep DEF IInv

\* The inductive invariant: types, threads in order, permits, watchdog and drain
\* support each other, so they are proved together.
THEOREM IInvHolds == Spec => []IInv
    BY IInvInit, IInvKept, PTL DEF Spec

\* Every variable keeps its type, the permit counter within 0..Cap included:
\* no early return or panic path of do_compile_for_tab gives a permit twice.
THEOREM TypeCorrect == Spec => []TypeOK
    BY IInvHolds, IInvType, PTL

\* Every permit is free or held by exactly one worker, for any number of
\* documents, generations and permits.
THEOREM Permits == Spec => []PermitsConserved
<1>1. IInv => PermitsConserved
    BY DEF IInv
<1>2. QED
    BY <1>1, IInvHolds, PTL

\* The slow watchdog's flag is up only while the compile itself runs.
THEOREM WatchdogWindow == Spec => []WatchdogOnlyWhileCompiling
<1>1. IInv => WatchdogOnlyWhileCompiling
    BY DEF IInv
<1>2. QED
    BY <1>1, IInvHolds, PTL

\* After wait_for_drain saw every permit free, no result is stored or shown.
THEOREM DrainIsFinal == Spec => DrainedIsFinal
<1>1. IInv /\ [Next]_vars => [drained => UNCHANGED <<last, shown>>]_vars
    <2> SUFFICES ASSUME IInv, Next, drained PROVE UNCHANGED <<last, shown>>
        BY DEF vars, resultVars, eventVars
    <2> USE DEF resultVars, eventVars
    <2>1. ASSUME NEW w \in Workers, WorkerStep(w) PROVE UNCHANGED <<last, shown>>
        <3>1. pc[w] \notin {"tail", "publish"}
            BY DEF IInv, DrainedStops
        <3>2. QED
            BY <2>1, <3>1 DEF WorkerStep, Begin, Exit, Snapshot, Acquire, Compile, Discard,
                              Keep, Store, HandlePanic, Publish, RenderPanic
    <2>2. ASSUME NEW w \in Workers, TimeStep(w) PROVE UNCHANGED <<last, shown>>
        BY <2>2 DEF TimeStep, CooldownExpires, WatchdogWakes, WatchdogEmits
    <2>3. ASSUME NEW d \in Docs, DocStep(d) PROVE UNCHANGED <<last, shown>>
        BY <2>3 DEF DocStep, Edit, Refresh, Replace, RemoveWorker, SpawnWorker, InsertWorker,
                    Close
    <2>4. QED
        BY <2>1, <2>2, <2>3 DEF Next, Shutdown, DrainReturns
<1>2. QED
    BY <1>1, IInvHolds, PTL DEF Spec, DrainedIsFinal

\* What keeps the results, the preview and the status up to date holds of the
\* tabs the pipeline starts with ...
LEMMA LatestInit == Init => LatestInv
<1> SUFFICES ASSUME Init PROVE LatestInv
    OBVIOUS
<1>1. \A d \in Docs : Newest(d) = <<d, 1>> /\ Newest(d) \in Workers
    <2>1. 1 \in Gens
        BY DEF Gens
    <2>2. QED
        BY <2>1, WorkerParts DEF Init, Newest
<1>2. RotationInOrder
    BY <1>1, WorkerParts DEF Init, RotationInOrder
<1>3. CompileInOrder
    BY DEF Init, CompileInOrder, OrderOf, Working
<1>4. NothingOverlooked
    BY <1>1 DEF Init, NothingOverlooked, UpToDate
<1>5. CompilingIsTrue
    BY DEF Init, CompilingIsTrue
<1>6. QED
    BY <1>2, <1>3, <1>4, <1>5 DEF LatestInv

\* ... and is kept by every step.
LEMMA LatestKept == IInv /\ LatestInv /\ [Next]_vars => LatestInv'
    BY RotationStep, CompileStep, OverlookedStep, CompilingStep DEF IInv, LatestInv

\* Both together, for the pipeline's own specification.
THEOREM LatestHolds == Spec => []LatestInv
    BY LatestInit, LatestKept, IInvHolds, PTL DEF Spec

\* However edits, rotations and compiles interleave, a pipeline at rest has the
\* result of the buffer's text, and its preview on screen: the argument is that
\* a signal that is taken is followed by a snapshot of a text at least as new.
THEOREM RestIsLatest == Spec => []SettledIsLatest
<1>1. IInv /\ LatestInv => SettledIsLatest
    <2> SUFFICES ASSUME IInv, LatestInv, NEW d \in Docs \ unheard, Settled(d), last[Newest(d)].ok
                 PROVE  /\ last[Newest(d)].rev = rev[Newest(d)] /\ last[Newest(d)].ver = text[Newest(d)]
                        /\ gen[d] = 1 => shown[d].ver = text[Newest(d)]
        BY DEF SettledIsLatest, SettledResult, SettledPreview, Newest
    <2>1. UpToDate(d)
        BY DEF LatestInv, NothingOverlooked, Settled
    <2>2. QED
        BY <2>1 DEF UpToDate, Settled, Newest, Working
<1>2. QED
    BY <1>1, IInvHolds, LatestHolds, PTL

\* Nor does a tab that was never replaced stay on Compiling, whichever way its
\* compiles ended: result, panic in the compile, panic in the renderer.
THEOREM CompilingEnds == Spec => []CompilingIsTransient
<1>1. LatestInv => CompilingIsTransient
    BY DEF LatestInv, CompilingIsTrue, CompilingIsTransient, Settled, Working
<1>2. QED
    BY <1>1, LatestHolds, PTL

-----------------------------------------------------------------------------
(* Exports over the pipeline: no file from an older revision's text.        *)

IsSeq(s) == \E S : s \in Seq(S)
Items == [doc : Docs, revision : Nat, name : DOMAIN Stem]
JobFields == {"pc", "kind", "items", "outcomes", "stems", "stem", "doc", "written", "folder"}

\* What each revision began with is remembered in order, and no tab has the
\* text of an older revision.
BornInOrder ==
    /\ born = [d \in Docs |-> born[d]]
    /\ \A d \in Docs : born[d] \in Seq(0..MaxText) /\ Len(born[d]) = rev[Newest(d)]
At(s, r) == IF r = 0 THEN 0 ELSE s[r]
TextsOf(w) == rev[w] <= Len(born[w[1]]) /\ At(born[w[1]], rev[w]) <= text[w]

\* Nor does a compile read one, or a result hold one.
ResultsOf(w) ==
    /\ pc[w] \in Working => snap[w].rev <= Len(born[w[1]]) /\ At(born[w[1]], snap[w].rev) <= snap[w].text
    /\ last[w].rev # -1 => last[w].rev <= Len(born[w[1]]) /\ At(born[w[1]], last[w].rev) <= last[w].ver
BornInv == BornInOrder /\ \A w \in Workers : TextsOf(w) /\ ResultsOf(w)

\* The command asks for revisions there are, and has in hand what it asked for.
JobInv ==
    /\ DOMAIN job = JobFields
    /\ IsSeq(job.outcomes) /\ job.items \in Seq(Items)
    /\ \A i \in 1..Len(job.items) : job.items[i].revision <= Len(born[job.items[i].doc])
    /\ job.pc \in {"wait", "write"} => Len(job.outcomes) < Len(job.items)
    /\ job.doc # -1 => job.pc = "write" /\ At(born[Asked.doc], Asked.revision) <= job.doc

ExportsInv == IInv /\ CompileInOrder /\ BornInv /\ JobInv

\* Adding to a sequence.
LEMMA AppendIsSeq == ASSUME NEW s, NEW e, IsSeq(s) PROVE IsSeq(Append(s, e)) /\ Len(s) \in Nat
<1>1. PICK S : s \in Seq(S)
    BY DEF IsSeq
<1>2. s \in Seq(S \union {e}) /\ Len(s) \in Nat
    BY <1>1, SeqDef
<1>3. Append(s, e) \in Seq(S \union {e})
    BY <1>2
<1>4. QED
    BY <1>2, <1>3 DEF IsSeq

\* What a revision began with does not change.
LEMMA BornStays ==
    ASSUME BornInv, NEW d \in Docs, NEW x \in 0..MaxText, born'[d] = born[d] \/ born'[d] = Append(born[d], x)
    PROVE  /\ Len(born[d]) <= Len(born'[d])
           /\ \A r \in 0..Len(born[d]) : At(born'[d], r) = At(born[d], r) /\ At(born[d], r) \in 0..MaxText
           /\ born'[d] \in Seq(0..MaxText)
<1>1. born[d] \in Seq(0..MaxText) /\ Len(born[d]) \in Nat
    BY DEF BornInv, BornInOrder
<1>2. CASE born'[d] = born[d]
    BY <1>1, <1>2 DEF At
<1>3. CASE born'[d] = Append(born[d], x)
    <2>1. /\ Append(born[d], x) \in Seq(0..MaxText) /\ Len(Append(born[d], x)) = Len(born[d]) + 1
          /\ \A r \in 1..Len(born[d]) : Append(born[d], x)[r] = born[d][r]
        BY <1>1
    <2>2. QED
        BY <1>1, <1>3, <2>1 DEF At
<1>4. QED
    BY <1>2, <1>3

\* How a step of the pipeline changes the tabs: a revision is begun by an edit
\* with the text it brings; a new generation takes over its predecessor's.
LEMMA TabsChange ==
    ASSUME IInv, Next
    PROVE  \/ UNCHANGED <<gen, rev, text>>
           \/ \E d \in Docs : LET w == Newest(d) IN
                  /\ UNCHANGED <<gen, snap, last, pc>> /\ text[w] + 1 \in 0..MaxText /\ text' = [text EXCEPT ![w] = @ + 1]
                  /\ rev' = rev \/ rev' = [rev EXCEPT ![w] = @ + 1]
           \/ \E d \in Docs : LET w == Newest(d)  n == <<d, gen[d] + 1>> IN
                  /\ UNCHANGED <<snap, last, pc>> /\ n \in Workers /\ gen' = [gen EXCEPT ![d] = @ + 1]
                  /\ text' = [text EXCEPT ![n] = text[w]] /\ rev' = [rev EXCEPT ![n] = rev[w]]
<1>1. CASE \E w \in Workers : WorkerStep(w) \/ TimeStep(w)
    BY <1>1, TabsElsewhere DEF tabVars
<1>2. CASE Shutdown \/ DrainReturns
    BY <1>2 DEF Shutdown, DrainReturns, tabVars
<1>3. ASSUME NEW d \in Docs, NEW bump \in BOOLEAN, Edit(d, bump)
      PROVE  LET w == Newest(d) IN
                  /\ UNCHANGED <<gen, snap, last, pc>> /\ text[w] + 1 \in 0..MaxText /\ text' = [text EXCEPT ![w] = @ + 1]
                  /\ rev' = rev \/ rev' = [rev EXCEPT ![w] = @ + 1]
    <2>1. Newest(d) \in Workers
        BY WorkerParts DEF Newest, IInv, WeakTypeOK
    <2>2. QED
        BY <1>3, <2>1 DEF Edit, Newest, localVars, resultVars, IInv, WeakTypeOK
<1>4. ASSUME NEW d \in Docs, Replace(d)
      PROVE  LET w == Newest(d)  n == <<d, gen[d] + 1>> IN
                  /\ UNCHANGED <<snap, last, pc>> /\ n \in Workers /\ gen' = [gen EXCEPT ![d] = @ + 1]
                  /\ text' = [text EXCEPT ![n] = text[w]] /\ rev' = [rev EXCEPT ![n] = rev[w]]
    <2>1. gen[d] + 1 \in Gens
        BY <1>4 DEF Replace, Gens, IInv, WeakTypeOK
    <2>2. QED
        BY <1>4, <2>1, WorkerParts DEF Replace, Newest, localVars, resultVars
<1>5. ASSUME NEW d \in Docs, Refresh(d) \/ RemoveWorker(d) \/ SpawnWorker(d) \/ InsertWorker(d) \/ Close(d)
      PROVE  UNCHANGED <<gen, rev, text>>
    BY <1>5 DEF Refresh, RemoveWorker, SpawnWorker, InsertWorker, Close, tabVars
<1>6. QED
    BY <1>1, <1>2, <1>3, <1>4, <1>5 DEF Next, DocStep

\* Each stage of a compile hands on a text of its revision.
LEMMA ResultsWorker ==
    ASSUME IInv, CompileInOrder, BornInv, NEW w \in Workers, WorkerStep(w) \/ TimeStep(w), born' = born
    PROVE  \A v \in Workers : ResultsOf(v)'
<1> USE DEF IInv, WeakTypeOK, localVars, resultVars
<1>o. \A v \in Workers : ResultsOf(v) /\ OrderOf(v) /\ TextsOf(v)
    BY DEF BornInv, CompileInOrder
<1> SUFFICES ASSUME NEW v \in Workers PROVE ResultsOf(v)'
    OBVIOUS
<1>s. /\ pc'[v] \in Working => snap'[v].rev <= Len(born[v[1]]) /\ At(born[v[1]], snap'[v].rev) <= snap'[v].text
      /\ last'[v].rev # -1 => last'[v].rev <= Len(born[v[1]]) /\ At(born[v[1]], last'[v].rev) <= last'[v].ver
    <2> USE DEF ResultsOf, Working
    <2>1. CASE Begin(w)
        BY <2>1, <1>o DEF Begin
    <2>2. CASE Exit(w)
        BY <2>2, <1>o DEF Exit
    <2>3. CASE Snapshot(w)
        BY <2>3, <1>o DEF Snapshot, TextsOf
    <2>4. CASE Acquire(w)
        BY <2>4, <1>o DEF Acquire
    <2>5. CASE Compile(w)
        BY <2>5, <1>o DEF Compile
    <2>6. CASE Discard(w)
        BY <2>6, <1>o DEF Discard, Return
    <2>7. CASE Keep(w)
        BY <2>7, <1>o DEF Keep
    <2>8. pc[w] = "tail" => At(born[w[1]], snap[w].rev) <= read[w] /\ snap[w].rev <= Len(born[w[1]])
        <3> SUFFICES ASSUME pc[w] = "tail" PROVE At(born[w[1]], snap[w].rev) <= read[w] /\ snap[w].rev <= Len(born[w[1]])
            OBVIOUS
        <3>1. snap[w].rev <= Len(born[w[1]]) /\ At(born[w[1]], snap[w].rev) <= snap[w].text /\ snap[w].text <= read[w]
            BY <1>o DEF OrderOf
        <3>2. w[1] \in Docs /\ snap[w].rev \in 0..MaxText /\ snap[w].text \in Int /\ read[w] \in Int
            BY WorkerParts
        <3>3. At(born[w[1]], snap[w].rev) \in Int
            <4>1. born[w[1]] \in Seq(0..MaxText)
                BY <3>2 DEF BornInv, BornInOrder
            <4> HIDE DEF IInv, WeakTypeOK
            <4>2. \A i \in 1..Len(born[w[1]]) : born[w[1]][i] \in 0..MaxText
                BY <4>1
            <4>3. snap[w].rev = 0 \/ snap[w].rev \in 1..Len(born[w[1]])
                BY <3>1, <3>2, <4>1
            <4>4. QED
                BY <4>2, <4>3 DEF At
        <3>4. QED
            BY <3>1, <3>2, <3>3
    <2>9. CASE Store(w)
        <3>1. last' = [last EXCEPT ![w] = [rev |-> snap[w].rev, ver |-> read[w], ok |-> outcome[w] = "ok"]]
            BY <2>9 DEF Store
        <3>2. /\ UNCHANGED snap /\ pc' = [pc EXCEPT ![w] = "publish"] /\ pc[w] = "tail"
            BY <2>9 DEF Store
        <3>3. QED
            BY <3>1, <3>2, <2>8, <1>o
    <2>10. CASE HandlePanic(w)
        BY <2>10, <2>8, <1>o DEF HandlePanic, Return
    <2>11. CASE Publish(w)
        BY <2>11, <1>o DEF Publish, Return
    <2>12. CASE RenderPanic(w)
        BY <2>12, <1>o DEF RenderPanic
    <2>13. CASE TimeStep(w)
        <3>1. UNCHANGED <<pc, snap, last>>
            BY <2>13 DEF TimeStep, CooldownExpires, WatchdogWakes, WatchdogEmits
        <3>2. QED
            BY <3>1, <1>o
    <2>14. QED
        BY <2>1, <2>2, <2>3, <2>4, <2>5, <2>6, <2>7, <2>9, <2>10, <2>11, <2>12, <2>13 DEF WorkerStep
<1>q. QED
    BY <1>s DEF ResultsOf

\* A step of the pipeline begins a revision with the text that brought it.
LEMMA BornStep ==
    ASSUME IInv, CompileInOrder, BornInv, PipelineStep
    PROVE  /\ BornInv'
           /\ \A d \in Docs : \E x \in 0..MaxText : born'[d] = born[d] \/ born'[d] = Append(born[d], x)
<1> USE DEF Newest
<1>1. /\ Next /\ \A d \in Docs : born'[d] = IF rev'[Newest(d)] = rev[Newest(d)] THEN born[d]
                                      ELSE Append(born[d], text'[Newest(d)])
    BY DEF PipelineStep
<1>2. /\ rev \in [Workers -> 0..MaxText] /\ text \in [Workers -> 0..MaxText] /\ gen \in [Docs -> Gens]
      /\ \A d \in Docs : Newest(d) \in Workers
    BY WorkerParts DEF IInv, WeakTypeOK
<1>3. text' \in [Workers -> 0..MaxText]
    BY <1>1, IInvKept DEF IInv, WeakTypeOK
<1>4. \A d \in Docs : \E x \in 0..MaxText : born'[d] = born[d] \/ born'[d] = Append(born[d], x)
    BY <1>1, <1>2, <1>3
<1>5. \A d \in Docs :
         /\ Len(born[d]) <= Len(born'[d]) /\ Len(born[d]) \in Nat /\ Len(born'[d]) \in Nat
         /\ \A r \in 0..Len(born[d]) : At(born'[d], r) = At(born[d], r) /\ At(born[d], r) \in 0..MaxText
         /\ born'[d] \in Seq(0..MaxText)
    BY <1>4, BornStays DEF BornInv, BornInOrder
<1>6. \A v \in Workers : v[1] \in Docs /\ TextsOf(v) /\ ResultsOf(v)
    BY WorkerParts DEF BornInv
<1>12. born' = [d \in Docs |-> born'[d]]
    BY DEF PipelineStep
<1>10. \A v \in Workers : \A r \in 0..MaxText : r <= Len(born[v[1]]) =>
           /\ r <= Len(born'[v[1]])
           /\ At(born'[v[1]], r) = At(born[v[1]], r) /\ At(born[v[1]], r) \in 0..MaxText
    BY <1>5, <1>6
<1>11. \A v \in Workers : rev[v] <= Len(born'[v[1]]) /\ At(born'[v[1]], rev[v]) <= text[v]
                         /\ At(born'[v[1]], rev[v]) \in 0..MaxText
    BY <1>2, <1>6, <1>10 DEF TextsOf
<1>7. BornInOrder' /\ \A v \in Workers : TextsOf(v)'
    <2>1. CASE UNCHANGED <<gen, rev, text>>
        <3>1. \A d \in Docs : born'[d] = born[d]
            BY <1>1, <2>1
        <3>2. BornInOrder'
            BY <1>12, <2>1, <3>1 DEF BornInv, BornInOrder
        <3>3. ASSUME NEW v \in Workers PROVE TextsOf(v)'
            BY <1>11, <2>1 DEF TextsOf
        <3>4. QED
            BY <3>2, <3>3
    <2>2. ASSUME NEW d \in Docs,
                 UNCHANGED gen, text[Newest(d)] + 1 \in 0..MaxText, text' = [text EXCEPT ![Newest(d)] = @ + 1],
                 rev' = rev \/ rev' = [rev EXCEPT ![Newest(d)] = @ + 1]
          PROVE  BornInOrder' /\ \A v \in Workers : TextsOf(v)'
        <3> DEFINE w == Newest(d)
        <3>1. CASE rev' = rev
            <4>1. \A c \in Docs : born'[c] = born[c]
                BY <1>1, <3>1
            <4>2. BornInOrder'
                BY <1>12, <2>2, <3>1, <4>1 DEF BornInv, BornInOrder
            <4>3. ASSUME NEW v \in Workers PROVE TextsOf(v)'
                <5>1. text[v] <= text'[v] /\ text[v] \in Int /\ text'[v] \in Int
                    BY <1>2, <1>3, <2>2
                <5>2. QED
                    BY <1>11, <3>1, <5>1 DEF TextsOf
            <4>4. QED
                BY <4>2, <4>3
        <3>2. CASE rev' = [rev EXCEPT ![w] = @ + 1]
            <4>0. rev'[w] = rev[w] + 1 /\ rev[w] \in Nat /\ gen' = gen /\ \A v \in Workers : v # w => rev'[v] = rev[v]
                BY <1>2, <2>2, <3>2
            <4>1. born'[d] = Append(born[d], text'[w]) /\ \A c \in Docs \ {d} : born'[c] = born[c]
                <5>1. \A c \in Docs \ {d} : Newest(c) # w /\ Newest(c) \in Workers
                    BY <1>2
                <5>2. rev'[w] # rev[w]
                    BY <4>0
                <5>3. \A c \in Docs \ {d} : rev'[Newest(c)] = rev[Newest(c)]
                    BY <4>0, <5>1
                <5>4. QED
                    BY <1>1, <5>2, <5>3
            <4>2. \A c \in Docs : born[c] \in Seq(0..MaxText) /\ Len(born[c]) = rev[Newest(c)]
                BY DEF BornInv, BornInOrder
            <4>3. Len(born'[d]) = rev[w] + 1 /\ born'[d][rev[w] + 1] = text'[w]
                BY <1>2, <1>3, <4>1, <4>2
            <4>4. BornInOrder'
                <5>1. SUFFICES ASSUME NEW c \in Docs PROVE (born[c] \in Seq(0..MaxText) /\ Len(born[c]) = rev[Newest(c)])'
                    BY <1>12 DEF BornInOrder
                <5>2. CASE c = d
                    BY <1>5, <4>0, <4>3, <5>2
                <5>3. CASE c # d
                    <6>1. Newest(c) \in Workers /\ Newest(c) # w
                        BY <1>2, <5>3
                    <6>2. QED
                        BY <4>0, <4>1, <4>2, <5>3, <6>1
                <5>4. QED
                    BY <5>2, <5>3
            <4>5. ASSUME NEW v \in Workers PROVE TextsOf(v)'
                <5>1. CASE v = w
                    <6>1. v[1] = d /\ rev'[v] = rev[w] + 1 /\ rev'[v] # 0 /\ text'[v] \in Nat
                        BY <1>2, <1>3, <4>0, <5>1
                    <6>2. At(born'[d], rev'[v]) = text'[v]
                        BY <4>3, <5>1, <6>1 DEF At
                    <6>3. QED
                        BY <4>3, <6>1, <6>2 DEF TextsOf
                <5>2. CASE v # w
                    <6>1. rev'[v] = rev[v] /\ text'[v] = text[v]
                        BY <1>2, <2>2, <4>0, <5>2
                    <6>2. QED
                        BY <1>11, <6>1 DEF TextsOf
                <5>3. QED
                    BY <5>1, <5>2
            <4>6. QED
                BY <4>4, <4>5
        <3>3. QED
            BY <2>2, <3>1, <3>2
    <2>3. ASSUME NEW d \in Docs, <<d, gen[d] + 1>> \in Workers, gen' = [gen EXCEPT ![d] = @ + 1],
                 text' = [text EXCEPT ![<<d, gen[d] + 1>>] = text[Newest(d)]],
                 rev' = [rev EXCEPT ![<<d, gen[d] + 1>>] = rev[Newest(d)]]
          PROVE  BornInOrder' /\ \A v \in Workers : TextsOf(v)'
        <3> DEFINE n == <<d, gen[d] + 1>>
        <3>1. gen[d] \in Int /\ \A c \in Docs : Newest(c) # n
            BY <1>2 DEF Gens
        <3>2. \A c \in Docs : born'[c] = born[c]
            BY <1>1, <1>2, <2>3, <3>1
        <3>3. Newest(d)' = n /\ \A c \in Docs \ {d} : Newest(c)' = Newest(c)
            BY <1>2, <2>3
        <3>4. rev'[n] = rev[Newest(d)] /\ text'[n] = text[Newest(d)] /\ n[1] = d /\ Newest(d)[1] = d
            BY <1>2, <2>3
        <3>5. \A v \in Workers \ {n} : rev'[v] = rev[v] /\ text'[v] = text[v]
            BY <1>2, <2>3
        <3>6. BornInOrder'
            <4> SUFFICES ASSUME NEW c \in Docs PROVE (born[c] \in Seq(0..MaxText) /\ Len(born[c]) = rev[Newest(c)])'
                BY <1>12 DEF BornInOrder
            <4>1. born[c] \in Seq(0..MaxText) /\ Len(born[c]) = rev[Newest(c)]
                BY DEF BornInv, BornInOrder
            <4>2. CASE c = d
                BY <3>2, <3>3, <3>4, <4>1, <4>2
            <4>3. CASE c # d
                BY <1>2, <3>1, <3>2, <3>3, <3>5, <4>1, <4>3
            <4>4. QED
                BY <4>2, <4>3
        <3>7. ASSUME NEW v \in Workers PROVE TextsOf(v)'
            <4>1. PICK u \in Workers : u[1] = v[1] /\ rev'[v] = rev[u] /\ text'[v] = text[u]
                BY <1>2, <3>4, <3>5
            <4>2. QED
                BY <1>11, <4>1 DEF TextsOf
        <3>8. QED
            BY <3>6, <3>7
    <2>4. QED
        BY <1>1, <2>1, <2>2, <2>3, TabsChange
<1>7a. \A d \in Docs : rev'[Newest(d)] = rev[Newest(d)] => born'[d] = born[d]
    BY <1>1
<1>8. \A v \in Workers : ResultsOf(v)'
    <2>1. ASSUME NEW w \in Workers, WorkerStep(w) \/ TimeStep(w) PROVE \A v \in Workers : ResultsOf(v)'
        <3>1. UNCHANGED tabVars
            BY <2>1, TabsElsewhere
        <3>2. born' = born
            BY <1>1, <1>12, <3>1 DEF tabVars, BornInv, BornInOrder
        <3>3. QED
            BY <2>1, <3>2, ResultsWorker
    <2>2. ASSUME NEW v \in Workers, UNCHANGED <<snap, last>>, pc'[v] = pc[v] \/ pc'[v] \notin Working
          PROVE  ResultsOf(v)'
        <3>1. snap[v].rev \in 0..MaxText /\ (last[v].rev # -1 => last[v].rev \in 0..MaxText)
            BY DEF IInv, WeakTypeOK, Versions
        <3>2. QED
            BY <1>6, <1>10, <2>2, <3>1 DEF ResultsOf
    <2>3. CASE \E d \in Docs : DocStep(d)
        <3>1. UNCHANGED <<snap, last>> /\ \A v \in Workers : pc'[v] = pc[v] \/ pc'[v] \notin Working
            <4>1. PICK d \in Docs : DocStep(d)
                BY <2>3
            <4>2. WeakTypeOK /\ ThreadsInOrder
                BY DEF IInv
            <4>3. QED
                BY <4>1, <4>2, TextsGrow DEF Working
        <3>2. QED
            BY <2>2, <3>1
    <2>4. CASE Shutdown \/ DrainReturns
        BY <2>2, <2>4 DEF Shutdown, DrainReturns, localVars, resultVars
    <2>5. QED
        BY <1>1, <2>1, <2>3, <2>4 DEF Next
<1>9. QED
    BY <1>4, <1>7, <1>8 DEF BornInv

\* While the pipeline goes on, the command's items stay as they are.
LEMMA JobWaits == ASSUME IInv, CompileInOrder, BornInv, JobInv, PipelineStep PROVE JobInv'
<1>1. /\ job' = job
      /\ \A d \in Docs : \E x \in 0..MaxText : born'[d] = born[d] \/ born'[d] = Append(born[d], x)
    BY BornStep DEF PipelineStep
<1>2. \A d \in Docs :
         /\ Len(born[d]) <= Len(born'[d]) /\ Len(born[d]) \in Nat /\ Len(born'[d]) \in Nat
         /\ \A r \in 0..Len(born[d]) : At(born'[d], r) = At(born[d], r)
    <2>1. \A d \in Docs : born[d] \in Seq(0..MaxText)
        BY DEF BornInv, BornInOrder
    <2>2. QED
        BY <1>1, <2>1, BornStays
<1>3. ASSUME NEW i \in 1..Len(job.items)
      PROVE  LET d == job.items[i].doc  r == job.items[i].revision IN
             d \in Docs /\ r <= Len(born'[d]) /\ At(born'[d], r) = At(born[d], r)
    <2>1. job.items[i] \in Items /\ job.items[i].revision <= Len(born[job.items[i].doc])
        BY DEF JobInv
    <2>2. QED
        BY <1>2, <2>1 DEF Items
<1>4. ASSUME job.doc # -1 PROVE job.pc = "write" /\ At(born'[Asked.doc], Asked.revision) <= job.doc
    <2>1. job.pc = "write" /\ Len(job.outcomes) < Len(job.items) /\ At(born[Asked.doc], Asked.revision) <= job.doc
        BY <1>4 DEF JobInv
    <2>2. Len(job.outcomes) \in Nat /\ Len(job.items) \in Nat
        BY AppendIsSeq DEF JobInv
    <2>3. Len(job.outcomes) + 1 \in 1..Len(job.items)
        BY <2>1, <2>2
    <2>4. QED
        BY <1>3, <2>1, <2>3 DEF Asked
<1>5. Asked' = Asked
    BY <1>1 DEF Asked
<1>6. QED
    BY <1>1, <1>3, <1>4, <1>5 DEF JobInv

\* Ending an item takes the document out of hand.
LEMMA JobEnds ==
    ASSUME JobInv, NEW path, NEW fld, UNCHANGED born,
           job' = End(path) \/ job' = [End(path) EXCEPT !.folder = fld]
    PROVE  JobInv'
<1>1. /\ DOMAIN job' = JobFields /\ job'.items = job.items /\ job'.doc = -1
      /\ job'.pc \notin {"wait", "write"} /\ job'.outcomes = Append(job.outcomes, [path |-> path, doc |-> job.doc])
    BY DEF JobInv, JobFields, End
<1>2. IsSeq(job'.outcomes)
    BY <1>1, AppendIsSeq DEF JobInv
<1>3. QED
    BY <1>1, <1>2 DEF JobInv

\* A command asks for the revision a document has, or for none in particular.
LEMMA JobAsks ==
    ASSUME IInv, BornInv, JobInv, NEW kind, NEW names, names \in Seq(DOMAIN Stem), Ask(kind, names)
    PROVE  JobInv'
<1> DEFINE R(ds) == UNION {Revisions(kind, ds[i]) : i \in DOMAIN names}
<1>0. PICK ds \in [DOMAIN names -> Docs] : \E rs \in [DOMAIN names -> R(ds)] :
          /\ \A i \in DOMAIN names : rs[i] \in Revisions(kind, ds[i])
          /\ job' = [job EXCEPT !.pc = "next", !.kind = kind, !.items = [i \in DOMAIN names |-> Item(ds[i], rs[i], names[i])]]
    BY DEF Ask
<1>1. PICK rs \in [DOMAIN names -> R(ds)] :
          /\ \A i \in DOMAIN names : rs[i] \in Revisions(kind, ds[i])
          /\ job' = [job EXCEPT !.pc = "next", !.kind = kind, !.items = [i \in DOMAIN names |-> Item(ds[i], rs[i], names[i])]]
    BY <1>0
<1> HIDE DEF R
<1> DEFINE its == [i \in DOMAIN names |-> Item(ds[i], rs[i], names[i])]
<1>2. /\ job.doc = -1 /\ UNCHANGED born
      /\ DOMAIN job' = JobFields /\ job'.items = its /\ job'.doc = job.doc /\ job'.pc = "next" /\ job'.outcomes = job.outcomes
    <2>1. job.doc = -1 /\ UNCHANGED born
        BY DEF Ask, JobInv
    <2> HIDE DEF its
    <2>2. QED
        BY <1>1, <2>1 DEF JobInv, JobFields, its
<1>3. ASSUME NEW i \in DOMAIN names PROVE its[i] \in Items /\ its[i].revision <= Len(born[its[i].doc])
    <2>0. ds[i] \in Docs
        OBVIOUS
    <2>1. rs[i] \in Nat /\ rs[i] <= Len(born[ds[i]])
        <3>1. rev[<<ds[i], gen[ds[i]]>>] \in Nat /\ Len(born[ds[i]]) = rev[<<ds[i], gen[ds[i]]>>]
            BY <2>0, WorkerParts DEF IInv, WeakTypeOK, BornInv, BornInOrder, Newest
        <3>2. rs[i] \in {rev[<<ds[i], gen[ds[i]]>>], 0}
            BY <1>1 DEF Revisions
        <3>3. QED
            BY <3>1, <3>2
    <2>2. names[i] \in DOMAIN Stem
        OBVIOUS
    <2>3. its[i] = [doc |-> ds[i], revision |-> rs[i], name |-> names[i]]
        BY DEF Item
    <2> HIDE DEF its
    <2>4. QED
        BY <2>0, <2>1, <2>2, <2>3 DEF Items
<1>4. its \in Seq(Items) /\ Len(its) = Len(names) /\ DOMAIN names = 1..Len(names)
    <2>1. DOMAIN names = 1..Len(names) /\ Len(names) \in Nat
        OBVIOUS
    <2>2. its \in [1..Len(names) -> Items]
        BY <1>3, <2>1
    <2>3. its \in Seq(Items)
        BY <2>1, <2>2, SeqDef
    <2>4. QED
        BY <2>1, <2>2, <2>3
<1> HIDE DEF its
<1>5. QED
    BY <1>2, <1>3, <1>4 DEF JobInv

\* A document is in hand when its result is one of the revision asked for.
LEMMA JobGoesOn ==
    ASSUME IInv, BornInv, JobInv, TakeItem \/ Answer \/ Poll \/ TimeOut \/ WriteFile \/ Hear
    PROVE  JobInv'
<1>f. DOMAIN job = JobFields /\ IsSeq(job.outcomes)
    BY DEF JobInv
<1>1. CASE TakeItem
    <2>1. PICK s, ss : job' = [job EXCEPT !.pc = "wait", !.stem = s, !.stems = ss, !.written = <<>>]
        BY <1>1 DEF TakeItem
    <2>2. job.pc = "next" /\ Len(job.outcomes) < Len(job.items) /\ UNCHANGED born
        BY <1>1 DEF TakeItem
    <2>3. /\ DOMAIN job' = JobFields /\ job'.items = job.items /\ job'.doc = job.doc
          /\ job'.pc = "wait" /\ job'.outcomes = job.outcomes
        BY <1>f, <2>1 DEF JobFields
    <2>4. QED
        BY <2>2, <2>3 DEF JobInv
<1>2. CASE Answer
    <2>1. /\ job.pc = "next" /\ UNCHANGED born
          /\ DOMAIN job' = JobFields /\ job'.items = job.items /\ job'.doc = job.doc
          /\ job'.pc = "done" /\ job'.outcomes = job.outcomes
        BY <1>2, <1>f DEF Answer, JobFields
    <2>2. QED
        BY <2>1 DEF JobInv
<1>3. CASE Poll
    <2>1. CASE Fail
        BY <1>3, <2>1, JobEnds DEF Poll, Fail
    <2>2. CASE ~Fail
        <3>1. /\ job.pc = "wait" /\ UNCHANGED born
              /\ Result(Asked.doc).rev = Asked.revision
              /\ job' = [job EXCEPT !.pc = "write", !.doc = Result(Asked.doc).ver]
            BY <1>3, <2>2 DEF Poll
        <3>2. /\ DOMAIN job' = JobFields /\ job'.items = job.items /\ job'.doc = Result(Asked.doc).ver
              /\ job'.pc = "write" /\ job'.outcomes = job.outcomes
            BY <1>f, <3>1 DEF JobFields
        <3>3. Asked' = Asked /\ Len(job.outcomes) < Len(job.items)
            BY <3>1, <3>2 DEF Asked, JobInv
        <3>4. Asked \in Items
            <4>1. Len(job.outcomes) \in Nat /\ job.items \in Seq(Items)
                BY AppendIsSeq DEF JobInv
            <4>2. QED
                BY <3>3, <4>1 DEF Asked
        <3>5. At(born[Asked.doc], Asked.revision) <= Result(Asked.doc).ver
            <4>1. Asked.doc \in Docs /\ Asked.revision \in Nat
                BY <3>4 DEF Items
            <4>2. Newest(Asked.doc) \in Workers /\ Newest(Asked.doc)[1] = Asked.doc
                BY <4>1, WorkerParts DEF IInv, WeakTypeOK, Newest
            <4>3. ResultsOf(Newest(Asked.doc))
                BY <4>2 DEF BornInv
            <4>4. Result(Asked.doc) = last[Newest(Asked.doc)] /\ Asked.revision # -1
                BY <4>1 DEF Result, Newest
            <4>5. QED
                BY <3>1, <4>2, <4>3, <4>4 DEF ResultsOf
        <3>6. QED
            BY <3>1, <3>2, <3>3, <3>5 DEF JobInv
    <2>3. QED
        BY <2>1, <2>2
<1>4. CASE TimeOut
    BY <1>4, JobEnds DEF TimeOut, Fail
<1>5. CASE WriteFile
    <2>1. UNCHANGED born /\ job.pc = "write"
        BY <1>5 DEF WriteFile
    <2>2. CASE Fail
        BY <2>1, <2>2, JobEnds DEF Fail
    <2>3. ASSUME NEW done, NEW fld, job' = [End(done) EXCEPT !.folder = fld] PROVE JobInv'
        BY <2>1, <2>3, JobEnds
    <2>4. ASSUME NEW done, NEW fld, job' = [[job EXCEPT !.written = done] EXCEPT !.folder = fld] PROVE JobInv'
        <3>1. /\ DOMAIN job' = JobFields /\ job'.items = job.items /\ job'.doc = job.doc
              /\ job'.pc = job.pc /\ job'.outcomes = job.outcomes
            BY <1>f, <2>4 DEF JobFields
        <3>2. Asked' = Asked
            BY <3>1 DEF Asked
        <3>3. QED
            BY <2>1, <3>1, <3>2 DEF JobInv
    <2>5. QED
        BY <1>5, <2>2, <2>3, <2>4 DEF WriteFile
<1>6. CASE Hear
    <2>1. UNCHANGED born /\ job' = [NoJob EXCEPT !.pc = "returned"]
        BY <1>6 DEF Hear
    <2>2. DOMAIN job' = JobFields /\ job'.items = <<>> /\ job'.doc = -1 /\ job'.pc = "returned" /\ job'.outcomes = <<>>
        BY <2>1 DEF NoJob, JobFields
    <2>3. <<>> \in Seq(Items) /\ Len(<<>>) = 0
        OBVIOUS
    <2>4. IsSeq(<<>>)
        BY <2>3 DEF IsSeq
    <2>5. QED
        BY <2>2, <2>3, <2>4 DEF JobInv
<1>7. QED
    BY <1>1, <1>2, <1>3, <1>4, <1>5, <1>6

\* Everything an export relies on holds throughout.
LEMMA ExportsInvKept == ExportsInv /\ [ExportsNext]_<<vars, exportVars>> => ExportsInv'
<1> SUFFICES ASSUME ExportsInv, [ExportsNext]_<<vars, exportVars>> PROVE ExportsInv'
    OBVIOUS
<1> USE DEF ExportsInv
<1>1. CASE PipelineStep
    <2>1. IInv' /\ CompileInOrder'
        BY <1>1, IInvKept, CompileStep DEF PipelineStep, IInv
    <2>2. QED
        BY <1>1, <2>1, BornStep, JobWaits
<1>2. CASE ExportStep
    <2>1. UNCHANGED <<vars, born>>
        BY <1>2 DEF ExportStep, Ask, TakeItem, Answer, Poll, TimeOut, WriteFile, Hear
    <2>2. IInv' /\ CompileInOrder'
        BY <2>1, IInvKept, CompileStep DEF IInv
    <2>3. BornInv'
        BY <2>1 DEF BornInv, BornInOrder, TextsOf, ResultsOf, vars, tabVars, localVars, resultVars, Newest
    <2>4. <<CHOOSE n \in DOMAIN Stem : TRUE>> \in Seq(DOMAIN Stem)
        BY ExportsAssumption
    <2>5. JobInv'
        BY <1>2, <2>4, JobAsks, JobGoesOn, ExportsAssumption DEF ExportStep
    <2>6. QED
        BY <2>2, <2>3, <2>5
<1>3. CASE UNCHANGED <<vars, exportVars>>
    <2>1. IInv' /\ CompileInOrder'
        BY <1>3, IInvKept, CompileStep DEF IInv
    <2>2. QED
        BY <1>3, <2>1 DEF exportVars, BornInv, BornInOrder, TextsOf, ResultsOf, JobInv, Asked,
                         vars, tabVars, localVars, resultVars, Newest
<1>4. QED
    BY <1>1, <1>2, <1>3 DEF ExportsNext

\* It holds before anything is exported.
LEMMA ExportsInvInit == Init /\ ExportsInit => ExportsInv
<1> SUFFICES ASSUME Init, ExportsInit PROVE ExportsInv
    OBVIOUS
<1>1. IInv /\ CompileInOrder
    BY IInvInit DEF Init, CompileInOrder, OrderOf, Working
<1>2. BornInv
    <2>1. \A d \in Docs : born[d] = <<>> /\ gen[d] = 1 /\ <<d, 1>> \in Workers
        BY WorkerParts, PipelineAssumption DEF Init, ExportsInit, Gens, Workers
    <2>2. \A w \in Workers : rev[w] = 0 /\ text[w] = 0 /\ pc[w] \notin Working /\ last[w].rev = -1 /\ w[1] \in Docs
        BY WorkerParts DEF Init, Working
    <2>3. <<>> \in Seq(0..MaxText) /\ Len(<<>>) = 0
        OBVIOUS
    <2>4. BornInOrder
        <3>1. born = [d \in Docs |-> born[d]] /\ \A d \in Docs : rev[Newest(d)] = 0
            BY <2>1, <2>2 DEF ExportsInit, Newest
        <3>2. QED
            BY <2>1, <2>3, <3>1 DEF BornInOrder
    <2>5. ASSUME NEW w \in Workers PROVE TextsOf(w) /\ ResultsOf(w)
        <3>1. Len(born[w[1]]) = 0 /\ At(born[w[1]], 0) = 0
            BY <2>1, <2>2, <2>3 DEF At
        <3>2. QED
            BY <2>2, <3>1 DEF TextsOf, ResultsOf
    <2>6. QED
        BY <2>4, <2>5 DEF BornInv
<1>3. JobInv
    <2>1. <<>> \in Seq(Items) /\ Len(<<>>) = 0
        OBVIOUS
    <2>2. IsSeq(<<>>)
        BY <2>1 DEF IsSeq
    <2>3. /\ DOMAIN job = JobFields /\ job.items = <<>> /\ job.doc = -1 /\ job.pc = "none" /\ job.outcomes = <<>>
        BY DEF ExportsInit, NoJob, JobFields
    <2>4. QED
        BY <2>1, <2>2, <2>3 DEF JobInv
<1>4. QED
    BY <1>1, <1>2, <1>3 DEF ExportsInv

\* What a PDF, an image or a batch item is written from was compiled from the
\* text the requested revision began with, or from a later one (NeverOlder),
\* for any number of documents, permits, edits, pages and items, whichever
\* edits, rotations and compiles come between the flush and the poll.
THEOREM ExportsAreNeverOlder == ExportsSpec => []NeverOlder
<1>1. Init /\ ExportsInit => ExportsInv
    BY ExportsInvInit
<1>2. ExportsInv => NeverOlder
    <2> SUFFICES ASSUME ExportsInv, job.doc # -1 PROVE job.doc >= Began(Asked.doc, Asked.revision)
        BY DEF NeverOlder
    <2>1. job.pc = "write" /\ At(born[Asked.doc], Asked.revision) <= job.doc
        BY DEF ExportsInv, JobInv
    <2>2. QED
        BY <2>1 DEF Began, At
<1>3. QED
    BY <1>1, <1>2, ExportsInvKept, PTL DEF ExportsSpec
-----------------------------------------------------------------------------
(* Exports: the answer and the folder.                                      *)

\* Every set of numbers has a least one.
LEMMA Least ==
    ASSUME NEW T, T \subseteq Nat, T # {}
    PROVE  \E x \in T : \A y \in T : x <= y
<1> DEFINE Below == {0..x : x \in T}
<1>1. Below \subseteq FiniteSubsetsOf(Nat) /\ Below # {}
    <2>1. \A x \in T : IsFiniteSet(0..x) /\ 0..x \subseteq Nat
        BY FS_Interval
    <2>2. QED
        BY <2>1 DEF FiniteSubsetsOf
<1>2. PICK b \in Below : \A c \in Below : ~(<<c, b>> \in StrictSubsetOrdering(Nat))
    BY <1>1, FS_StrictSubsetOrderingWellFounded, WFMin
<1>3. PICK x \in T : b = 0..x
    BY <1>2
<1>4. ASSUME NEW y \in T PROVE x <= y
    <2>1. x \in Nat /\ y \in Nat
        OBVIOUS
    <2>2. CASE y < x
        <3>1. 0..y \subseteq 0..x /\ x \in 0..x /\ x \notin 0..y
            BY <2>1, <2>2
        <3>2. <<0..y, 0..x>> \in StrictSubsetOrdering(Nat)
            BY <2>1, <3>1 DEF StrictSubsetOrdering
        <3>3. QED
            BY <1>2, <1>3, <3>2
    <2>3. QED
        BY <2>1, <2>2
<1>5. QED
    BY <1>4

\* Numbers make different stems of one base.
LEMMA NumberedStems ==
    ASSUME NEW base, IsSeq(base)
    PROVE  \A i, j \in Nat : Append(base, i) = Append(base, j) => i = j
<1>1. PICK S : base \in Seq(S)
    BY DEF IsSeq
<1>2. base \in Seq(S \union Nat) /\ Len(base) \in Nat
    BY <1>1, SeqDef
<1>3. \A i \in Nat : Append(base, i)[Len(base) + 1] = i
    BY <1>2
<1>4. QED
    BY <1>3

\* However many stems are used, the next item gets one that is not.
LEMMA FreeIsUnused ==
    ASSUME NEW used, IsFiniteSet(used), NEW base, IsSeq(base)
    PROVE  Free(used, base) \notin used /\ IsSeq(Free(used, base))
<1> DEFINE N == Cardinality(used)
           Try(n) == Append(base, n)
           Unused == {n \in 2..N + 2 : Try(n) \notin used}
<1>1. N \in Nat
    BY FS_CardinalityType
<1>2. Unused # {}
    <2> SUFFICES ASSUME \A n \in 2..N + 2 : Try(n) \in used PROVE FALSE
        OBVIOUS
    <2> DEFINE f == [n \in 2..N + 2 |-> Try(n)]
    <2>1. f \in [2..N + 2 -> used]
        OBVIOUS
    <2>2. IsFiniteSet(2..N + 2) /\ Cardinality(2..N + 2) = N + 1
        BY <1>1, FS_Interval
    <2>3. \E x, y \in 2..N + 2 : x # y /\ f[x] = f[y]
        <3>1. ASSUME NEW A, IsFiniteSet(A), NEW g \in [A -> used], Cardinality(used) < Cardinality(A)
              PROVE  \E x, y \in A : x # y /\ g[x] = g[y]
            BY <3>1, FS_PigeonHole
        <3>2. Cardinality(used) < Cardinality(2..N + 2)
            BY <1>1, <2>2
        <3> HIDE DEF f, N
        <3>3. QED
            BY <2>1, <2>2, <3>1, <3>2
    <2>4. QED
        BY <1>1, <2>3, NumberedStems
<1>3. \E n \in 2..N + 2 : Try(n) \notin used /\ \A k \in 2..n - 1 : Try(k) \in used
    <2>1. Unused \subseteq Nat
        BY <1>1
    <2>2. PICK n \in Unused : \A m \in Unused : n <= m
        BY <1>2, <2>1, Least
    <2>3. ASSUME NEW k \in 2..n - 1 PROVE Try(k) \in used
        <3>1. k \in 2..N + 2 /\ ~(n <= k)
            BY <1>1, <2>2
        <3>2. QED
            BY <2>2, <3>1
    <2>4. QED
        BY <2>2, <2>3
<1>4. CASE base \in used
    <2>1. PICK n \in 2..N + 2 : Free(used, base) = Try(n) /\ Try(n) \notin used
        BY <1>3, <1>4 DEF Free
    <2>2. QED
        BY <2>1, AppendIsSeq
<1>5. CASE base \notin used
    BY <1>5 DEF Free
<1>6. QED
    BY <1>4, <1>5

\* What a sequence gains by an element.
LEMMA AppendedElements ==
    ASSUME NEW s, NEW e, IsSeq(s)
    PROVE  /\ Len(s) \in Nat /\ DOMAIN s = 1..Len(s) /\ (Len(s) = 0 => s = <<>>)
           /\ DOMAIN Append(s, e) = 1..Len(s) + 1 /\ Len(Append(s, e)) = Len(s) + 1
           /\ Append(s, e)[Len(s) + 1] = e /\ \A i \in DOMAIN s : Append(s, e)[i] = s[i]
<1>1. PICK S : s \in Seq(S)
    BY DEF IsSeq
<1>2. s \in Seq(S \union {e})
    BY <1>1, SeqDef
<1>3. QED
    BY <1>2

\* What was written for each item is there: its document, in the text it was
\* written from.
OutcomesHold ==
    \A i \in DOMAIN job.outcomes : LET o == job.outcomes[i] IN
        \A k \in DOMAIN o.path : o.path[k] \in DOMAIN job.folder /\ job.folder[o.path[k]] = <<job.items[i].doc, o.doc>>
Reported == UNION {{o.path[k] : k \in DOMAIN o.path} : o \in {job.outcomes[i] : i \in DOMAIN job.outcomes}}

\* A PDF is one file, under a stem that no item before had.
OneFileEach ==
    /\ DOMAIN job.folder = Reported /\ Reported \subseteq job.stems
    /\ job.pc \in {"wait", "write"} => job.stem \in job.stems \ Reported /\ job.written = <<>>

\* The pages of the only item are written in turn.
PagesInTurn ==
    /\ Len(job.items) = 1
    /\ job.pc \in {"wait", "write"} => job.outcomes = <<>>
    /\ job.pc = "write" =>
          /\ Len(job.written) \in 0..Pages - 1
          /\ job.written = [p \in 1..Len(job.written) |-> Append(job.stem, p)]
          /\ \A p \in 1..Len(job.written) :
                Append(job.stem, p) \in DOMAIN job.folder /\ job.folder[Append(job.stem, p)] = <<Asked.doc, job.doc>>

FolderInv ==
    /\ job.kind \in {"none", "pdf", "images", "batch"}
    /\ job.pc = "none" => job = NoJob
    /\ IsFiniteSet(job.stems)
    /\ job.pc \in {"wait", "write"} => IsSeq(job.stem)
    /\ job.pc = "wait" => job.written = <<>>
    /\ job.pc = "done" /\ job.kind = "batch" => Len(job.outcomes) = Len(job.items)
    /\ OutcomesHold
    /\ job.kind # "images" => OneFileEach
    /\ job.kind = "images" => PagesInTurn

\* The command as it is before anybody has asked.
LEMMA NoJobFolder == ASSUME job = NoJob \/ job = [NoJob EXCEPT !.pc = "returned"] PROVE FolderInv
<1>1. /\ job.kind = "none" /\ job.pc \in {"none", "returned"} /\ job.stems = {} /\ job.outcomes = <<>>
      /\ job.folder = <<>> /\ (job.pc = "none" => job = NoJob)
    BY DEF NoJob
<1>2. DOMAIN job.outcomes = {} /\ DOMAIN job.folder = {}
    <2>1. <<>> \in Seq(Nat) /\ Len(<<>>) = 0
        OBVIOUS
    <2>2. DOMAIN <<>> = {}
        BY <2>1
    <2>3. QED
        BY <1>1, <2>2
<1>3. OutcomesHold /\ OneFileEach
    BY <1>1, <1>2 DEF OutcomesHold, OneFileEach, Reported
<1>4. QED
    BY <1>1, <1>3, FS_EmptySet DEF FolderInv

\* An item ends with the files it has, or with none.
LEMMA FolderEnds ==
    ASSUME JobInv, FolderInv, job.pc \in {"wait", "write"}, NEW path,
           job'.kind = job.kind, job'.items = job.items, job'.stems = job.stems,
           job'.outcomes = Append(job.outcomes, [path |-> path, doc |-> job.doc]),
           job'.pc \in {"next", "done"}, job.kind = "batch" => job'.pc = "next",
           DOMAIN job.folder \subseteq DOMAIN job'.folder,
           \A i \in DOMAIN job.outcomes : \A k \in DOMAIN job.outcomes[i].path :
               job'.folder[job.outcomes[i].path[k]] = job.folder[job.outcomes[i].path[k]],
           \A k \in DOMAIN path : path[k] \in DOMAIN job'.folder /\ job'.folder[path[k]] = <<Asked.doc, job.doc>>,
           job.kind # "images" => /\ DOMAIN job'.folder = DOMAIN job.folder \union {path[k] : k \in DOMAIN path}
                                  /\ \A k \in DOMAIN path : path[k] \in job.stems
    PROVE  FolderInv'
<1> DEFINE o == [path |-> path, doc |-> job.doc]
           n == Len(job.outcomes)
<1>1. /\ n \in Nat /\ DOMAIN job.outcomes = 1..n /\ DOMAIN job'.outcomes = 1..n + 1
      /\ job'.outcomes[n + 1] = o /\ \A i \in 1..n : job'.outcomes[i] = job.outcomes[i]
    BY AppendedElements DEF JobInv
<1>2. o.path = path /\ o.doc = job.doc
    OBVIOUS
<1> HIDE DEF o
<1>3. \A i \in 1..n + 1 : i \in 1..n \/ i = n + 1
    BY <1>1
<1>4. OutcomesHold'
    <2> SUFFICES ASSUME NEW i \in 1..n + 1, NEW k \in DOMAIN job'.outcomes[i].path
                 PROVE  LET p == job'.outcomes[i].path[k] IN p \in DOMAIN job'.folder /\ job'.folder[p] = <<job'.items[i].doc, job'.outcomes[i].doc>>
        BY <1>1 DEF OutcomesHold
    <2>1. CASE i = n + 1
        BY <1>1, <1>2, <2>1 DEF Asked
    <2>2. CASE i \in 1..n
        <3>1. job'.outcomes[i] = job.outcomes[i] /\ k \in DOMAIN job.outcomes[i].path
            BY <1>1, <2>2
        <3>2. job.outcomes[i].path[k] \in DOMAIN job.folder /\ job.folder[job.outcomes[i].path[k]] = <<job.items[i].doc, job.outcomes[i].doc>>
            BY <1>1, <2>2, <3>1 DEF FolderInv, OutcomesHold
        <3>3. QED
            BY <1>1, <2>2, <3>1, <3>2
    <2>3. QED
        BY <1>3, <2>1, <2>2
<1>5. Reported' = Reported \union {path[k] : k \in DOMAIN path}
    <2>1. {job'.outcomes[i] : i \in DOMAIN job'.outcomes} = {job.outcomes[i] : i \in DOMAIN job.outcomes} \union {o}
        <3>1. n + 1 \in 1..n + 1 /\ 1..n \subseteq 1..n + 1
            BY <1>1
        <3>2. QED
            BY <1>1, <1>3, <3>1
    <2>2. \A x : x \in Reported <=> \E q \in {job.outcomes[i] : i \in DOMAIN job.outcomes} :
                                    \E k \in DOMAIN q.path : x = q.path[k]
        BY DEF Reported
    <2>3. \A x : x \in Reported' <=> \E q \in {job'.outcomes[i] : i \in DOMAIN job'.outcomes} :
                                     \E k \in DOMAIN q.path : x = q.path[k]
        BY DEF Reported
    <2>4. ASSUME NEW x PROVE x \in Reported' <=> x \in Reported \/ \E k \in DOMAIN path : x = path[k]
        <3> DEFINE A == {job.outcomes[i] : i \in DOMAIN job.outcomes}
                   B == {job'.outcomes[i] : i \in DOMAIN job'.outcomes}
        <3>1. B = A \union {o}
            BY <2>1
        <3>2. x \in Reported <=> \E q \in A : \E k \in DOMAIN q.path : x = q.path[k]
            BY <2>2
        <3>3. x \in Reported' <=> \E q \in B : \E k \in DOMAIN q.path : x = q.path[k]
            BY <2>3
        <3> HIDE DEF A, B
        <3>4. QED
            BY <1>2, <3>1, <3>2, <3>3
    <2>5. QED
        BY <2>4
<1>6. job.kind # "images" => OneFileEach'
    BY <1>5 DEF FolderInv, OneFileEach
<1>7. job.kind = "images" => PagesInTurn'
    BY DEF FolderInv, PagesInTurn
<1>8. QED
    BY <1>4, <1>6, <1>7 DEF FolderInv

\* What the end of an item leaves of the job.
LEMMA EndFields ==
    ASSUME DOMAIN job = JobFields, NEW path, NEW fld,
           (job' = End(path) /\ fld = job.folder) \/ job' = [End(path) EXCEPT !.folder = fld]
    PROVE  /\ job'.kind = job.kind /\ job'.items = job.items /\ job'.stems = job.stems /\ job'.folder = fld
           /\ job'.outcomes = Append(job.outcomes, [path |-> path, doc |-> job.doc])
           /\ job'.pc \in {"next", "done"} /\ (job.kind = "batch" => job'.pc = "next")
<1>1. /\ DOMAIN End(path) = JobFields /\ End(path).kind = job.kind /\ End(path).items = job.items
      /\ End(path).stems = job.stems /\ End(path).folder = job.folder
      /\ End(path).outcomes = Append(job.outcomes, [path |-> path, doc |-> job.doc])
      /\ End(path).pc = IF path # <<>> \/ job.kind = "batch" THEN "next" ELSE "done"
    BY DEF End, JobFields
<1>2. QED
    BY <1>1 DEF JobFields

\* An item that fails leaves the folder as it is.
LEMMA FolderFails == ASSUME JobInv, FolderInv, job.pc \in {"wait", "write"}, Fail PROVE FolderInv'
<1>1. /\ job'.kind = job.kind /\ job'.items = job.items /\ job'.stems = job.stems /\ job'.folder = job.folder
      /\ job'.outcomes = Append(job.outcomes, [path |-> <<>>, doc |-> job.doc])
      /\ job'.pc \in {"next", "done"} /\ (job.kind = "batch" => job'.pc = "next")
    BY EndFields DEF Fail, JobInv
<1>2. DOMAIN <<>> = {}
    <2>1. <<>> \in Seq(Nat) /\ Len(<<>>) = 0
        OBVIOUS
    <2>2. QED
        BY <2>1
<1>3. QED
    BY <1>1, <1>2, FolderEnds

\* Asking opens an empty folder.
LEMMA FolderAsks ==
    ASSUME JobInv, FolderInv, NEW kind \in {"pdf", "images", "batch"}, NEW names \in Seq(DOMAIN Stem),
           kind = "images" => Len(names) = 1, Ask(kind, names)
    PROVE  FolderInv'
<1>0. job = NoJob
    BY DEF Ask, FolderInv
<1>1. PICK its : job' = [NoJob EXCEPT !.pc = "next", !.kind = kind, !.items = its] /\ (kind = "images" => Len(its) = 1)
    <2>1. PICK ds \in [DOMAIN names -> Docs] :
              \E rs \in [DOMAIN names -> UNION {Revisions(kind, ds[i]) : i \in DOMAIN names}] :
                  job' = [job EXCEPT !.pc = "next", !.kind = kind, !.items = [i \in DOMAIN names |-> Item(ds[i], rs[i], names[i])]]
        BY DEF Ask
    <2>2. PICK rs : job' = [job EXCEPT !.pc = "next", !.kind = kind, !.items = [i \in DOMAIN names |-> Item(ds[i], rs[i], names[i])]]
        BY <2>1
    <2> DEFINE its == [i \in DOMAIN names |-> Item(ds[i], rs[i], names[i])]
    <2>3. Len(its) = Len(names)
        <3>1. Len(names) \in Nat /\ DOMAIN names = 1..Len(names)
            OBVIOUS
        <3>2. its \in [1..Len(names) -> {its[i] : i \in DOMAIN names}]
            BY <3>1
        <3>3. its \in Seq({its[i] : i \in DOMAIN names})
            BY <3>1, <3>2, SeqDef
        <3>4. QED
            BY <3>1, <3>3
    <2> HIDE DEF its
    <2>4. QED
        BY <1>0, <2>2, <2>3 DEF its
<1>2. /\ job'.pc = "next" /\ job'.kind = kind /\ job'.items = its /\ job'.stems = {} /\ job'.outcomes = <<>>
      /\ job'.folder = <<>>
    BY <1>1 DEF NoJob
<1>3. DOMAIN job'.outcomes = {} /\ DOMAIN job'.folder = {}
    <2>1. <<>> \in Seq(Nat) /\ Len(<<>>) = 0
        OBVIOUS
    <2>2. DOMAIN <<>> = {}
        BY <2>1
    <2>3. QED
        BY <1>2, <2>2
<1>4. OutcomesHold' /\ OneFileEach'
    BY <1>2, <1>3 DEF OutcomesHold, OneFileEach, Reported
<1>5. kind = "images" => PagesInTurn'
    BY <1>1, <1>2 DEF PagesInTurn
<1>6. QED
    BY <1>2, <1>4, <1>5, FS_EmptySet DEF FolderInv

\* Each item takes a stem that no file has.
LEMMA FolderTakes == ASSUME JobInv, FolderInv, TakeItem PROVE FolderInv'
<1> DEFINE s == Free(job.stems, Stem[Asked.name])
<1>1. /\ job.pc = "next" /\ Len(job.outcomes) < Len(job.items)
      /\ job' = [job EXCEPT !.pc = "wait", !.stem = s, !.stems = job.stems \union {s}, !.written = <<>>]
    BY DEF TakeItem
<1>2. IsSeq(Stem[Asked.name])
    <2>1. Asked \in Items
        <3>1. Len(job.outcomes) \in Nat /\ job.items \in Seq(Items)
            BY AppendIsSeq DEF JobInv
        <3>2. QED
            BY <1>1, <3>1 DEF Asked
    <2>2. Asked.name \in DOMAIN Stem
        BY <2>1 DEF Items
    <2> DEFINE b == Stem[Asked.name]
    <2>3. Len(b) \in Nat /\ b = [i \in 1..Len(b) |-> b[i]]
        BY <2>2, ExportsAssumption
    <2>4. b \in [1..Len(b) -> {b[i] : i \in 1..Len(b)}]
        <3> HIDE DEF b
        <3>1. QED
            BY <2>3
    <2>5. b \in Seq({b[i] : i \in 1..Len(b)})
        <3> HIDE DEF b
        <3>1. QED
            BY <2>3, <2>4, SeqDef
    <2>6. QED
        BY <2>5 DEF IsSeq
<1>3. s \notin job.stems /\ IsSeq(s) /\ IsFiniteSet(job.stems)
    BY <1>2, FreeIsUnused DEF FolderInv
<1> HIDE DEF s
<1>4. IsFiniteSet(job.stems \union {s})
    BY <1>3, FS_AddElement
<1>5. /\ job'.pc = "wait" /\ job'.kind = job.kind /\ job'.items = job.items /\ job'.stems = job.stems \union {s}
      /\ job'.stem = s /\ job'.written = <<>> /\ job'.outcomes = job.outcomes /\ job'.folder = job.folder
    BY <1>1 DEF JobInv, JobFields
<1>6. OutcomesHold'
    BY <1>5 DEF FolderInv, OutcomesHold
<1>7. job.kind # "images" => OneFileEach'
    <2>1. Reported' = Reported
        BY <1>5 DEF Reported
    <2>2. QED
        BY <1>3, <1>5, <2>1 DEF FolderInv, OneFileEach
<1>8. job.kind = "images" => PagesInTurn'
    <2> SUFFICES ASSUME job.kind = "images" PROVE PagesInTurn'
        OBVIOUS
    <2>1. Len(job.items) = 1 /\ Len(job.outcomes) \in Nat /\ (Len(job.outcomes) = 0 => job.outcomes = <<>>)
        BY AppendedElements DEF FolderInv, PagesInTurn, JobInv
    <2>2. job.outcomes = <<>>
        BY <1>1, <2>1
    <2>3. QED
        BY <1>5, <2>1, <2>2 DEF PagesInTurn
<1>9. QED
    BY <1>3, <1>4, <1>5, <1>6, <1>7, <1>8 DEF FolderInv

\* A result in hand, with nothing written of it yet.
LEMMA FolderPolls == ASSUME JobInv, FolderInv, Poll PROVE FolderInv'
<1>1. job.pc = "wait" /\ job.written = <<>>
    BY DEF Poll, FolderInv
<1>2. CASE Fail
    BY <1>1, <1>2, FolderFails
<1>3. ASSUME ~Fail PROVE FolderInv'
    <2>1. PICK v : job' = [job EXCEPT !.pc = "write", !.doc = v]
        BY <1>3 DEF Poll
    <2>2. /\ job'.pc = "write" /\ job'.kind = job.kind /\ job'.items = job.items /\ job'.stems = job.stems
          /\ job'.stem = job.stem /\ job'.written = <<>> /\ job'.outcomes = job.outcomes /\ job'.folder = job.folder
        BY <1>1, <2>1 DEF JobInv, JobFields
    <2>3. OutcomesHold' /\ Reported' = Reported
        BY <2>2 DEF FolderInv, OutcomesHold, Reported
    <2>4. job.kind # "images" => OneFileEach'
        BY <1>1, <2>2, <2>3 DEF FolderInv, OneFileEach
    <2>5. job.kind = "images" => PagesInTurn'
        <3>1. Len(<<>>) = 0 /\ <<>> = [p \in 1..0 |-> Append(job.stem, p)]
            OBVIOUS
        <3>2. 0 \in 0..Pages - 1
            BY ExportsAssumption
        <3>3. QED
            BY <1>1, <2>2, <3>1, <3>2 DEF FolderInv, PagesInTurn
    <2>6. QED
        BY <1>1, <2>2, <2>3, <2>4, <2>5 DEF FolderInv
<1>4. QED
    BY <1>2, <1>3

\* A file is added to those of its item, over none of the others.
LEMMA FolderWrites == ASSUME JobInv, FolderInv, WriteFile PROVE FolderInv'
<1> DEFINE f == Files[Len(job.written) + 1]
           done == Append(job.written, f)
           fld == [g \in DOMAIN job.folder \union {f} |-> IF g = f THEN <<Asked.doc, job.doc>> ELSE job.folder[g]]
<1>1. /\ job.pc = "write"
      /\ \/ Fail
         \/ job' = [(IF done = Files THEN End(done) ELSE [job EXCEPT !.written = done]) EXCEPT !.folder = fld]
    <2>1. (IF done = Files THEN End(done) ELSE [job EXCEPT !.written = done]).folder = job.folder
        BY DEF End, JobInv, JobFields
    <2>2. QED
        BY <2>1 DEF WriteFile
<1>2. CASE Fail
    BY <1>1, <1>2, FolderFails
<1>3. /\ DOMAIN fld = DOMAIN job.folder \union {f} /\ fld[f] = <<Asked.doc, job.doc>>
      /\ \A x \in DOMAIN job.folder : x # f => fld[x] = job.folder[x]
    OBVIOUS
<1> SUFFICES ASSUME ~Fail PROVE FolderInv'
    BY <1>2
<1>4. CASE job.kind # "images"
    <2>1. Files = <<job.stem>> /\ job.written = <<>>
        BY <1>1, <1>4 DEF Files, FolderInv, OneFileEach
    <2>2. f = job.stem /\ done = <<job.stem>> /\ DOMAIN done = {1} /\ done[1] = job.stem
        BY <2>1
    <2>3. job' = [End(done) EXCEPT !.folder = fld]
        BY <1>1, <2>1, <2>2
    <2>4. DOMAIN job = JobFields /\ job.stem \in job.stems /\ job.stem \notin DOMAIN job.folder
        BY <1>1, <1>4 DEF JobInv, FolderInv, OneFileEach
    <2> HIDE DEF f, done, fld
    <2>5. /\ job'.kind = job.kind /\ job'.items = job.items /\ job'.stems = job.stems /\ job'.folder = fld
          /\ job'.outcomes = Append(job.outcomes, [path |-> done, doc |-> job.doc])
          /\ job'.pc \in {"next", "done"} /\ (job.kind = "batch" => job'.pc = "next")
        BY <2>3, <2>4, EndFields
    <2>6. \A i \in DOMAIN job.outcomes : \A k \in DOMAIN job.outcomes[i].path :
              job'.folder[job.outcomes[i].path[k]] = job.folder[job.outcomes[i].path[k]]
        <3> SUFFICES ASSUME NEW i \in DOMAIN job.outcomes, NEW k \in DOMAIN job.outcomes[i].path
                     PROVE  job'.folder[job.outcomes[i].path[k]] = job.folder[job.outcomes[i].path[k]]
            OBVIOUS
        <3>1. job.outcomes[i].path[k] \in DOMAIN job.folder
            BY DEF FolderInv, OutcomesHold
        <3>2. QED
            BY <1>3, <2>2, <2>4, <2>5, <3>1
    <2>7. /\ \A k \in DOMAIN done : done[k] \in DOMAIN job'.folder /\ job'.folder[done[k]] = <<Asked.doc, job.doc>>
          /\ \A k \in DOMAIN done : done[k] \in job.stems
          /\ DOMAIN job'.folder = DOMAIN job.folder \union {done[k] : k \in DOMAIN done}
        BY <1>3, <2>2, <2>4, <2>5
    <2>8. QED
        BY <1>1, <2>5, <2>6, <2>7, FolderEnds
<1>5. CASE job.kind = "images"
    <2> DEFINE n == Len(job.written)
    <2>1. /\ Files = [p \in 1..Pages |-> Append(job.stem, p)]
          /\ n \in 0..Pages - 1 /\ Pages \in Nat /\ job.outcomes = <<>> /\ Len(job.items) = 1
          /\ job.written = [p \in 1..n |-> Append(job.stem, p)]
          /\ \A p \in 1..n : Append(job.stem, p) \in DOMAIN job.folder /\ job.folder[Append(job.stem, p)] = <<Asked.doc, job.doc>>
        BY <1>1, <1>5, ExportsAssumption DEF Files, FolderInv, PagesInTurn
    <2>2. n \in Nat /\ n + 1 \in 1..Pages /\ f = Append(job.stem, n + 1)
        BY <2>1
    <2>3. job.written \in Seq({job.written[i] : i \in 1..n})
        <3>1. job.written \in [1..n -> {job.written[i] : i \in 1..n}]
            BY <2>1
        <3>2. QED
            BY <2>2, <3>1, SeqDef
    <2>4. done = [p \in 1..n + 1 |-> Append(job.stem, p)] /\ Len(done) = n + 1
        <3> DEFINE S == {job.written[i] : i \in 1..n} \union {f}
        <3>1. job.written \in Seq(S)
            BY <2>3, SeqDef
        <3> HIDE DEF S, f
        <3>2. done \in Seq(S) /\ Len(done) = n + 1 /\ DOMAIN done = 1..n + 1
              /\ done = [p \in 1..n + 1 |-> done[p]]
              /\ done[n + 1] = f /\ \A p \in 1..n : done[p] = job.written[p]
            <4>1. f \in S
                BY DEF S
            <4>2. QED
                BY <3>1, <4>1
        <3>3. \A p \in 1..n + 1 : p \in 1..n \/ p = n + 1
            BY <2>2
        <3>4. \A p \in 1..n + 1 : done[p] = Append(job.stem, p)
            BY <2>1, <2>2, <3>2, <3>3
        <3>5. QED
            BY <3>2, <3>4
    <2> HIDE DEF f, done, fld
    <2>5. \A p \in 1..n + 1 : Append(job.stem, p) \in DOMAIN fld /\ fld[Append(job.stem, p)] = <<Asked.doc, job.doc>>
        <3>1. \A p \in 1..n + 1 : p \in 1..n \/ p = n + 1
            BY <2>2
        <3> HIDE DEF n
        <3>2. QED
            BY <1>3, <2>1, <2>2, <3>1
    <2>6. CASE done = Files
        <3>1. job' = [End(done) EXCEPT !.folder = fld] /\ DOMAIN job = JobFields
            BY <1>1, <2>6 DEF JobInv
        <3>2. /\ job'.kind = job.kind /\ job'.items = job.items /\ job'.stems = job.stems /\ job'.folder = fld
              /\ job'.outcomes = Append(job.outcomes, [path |-> done, doc |-> job.doc])
              /\ job'.pc \in {"next", "done"} /\ (job.kind = "batch" => job'.pc = "next")
            BY <3>1, EndFields
        <3>3. DOMAIN job.outcomes = {}
            <4>1. <<>> \in Seq(Nat) /\ Len(<<>>) = 0
                OBVIOUS
            <4>2. DOMAIN <<>> = {}
                BY <4>1
            <4>3. QED
                BY <2>1, <4>2
        <3>4. \A k \in DOMAIN done : done[k] \in DOMAIN job'.folder /\ job'.folder[done[k]] = <<Asked.doc, job.doc>>
            BY <2>4, <2>5, <3>2
        <3>5. DOMAIN job.folder \subseteq DOMAIN job'.folder
            BY <1>3, <3>2
        <3>6. QED
            BY <1>1, <1>5, <3>2, <3>3, <3>4, <3>5, FolderEnds
    <2>7. CASE done # Files
        <3>1. job' = [[job EXCEPT !.written = done] EXCEPT !.folder = fld] /\ DOMAIN job = JobFields
            BY <1>1, <2>7 DEF JobInv
        <3>2. /\ job'.pc = "write" /\ job'.kind = job.kind /\ job'.items = job.items /\ job'.stems = job.stems
              /\ job'.stem = job.stem /\ job'.written = done /\ job'.outcomes = job.outcomes /\ job'.folder = fld
              /\ job'.doc = job.doc
            BY <1>1, <3>1 DEF JobFields
        <3>3. n + 1 # Pages
            BY <2>1, <2>4, <2>7
        <3>4. n + 1 \in 0..Pages - 1
            BY <2>1, <2>2, <3>3
        <3>5. DOMAIN job'.outcomes = {}
            <4>1. <<>> \in Seq(Nat) /\ Len(<<>>) = 0
                OBVIOUS
            <4>2. DOMAIN <<>> = {}
                BY <4>1
            <4>3. QED
                BY <2>1, <3>2, <4>2
        <3>6. OutcomesHold'
            BY <3>5 DEF OutcomesHold
        <3>7. PagesInTurn'
            BY <2>1, <2>4, <2>5, <3>2, <3>4 DEF PagesInTurn, Asked
        <3>8. QED
            BY <1>1, <1>5, <3>2, <3>6, <3>7 DEF FolderInv
    <2>8. QED
        BY <2>6, <2>7
<1>6. QED
    BY <1>4, <1>5

\* The folder follows the command.
LEMMA FolderStep == ExportsInv /\ FolderInv /\ [ExportsNext]_<<vars, exportVars>> => FolderInv'
<1> SUFFICES ASSUME JobInv, FolderInv, [ExportsNext]_<<vars, exportVars>> PROVE FolderInv'
    BY DEF ExportsInv
<1>1. CASE UNCHANGED job
    BY <1>1 DEF FolderInv, OutcomesHold, OneFileEach, Reported, PagesInTurn, Asked
<1>2. CASE ExportStep
    <2> DEFINE one == <<CHOOSE n \in DOMAIN Stem : TRUE>>
    <2>1. one \in Seq(DOMAIN Stem) /\ Len(one) = 1
        BY ExportsAssumption
    <2>2. ASSUME Answer PROVE FolderInv'
        <3>1. /\ job.pc = "next" /\ Len(job.outcomes) = Len(job.items)
              /\ job'.pc = "done" /\ job'.kind = job.kind /\ job'.items = job.items /\ job'.stems = job.stems
              /\ job'.stem = job.stem /\ job'.outcomes = job.outcomes /\ job'.folder = job.folder
            BY <2>2 DEF Answer, JobInv, JobFields
        <3>2. QED
            BY <3>1 DEF FolderInv, OutcomesHold, OneFileEach, Reported, PagesInTurn
    <2>3. ASSUME TimeOut PROVE FolderInv'
        BY <2>3, FolderFails DEF TimeOut
    <2>4. ASSUME Hear PROVE FolderInv'
        <3>1. job' = [NoJob EXCEPT !.pc = "returned"]
            BY <2>4 DEF Hear
        <3>2. (job = [NoJob EXCEPT !.pc = "returned"] => FolderInv)'
            BY NoJobFolder, PTL
        <3>3. QED
            BY <3>1, <3>2 DEF NoJob
    <2>5. CASE Ask("pdf", one) \/ Ask("images", one) \/ \E ns \in Batches : Ask("batch", ns)
        BY <2>1, <2>5, FolderAsks, ExportsAssumption
    <2>6. QED
        BY <1>2, <2>2, <2>3, <2>4, <2>5, FolderTakes, FolderPolls, FolderWrites DEF ExportStep
<1>3. QED
    BY <1>1, <1>2 DEF ExportsNext, PipelineStep, exportVars

\* export_batch_pdf, export_images, export_pdf: the answer is true of the folder
\* (AnswerIsTrue): a path in it leads to the very document of its item, in the
\* text that was compiled, no item overwrites another's file, and every item of a batch has an outcome,
\* for any names and any number of items and pages.
THEOREM AnswersAreTrue == ExportsSpec => []AnswerIsTrue
<1>1. Init /\ ExportsInit => ExportsInv /\ FolderInv
    BY ExportsInvInit, NoJobFolder DEF ExportsInit
<1>2. FolderInv => AnswerIsTrue
    BY DEF FolderInv, AnswerIsTrue, OutcomesHold, OneFileEach, Reported
<1>3. QED
    BY <1>1, <1>2, ExportsInvKept, FolderStep, PTL DEF ExportsSpec
=============================================================================
