------------------------- MODULE PreviewSync_proofs -------------------------
(***************************************************************************)
(* Proofs about the preview synchronisation, for any set of texts and any  *)
(* bounds: whatever order calls and events are served in, and however many *)
(* events are lost, a revision names one text and the line map the store   *)
(* calls current is that of the current text.                              *)
(***************************************************************************)
EXTENDS PreviewSync, SequenceTheorems, TLAPS

USE SyncAssumption

-----------------------------------------------------------------------------
(* Sequences of events and of page slots.                                   *)

\* An emitted event joins the end of the queue.
LEMMA EventsAppend ==
    ASSUME NEW q \in Seq(Event), NEW e \in Event
    PROVE  /\ Append(q, e) \in Seq(Event)
           /\ \A i \in 1..Len(Append(q, e)) :
                 (i \in 1..Len(q) /\ Append(q, e)[i] = q[i]) \/ Append(q, e)[i] = e
    OBVIOUS

\* Delivering the first event moves every other one place forward.
LEMMA EventsTail ==
    ASSUME events \in Seq(Event), events # <<>>
    PROVE  /\ Tail(events) \in Seq(Event)
           /\ Head(events) \in Event
           /\ Head(events) = events[1]
           /\ 1 \in 1..Len(events)
           /\ \A i \in 1..Len(Tail(events)) :
                 i + 1 \in 1..Len(events) /\ Tail(events)[i] = events[i + 1]
    OBVIOUS

\* An array of page slots is a sequence of its length.
LEMMA FunctionIsSeq ==
    ASSUME NEW S, NEW n \in Nat, NEW f \in [1..n -> S]
    PROVE  f \in Seq(S) /\ Len(f) = n
<1>1. f \in Seq(S)
    BY SeqDef
<1>2. Len(f) \in Nat /\ DOMAIN f = 1..Len(f)
    BY <1>1, LenProperties
<1>3. 1..n = 1..Len(f)
    BY <1>2
<1>4. QED
    BY <1>1, <1>2, <1>3

\* setPages keeps the array at the event's page count, whatever it held.
LEMMA MergeLen ==
    ASSUME NEW e \in Event, e.kind = "compiled", front \in Document
    PROVE  Merge(e) \in Seq(Pages \union {Hole}) /\ Len(Merge(e)) = Len(e.pages)
<1> DEFINE n == Len(e.pages)
<1>1. e.pages \in Seq(Pages \union {None}) /\ front.pages \in Seq(Pages \union {Hole})
    BY DEF Event, Document
<1>2. n \in Nat /\ \A i \in 1..n : e.pages[i] \in Pages \union {None}
    BY <1>1
<1>3. \A i \in 1..n : Merge(e)[i] \in Pages \union {Hole}
    BY <1>1, <1>2 DEF Merge
<1>4. Merge(e) = [i \in 1..n |-> Merge(e)[i]]
    BY DEF Merge
<1>5. Merge(e) \in [1..n -> Pages \union {Hole}]
    BY <1>3, <1>4
<1>6. QED
    BY <1>2, <1>5, FunctionIsSeq

-----------------------------------------------------------------------------
(* Type correctness.                                                        *)

\* The events that the core emits have the type of the queue.
LEMMA Shapes ==
    /\ \A r \in 0..MaxRev, s \in Statuses : Status(r, s) \in Event
    /\ \A r \in 0..MaxRev, f \in BOOLEAN, t \in Texts, p \in Seq(Pages \union {None}) :
          Compiled(r, f, p, t) \in Event
    /\ \A v \in Versioned : Opened(v) \in Document
    /\ front \in Document => Snapshot \in Versioned
<1>1. \A r \in 0..MaxRev, s \in Statuses : Status(r, s) \in Event
    BY DEF Status, Event
<1>2. \A r \in 0..MaxRev, f \in BOOLEAN, t \in Texts, p \in Seq(Pages \union {None}) :
          Compiled(r, f, p, t) \in Event
    BY DEF Compiled, Event
<1>3. ASSUME NEW v \in Versioned PROVE Opened(v) \in Document
    <2>1. <<>> \in Seq(Pages \union {Hole}) /\ "idle" \in Statuses
        BY DEF Statuses
    <2>2. v.text \in Texts /\ v.rev \in 0..MaxRev /\ v.rev - 1 \in -1..MaxRev
        BY DEF Versioned
    <2>3. QED
        BY <2>1, <2>2 DEF Opened, Document
<1>4. front \in Document => Snapshot \in Versioned
    BY DEF Document, Snapshot, Versioned
<1>5. QED
    BY <1>1, <1>2, <1>3, <1>4

\* A text compiles to a full array of pages.
LEMMA TextIsPages == Texts \subseteq Seq(Pages \union {None})
    BY SeqMonotonic

\* The payload has a slot for every page.
LEMMA PayloadShape ==
    ASSUME job # None, job.rev \in 0..MaxRev, NEW t \in Texts, cache \in Texts \union {<<>>}
    PROVE  /\ Payload(t) \in Event
           /\ Payload(t).kind = "compiled"
           /\ Payload(t).rev = job.rev
           /\ Payload(t).map = t
           /\ Len(Payload(t).pages) = Len(t)
<1> DEFINE n == Len(t)
           slot == [i \in 1..n |-> IF Len(cache) = Len(t) /\ cache[i] = t[i]
                                   THEN None ELSE t[i]]
<1>1. n \in Nat /\ \A i \in 1..n : t[i] \in Pages
    BY SyncAssumption
<1>2. slot \in [1..n -> Pages \union {None}]
    BY <1>1
<1>3. slot \in Seq(Pages \union {None}) /\ Len(slot) = n
    <2> HIDE DEF slot
    <2> QED
        BY <1>1, <1>2, FunctionIsSeq
<1>4. Payload(t) = Compiled(job.rev, Len(cache) # Len(t), slot, t)
    BY DEF Payload
<1> DEFINE f == Len(cache) # Len(t)
<1>5. f \in BOOLEAN
    OBVIOUS
<1>6. Payload(t) = Compiled(job.rev, f, slot, t)
    BY <1>4
<1> HIDE DEF slot, f
<1>7. Compiled(job.rev, f, slot, t) \in Event
    BY <1>3, <1>5, Shapes
<1>8. QED
    BY <1>3, <1>6, <1>7 DEF Compiled

\* Core, queue and store start out typed.
LEMMA TypeInit == Init => TypeOK
<1> SUFFICES ASSUME Init PROVE TypeOK
    OBVIOUS
<1>1. [text |-> FirstText, rev |-> 0] \in Versioned
    BY DEF Versioned
<1>2. front \in Document /\ reply \in Versioned /\ back \in Versioned
    BY <1>1, Shapes DEF Init
<1>3. /\ pending = None /\ calls = {} /\ job = None /\ cache = <<>> /\ lastDoc = None
      /\ lost = 0 /\ reloads = 0 /\ open = FALSE /\ req = TRUE
    BY DEF Init
<1>4. events \in Seq(Event)
    BY EmptySeq DEF Init
<1>5. open \in BOOLEAN /\ req \in BOOLEAN
    BY <1>3, Zenon
<1>8. lost \in 0..MaxLost /\ reloads \in 0..MaxReload
    <2>1. 0 \in 0..MaxLost /\ 0 \in 0..MaxReload
        BY SyncAssumption
    <2>2. QED
        BY <1>3, <2>1, Zenon
<1>6. cache \in Texts \union {<<>>}
    BY <1>3, Zenon
<1>7. calls \subseteq Versioned
    BY <1>3
<1>9. QED
    BY <1>2, <1>3, <1>4, <1>5, <1>6, <1>7, <1>8, Zenon DEF TypeOK

\* An event leaves the store typed, whether it applies or not.
LEMMA ApplyType ==
    ASSUME front \in Document, NEW e \in Event
    PROVE  Apply(e) \in Document
<1>1. CASE e.kind = "status"
    BY <1>1 DEF Apply, Event, Document
<1>2. CASE e.kind = "compiled"
    <2>1. Merge(e) \in Seq(Pages \union {Hole})
        BY <1>2, MergeLen
    <2>2. e.map \in Texts /\ e.rev \in 0..MaxRev /\ e.rev \in -1..MaxRev
        BY <1>2 DEF Event
    <2>3. QED
        BY <1>2, <2>1, <2>2 DEF Apply, Document
<1>3. QED
    BY <1>1, <1>2 DEF Event

\* No action stores anything out of type.
LEMMA TypeStep == TypeOK /\ [Next]_vars => TypeOK'
<1> SUFFICES ASSUME TypeOK, [Next]_vars PROVE TypeOK'
    OBVIOUS
<1> USE DEF TypeOK, feVars, beVars
<1>1. CASE OpenPath
    BY <1>1, Shapes DEF OpenPath
<1>2. ASSUME NEW t \in Texts, Type(t) PROVE TypeOK'
    <2>1. front.rev + 1 \in 0..MaxRev /\ "idle" \in Statuses
        BY <1>2 DEF Type, Document, Statuses
    <2>2. [text |-> t, rev |-> front.rev + 1] \in Versioned
        BY <2>1 DEF Versioned
    <2>3. [front EXCEPT !.text = t, !.rev = @ + 1, !.status = "idle"] \in Document
        BY <2>1 DEF Document
    <2>4. front' \in Document /\ pending' \in Versioned
        BY <1>2, <2>2, <2>3 DEF Type
    <2>5. QED
        BY <1>2, <2>4 DEF Type
<1>3. CASE Flush
    BY <1>3 DEF Flush
<1>4. CASE Reconcile
    BY <1>4, Shapes DEF Reconcile
<1>5. CASE Refresh
    BY <1>5, Shapes DEF Refresh
<1>6. CASE Reload
    <2>1. reloads' \in 0..MaxReload
        BY <1>6 DEF Reload
    <2>2. QED
        BY <1>6, <2>1 DEF Reload
<1>7. CASE Receive
    BY <1>7, EventsTail, ApplyType DEF Receive
<1>8. CASE Lose
    BY <1>8, EventsTail DEF Lose
<1>9. ASSUME NEW c \in calls, Deliver(c) PROVE TypeOK'
    BY <1>9 DEF Deliver
<1>10. CASE Start
    <2>1. Status(back.rev, "compiling") \in Event
        BY Shapes DEF Versioned, Statuses
    <2>2. events' \in Seq(Event)
        BY <1>10, <2>1, EventsAppend DEF Start
    <2>3. job' \in [rev : 0..MaxRev, text : Texts, read : Texts \union {None}]
        BY <1>10 DEF Start, Versioned
    <2>4. QED
        BY <1>10, <2>2, <2>3 DEF Start
<1>11. CASE Read
    <2>1. job' \in [rev : 0..MaxRev, text : Texts, read : Texts \union {None}]
        BY <1>11 DEF Read, Versioned
    <2>2. QED
        BY <1>11, <2>1 DEF Read
<1>12. CASE FinishOk
    <2>1. job.rev \in 0..MaxRev /\ job.read \in Texts \ Broken /\ job # None
        BY <1>12 DEF FinishOk
    <2>2. Status(job.rev, "success") \in Event /\ Payload(job.read) \in Event
        BY <2>1, Shapes, PayloadShape DEF Statuses
    <2>3. /\ Append(events, Status(job.rev, "success")) \in Seq(Event)
          /\ Append(events, Payload(job.read)) \in Seq(Event)
        BY <2>2, EventsAppend
    <2>4. Append(Append(events, Payload(job.read)), Status(job.rev, "success")) \in Seq(Event)
        BY <2>2, <2>3, EventsAppend
    <2>5. events' \in Seq(Event) /\ cache' \in Texts \union {<<>>}
        BY <1>12, <2>1, <2>3, <2>4 DEF FinishOk
    <2>6. lastDoc' \in [rev : 0..MaxRev, text : Texts \ Broken]
        BY <1>12, <2>1 DEF FinishOk
    <2>7. QED
        BY <1>12, <2>5, <2>6 DEF FinishOk
<1>13. CASE FinishError
    <2>1. Status(job.rev, "error") \in Event
        BY <1>13, Shapes DEF FinishError, Statuses
    <2>2. QED
        BY <1>13, <2>1, EventsAppend DEF FinishError
<1>14. CASE Reopen
    <2>1. lastDoc # None => Compiled(lastDoc.rev, TRUE, lastDoc.text, lastDoc.text) \in Event
        BY Shapes, TextIsPages
    <2>2. events' \in Seq(Event)
        BY <1>14, <2>1, EventsAppend DEF Reopen
    <2>3. QED
        BY <1>14, <2>2 DEF Reopen
<1>15. CASE UNCHANGED vars
    BY <1>15 DEF vars
<1>16. QED
    BY <1>1, <1>2, <1>3, <1>4, <1>5, <1>6, <1>7, <1>8, <1>9, <1>10, <1>11, <1>12, <1>13, <1>14,
       <1>15 DEF Next, Worker


-----------------------------------------------------------------------------
(* A revision names one text.  Held(v): somebody holds the snapshot v.      *)

Held(v) ==
    \/ v = back
    \/ v \in calls
    \/ pending # None /\ v = pending
    \/ reply # None /\ v = reply
    \/ open /\ v = Snapshot

OneText ==
    \A v, w \in Versioned : Held(v) /\ Held(w) /\ v.rev = w.rev => v.text = w.text

\* An open document is at the newest revision anybody holds; of one that is
\* not open only the core, and perhaps its reply, hold a snapshot.
InHand ==
    /\ open => reply = None /\ \A v \in Versioned : Held(v) => v.rev <= front.rev
    /\ ~open => calls = {} /\ pending = None /\ (reply # None => reply = back)

\* Opening shows the text and revision that the core holds.
LEMMA OpenedSnapshot ==
    ASSUME NEW v \in Versioned PROVE [text |-> Opened(v).text, rev |-> Opened(v).rev] = v
    BY DEF Opened, Versioned

\* At the start both sides hold the text of revision 0.
LEMMA HandInit == Init => OneText /\ InHand
<1> SUFFICES ASSUME Init PROVE OneText /\ InHand
    OBVIOUS
<1>1. calls = {} /\ pending = None /\ reply = back /\ open = FALSE
    BY DEF Init
<1>2. QED
    BY <1>1 DEF OneText, InHand, Held

\* A step that lets nobody hold a snapshot that was not held before.
LEMMA HeldShrinks ==
    ASSUME OneText, \A v \in Versioned : Held(v)' => Held(v)
    PROVE  OneText'
    BY DEF OneText

\* Every text under way, in a call, a debounce or a reply, is that of its revision.
LEMMA HandStep ==
    ASSUME TypeOK, OneText, InHand, [Next]_vars
    PROVE  OneText' /\ InHand'
<1> USE DEF feVars, beVars
<1> front \in Document /\ back \in Versioned /\ Snapshot \in Versioned
    BY Shapes DEF TypeOK
<1>1. CASE OpenPath
    <2>1. reply \in Versioned /\ reply = back /\ calls = {} /\ pending = None /\ ~open
        <3>1. ~open
            BY <1>1 DEF OpenPath, InHand
        <3>2. QED
            BY <1>1, <3>1 DEF OpenPath, InHand, TypeOK
    <2>2. Snapshot' = back
        BY <1>1, <2>1, OpenedSnapshot DEF OpenPath, Snapshot
    <2>3. \A v \in Versioned : Held(v)' => v = back
        BY <1>1, <2>1, <2>2 DEF OpenPath, Held
    <2>4. front'.rev = back.rev /\ open' /\ reply' = None
        BY <1>1, <2>1 DEF OpenPath, Opened
    <2>5. back.rev <= back.rev
        BY DEF Versioned
    <2>6. QED
        BY <2>3, <2>4, <2>5 DEF OneText, InHand
<1>2. ASSUME NEW t \in Texts, Type(t) PROVE OneText' /\ InHand'
    <2> DEFINE n == [text |-> t, rev |-> front.rev + 1]
    <2>1. /\ open /\ open' /\ reply = None /\ reply' = None
          /\ pending' = n /\ calls' = calls /\ back' = back
          /\ front' = [front EXCEPT !.text = t, !.rev = @ + 1, !.status = "idle"]
        BY <1>2 DEF Type, InHand
    <2>2. front'.text = t /\ front'.rev = front.rev + 1
        BY <2>1 DEF Document
    <2>3. Snapshot' = n
        BY <2>2 DEF Snapshot
    <2>4. \A v \in Versioned : Held(v)' => v = n \/ Held(v)
        BY <2>1, <2>3 DEF Held
    <2>5. \A v \in Versioned : Held(v) => v.rev <= front.rev
        BY <2>1 DEF InHand
    <2>6. \A v \in Versioned : v.rev \in Int
        BY DEF Versioned
    <2>7. front.rev \in Int /\ n.rev = front.rev + 1
        BY DEF Document
    <2> HIDE DEF n
    <2>8. \A v \in Versioned : Held(v) => v.rev < n.rev
        BY <2>5, <2>6, <2>7
    <2>9. OneText'
        BY <2>4, <2>6, <2>7, <2>8 DEF OneText
    <2>10. \A v \in Versioned : Held(v)' => v.rev <= front'.rev
        BY <2>2, <2>4, <2>6, <2>7, <2>8
    <2>11. QED
        BY <2>1, <2>9, <2>10 DEF InHand
<1>3. CASE Flush
    <2>1. \A v \in Versioned : Held(v)' => Held(v)
        BY <1>3 DEF Flush, Held, Snapshot
    <2>2. open
        BY <1>3 DEF Flush, InHand
    <2>3. QED
        BY <1>3, <2>1, <2>2, HeldShrinks DEF Flush, InHand
<1>4. CASE Reconcile \/ Refresh
    <2>1. open /\ open' = open /\ front' = front /\ reply' = reply
        BY <1>4 DEF Reconcile, Refresh
    <2>2. \A v \in Versioned : Held(v)' => Held(v)
        BY <1>4 DEF Reconcile, Refresh, Held, Snapshot
    <2>3. QED
        BY <2>1, <2>2, HeldShrinks DEF InHand
<1>5. CASE Reload
    <2>1. \A v \in Versioned : Held(v)' => Held(v)
        BY <1>5 DEF Reload, Held, InHand
    <2>2. QED
        BY <1>5, <2>1, HeldShrinks DEF Reload, InHand
<1>6. CASE Receive
    <2>1. Head(events) \in Event
        BY <1>6, EventsTail DEF Receive, TypeOK
    <2>2. front'.text = front.text /\ front'.rev = front.rev
        BY <1>6 DEF Receive, Apply, Document
    <2>3. \A v \in Versioned : Held(v)' => Held(v)
        BY <1>6, <2>2 DEF Receive, Held, Snapshot
    <2>4. QED
        BY <1>6, <2>2, <2>3, HeldShrinks DEF Receive, InHand
<1>7. ASSUME NEW c \in calls, Deliver(c) PROVE OneText' /\ InHand'
    <2>1. open
        BY DEF InHand
    <2>2. \A v \in Versioned : Held(v)' => Held(v)
        BY <1>7 DEF Deliver, Held, Snapshot
    <2>3. QED
        BY <1>7, <2>1, <2>2, HeldShrinks DEF Deliver, InHand
<1>8. CASE Lose \/ Worker \/ UNCHANGED vars
    <2>1. UNCHANGED <<open, front, reply, pending, calls, back>>
        BY <1>8 DEF Lose, Worker, Start, Read, FinishOk, FinishError, vars
    <2>2. \A v \in Versioned : Held(v)' => Held(v)
        BY <2>1 DEF Held, Snapshot
    <2>3. QED
        BY <2>1, <2>2, HeldShrinks DEF InHand
<1>9. CASE Reopen
    <2>1. \A v \in Versioned : Held(v)' => Held(v)
        BY <1>9 DEF Reopen, Held
    <2>2. QED
        BY <1>9, <2>1, HeldShrinks DEF Reopen, InHand
<1>10. QED
    BY <1>1, <1>2, <1>3, <1>4, <1>5, <1>6, <1>7, <1>8, <1>9 DEF Next

\* The core's buffer only changes together with its revision, which grows.
LEMMA BackMoves ==
    ASSUME TypeOK, OneText, InHand, [Next]_vars
    PROVE  back' = back \/ back'.rev > back.rev
<1> USE DEF feVars, beVars
<1>1. ASSUME NEW c \in calls, Deliver(c) PROVE back' = back \/ back'.rev > back.rev
    <2>1. c \in Versioned /\ back \in Versioned /\ Held(c) /\ Held(back)
        BY DEF TypeOK, Held
    <2>2. c.rev = back.rev => c = back
        BY <2>1 DEF OneText, Versioned
    <2>3. c.rev \in Int /\ back.rev \in Int
        BY <2>1 DEF Versioned
    <2>4. QED
        BY <1>1, <2>2, <2>3 DEF Deliver
<1>2. CASE ~\E c \in calls : Deliver(c)
    BY <1>2 DEF Next, OpenPath, Type, Flush, Reconcile, Refresh, Reload, Receive, Lose, Worker,
                Start, Read, FinishOk, FinishError, Reopen, vars
<1>3. QED
    BY <1>1, <1>2

-----------------------------------------------------------------------------
(* What is compiled and reported under the core's revision is its text.     *)

JobCurrent ==
    job # None =>
        /\ job.rev <= back.rev
        /\ job.rev = back.rev =>
              job.text = back.text /\ (job.read # None => job.read = back.text)

LastDocCurrent ==
    lastDoc # None =>
        lastDoc.rev <= back.rev /\ (lastDoc.rev = back.rev => lastDoc.text = back.text)

EventCurrent(e) ==
    /\ e.rev <= back.rev
    /\ e.kind = "compiled" =>
          Len(e.pages) = Len(e.map) /\ (e.rev = back.rev => e.map = back.text)

EventsCurrent == \A i \in 1..Len(events) : EventCurrent(events[i])

\* A running compile's revision names the text it read.
LEMMA JobStep ==
    ASSUME TypeOK, OneText, InHand, JobCurrent, [Next]_vars
    PROVE  JobCurrent'
<1> USE DEF feVars, beVars
<1> back \in Versioned /\ back' \in Versioned
    BY TypeStep DEF TypeOK
<1>1. CASE Start
    BY <1>1 DEF Start, JobCurrent, Versioned
<1>2. CASE Read
    BY <1>2 DEF Read, JobCurrent, TypeOK
<1>3. CASE FinishOk \/ FinishError
    BY <1>3 DEF FinishOk, FinishError, JobCurrent
<1>4. CASE job' = job
    <2>1. job # None => job.rev \in 0..MaxRev
        BY DEF TypeOK
    <2>2. back.rev \in Int /\ back'.rev \in Int
        BY DEF Versioned
    <2>3. CASE back' = back
        BY <1>4, <2>3 DEF JobCurrent
    <2>4. CASE back'.rev > back.rev
        BY <1>4, <2>1, <2>2, <2>4 DEF JobCurrent
    <2>5. QED
        BY <2>3, <2>4, BackMoves
<1>5. QED
    BY <1>1, <1>2, <1>3, <1>4 DEF Next, Worker, OpenPath, Type, Flush, Reconcile, Refresh,
        Reload, Receive, Lose, Deliver, Reopen, vars

\* So does the cached document's.
LEMMA LastDocStep ==
    ASSUME TypeOK, OneText, InHand, JobCurrent, LastDocCurrent, [Next]_vars
    PROVE  LastDocCurrent'
<1> USE DEF feVars, beVars
<1> back \in Versioned /\ back' \in Versioned
    BY TypeStep DEF TypeOK
<1>1. CASE FinishOk
    BY <1>1 DEF FinishOk, JobCurrent, LastDocCurrent
<1>2. CASE FinishError
    BY <1>2 DEF FinishError, LastDocCurrent
<1>3. CASE lastDoc' = lastDoc
    <2>1. lastDoc # None => lastDoc.rev \in 0..MaxRev
        BY DEF TypeOK
    <2>2. back.rev \in Int /\ back'.rev \in Int
        BY DEF Versioned
    <2>3. CASE back' = back
        BY <1>3, <2>3 DEF LastDocCurrent
    <2>4. CASE back'.rev > back.rev
        BY <1>3, <2>1, <2>2, <2>4 DEF LastDocCurrent
    <2>5. QED
        BY <2>3, <2>4, BackMoves
<1>4. QED
    BY <1>1, <1>2, <1>3 DEF Next, Worker, Start, Read, OpenPath, Type, Flush, Reconcile, Refresh,
        Reload, Receive, Lose, Deliver, Reopen, vars

\* An event stays current when the core's buffer moves on.
LEMMA EventKept ==
    ASSUME TypeOK, OneText, InHand, [Next]_vars, NEW e \in Event, EventCurrent(e)
    PROVE  e.rev <= back'.rev /\ (e.kind = "compiled" =>
               Len(e.pages) = Len(e.map) /\ (e.rev = back'.rev => e.map = back'.text))
<1>1. e.rev \in Int
    BY DEF Event
<1>2. back.rev \in Int /\ back'.rev \in Int
    BY TypeStep DEF TypeOK, Versioned
<1>3. CASE back' = back
    BY <1>3 DEF EventCurrent
<1>4. CASE back'.rev > back.rev
    BY <1>1, <1>2, <1>4 DEF EventCurrent
<1>5. QED
    BY <1>3, <1>4, BackMoves

\* A queue of events with the right map stays one.
LEMMA AppendCurrent ==
    ASSUME NEW q \in Seq(Event), \A i \in 1..Len(q) : EventCurrent(q[i]),
           NEW e \in Event, EventCurrent(e)
    PROVE  \A i \in 1..Len(Append(q, e)) : EventCurrent(Append(q, e)[i])
    BY EventsAppend

\* Every emitted map is that of the text its revision names.
LEMMA EventsStep ==
    ASSUME TypeOK, OneText, InHand, JobCurrent, LastDocCurrent, EventsCurrent, [Next]_vars
    PROVE  EventsCurrent'
<1> USE DEF feVars, beVars
<1> back \in Versioned /\ events \in Seq(Event)
    BY DEF TypeOK
<1>1. CASE events' = events
    <2>1. \A i \in 1..Len(events) : events[i] \in Event /\ EventCurrent(events[i])
        BY DEF EventsCurrent
    <2>2. QED
        BY <1>1, <2>1, EventKept DEF EventsCurrent, EventCurrent
<1>2. CASE Receive \/ Lose
    <2>1. events' = Tail(events) /\ back' = back /\ events # <<>>
        BY <1>2 DEF Receive, Lose
    <2>2. \A i \in 1..Len(Tail(events)) : EventCurrent(Tail(events)[i])
        BY <2>1, EventsTail DEF EventsCurrent
    <2>3. QED
        BY <2>1, <2>2 DEF EventsCurrent, EventCurrent
<1>3. CASE Start
    <2> DEFINE e == Status(back.rev, "compiling")
    <2>1. e \in Event
        BY Shapes DEF Versioned, Statuses
    <2>2. EventCurrent(e)
        BY DEF Status, EventCurrent, Versioned
    <2>3. events' = Append(events, e) /\ back' = back
        BY <1>3 DEF Start
    <2> HIDE DEF e
    <2>4. QED
        BY <2>1, <2>2, <2>3, AppendCurrent DEF EventsCurrent, EventCurrent
<1>4. CASE FinishOk
    <2> DEFINE p == Payload(job.read)
               e == Status(job.rev, "success")
    <2>1. job.rev \in 0..MaxRev /\ job.read \in Texts /\ job # None
        BY <1>4 DEF FinishOk, TypeOK
    <2>2. /\ p \in Event /\ p.kind = "compiled" /\ p.rev = job.rev /\ p.map = job.read
          /\ Len(p.pages) = Len(job.read)
        BY <2>1, PayloadShape DEF TypeOK
    <2>3. e \in Event /\ e.kind = "status" /\ e.rev = job.rev
        BY <2>1, Shapes DEF Statuses, Status
    <2>4. back' = back /\ (events' = Append(events, e) \/ events' = Append(Append(events, p), e))
        BY <1>4 DEF FinishOk
    <2>5. /\ job.rev <= back.rev /\ (job.rev = back.rev => job.read = back.text)
        BY <1>4, <2>1 DEF FinishOk, JobCurrent
    <2> HIDE DEF p, e
    <2>6. EventCurrent(p) /\ EventCurrent(e)
        BY <2>2, <2>3, <2>5 DEF EventCurrent
    <2>7. /\ Append(events, p) \in Seq(Event)
          /\ \A i \in 1..Len(Append(events, p)) : EventCurrent(Append(events, p)[i])
        BY <2>2, <2>6, EventsAppend, AppendCurrent DEF EventsCurrent
    <2>8. \A i \in 1..Len(events') : EventCurrent(events'[i])
        <3> DEFINE q == Append(events, p)
        <3> HIDE DEF q
        <3>1. CASE events' = Append(events, e)
            BY <3>1, <2>3, <2>6, AppendCurrent DEF EventsCurrent
        <3>2. CASE events' = Append(q, e)
            BY <3>2, <2>3, <2>6, <2>7, AppendCurrent DEF q
        <3>3. QED
            BY <2>4, <3>1, <3>2 DEF q
    <2>9. QED
        BY <2>4, <2>8 DEF EventsCurrent, EventCurrent
<1>5. CASE FinishError
    <2> DEFINE e == Status(job.rev, "error")
    <2>1. job.rev \in 0..MaxRev /\ job # None
        BY <1>5 DEF FinishError, TypeOK
    <2>2. e \in Event /\ e.kind = "status" /\ e.rev = job.rev
        BY <2>1, Shapes DEF Statuses, Status
    <2>3. events' = Append(events, e) /\ back' = back
        BY <1>5 DEF FinishError
    <2> HIDE DEF e
    <2>4. EventCurrent(e)
        BY <2>1, <2>2 DEF JobCurrent, EventCurrent
    <2>5. QED
        BY <2>2, <2>3, <2>4, AppendCurrent DEF EventsCurrent, EventCurrent
<1>6. CASE Reopen
    <2> DEFINE e == Compiled(lastDoc.rev, TRUE, lastDoc.text, lastDoc.text)
    <2>1. CASE lastDoc # None
        <3>1. e \in Event
            BY <2>1, Shapes, TextIsPages DEF TypeOK
        <3>2. EventCurrent(e)
            BY <2>1 DEF Compiled, EventCurrent, LastDocCurrent
        <3>3. events' = Append(events, e) /\ back' = back
            BY <1>6, <2>1 DEF Reopen
        <3> HIDE DEF e
        <3>4. QED
            BY <3>1, <3>2, <3>3, AppendCurrent DEF EventsCurrent, EventCurrent
    <2>2. CASE lastDoc = None
        BY <1>1, <1>6, <2>2 DEF Reopen
    <2>3. QED
        BY <2>1, <2>2
<1>7. QED
    BY <1>1, <1>2, <1>3, <1>4, <1>5, <1>6 DEF Next, Worker, Read, OpenPath, Type, Flush,
        Reconcile, Refresh, Reload, Deliver, vars

-----------------------------------------------------------------------------
(* What the store shows, and the invariant.                                 *)

FrontCurrent ==
    open =>
        /\ front.compiled <= front.rev
        /\ front.compiled = front.rev =>
              front.map = front.text /\ Len(front.pages) = Len(front.text)

\* An event that passes the revision guard is of the current revision, at which
\* the webview and the core hold one text.
LEMMA FrontStep ==
    ASSUME TypeOK, OneText, InHand, EventsCurrent, FrontCurrent, [Next]_vars
    PROVE  FrontCurrent'
<1> USE DEF feVars, beVars
<1> front \in Document /\ back \in Versioned /\ Snapshot \in Versioned
    BY Shapes DEF TypeOK
<1>1. CASE OpenPath
    <2>1. reply \in Versioned
        BY <1>1 DEF OpenPath, TypeOK
    <2>2. front'.compiled = front'.rev - 1 /\ front'.rev \in Int
        BY <1>1, <2>1 DEF OpenPath, Opened, Versioned
    <2>3. QED
        BY <2>2 DEF FrontCurrent
<1>2. ASSUME NEW t \in Texts, Type(t) PROVE FrontCurrent'
    <2>1. front'.rev = front.rev + 1 /\ front'.compiled = front.compiled /\ open
        BY <1>2 DEF Type, Document
    <2>2. front.rev \in Int /\ front.compiled \in Int
        BY DEF Document
    <2>3. QED
        BY <2>1, <2>2 DEF FrontCurrent
<1>3. CASE Receive
    <2> DEFINE e == Head(events)
    <2>1. e \in Event /\ EventCurrent(e)
        BY <1>3, EventsTail DEF Receive, TypeOK, EventsCurrent
    <2>2. open' = open /\ front' = IF open THEN Apply(e) ELSE front
        BY <1>3 DEF Receive
    <2> HIDE DEF e
    <2>3. CASE open /\ e.kind = "compiled" /\ ~(e.rev < front.rev)
        <3>1. back.rev <= front.rev
            BY <2>3 DEF InHand, Held
        <3>2. e.rev = front.rev /\ back.rev = front.rev
            BY <2>1, <2>3, <3>1 DEF EventCurrent, Event, Document, Versioned
        <3>3. back.text = front.text
            <4>1. Held(back) /\ Held(Snapshot) /\ Snapshot.rev = back.rev
                BY <2>3, <3>2 DEF Held, Snapshot
            <4>2. back.text = Snapshot.text
                BY <4>1 DEF OneText
            <4>3. QED
                BY <4>2 DEF Snapshot
        <3>4. e.map = front.text /\ Len(e.pages) = Len(front.text)
            BY <2>1, <2>3, <3>2, <3>3 DEF EventCurrent
        <3>5. front' = [front EXCEPT !.pages = Merge(e), !.map = e.map, !.compiled = e.rev]
            BY <2>2, <2>3 DEF Apply
        <3>6. Len(Merge(e)) = Len(e.pages)
            BY <2>1, <2>3, MergeLen
        <3>7. /\ front'.compiled = e.rev /\ front'.rev = front.rev /\ front'.map = e.map
              /\ front'.text = front.text /\ front'.pages = Merge(e)
            BY <3>5 DEF Document
        <3>8. front.rev <= front.rev
            BY DEF Document
        <3>9. QED
            BY <3>2, <3>4, <3>6, <3>7, <3>8 DEF FrontCurrent
    <2>4. CASE ~(open /\ e.kind = "compiled" /\ ~(e.rev < front.rev))
        <3>1. /\ front'.compiled = front.compiled /\ front'.rev = front.rev
              /\ front'.map = front.map /\ front'.text = front.text
              /\ front'.pages = front.pages
            BY <2>1, <2>2, <2>4 DEF Apply, Event, Document
        <3>2. QED
            BY <2>2, <3>1 DEF FrontCurrent
    <2>5. QED
        BY <2>3, <2>4
<1>4. CASE Reload
    BY <1>4 DEF Reload, FrontCurrent
<1>5. CASE UNCHANGED <<open, front>>
    BY <1>5 DEF FrontCurrent
<1>6. QED
    BY <1>1, <1>2, <1>3, <1>4, <1>5 DEF Next, Worker, Start, Read, FinishOk, FinishError,
        Flush, Reconcile, Refresh, Lose, Deliver, Reopen, vars

\* The inductive invariant.
IInv ==
    /\ TypeOK
    /\ OneText /\ InHand
    /\ JobCurrent /\ LastDocCurrent /\ EventsCurrent
    /\ FrontCurrent

\* IInv holds in every reachable state: with the type, one text per revision
\* among all holders, and what is compiled, cached, reported or shown under a
\* revision being that revision's text.
THEOREM IInvHolds == Spec => []IInv
<1>1. Init => IInv
    <2> SUFFICES ASSUME Init PROVE IInv
        OBVIOUS
    <2>1. job = None /\ lastDoc = None /\ events = <<>> /\ open = FALSE
        BY DEF Init
    <2>2. JobCurrent /\ LastDocCurrent /\ EventsCurrent /\ FrontCurrent
        BY <2>1 DEF JobCurrent, LastDocCurrent, EventsCurrent, FrontCurrent
    <2>3. QED
        BY <2>2, TypeInit, HandInit DEF IInv
<1>2. IInv /\ [Next]_vars => IInv'
    BY TypeStep, HandStep, JobStep, LastDocStep, EventsStep, FrontStep, Zenon DEF IInv
<1>3. QED
    BY <1>1, <1>2, PTL DEF Spec

-----------------------------------------------------------------------------

\* Every variable of the webview and the core keeps its type, the page cache
\* and the event queue included.
THEOREM TypeCorrect == Spec => []TypeOK
<1>1. IInv => TypeOK
    BY DEF IInv
<1>2. QED
    BY <1>1, IInvHolds, PTL

\* At equal revisions the webview and the core hold the same buffer, in
\* whatever order update_text calls are served.
THEOREM OneTextPerRevision == Spec => []RevisionNamesText
<1>1. IInv => RevisionNamesText
    <2> SUFFICES ASSUME IInv, open, back.rev = front.rev PROVE back.text = front.text
        BY DEF RevisionNamesText
    <2>1. back \in Versioned /\ Snapshot \in Versioned /\ Held(back) /\ Held(Snapshot)
        BY Shapes DEF IInv, TypeOK, Held
    <2>2. QED
        BY <2>1 DEF IInv, OneText, Snapshot
<1>2. QED
    BY <1>1, IInvHolds, PTL

\* When the store says the preview reflects the current revision, the line map
\* and the page count are those of the current text.
THEOREM MapIsCurrent == Spec => []MapFaithful
<1>1. IInv => MapFaithful
    BY DEF IInv, FrontCurrent, MapFaithful, CaughtUp
<1>2. QED
    BY <1>1, IInvHolds, PTL

\* The core never holds, compiles, caches or reports a revision the webview has
\* not given out.
THEOREM RevisionsInOrder == Spec => []RevisionsOrdered
<1>1. IInv => RevisionsOrdered
    <2> SUFFICES ASSUME IInv PROVE RevisionsOrdered
        OBVIOUS
    <2>1. open => back.rev <= front.rev /\ front.compiled <= front.rev
        BY DEF IInv, InHand, Held, TypeOK, FrontCurrent
    <2>2. QED
        BY <2>1 DEF IInv, JobCurrent, LastDocCurrent, EventsCurrent, EventCurrent,
            RevisionsOrdered
<1>2. QED
    BY <1>1, IInvHolds, PTL

\* While the document stays open, the revision the preview reflects never goes
\* back: setPages drops what is older than the buffer, which is at least as new
\* as the preview.
THEOREM CompiledMonotonic == Spec => CompiledNeverDecreases
<1>1. IInv /\ [Next]_vars => [open /\ open' => front'.compiled >= front.compiled]_vars
    <2> SUFFICES ASSUME IInv, [Next]_vars, open, open'
                 PROVE  front'.compiled >= front.compiled
        BY Zenon
    <2> USE DEF feVars, beVars
    <2> front \in Document /\ front.compiled <= front.rev
        BY DEF IInv, TypeOK, FrontCurrent
    <2>1. front.compiled \in Int /\ front.rev \in Int
        BY DEF Document
    <2>2. ASSUME NEW t \in Texts, Type(t) PROVE front'.compiled >= front.compiled
        BY <2>1, <2>2 DEF Type, Document
    <2>3. CASE Receive
        <3>1. Head(events) \in Event
            BY <2>3, EventsTail DEF Receive, IInv, TypeOK
        <3>2. QED
            BY <2>1, <2>3, <3>1 DEF Receive, Apply, Event, Document
    <2>4. CASE front' = front
        BY <2>1, <2>4
    <2>5. ~OpenPath
        BY DEF OpenPath, IInv, InHand
    <2>6. QED
        BY <2>2, <2>3, <2>4, <2>5 DEF Next, Worker, Start, Read, FinishOk, FinishError,
            Flush, Reconcile, Refresh, Reload, Lose, Deliver, Reopen, vars
<1>2. QED
    BY <1>1, IInvHolds, PTL DEF Spec, CompiledNeverDecreases

-----------------------------------------------------------------------------
(* The buffer of the webview reaches the core.                              *)

\* Somebody carries it, or the core has it.
BufferCarried == open => (pending # None /\ Snapshot = pending) \/ Snapshot \in calls \/ Snapshot = back

\* A call that is delivered leaves the newest snapshot with the core: an older
\* one is dropped and one of the same revision is the same.
LEMMA CarriedStep ==
    ASSUME IInv, BufferCarried, [Next]_vars
    PROVE  BufferCarried'
<1> USE DEF feVars, beVars, BufferCarried
<1>0. front \in Document /\ back \in Versioned /\ Snapshot \in Versioned
    BY Shapes DEF IInv, TypeOK
<1>1. CASE OpenPath
    <2>1. reply \in Versioned
        BY <1>1 DEF OpenPath, IInv, TypeOK
    <2>2. Snapshot' = reply
        BY <1>1, <2>1, OpenedSnapshot DEF OpenPath, Snapshot
    <2>3. QED
        BY <1>1, <2>2 DEF OpenPath
<1>2. ASSUME NEW t \in Texts, Type(t) PROVE BufferCarried'
    <2>1. front'.text = t /\ front'.rev = front.rev + 1
        BY <1>0, <1>2 DEF Type, Document
    <2>2. Snapshot' = pending' /\ pending' # None
        BY <1>0, <1>2, <2>1 DEF Type, Snapshot, Document
    <2>3. QED
        BY <2>2
<1>3. CASE Flush \/ Reconcile \/ Refresh \/ Reload
    BY <1>3 DEF Flush, Reconcile, Refresh, Reload, Snapshot
<1>4. CASE Receive
    <2>1. Head(events) \in Event
        BY <1>4, EventsTail DEF Receive, IInv, TypeOK
    <2>2. Snapshot' = Snapshot
        BY <1>0, <1>4, <2>1 DEF Receive, Apply, Document, Snapshot
    <2>3. QED
        BY <1>4, <2>2 DEF Receive
<1>5. ASSUME NEW c \in calls, Deliver(c) PROVE BufferCarried'
    <2>1. Snapshot' = Snapshot /\ open' = open /\ pending' = pending /\ calls' = calls \ {c}
        BY <1>5 DEF Deliver, Snapshot
    <2>2. CASE open /\ Snapshot = c
        <3>1. back.rev <= c.rev
            BY <2>2, <1>0 DEF IInv, InHand, Held, Snapshot
        <3>2. ~(c.rev < back.rev)
            BY <3>1, <2>2, <1>0 DEF Versioned
        <3>3. back' = c
            BY <1>5, <3>2 DEF Deliver
        <3>4. QED
            BY <2>1, <2>2, <3>3
    <2>3. CASE open /\ Snapshot = back
        <3>1. c \in Versioned /\ c.rev <= back.rev /\ Held(c) /\ Held(back)
            BY <2>3, <1>0 DEF IInv, TypeOK, InHand, Held, Snapshot
        <3>2. c.rev < back.rev \/ c.rev = back.rev
            BY <1>0, <3>1 DEF Versioned
        <3>3. c.rev = back.rev => c = back
            BY <1>0, <3>1 DEF IInv, OneText, Versioned
        <3>4. back' = back
            BY <1>5, <3>2, <3>3 DEF Deliver
        <3>5. QED
            BY <2>1, <2>3, <3>4
    <2>4. QED
        BY <2>1, <2>2, <2>3
<1>6. CASE Lose \/ Worker \/ Reopen \/ UNCHANGED vars
    <2>1. UNCHANGED <<open, front, pending, calls, back>>
        BY <1>6 DEF Lose, Worker, Start, Read, FinishOk, FinishError, Reopen, vars
    <2>2. QED
        BY <2>1 DEF Snapshot
<1>7. QED
    BY <1>1, <1>2, <1>3, <1>4, <1>5, <1>6 DEF Next

\* With no push pending and no call under way the core holds what the user
\* sees, in whatever order the calls arrived (pushTextUpdate, apply_text).
THEOREM BufferArrives == Spec => []QuiescentBuffer
<1>1. Init => BufferCarried
    BY DEF Init, BufferCarried
<1>2. BufferCarried => QuiescentBuffer
    BY DEF QuiescentBuffer, BufferCarried
<1>3. QED
    BY <1>1, <1>2, CarriedStep, IInvHolds, PTL DEF Spec

=============================================================================
