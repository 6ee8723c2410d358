---------------------------- MODULE PreviewSync ----------------------------
(***************************************************************************)
(* One document between the webview and the Rust core: optimistic          *)
(* revisions and debounced pushes one way, compiled and status events the  *)
(* other.  The backend sends only the pages that differ from the ones it   *)
(* emitted last; the webview drops the events of older revisions, merges   *)
(* the rest by index and records the revision its preview reflects.        *)
(*                                                                         *)
(* A text is the sequence of its rendered pages, so equal texts compile    *)
(* alike.  The document is never replaced or closed and never changed on   *)
(* disk; the preview is visible with auto-refresh on.                      *)
(***************************************************************************)
EXTENDS Integers, Sequences

CONSTANTS
    Pages,      \* rendered pages
    Texts,      \* buffers the user may type, each the sequence of its pages
    Broken,     \* the ones that do not compile
    FirstText,  \* the buffer when the document is opened
    MaxRev,     \* bound on the edits
    MaxQueue,   \* bound on the events under way to the webview
    MaxLost,    \* bound on the events the best-effort emitter loses
    MaxReload,  \* bound on the reloads of the webview
    None,       \* no message, no compile, an unchanged page
    Hole        \* a slot of new Array(pageCount) that nobody filled

ASSUME SyncAssumption ==
    /\ Texts \subseteq Seq(Pages) /\ <<>> \notin Texts
    /\ None \notin Pages /\ None \notin [text : Texts, rev : Nat] /\ Hole \notin Pages \union {None}
    /\ Broken \subseteq Texts
    /\ FirstText \in Texts
    /\ MaxRev \in Nat /\ MaxQueue \in Nat \ {0} /\ MaxLost \in Nat /\ MaxReload \in Nat

VARIABLES
    open,       \* the webview has the document in its store
    front,      \* that Document: text, revision, compiledRevision, pages, ...
    reply,      \* the OpenedDocument under way to the webview
    pending,    \* the debounced push
    calls,      \* update_text calls under way, in no order
    back,       \* text and revision of the TabState
    req,        \* a Recompile is queued for the worker
    job,        \* the running compile: revision, text before, text read
    cache,      \* last_page_svgs
    lastDoc,    \* last_doc and last_compiled_revision
    events,     \* events under way to the webview, in order
    lost,       \* events lost so far
    reloads     \* reloads so far

feVars   == <<open, front, reply, pending>>
beVars   == <<back, req, job, cache, lastDoc>>
vars == <<feVars, calls, beVars, events, lost, reloads>>

Versioned == [text : Texts, rev : 0..MaxRev]

\* A compiled event has one slot per page of the document, None where the
\* page is unchanged, and the text its line map was built from.
Status(r, s) == [kind |-> "status", rev |-> r, st |-> s]
Compiled(r, full, pages, map) ==
    [kind |-> "compiled", rev |-> r, full |-> full, pages |-> pages, map |-> map]

Statuses == {"idle", "compiling", "success", "error"}

Event == [kind : {"status"}, rev : 0..MaxRev, st : Statuses]
         \union [kind : {"compiled"}, rev : 0..MaxRev, full : BOOLEAN,
                 pages : Seq(Pages \union {None}), map : Texts]

Document == [text : Texts, rev : 0..MaxRev, compiled : -1..MaxRev,
             pages : Seq(Pages \union {Hole}), map : Texts \union {None},
             status : Statuses]

TypeOK ==
    /\ open \in BOOLEAN
    /\ front \in Document
    /\ reply \in Versioned \union {None}
    /\ pending \in Versioned \union {None}
    /\ calls \subseteq Versioned
    /\ back \in Versioned
    /\ req \in BOOLEAN
    /\ job \in [rev : 0..MaxRev, text : Texts, read : Texts \union {None}] \union {None}
    /\ cache \in Texts \union {<<>>}
    /\ lastDoc \in [rev : 0..MaxRev, text : Texts \ Broken] \union {None}
    /\ events \in Seq(Event)
    /\ lost \in 0..MaxLost
    /\ reloads \in 0..MaxReload

-----------------------------------------------------------------------------

\* documentFromOpened: no compile has landed in this webview yet.
Opened(v) ==
    [text |-> v.text, rev |-> v.rev, compiled |-> v.rev - 1, pages |-> <<>>,
     map |-> None, status |-> "idle"]

\* The backend has created the tab and its worker and answers the open call.
Init ==
    LET v == [text |-> FirstText, rev |-> 0] IN
    /\ open = FALSE
    /\ front = Opened(v)
    /\ reply = v
    /\ pending = None
    /\ calls = {}
    /\ back = v
    /\ req = TRUE
    /\ job = None
    /\ cache = <<>>
    /\ lastDoc = None
    /\ events = <<>>
    /\ lost = 0
    /\ reloads = 0

Snapshot == [text |-> front.text, rev |-> front.rev]

-----------------------------------------------------------------------------
(* The webview.                                                             *)

\* openPath: the document enters the store and its content is pushed again,
\* for a compile whose event arrives after it.
OpenPath ==
    /\ reply # None
    /\ open' = TRUE
    /\ front' = Opened(reply)
    /\ reply' = None
    /\ calls' = calls \union {reply}
    /\ UNCHANGED <<pending, beVars, events, lost, reloads>>

\* updateContent bumps the revision and resets the status, then the push is
\* (re)scheduled with that revision.
Type(t) ==
    /\ open
    /\ t # front.text
    /\ front.rev < MaxRev
    /\ front' = [front EXCEPT !.text = t, !.rev = @ + 1, !.status = "idle"]
    /\ pending' = [text |-> t, rev |-> front.rev + 1]
    /\ UNCHANGED <<open, reply, calls, beVars, events, lost, reloads>>

\* Mutant: the push carries the revision read before updateContent bumped it.
FlushStale ==
    /\ pending # None
    /\ calls' = calls \union {[text |-> pending.text, rev |-> pending.rev - 1]}
    /\ pending' = None
    /\ UNCHANGED <<open, front, reply, beVars, events, lost, reloads>>

Flush ==
    /\ pending # None
    /\ calls' = calls \union {pending}
    /\ pending' = None
    /\ UNCHANGED <<open, front, reply, beVars, events, lost, reloads>>

\* Reconciliation replays the snapshot while the preview is behind; an error
\* stops it.
Reconcile ==
    /\ open
    /\ front.compiled < front.rev
    /\ front.status # "error"
    /\ calls' = calls \union {Snapshot}
    /\ UNCHANGED <<feVars, beVars, events, lost, reloads>>

\* The refresh button and opening the preview push it unconditionally.
Refresh ==
    /\ open
    /\ calls' = calls \union {Snapshot}
    /\ UNCHANGED <<feVars, beVars, events, lost, reloads>>

\* The webview reloads: its stores and timers are gone.  Calls it sent before
\* are taken to have been served.
Reload ==
    /\ open
    /\ reloads < MaxReload
    /\ calls = {}
    /\ reloads' = reloads + 1
    /\ open' = FALSE
    /\ pending' = None
    /\ UNCHANGED <<front, reply, calls, beVars, events, lost>>

\* setPages: an incremental event is merged by index when the lengths agree,
\* otherwise its pages fill an empty array.
Merge(e) ==
    LET base == IF e.full \/ Len(front.pages) # Len(e.pages)
                THEN [i \in 1..Len(e.pages) |-> Hole]
                ELSE front.pages
    IN  [i \in 1..Len(e.pages) |-> IF e.pages[i] = None THEN base[i] ELSE e.pages[i]]

\* An event of an older revision than the document's is ignored.
Apply(e) ==
    IF e.rev < front.rev THEN front
    ELSE IF e.kind = "status" THEN [front EXCEPT !.status = e.st]
    ELSE [front EXCEPT !.pages = Merge(e), !.map = e.map, !.compiled = e.rev]

\* An event of a document the store does not have is ignored.
Receive ==
    /\ events # <<>>
    /\ events' = Tail(events)
    /\ front' = IF open THEN Apply(Head(events)) ELSE front
    /\ UNCHANGED <<open, reply, pending, calls, beVars, lost, reloads>>

Lose ==
    /\ events # <<>>
    /\ lost < MaxLost
    /\ lost' = lost + 1
    /\ events' = Tail(events)
    /\ UNCHANGED <<feVars, calls, beVars, reloads>>

-----------------------------------------------------------------------------
(* The Rust core.                                                           *)

\* Mutant: an equal snapshot is not a refresh.
DeliverNoRefresh(c) ==
    /\ c \in calls
    /\ calls' = calls \ {c}
    /\ back' = IF c.rev < back.rev THEN back ELSE c
    /\ req' = (req \/ (c.rev >= back.rev /\ c # back))
    /\ UNCHANGED <<feVars, job, cache, lastDoc, events, lost, reloads>>

\* Mutant: the text that arrives last wins under the newer revision.
DeliverLast(c) ==
    /\ c \in calls
    /\ calls' = calls \ {c}
    /\ back' = [text |-> c.text, rev |-> IF c.rev < back.rev THEN back.rev ELSE c.rev]
    /\ req' = TRUE
    /\ UNCHANGED <<feVars, job, cache, lastDoc, events, lost, reloads>>

\* apply_text: an older revision is a no-op; an equal snapshot is a refresh; an
\* equal revision with another text, or a newer revision, is adopted.
Deliver(c) ==
    /\ c \in calls
    /\ calls' = calls \ {c}
    /\ back' = IF c.rev < back.rev THEN back ELSE c
    /\ req' = (req \/ c.rev >= back.rev)
    /\ UNCHANGED <<feVars, job, cache, lastDoc, events, lost, reloads>>

\* Revision and text under one lock, then the Compiling status.
Start ==
    /\ job = None
    /\ req
    /\ Len(events) < MaxQueue
    /\ req' = FALSE
    /\ job' = [rev |-> back.rev, text |-> back.text, read |-> None]
    /\ events' = Append(events, Status(back.rev, "compiling"))
    /\ UNCHANGED <<feVars, calls, back, cache, lastDoc, lost, reloads>>

\* The compiler reads the live buffer.
Read ==
    /\ job # None
    /\ job.read = None
    /\ job' = [job EXCEPT !.read = back.text]
    /\ UNCHANGED <<feVars, calls, back, req, cache, lastDoc, events, lost, reloads>>

\* The pages that differ from the cache, or all of them when the count does.
Payload(pages) ==
    LET full == Len(cache) # Len(pages) IN
    Compiled(job.rev, full,
             [i \in 1..Len(pages) |->
                 IF ~full /\ cache[i] = pages[i] THEN None ELSE pages[i]],
             pages)

\* Mutant: the buffer is not compared with the snapshot before the emit, and
\* the event takes the revision of that moment.
FinishOkRestamped ==
    /\ job # None /\ job.read # None
    /\ job.read \notin Broken
    /\ Len(events) < MaxQueue
    /\ lastDoc' = [text |-> job.read, rev |-> job.rev]
    /\ cache' = job.read
    /\ events' = Append(Append(events, [Payload(job.read) EXCEPT !.rev = back.rev]),
                      Status(job.rev, "success"))
    /\ job' = None
    /\ UNCHANGED <<feVars, calls, back, req, lost, reloads>>

\* The event, the write-back of the cache and the terminal status.  A buffer
\* that changed since the snapshot is not rendered.
FinishOk ==
    /\ job # None /\ job.read # None
    /\ job.read \notin Broken
    /\ Len(events) < MaxQueue
    /\ lastDoc' = [text |-> job.read, rev |-> job.rev]
    /\ \/ /\ back.text = job.text
          /\ cache' = job.read
          /\ events' = Append(Append(events, Payload(job.read)), Status(job.rev, "success"))
       \/ /\ back.text # job.text
          /\ cache' = cache
          /\ events' = Append(events, Status(job.rev, "success"))
    /\ job' = None
    /\ UNCHANGED <<feVars, calls, back, req, lost, reloads>>

\* A failed compile drops last_doc and keeps the page cache.
FinishError ==
    /\ job # None /\ job.read # None
    /\ job.read \in Broken
    /\ Len(events) < MaxQueue
    /\ lastDoc' = None
    /\ events' = Append(events, Status(job.rev, "error"))
    /\ job' = None
    /\ UNCHANGED <<feVars, calls, back, req, cache, lost, reloads>>

\* The reloaded webview opens the file again: the dedup branch replays the
\* cached document in full, then answers.
Reopen ==
    /\ ~open
    /\ reply = None
    /\ Len(events) < MaxQueue
    /\ reply' = back
    /\ events' = IF lastDoc = None THEN events
                 ELSE Append(events, Compiled(lastDoc.rev, TRUE, lastDoc.text, lastDoc.text))
    /\ UNCHANGED <<open, front, pending, calls, beVars, lost, reloads>>

-----------------------------------------------------------------------------

Worker == Start \/ Read \/ FinishOk \/ FinishError

Next ==
    \/ OpenPath
    \/ \E t \in Texts : Type(t)
    \/ Flush
    \/ Reconcile
    \/ Refresh
    \/ Reload
    \/ Receive
    \/ Lose
    \/ \E c \in calls : Deliver(c)
    \/ Worker
    \/ Reopen

\* Timers fire, calls and events are served, the worker runs and a reloaded
\* webview opens its files.  Nobody has to type, refresh or reload.
Fairness ==
    /\ WF_vars(OpenPath)
    /\ WF_vars(Flush)
    /\ WF_vars(Reconcile)
    /\ WF_vars(Receive)
    /\ \A c \in Versioned : WF_vars(Deliver(c))
    /\ SF_vars(Worker)
    /\ SF_vars(Reopen)

Spec == Init /\ [][Next]_vars /\ Fairness

-----------------------------------------------------------------------------

CaughtUp == open /\ front.compiled = front.rev

\* Revisions only come from the webview: nothing the core holds, compiles or
\* reports is of a revision the webview has not given out.
RevisionsOrdered ==
    /\ open => back.rev <= front.rev /\ front.compiled <= front.rev
    /\ job # None => job.rev <= back.rev
    /\ lastDoc # None => lastDoc.rev <= back.rev
    /\ \A i \in 1..Len(events) : events[i].rev <= back.rev

\* A revision names one text: when the webview and the core are at the same
\* revision they hold the same buffer, whatever order the calls arrived in.
RevisionNamesText == open /\ back.rev = front.rev => back.text = front.text

\* The buffer does not stay behind: with nothing pending or under way, the
\* core holds what the user sees.
QuiescentBuffer ==
    open /\ pending = None /\ calls = {} => back = Snapshot

\* When the store says the preview reflects the current revision, its line map
\* and its page count are those of the current text.
MapFaithful ==
    CaughtUp => front.map = front.text /\ Len(front.pages) = Len(front.text)

\* The recorded revision never goes back while the document stays open.
CompiledNeverDecreases ==
    [][open /\ open' => front'.compiled >= front.compiled]_vars

\* Lost and early events are healed: in the end the preview's revision catches
\* up, or the current text fails to compile.
CatchesUp == open ~> (CaughtUp \/ (open /\ front.text \in Broken))

\* When the store says the preview reflects the current revision, every page
\* on screen is the page of the current text.
ShownPagesCurrent ==
    CaughtUp => \A i \in DOMAIN front.pages :
                    front.pages[i] # Hole => front.pages[i] = front.text[i]

\* The page array has no unfilled slot.
NoHoles == open => \A i \in DOMAIN front.pages : front.pages[i] # Hole

=============================================================================
