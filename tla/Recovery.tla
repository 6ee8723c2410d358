------------------------------ MODULE Recovery ------------------------------
(***************************************************************************)
(* Crash recovery: the debounce worker and its channel, the snapshots and  *)
(* the manifest on disk, the commands that write and discard them from     *)
(* other threads, crashes, and the offer made at the next start.           *)
(*                                                                         *)
(* The text of a document is named by its revision.  A document id is      *)
(* used by one opening only, since ids are fresh UUIDs.  Replacing a file  *)
(* is one step (AtomicFile has its inside); steps end where the manifest   *)
(* lock is not held, except in the worker's flush, whose checks race with  *)
(* discards that have not reached the lock.                                *)
(***************************************************************************)
EXTENDS Integers, Sequences, FiniteSets

CONSTANTS
    Docs,        \* document ids
    MaxRev,      \* bound on the revisions of a document
    MaxQueue,    \* bound on the messages under way
    MaxSessions, \* bound on the starts of the program
    NoText       \* no snapshot

ASSUME RecoveryAssumption ==
    /\ IsFiniteSet(Docs)
    /\ MaxRev \in Nat /\ MaxQueue \in Nat /\ MaxSessions \in Nat
    /\ NoText \notin Nat /\ NoText \notin [text : Nat, version : Nat]
    /\ Docs \intersect {"idle", "due", "flush", "stopped"} = {}

VARIABLES
    status,     \* an id is new, open, or over
    rev, dirty, \* the buffer
    disk,       \* what the document's own file holds
    file,       \* documents/<id>.json: text and the file's version, or NoText
    listed,     \* ids in manifest.json
    marker,     \* the clean-shutdown marker exists
    queue,      \* the worker's channel
    pending,    \* the worker's buffer: text per id, or NoText
    discarded,  \* discarded_since_queued
    worker,     \* where the worker is
    batch,      \* ids its flush has yet to handle
    taken,      \* the buffer it drained
    loaded,     \* the manifest it has read
    op,         \* what a command is doing to each document
    saved,      \* the revision a save wrote
    declined,   \* documents the user chose not to save
    syncing,    \* flags read by flush_recovery, or NoText
    clearing,   \* where clear_all is
    session,    \* up, or down; starts so far
    offered,    \* ids offered at the last start
    forgiven,   \* history: a discard or a clear was in the way of the edit
    fresh,      \* history: no discard or clear of this session is later than its last edit
    by,         \* history: who wrote the entry
    owed        \* history: snapshots at rest when the program went down

bufVars    == <<status, rev, dirty, disk>>
storeVars  == <<file, listed, marker>>
workerVars == <<queue, pending, discarded, worker, batch, taken, loaded>>
callVars   == <<op, saved, declined, syncing, clearing>>
sessVars   == <<session, offered, owed>>
history    == <<forgiven, fresh, by>>
recoveryVars == <<bufVars, storeVars, workerVars, callVars, sessVars, history>>

Texts    == 0..MaxRev
Messages == [type : {"update"}, id : Docs, text : Texts]
            \union [type : {"discard"}, id : Docs]
            \union [type : {"flush", "clear", "shutdown"}]
Snapshots == [text : Texts, version : Texts]

RecoveryTypeOK ==
    /\ status \in [Docs -> {"new", "open", "over"}]
    /\ rev \in [Docs -> Texts] /\ disk \in [Docs -> Texts]
    /\ dirty \in [Docs -> BOOLEAN]
    /\ file \in [Docs -> Snapshots \union {NoText}]
    /\ listed \subseteq Docs
    /\ marker \in BOOLEAN
    /\ queue \in Seq(Messages)
    /\ pending \in [Docs -> Texts \union {NoText}]
    /\ discarded \subseteq Docs
    /\ worker \in {"idle", "due", "flush", "stopped"} \union Docs
    /\ batch \subseteq Docs
    /\ taken \in [Docs -> Texts \union {NoText}]
    /\ loaded \subseteq Docs
    /\ op \in [Docs -> {"idle", "written", "clean", "sent", "removed"}]
    /\ saved \in [Docs -> Texts]
    /\ declined \subseteq Docs
    /\ syncing \in [Docs -> {"dirty", "clean", "none"}] \union {NoText}
    /\ clearing \in {"idle", "sent", "wiped"}
    /\ session \in [up : {"up", "closing", "down"}, starts : 0..MaxSessions]
    /\ offered \subseteq Docs /\ owed \subseteq Docs
    /\ forgiven \in [Docs -> BOOLEAN] /\ fresh \in [Docs -> BOOLEAN]
    /\ by \in [Docs -> {"none", "worker", "sync"}]

Nothing == [d \in Docs |-> NoText]

\* RecoveryService::with_debounce on an empty directory: the worker waits.
RecoveryInit ==
    /\ status = [d \in Docs |-> "new"]
    /\ rev = [d \in Docs |-> 0] /\ disk = [d \in Docs |-> 0]
    /\ dirty = [d \in Docs |-> FALSE]
    /\ file = Nothing /\ listed = {} /\ marker = FALSE
    /\ queue = <<>> /\ pending = Nothing /\ discarded = {}
    /\ worker = "idle" /\ batch = {} /\ taken = Nothing /\ loaded = {}
    /\ op = [d \in Docs |-> "idle"] /\ saved = [d \in Docs |-> 0]
    /\ declined = {} /\ syncing = NoText /\ clearing = "idle"
    /\ session = [up |-> "up", starts |-> 0]
    /\ offered = {} /\ owed = {}
    /\ forgiven = [d \in Docs |-> FALSE] /\ fresh = [d \in Docs |-> FALSE]
    /\ by = [d \in Docs |-> "none"]

Up == session.up = "up"
Alive == session.up # "down"
Send(msg) == queue' = Append(queue, msg)

\* The manifest lock is held by the worker's flush only between steps.
LockFree == worker \in {"idle", "due", "stopped"}

-----------------------------------------------------------------------------
(* The document's side: edits, saves, closes.                               *)

\* Opening a file, or the untitled copy the dialog makes of a snapshot.
Open(d) ==
    /\ Up
    /\ status[d] = "new"
    /\ status' = [status EXCEPT ![d] = "open"]
    /\ UNCHANGED <<rev, dirty, disk, storeVars, workerVars, callVars, sessVars, history>>

\* schedule_snapshot.  An edit whose id a discard has just touched is forgiven.
Schedule(d, text) ==
    /\ Send([type |-> "update", id |-> d, text |-> text])
    /\ forgiven' = [forgiven EXCEPT ![d] =
            \/ d \in discarded \/ op[d] \in {"clean", "sent", "removed"}
            \/ clearing # "idle" \/ (syncing # NoText /\ syncing[d] = "clean")]
    /\ fresh' = [fresh EXCEPT ![d] = TRUE]

\* update_text: the buffer, the dirty flag, then the snapshot.
Edit(d) ==
    /\ Alive
    /\ status[d] = "open"
    /\ rev[d] < MaxRev
    /\ Len(queue) < MaxQueue
    /\ rev' = [rev EXCEPT ![d] = @ + 1]
    /\ dirty' = [dirty EXCEPT ![d] = TRUE]
    /\ Schedule(d, rev[d] + 1)
    /\ UNCHANGED <<status, disk, storeVars, pending, discarded, worker, batch, taken, loaded,
                   callVars, sessVars, by>>

\* Another program writes the document's file.
External(d) ==
    /\ disk[d] # 0
    /\ disk' = [disk EXCEPT ![d] = 0]
    /\ UNCHANGED <<status, rev, dirty, storeVars, workerVars, callVars, sessVars, history>>

\* A save replaces the file with the buffer's text ...
SaveWrites(d) ==
    /\ Alive
    /\ status[d] = "open" /\ dirty[d] /\ op[d] = "idle"
    /\ disk' = [disk EXCEPT ![d] = rev[d]]
    /\ saved' = [saved EXCEPT ![d] = rev[d]]
    /\ op' = [op EXCEPT ![d] = "written"]
    /\ UNCHANGED <<status, rev, dirty, storeVars, workerVars, declined, syncing, clearing, sessVars, history>>

\* ... and mark_saved keeps dirty, and the snapshot, if an edit came since.
MarkSaved(d) ==
    /\ op[d] = "written"
    /\ LET stillClean == rev[d] = saved[d]
       IN /\ dirty' = [dirty EXCEPT ![d] = @ /\ ~stillClean]
          /\ op' = [op EXCEPT ![d] = IF stillClean THEN "clean" ELSE "idle"]
    /\ UNCHANGED <<status, rev, disk, storeVars, workerVars, saved, declined, syncing, clearing, sessVars, history>>

\* The user closes a document without saving, or quits with "Don't Save":
\* the snapshot is discarded first.
Decline(d) ==
    /\ Alive
    /\ status[d] = "open" /\ dirty[d] /\ op[d] = "idle"
    /\ declined' = declined \union {d}
    /\ op' = [op EXCEPT ![d] = "clean"]
    /\ UNCHANGED <<bufVars, storeVars, workerVars, saved, syncing, clearing, sessVars, history>>

\* The dialog's Discard of a snapshot of an earlier session.
DiscardOffered(d) ==
    /\ Up
    /\ d \in offered /\ op[d] = "idle"
    /\ op' = [op EXCEPT ![d] = "clean"]
    /\ UNCHANGED <<bufVars, storeVars, workerVars, saved, declined, syncing, clearing, sessVars, history>>

Close(d) ==
    /\ Alive
    /\ status[d] = "open" /\ op[d] = "idle"
    /\ dirty[d] => d \in declined
    /\ status' = [status EXCEPT ![d] = "over"]
    /\ UNCHANGED <<rev, dirty, disk, storeVars, workerVars, callVars, sessVars, history>>

-----------------------------------------------------------------------------
(* discard_snapshot, on the caller's thread.                                *)

\* The set first, then the message ...
DiscardSends(d) ==
    /\ op[d] = "clean"
    /\ Len(queue) < MaxQueue
    /\ discarded' = discarded \union {d}
    /\ Send([type |-> "discard", id |-> d])
    /\ op' = [op EXCEPT ![d] = "sent"]
    /\ forgiven' = [forgiven EXCEPT ![d] = TRUE]
    /\ fresh' = [fresh EXCEPT ![d] = FALSE]
    /\ UNCHANGED <<bufVars, storeVars, pending, worker, batch, taken, loaded,
                   saved, declined, syncing, clearing, sessVars, by>>

\* ... the file, without the lock ...
DiscardRemoves(d) ==
    /\ op[d] = "sent"
    /\ file' = [file EXCEPT ![d] = NoText]
    /\ op' = [op EXCEPT ![d] = "removed"]
    /\ UNCHANGED <<bufVars, listed, marker, workerVars, saved, declined, syncing, clearing, sessVars, history>>

\* ... and the entry, under it.
DiscardUnlists(d) ==
    /\ op[d] = "removed"
    /\ LockFree
    /\ listed' = listed \ {d}
    /\ by' = [by EXCEPT ![d] = "none"]
    /\ op' = [op EXCEPT ![d] = "idle"]
    /\ UNCHANGED <<bufVars, file, marker, workerVars, saved, declined, syncing, clearing, sessVars, forgiven, fresh>>

-----------------------------------------------------------------------------
(* flush_recovery on blur and on the close request, and clear_all.          *)

OpenDocs == {d \in Docs : status[d] = "open"}

\* list_tabs: the dirty flags are read before the lock is taken.
SyncLists ==
    /\ Alive
    /\ syncing = NoText
    /\ OpenDocs # {}
    /\ syncing' = [d \in Docs |-> IF d \notin OpenDocs THEN "none"
                                  ELSE IF dirty[d] THEN "dirty" ELSE "clean"]
    /\ UNCHANGED <<bufVars, storeVars, workerVars, op, saved, declined, clearing, sessVars, history>>

\* snapshot_dirty_documents: a snapshot for each dirty document, none for a clean one.
SyncWrites ==
    /\ syncing # NoText
    /\ LockFree
    /\ LET writes == {d \in OpenDocs : syncing[d] = "dirty"}
           clean  == {d \in Docs : syncing[d] = "clean"}
       IN /\ file' = [d \in Docs |-> IF d \in writes THEN [text |-> rev[d], version |-> disk[d]]
                                     ELSE IF d \in clean THEN NoText ELSE file[d]]
          /\ listed' = (listed \union writes) \ clean
          /\ by' = [d \in Docs |-> IF d \in writes THEN "sync"
                                   ELSE IF d \in clean THEN "none" ELSE by[d]]
    /\ syncing' = NoText
    /\ UNCHANGED <<bufVars, marker, workerVars, op, saved, declined, clearing, sessVars, forgiven, fresh>>

\* clear_all: the message, the files, then an empty manifest under the lock.
ClearSends ==
    /\ Up
    /\ clearing = "idle"
    /\ Len(queue) < MaxQueue
    /\ Send([type |-> "clear"])
    /\ clearing' = "sent"
    /\ forgiven' = [d \in Docs |-> TRUE]
    /\ fresh' = [d \in Docs |-> FALSE]
    /\ UNCHANGED <<bufVars, storeVars, pending, discarded, worker, batch, taken, loaded,
                   op, saved, declined, syncing, sessVars, by>>

\* wipe_dir takes every entry of the directory: snapshots, manifest, marker.
Wipe ==
    /\ file' = Nothing
    /\ listed' = {}
    /\ marker' = FALSE
    /\ by' = [d \in Docs |-> "none"]

ClearWipes ==
    /\ clearing = "sent"
    /\ Wipe
    /\ clearing' = "wiped"
    /\ UNCHANGED <<bufVars, workerVars, op, saved, declined, syncing, sessVars, forgiven, fresh>>

ClearResets ==
    /\ clearing = "wiped"
    /\ LockFree
    /\ listed' = {}
    /\ by' = [d \in Docs |-> "none"]
    /\ clearing' = "idle"
    /\ UNCHANGED <<bufVars, file, marker, workerVars, op, saved, declined, syncing, sessVars, forgiven, fresh>>

-----------------------------------------------------------------------------
(* The worker.  A message that is there is taken before a deadline.         *)

Next1(type) == worker = "idle" /\ queue # <<>> /\ Head(queue).type = type
Alone == UNCHANGED <<worker, batch, taken, loaded>>

\* Mutant: a burst keeps the first text that was queued.
TakeUpdateFirst ==
    /\ Next1("update")
    /\ queue' = Tail(queue)
    /\ LET msg == Head(queue)
       IN pending' = [pending EXCEPT ![msg.id] = IF @ = NoText THEN msg.text ELSE @]
    /\ UNCHANGED <<bufVars, storeVars, discarded, callVars, sessVars, history>> /\ Alone

TakeUpdate ==
    /\ Next1("update")
    /\ queue' = Tail(queue)
    /\ pending' = [pending EXCEPT ![Head(queue).id] = Head(queue).text]
    /\ UNCHANGED <<bufVars, storeVars, discarded, callVars, sessVars, history>> /\ Alone

TakeDiscard ==
    /\ Next1("discard")
    /\ queue' = Tail(queue)
    /\ pending' = [pending EXCEPT ![Head(queue).id] = NoText]
    /\ discarded' = discarded \union {Head(queue).id}
    /\ forgiven' = [forgiven EXCEPT ![Head(queue).id] = TRUE]
    /\ UNCHANGED <<bufVars, storeVars, callVars, sessVars, fresh, by>> /\ Alone

TakeClear ==
    /\ Next1("clear")
    /\ queue' = Tail(queue)
    /\ pending' = Nothing
    /\ Wipe
    /\ LET later == {queue[i].id : i \in {j \in 2..Len(queue) : queue[j].type = "update"}}
       IN /\ forgiven' = [d \in Docs |-> forgiven[d] \/ d \notin later]
          /\ fresh' = [d \in Docs |-> fresh[d] /\ d \in later]
    /\ UNCHANGED <<bufVars, discarded, callVars, sessVars>> /\ Alone

\* A flush is due: FlushNow, or the debounce deadline of what is pending.
TakeFlush ==
    /\ Next1("flush")
    /\ queue' = Tail(queue)
    /\ worker' = "due"
    /\ UNCHANGED <<bufVars, storeVars, pending, discarded, batch, taken, loaded,
                   callVars, sessVars, history>>

\* Mutant: only the first update of an id arms the deadline.
DeadlineFlushFirst ==
    /\ Alive
    /\ worker = "idle" /\ queue = <<>>
    /\ \E d \in Docs : pending[d] # NoText /\ d \notin listed
    /\ worker' = "due"
    /\ UNCHANGED <<bufVars, storeVars, queue, pending, discarded, batch, taken, loaded,
                   callVars, sessVars, history>>

DeadlineFlush ==
    /\ Alive
    /\ worker = "idle" /\ queue = <<>> /\ pending # Nothing
    /\ worker' = "due"
    /\ UNCHANGED <<bufVars, storeVars, queue, pending, discarded, batch, taken, loaded,
                   callVars, sessVars, history>>

\* flush_pending: returns when nothing waits; else takes the lock, reads the
\* manifest again and drains the buffer.
FlushLocks ==
    /\ worker = "due"
    /\ worker' = IF pending = Nothing THEN "idle" ELSE "flush"
    /\ batch' = {d \in Docs : pending[d] # NoText}
    /\ taken' = pending
    /\ pending' = Nothing
    /\ loaded' = IF pending = Nothing THEN {} ELSE listed
    /\ UNCHANGED <<bufVars, storeVars, queue, discarded, callVars, sessVars, history>>

\* An id in the set is skipped, and leaves the set; another is written next.
FlushCheck(d) ==
    /\ worker = "flush"
    /\ d \in batch
    /\ batch' = batch \ {d}
    /\ discarded' = discarded \ {d}
    /\ worker' = IF d \in discarded THEN "flush" ELSE d
    /\ taken' = [taken EXCEPT ![d] = IF d \in discarded THEN NoText ELSE @]
    /\ forgiven' = [forgiven EXCEPT ![d] = @ \/ d \in discarded]
    /\ UNCHANGED <<bufVars, storeVars, queue, pending, loaded, callVars, sessVars, fresh, by>>

FlushWrite(d) ==
    /\ worker = d
    /\ file' = [file EXCEPT ![d] = [text |-> taken[d], version |-> disk[d]]]
    /\ loaded' = loaded \union {d}
    /\ worker' = "flush"
    /\ UNCHANGED <<bufVars, listed, marker, queue, pending, discarded, batch, taken, callVars, sessVars, history>>

FlushEnd ==
    /\ worker = "flush"
    /\ batch = {}
    /\ listed' = loaded
    /\ by' = [d \in Docs |-> IF d \in loaded /\ taken[d] # NoText THEN "worker" ELSE by[d]]
    /\ worker' = "idle"
    /\ taken' = Nothing /\ loaded' = {}
    /\ UNCHANGED <<bufVars, file, marker, queue, pending, discarded, batch, callVars, sessVars, forgiven, fresh>>

\* Drop: one last flush, after which the thread ends.
TakeShutdown ==
    /\ Next1("shutdown")
    /\ IF pending = Nothing
       THEN queue' = Tail(queue) /\ worker' = "stopped"
       ELSE worker' = "due" /\ UNCHANGED queue
    /\ UNCHANGED <<bufVars, storeVars, pending, discarded, batch, taken, loaded,
                   callVars, sessVars, history>>

-----------------------------------------------------------------------------
(* The end of a session and the start of the next.                          *)

Decided == \A d \in OpenDocs : dirty[d] => d \in declined

\* mark_clean_shutdown: the flush is only a message; the marker is written now.
MarkClean ==
    /\ Up
    /\ Decided /\ \A d \in Docs : op[d] = "idle"
    /\ Len(queue) + 1 < MaxQueue
    /\ \E drop \in BOOLEAN :
         queue' = queue \o <<[type |-> "flush"]>>
                        \o (IF drop THEN <<[type |-> "shutdown"]>> ELSE <<>>)
    /\ marker' = TRUE
    /\ session' = [session EXCEPT !.up = "closing"]
    /\ UNCHANGED <<bufVars, file, listed, pending, discarded, worker, batch, taken, loaded,
                   callVars, offered, owed, history>>

AtRest(d) ==
    /\ queue = <<>> /\ pending = Nothing /\ LockFree
    /\ op[d] = "idle" /\ syncing = NoText /\ clearing = "idle"

Covered(d) == d \in listed /\ file[d] # NoText /\ file[d].text = rev[d]

\* The program ends here or crashes; its memory is gone.
Down ==
    /\ Alive
    /\ session' = [session EXCEPT !.up = "down"]
    /\ owed' = IF session.up = "closing" THEN {} ELSE {d \in OpenDocs : dirty[d] /\ AtRest(d) /\ Covered(d)}
    /\ status' = [d \in Docs |-> IF status[d] = "new" THEN "new" ELSE "over"]
    /\ queue' = <<>> /\ pending' = Nothing /\ discarded' = {}
    /\ worker' = "idle" /\ batch' = {} /\ taken' = Nothing /\ loaded' = {}
    /\ op' = [d \in Docs |-> "idle"]
    /\ fresh' = [d \in Docs |-> TRUE]
    /\ declined' = {} /\ syncing' = NoText /\ clearing' = "idle"
    /\ UNCHANGED <<rev, dirty, disk, storeVars, saved, offered, forgiven, by>>

\* list_recoverable: entries whose file is there.
Recoverable == {d \in listed : file[d] # NoText}
\* summarize_recoverable: the document's file is not what it was at the snapshot.
DiskChanged(d) == file[d].version # disk[d]

\* compute_recovery_payload.
Offer(clean) ==
    IF clean /\ ~\E d \in Recoverable : DiskChanged(d) THEN {} ELSE Recoverable

\* Mutant: the marker of an earlier quit is left where it is.
StartKeepsMarker ==
    /\ session.up = "down"
    /\ session.starts < MaxSessions
    /\ session' = [up |-> "up", starts |-> session.starts + 1]
    /\ offered' = Offer(marker)
    /\ UNCHANGED <<bufVars, storeVars, workerVars, callVars, owed, history>>

\* setup: the marker is read, then cleared, then the offer is computed.
Start ==
    /\ session.up = "down"
    /\ session.starts < MaxSessions
    /\ session' = [up |-> "up", starts |-> session.starts + 1]
    /\ marker' = FALSE
    /\ offered' = Offer(marker)
    /\ UNCHANGED <<bufVars, file, listed, workerVars, callVars, owed, history>>

-----------------------------------------------------------------------------
WorkerStep ==
    \/ TakeUpdate \/ TakeDiscard \/ TakeClear \/ TakeFlush \/ TakeShutdown
    \/ DeadlineFlush \/ FlushLocks \/ FlushEnd
    \/ \E d \in Docs : FlushCheck(d) \/ FlushWrite(d)

CallStep ==
    \/ \E d \in Docs : MarkSaved(d) \/ DiscardSends(d) \/ DiscardRemoves(d) \/ DiscardUnlists(d)
    \/ SyncWrites \/ ClearWipes \/ ClearResets

UserStep ==
    \/ \E d \in Docs : Open(d) \/ Edit(d) \/ External(d) \/ SaveWrites(d)
                       \/ Decline(d) \/ DiscardOffered(d) \/ Close(d)
    \/ SyncLists \/ ClearSends \/ MarkClean \/ Down \/ Start

RecoveryNext == WorkerStep \/ CallStep \/ UserStep

\* Threads are scheduled: the worker and a call that has begun go on.
RecoverySpec ==
    /\ RecoveryInit /\ [][RecoveryNext]_recoveryVars
    /\ WF_recoveryVars(WorkerStep) /\ WF_recoveryVars(CallStep)

-----------------------------------------------------------------------------
(* What recovery promises.                                                  *)

\* When everything is quiet, a dirty document whose last edit no discard,
\* clear or blur flush overlapped has a listed snapshot of its last text
\* (schedule_snapshot, the debounce worker, flush_pending).
RestingIsCovered ==
    \A d \in OpenDocs :
        Alive /\ AtRest(d) /\ dirty[d] /\ ~forgiven[d] => Covered(d)

\* The worker does not write back a snapshot that was discarded while it was
\* queued or being flushed (discarded_since_queued): what it left in the
\* manifest was scheduled after the last discard.  (Once the flush of
\* mark_clean_shutdown is queued, an edit before it and a discard after it can
\* be served with that flush in between, when the mark of the discard was used
\* up by the flush before; the window is destroyed next.)
WorkerNeverResurrects ==
    \A d \in Docs : Up /\ AtRest(d) /\ d \in listed /\ by[d] = "worker" => fresh[d]

\* What was at rest on disk when the program crashed is offered at the next
\* start (had_clean_shutdown is of the last session, not of an earlier one).
OwedIsOffered == Up /\ session.starts > 0 => owed \subseteq offered

\* A document that is edited again after a save has a snapshot at rest: what
\* the save's discard left in discarded_since_queued does not cost the edit.
SavedThenEditedIsCovered ==
    \A d \in OpenDocs : Up /\ AtRest(d) /\ dirty[d] /\ fresh[d] /\ saved[d] > 0 => Covered(d)

\* An edit reaches the recovery directory, unless it is saved, discarded or
\* cleared, or the program is quit or crashes first.
EditIsSnapshotted ==
    \A d \in Docs :
        (Up /\ status[d] = "open" /\ dirty[d] /\ ~forgiven[d])
            ~> (~Up \/ status[d] # "open" \/ ~dirty[d] \/ forgiven[d] \/ Covered(d))

\* The snapshots on disk follow the buffers: none is missing at rest, and none
\* comes back after it was discarded.
SnapshotsFollow == RestingIsCovered /\ WorkerNeverResurrects
=============================================================================
