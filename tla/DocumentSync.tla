---------------------------- MODULE DocumentSync ----------------------------
(***************************************************************************)
(* One open document and its file: edits, saves, programs that write the   *)
(* file from outside, the watcher and the poll that look for such writes,  *)
(* and the user's two decisions in a conflict, overwrite and use disk.     *)
(*                                                                         *)
(* Steps end where the code holds no lock.  A version is a content, since  *)
(* DiskVersion hashes the bytes; identities are inode numbers, which the   *)
(* file system may use again.  The path does not change, and the file can  *)
(* be read while it exists.                                                *)
(***************************************************************************)
EXTENDS Integers, FiniteSets

CONSTANTS
    Contents,     \* texts of the buffer and of the file
    Inodes,       \* file identities
    Savers,       \* save commands; each waits for the document's save lock
    Handlers,     \* threads that look at the disk: watcher flush, health poll
    Missing,      \* no file, and the unknown identity
    MaxRev,       \* bound on the revisions
    MaxExternal   \* bound on the writes from outside

ASSUME DocumentAssumption ==
    /\ Missing \notin Contents \union Inodes
    /\ MaxRev \in Nat /\ MaxExternal \in Nat

VARIABLES
    disk,       \* the file: content and inode, or Missing
    text, rev, dirty,
    conflict,   \* kind of the ConflictState
    stored,     \* disk_version and file_identity
    pc, kind,   \* where each save is; plain or overwrite
    snap,       \* the revision and text it saves
    found,      \* the version it reads back
    hpc,        \* where each handler is
    seen,       \* the version and inode it read
    verdict,    \* what it is about to do
    adopt,      \* where use-disk is
    loaded,     \* the content and inode it read
    durable,    \* history: the buffer's text has been on disk
    swept,      \* history: the last edit came between the two halves of use-disk
    written,    \* history: revision of the last save that replaced the file
    externals   \* writes from outside so far

bufVars   == <<text, rev, dirty, conflict, stored>>
saveVars  == <<pc, kind, snap, found>>
hVars     == <<hpc, seen, verdict>>
adoptVars == <<adopt, loaded>>
history   == <<durable, swept, written>>
vars == <<disk, bufVars, saveVars, hVars, adoptVars, history, externals>>

Files    == [content : Contents, ino : Inodes]
Versions == [content : Contents \union {Missing}, ino : Inodes \union {Missing}]
Revs     == 0..MaxRev + 1

TypeOK ==
    /\ disk \in Files \union {Missing}
    /\ text \in Contents
    /\ rev \in Revs
    /\ dirty \in BOOLEAN
    /\ conflict \in {"none", "modified", "missing", "replaced"}
    /\ stored \in [content : Contents, ino : Inodes \union {Missing}]
    /\ pc \in [Savers -> {"idle", "gated", "snapped", "replaced", "marked", "read"}]
    /\ kind \in [Savers -> {"plain", "overwrite"}]
    /\ snap \in [Savers -> [rev : Revs, text : Contents \union {Missing}]]
    /\ found \in [Savers -> Contents \union {Missing}]
    /\ hpc \in [Handlers -> {"idle", "gone", "read", "decide"}]
    /\ seen \in [Handlers -> Versions]
    /\ verdict \in [Handlers -> {"nothing", "modified", "replaced", "rebaseline"}]
    /\ adopt \in {"idle", "loaded", "set"}
    /\ loaded \in Versions
    /\ durable \in BOOLEAN
    /\ swept \in BOOLEAN
    /\ written \in Revs
    /\ externals \in 0..MaxExternal

NoSnap    == [rev |-> 0, text |-> Missing]
NoVersion == [content |-> Missing, ino |-> Missing]

\* DiskVersion::from_path and FileIdentity::from_path.
ContentOf(f) == IF f = Missing THEN Missing ELSE f.content
InodeOf(f)   == IF f = Missing THEN Missing ELSE f.ino

\* The document is opened from its file.
Init ==
    /\ disk \in Files
    /\ text = disk.content
    /\ rev = 0
    /\ dirty = FALSE
    /\ conflict = "none"
    /\ stored = disk
    /\ pc = [s \in Savers |-> "idle"]
    /\ kind = [s \in Savers |-> "plain"]
    /\ snap = [s \in Savers |-> NoSnap]
    /\ found = [s \in Savers |-> Missing]
    /\ hpc = [h \in Handlers |-> "idle"]
    /\ seen = [h \in Handlers |-> NoVersion]
    /\ verdict = [h \in Handlers |-> "nothing"]
    /\ adopt = "idle"
    /\ loaded = NoVersion
    /\ durable = TRUE
    /\ swept = FALSE
    /\ written = 0
    /\ externals = 0

-----------------------------------------------------------------------------
(* The user's edits and other programs' writes.                             *)

\* update_text with a newer revision: text, revision and dirty under one lock,
\* also while use-disk is served.
Edit(t) ==
    /\ rev < MaxRev
    /\ text' = t
    /\ rev' = rev + 1
    /\ dirty' = TRUE
    /\ durable' = FALSE
    /\ swept' = (adopt = "set")
    /\ UNCHANGED <<disk, conflict, stored, saveVars, hVars, adoptVars, written, externals>>

\* Another program writes the file in place, replaces it, or creates it again.
External(f) ==
    /\ externals < MaxExternal
    /\ f # disk
    /\ disk' = f
    /\ externals' = externals + 1
    /\ UNCHANGED <<bufVars, saveVars, hVars, adoptVars, history>>

Delete ==
    /\ externals < MaxExternal
    /\ disk # Missing
    /\ disk' = Missing
    /\ externals' = externals + 1
    /\ UNCHANGED <<bufVars, saveVars, hVars, adoptVars, history>>

-----------------------------------------------------------------------------
(* A save.  The save lock is held from the gate to the end.                 *)

LockFree == \A s \in Savers : pc[s] = "idle"

\* Mutant: saves of one document do not wait for each other.
StartUnlocked(s, k) ==
    /\ pc[s] = "idle"
    /\ conflict = "none" <=> k = "plain"
    /\ k = "overwrite" => adopt = "idle"
    /\ pc' = [pc EXCEPT ![s] = "gated"]
    /\ kind' = [kind EXCEPT ![s] = k]
    /\ UNCHANGED <<disk, bufVars, snap, found, hVars, adoptVars, history, externals>>

\* save passes its conflict gate; save_overwrite has none, and the dialog
\* offers it only in a conflict.
StartSave(s, k) ==
    /\ LockFree
    /\ conflict = "none" <=> k = "plain"
    /\ k = "overwrite" => adopt = "idle"
    /\ pc' = [pc EXCEPT ![s] = "gated"]
    /\ kind' = [kind EXCEPT ![s] = k]
    /\ UNCHANGED <<disk, bufVars, snap, found, hVars, adoptVars, history, externals>>

\* snapshot_for_save: revision and text under the state lock.
SnapshotSave(s) ==
    /\ pc[s] = "gated"
    /\ snap' = [snap EXCEPT ![s] = [rev |-> rev, text |-> text]]
    /\ pc' = [pc EXCEPT ![s] = "snapped"]
    /\ UNCHANGED <<disk, bufVars, kind, found, hVars, adoptVars, history, externals>>

\* write_bytes renames a new file over the old one, on the blocking pool.
Replace(s) ==
    /\ pc[s] = "snapped"
    /\ \E i \in Inodes \ {InodeOf(disk)} :
          disk' = [content |-> snap[s].text, ino |-> i]
    /\ durable' = (durable \/ snap[s] = [rev |-> rev, text |-> text])
    /\ written' = snap[s].rev
    /\ pc' = [pc EXCEPT ![s] = "replaced"]
    /\ UNCHANGED <<bufVars, kind, snap, found, hVars, adoptVars, swept, externals>>

\* The locals of a save are gone, and its lock is released.
Leave(s) ==
    /\ pc' = [pc EXCEPT ![s] = "idle"]
    /\ kind' = [kind EXCEPT ![s] = "plain"]
    /\ snap' = [snap EXCEPT ![s] = NoSnap]
    /\ found' = [found EXCEPT ![s] = Missing]

\* write_bytes fails with the old file intact: the save ends, dirty stays.
SaveFails(s) ==
    /\ pc[s] = "snapped"
    /\ Leave(s)
    /\ UNCHANGED <<disk, bufVars, hVars, adoptVars, history, externals>>

\* Mutant: dirty is cleared whatever was typed during the write.
MarkAlwaysClean(s) ==
    /\ pc[s] = "replaced"
    /\ dirty' = FALSE
    /\ conflict' = "none"
    /\ pc' = [pc EXCEPT ![s] = "marked"]
    /\ UNCHANGED <<disk, text, rev, stored, kind, snap, found, hVars, adoptVars, history,
                   externals>>

\* mark_saved clears dirty unless an edit came in, and any conflict.
MarkSaved(s) ==
    /\ pc[s] = "replaced"
    /\ dirty' = (dirty /\ rev # snap[s].rev)
    /\ conflict' = "none"
    /\ pc' = [pc EXCEPT ![s] = "marked"]
    /\ UNCHANGED <<disk, text, rev, stored, kind, snap, found, hVars, adoptVars, history,
                   externals>>

\* It then reads the file back without a lock ...
ReadBaseline(s) ==
    /\ pc[s] = "marked"
    /\ found' = [found EXCEPT ![s] = ContentOf(disk)]
    /\ pc' = [pc EXCEPT ![s] = "read"]
    /\ UNCHANGED <<disk, bufVars, kind, snap, hVars, adoptVars, history, externals>>

\* ... and makes what it found the baseline; an unreadable file leaves it.
SetBaseline(s) ==
    /\ pc[s] = "read"
    /\ stored' = IF found[s] = Missing THEN stored
                 ELSE [content |-> found[s], ino |-> InodeOf(disk)]
    /\ Leave(s)
    /\ UNCHANGED <<disk, text, rev, dirty, conflict, hVars, adoptVars, history, externals>>

-----------------------------------------------------------------------------
(* handle_external_change, on a watcher event or the poll's next round.     *)

\* The version is read first; the event's content plays no part.
Look(h) ==
    /\ hpc[h] = "idle"
    /\ seen' = [seen EXCEPT ![h] = [content |-> ContentOf(disk), ino |-> Missing]]
    /\ hpc' = [hpc EXCEPT ![h] = IF disk = Missing THEN "gone" ELSE "read"]
    /\ UNCHANGED <<disk, bufVars, saveVars, verdict, adoptVars, history, externals>>

\* A handler returns.
Done(h) ==
    /\ hpc' = [hpc EXCEPT ![h] = "idle"]
    /\ seen' = [seen EXCEPT ![h] = NoVersion]
    /\ verdict' = [verdict EXCEPT ![h] = "nothing"]

\* Missing only if the path is still gone when looked at again.
Gone(h) ==
    /\ hpc[h] = "gone"
    /\ conflict' = IF disk = Missing THEN "missing" ELSE conflict
    /\ Done(h)
    /\ UNCHANGED <<disk, text, rev, dirty, stored, saveVars, adoptVars, history, externals>>

\* Mutant: the change of a clean buffer's file is not reported.
JudgeDirtyOnly(version, inode) ==
    CASE version # stored.content /\ dirty -> "modified"
      [] stored.ino \in {inode, Missing} \/ inode = Missing -> "nothing"
      [] dirty -> "replaced"
      [] OTHER -> "rebaseline"

\* What handle_version_change decides from one look at the tab.
Judge(version, inode) ==
    CASE version # stored.content -> "modified"
      [] stored.ino \in {inode, Missing} \/ inode = Missing -> "nothing"
      [] dirty -> "replaced"
      [] OTHER -> "rebaseline"

\* The stored version, identity and dirty flag under the lock.
Compare(h) ==
    /\ hpc[h] = "read"
    /\ verdict' = [verdict EXCEPT ![h] = Judge(seen[h].content, InodeOf(disk))]
    /\ seen' = [seen EXCEPT ![h].ino = InodeOf(disk)]
    /\ hpc' = [hpc EXCEPT ![h] = "decide"]
    /\ UNCHANGED <<disk, bufVars, saveVars, adoptVars, history, externals>>

\* The decision is applied under a second lock, without comparing again.
Decide(h) ==
    /\ hpc[h] = "decide"
    /\ conflict' = CASE verdict[h] = "modified" -> IF disk = Missing THEN "missing" ELSE "modified"
                     [] verdict[h] = "replaced" -> "replaced"
                     [] OTHER -> conflict
    /\ stored' = IF verdict[h] = "rebaseline" THEN seen[h] ELSE stored
    /\ Done(h)
    /\ UNCHANGED <<disk, text, rev, dirty, saveVars, adoptVars, history, externals>>

-----------------------------------------------------------------------------
(* resolve_conflict_use_disk.                                               *)

\* The dialog asks while it shows a changed file and has nothing else pending.
Load ==
    /\ adopt = "idle"
    /\ conflict = "modified"
    /\ \A s \in Savers : pc[s] = "idle" \/ kind[s] = "plain"
    /\ rev < MaxRev
    /\ disk # Missing
    /\ loaded' = [content |-> disk.content, ino |-> Missing]
    /\ adopt' = "loaded"
    /\ UNCHANGED <<disk, bufVars, saveVars, hVars, history, externals>>

\* The identity, then the world's text, without the document's lock ...
AdoptText ==
    /\ adopt = "loaded"
    /\ loaded' = [loaded EXCEPT !.ino = InodeOf(disk)]
    /\ text' = loaded.content
    /\ durable' = TRUE
    /\ adopt' = "set"
    /\ UNCHANGED <<disk, rev, dirty, conflict, stored, saveVars, hVars, swept, written, externals>>

\* ... then the revision and the flags under it.
AdoptCommit ==
    /\ adopt = "set"
    /\ rev' = rev + 1
    /\ dirty' = FALSE
    /\ conflict' = "none"
    /\ stored' = loaded
    /\ adopt' = "idle"
    /\ loaded' = NoVersion
    /\ UNCHANGED <<disk, text, saveVars, hVars, history, externals>>

-----------------------------------------------------------------------------
Save(s) ==
    \/ \E k \in {"plain", "overwrite"} : StartSave(s, k)
    \/ SnapshotSave(s)
    \/ Replace(s)
    \/ SaveFails(s)
    \/ MarkSaved(s)
    \/ ReadBaseline(s)
    \/ SetBaseline(s)

Handle(h) == Look(h) \/ Gone(h) \/ Compare(h) \/ Decide(h)

Next ==
    \/ \E t \in Contents : Edit(t)
    \/ \E f \in Files : External(f)
    \/ Delete
    \/ \E s \in Savers : Save(s)
    \/ \E h \in Handlers : Handle(h)
    \/ Load
    \/ AdoptText
    \/ AdoptCommit

\* The poll never stops; nothing is assumed of the user or of the saves.
Fairness == \A h \in Handlers : WF_vars(Handle(h))

Spec == Init /\ [][Next]_vars /\ Fairness

-----------------------------------------------------------------------------
\* A buffer that is not marked dirty holds a text that has been on disk: no
\* edit is forgotten by a save that was under way, nor by a use-disk request
\* that came before or after it.  The one edit that is: made after use-disk
\* set the text and before it took the state lock, which clears dirty for it.
CleanIsDurable == ~dirty => durable \/ swept

\* The file never goes back to an older revision of the buffer, however many
\* saves are asked for at once.
SavesInOrder == [][written' >= written]_written

Differs == disk = Missing \/ disk.content # stored.content

\* A file that is not the one the core knows is reported, or known again.
DifferenceIsFound ==
    (Differs /\ conflict = "none") ~> (conflict # "none" \/ ~Differs)

AtRest ==
    /\ LockFree
    /\ adopt = "idle"
    /\ \A h \in Handlers : hpc[h] = "idle"

\* While nobody else writes the file, a save of the core's own is not left on
\* screen as a change that somebody else made.
OwnSaveIsSilent == externals = 0 /\ AtRest => conflict # "modified"

\* A save that was not told to overwrite never comes to mark_saved, which drops
\* any conflict, with somebody else's change reported.
SaveMeetsNoConflict ==
    \A s \in Savers : pc[s] = "replaced" /\ kind[s] = "plain" => conflict # "modified"

=============================================================================
