---------------------------- MODULE SessionStore ----------------------------
(***************************************************************************)
(* The session: what is remembered between launches.  Updates mutate under *)
(* the lock and persist outside it; the file may come from another build.  *)
(***************************************************************************)
EXTENDS Integers, Sequences, FiniteSets

LOCAL INSTANCE SequencesExt

CONSTANTS
    Folders,        \* workspace folders
    RecentLists,    \* the recentWorkspaces arrays a window sends
    DocLists,       \* the openDocuments arrays, good and bad records
    MaxRecent,      \* MAX_RECENT_WORKSPACES
    Updaters,       \* threads that run session commands
    MaxUpdates, MaxStarts   \* bounds

SessionCurrent == 2
NewerVersion   == SessionCurrent + 1
NoFolder       == "none"
GoodRecords    == {"disk", "untitled"}

VARIABLES
    snMem, snDisk,     \* the session in memory, and the file (missing: version -1)
    snPc, snSnap,      \* each updater's step and the snapshot it persists
    snUpdates, snStarts,
    snClean            \* history: no failed and no overlapping persist so far

sessionVars == <<snMem, snDisk, snPc, snSnap, snUpdates, snStarts, snClean>>

EmptySession == [ver |-> SessionCurrent, last |-> NoFolder, recents |-> <<>>, docs |-> <<>>]
NoSession    == [EmptySession EXCEPT !.ver = -1]

-----------------------------------------------------------------------------

\* dedupe_preserve_order: the first of each.
Deduped(seq) ==
    SelectSeq([i \in DOMAIN seq |-> IF \E j \in 1..i - 1 : seq[j] = seq[i] THEN NoFolder ELSE seq[i]],
              LAMBDA f : f # NoFolder)

Truncated(seq, n) == SubSeq(seq, 1, IF Len(seq) < n THEN Len(seq) ELSE n)

\* tolerant_open_doc: a malformed record costs only itself.
Tolerated(docs) == SelectSeq(docs, LAMBDA d : d \in GoodRecords)

\* Migrator::migrate: older values step up, newer ones keep their version.
MigrateSession(s) == IF s.ver < SessionCurrent THEN [s EXCEPT !.ver = SessionCurrent] ELSE s

\* SessionService::load.
LoadSession(file) ==
    IF file = NoSession THEN EmptySession
    ELSE MigrateSession([file EXCEPT !.docs = Tolerated(@)])

SessionInit ==
    /\ snDisk \in {NoSession} \union
         {[ver |-> v, last |-> NoFolder, recents |-> <<>>, docs |-> d] :
             v \in 0..NewerVersion, d \in DocLists}
    /\ snMem = LoadSession(snDisk)
    /\ snPc = [t \in Updaters |-> "idle"]
    /\ snSnap = [t \in Updaters |-> snMem]
    /\ snUpdates = 0 /\ snStarts = 0
    /\ snClean = TRUE

-----------------------------------------------------------------------------

\* Mutant: the clone to persist is taken before the change.
ChangeClonedFirst(t, s) ==
    /\ snPc[t] = "idle" /\ snUpdates < MaxUpdates
    /\ snMem' = s
    /\ snSnap' = [snSnap EXCEPT ![t] = snMem]
    /\ snPc' = [snPc EXCEPT ![t] = "persist"]
    /\ snUpdates' = snUpdates + 1
    /\ snClean' = (snClean /\ \A u \in Updaters : snPc[u] = "idle")
    /\ UNCHANGED <<snDisk, snStarts>>

\* Every operation: change the session under the lock, keep a clone of it.
Change(t, s) ==
    /\ snPc[t] = "idle" /\ snUpdates < MaxUpdates
    /\ snMem' = s
    /\ snSnap' = [snSnap EXCEPT ![t] = s]
    /\ snPc' = [snPc EXCEPT ![t] = "persist"]
    /\ snUpdates' = snUpdates + 1
    /\ snClean' = (snClean /\ \A u \in Updaters : snPc[u] = "idle")
    /\ UNCHANGED <<snDisk, snStarts>>

MovedToFront(f, recents) ==
    Truncated(<<f>> \o SelectSeq(recents, LAMBDA r : r # f), MaxRecent)

\* record_workspace: an empty path only clears the marker.
RecordWorkspace(t, f) ==
    Change(t, IF f = NoFolder THEN [snMem EXCEPT !.last = NoFolder]
              ELSE [snMem EXCEPT !.last = f, !.recents = MovedToFront(f, @)])

ClearRecent(t) == Change(t, [snMem EXCEPT !.recents = <<>>])

\* update: the fields present replace the old ones.
UpdateDocs(t, docs)    == Change(t, [snMem EXCEPT !.docs = Tolerated(docs)])
UpdateRecents(t, list) == Change(t, [snMem EXCEPT !.recents = Truncated(Deduped(list), MaxRecent)])

\* persist, without the lock: it writes its clone or fails.
Persist(t) ==
    /\ snPc[t] = "persist"
    /\ snPc' = [snPc EXCEPT ![t] = "idle"]
    /\ \/ snDisk' = snSnap[t] /\ UNCHANGED snClean
       \/ snClean' = FALSE /\ UNCHANGED snDisk
    /\ UNCHANGED <<snMem, snSnap, snUpdates, snStarts>>

\* The next start, after an exit or a crash at any step: load, or the empty
\* session when the file cannot be read.
StartSession ==
    /\ snStarts < MaxStarts
    /\ snStarts' = snStarts + 1
    /\ \/ snMem' = LoadSession(snDisk)
       \/ snDisk # NoSession /\ snMem' = EmptySession
    /\ snClean' = (snClean /\ snMem' = snDisk)
    /\ snPc' = [t \in Updaters |-> "idle"]
    /\ UNCHANGED <<snDisk, snSnap, snUpdates>>

SessionNext ==
    \/ \E t \in Updaters :
          \/ \E f \in Folders \union {NoFolder} : RecordWorkspace(t, f)
          \/ ClearRecent(t)
          \/ \E d \in DocLists : UpdateDocs(t, d)
          \/ \E l \in RecentLists : UpdateRecents(t, l)
          \/ Persist(t)
    \/ StartSession

SessionSpec == SessionInit /\ [][SessionNext]_sessionVars

-----------------------------------------------------------------------------

SessionTypeOK ==
    /\ snMem.ver \in SessionCurrent..NewerVersion /\ snDisk.ver \in -1..NewerVersion
    /\ \A i \in DOMAIN snMem.docs : snMem.docs[i] \in GoodRecords
    /\ snPc \in [Updaters -> {"idle", "persist"}]
    /\ snUpdates \in 0..MaxUpdates /\ snStarts \in 0..MaxStarts
    /\ snClean \in BOOLEAN

\* When no two persists overlapped and none failed, the file holds the session
\* in memory as soon as everybody is idle (update, persist).
LoneUpdatesAreDurable ==
    snClean /\ snUpdates > 0 /\ (\A t \in Updaters : snPc[t] = "idle") => snDisk = snMem

=============================================================================
