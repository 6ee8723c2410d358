--------------------------- MODULE ReplaceInFiles ---------------------------
(***************************************************************************)
(* Replace over the workspace: files that were open when the command       *)
(* looked are changed in their buffers, by compare-and-swap; the others on *)
(* the disk.  Nothing is locked between the steps, so that the editor, the *)
(* tabs, the watcher and other programs go on meanwhile.                   *)
(*                                                                         *)
(* A text is the set of edits it holds and whether any match is left.      *)
(***************************************************************************)
EXTENDS Naturals, FiniteSets

CONSTANTS
    Files,       \* files the walk yields
    MaxRetries,  \* MAX_REVISION_RETRIES
    MaxEdits, MaxIds \* bounds: edits made, documents opened

\* Numbers name the files, the documents and the edits; 0 is none of them.
ASSUME ReplaceAssumption ==
    /\ Files \subseteq Nat \ {0} /\ IsFiniteSet(Files)
    /\ MaxRetries \in Nat /\ MaxEdits \in Nat /\ MaxIds \in Nat

VARIABLES
    onDisk,      \* text of each file
    buf,         \* the open document of each file: id, text, revision, dirty flag,
                 \* the disk text it was loaded from or saved as; id 0 if none
    job,         \* the command
    edits, ids,  \* counters
    owed,        \* history: edits nobody discarded, with their files
    raced,       \* history: files written between the read and the write of the command
    touched      \* history: files opened, closed, edited or saved since the command was done with them,
                 \* or taken over by another TabState while it had hold of theirs

replaceVars == <<onDisk, buf, job, edits, ids, owed, raced, touched>>

Text == [edits : SUBSET (1 .. MaxEdits), hits : BOOLEAN]
Blank == [edits |-> {}, hits |-> FALSE]
NoDoc(x) == [id |-> 0, text |-> x, rev |-> 0, dirty |-> FALSE, base |-> x]
NoJob == [pc |-> "idle", todo |-> {}, walked |-> {}, ids |-> [f \in Files |-> 0], file |-> 0, text |-> Blank,
          rev |-> 0, tries |-> 0, closed |-> {}, applied |-> {}, failed |-> {}]

\* compute_file_replacement: nothing where no match is left.
Computed(x) == [x EXCEPT !.hits = FALSE]

Edited(x, hits) == [edits |-> x.edits \union {edits + 1}, hits |-> x.hits \/ hits]
Doc(f) == buf[f].id # 0
Now(f) == IF Doc(f) THEN buf[f].text ELSE onDisk[f]
Touch(f) == touched' = touched \union {f}
Cross(f) == raced' = IF job.pc = "write" /\ job.file = f THEN raced \union {f} ELSE raced

\* Mutant: the compare-and-swap looks at the revision only.
SwapByRevision == buf[job.file].rev = job.rev

\* replace_text_cas: the buffer is the one that was read.
Seen == buf[job.file].rev = job.rev /\ buf[job.file].text = job.text

\* The TabState the command has cloned leaves the map: nobody else writes to it.
Strays(f) ==
    job' = IF job.pc = "cas" /\ job.file = f THEN [job EXCEPT !.pc = IF Seen THEN "astray" ELSE "moved"] ELSE job

ReplaceInit ==
    /\ onDisk \in [Files -> {[edits |-> {}, hits |-> h] : h \in BOOLEAN}]
    /\ \E open \in SUBSET Files :
           buf = [f \in Files |-> IF f \in open THEN [NoDoc(onDisk[f]) EXCEPT !.id = f] ELSE NoDoc(Blank)]
    /\ job = NoJob /\ edits = 0 /\ ids = Cardinality(Files)
    /\ owed = {} /\ raced = {} /\ touched = {}

-----------------------------------------------------------------------------
(* Everybody else.                                                          *)

\* apply_text: the editor's text, at a revision that may be the one there is.
Type(f, bump, hits) ==
    /\ Doc(f) /\ edits < MaxEdits
    /\ edits' = edits + 1
    /\ buf' = [buf EXCEPT ![f].text = Edited(buf[f].text, hits), ![f].rev = @ + bump, ![f].dirty = TRUE]
    /\ owed' = owed \union {<<f, edits + 1>>}
    /\ Touch(f)
    /\ UNCHANGED <<onDisk, job, ids, raced>>

\* save, before the watcher has raised the conflict flag, and save_overwrite at
\* any time: whatever is on the disk goes, edits the document never knew with it.
SaveDoc(f) ==
    /\ Doc(f)
    /\ onDisk' = [onDisk EXCEPT ![f] = buf[f].text]
    /\ buf' = [buf EXCEPT ![f].dirty = FALSE, ![f].base = buf[f].text]
    /\ owed' = owed \ {<<f, n>> : n \in onDisk[f].edits \ (buf[f].base.edits \union buf[f].text.edits)}
    /\ Cross(f) /\ Touch(f)
    /\ UNCHANGED <<job, edits, ids>>

OpenDoc(f) ==
    /\ ~Doc(f) /\ ids < MaxIds
    /\ ids' = ids + 1
    /\ buf' = [buf EXCEPT ![f] = [NoDoc(onDisk[f]) EXCEPT !.id = ids + 1]]
    /\ Touch(f)
    /\ UNCHANGED <<onDisk, job, edits, owed, raced>>

\* A dirty document is closed only with its edits discarded.
CloseDoc(f) ==
    /\ Doc(f)
    /\ buf' = [buf EXCEPT ![f] = NoDoc(Blank)]
    /\ owed' = IF buf[f].dirty THEN owed \ {<<f, n>> : n \in buf[f].text.edits \ onDisk[f].edits} ELSE owed
    /\ Strays(f) /\ Touch(f)
    /\ UNCHANGED <<onDisk, edits, ids, raced>>

\* cas_swap_world, or the swap of a rename: another TabState with the same text
\* takes the place of the document's, which matters to a command that has hold
\* of the old one.
SwapTab(f) ==
    /\ Doc(f) /\ job.pc = "cas" /\ job.file = f
    /\ Strays(f) /\ Touch(f)
    /\ UNCHANGED <<onDisk, buf, edits, ids, owed, raced>>

\* The watcher: a clean document takes the text of the disk.
ReloadDoc(f) ==
    /\ Doc(f) /\ ~buf[f].dirty /\ onDisk[f] # buf[f].base
    /\ buf' = [buf EXCEPT ![f].text = onDisk[f], ![f].base = onDisk[f], ![f].rev = @ + 1]
    /\ Touch(f)
    /\ UNCHANGED <<onDisk, job, edits, ids, owed, raced>>

\* Another program writes the file.
External(f, hits) ==
    /\ edits < MaxEdits
    /\ edits' = edits + 1
    /\ onDisk' = [onDisk EXCEPT ![f] = Edited(onDisk[f], hits)]
    /\ owed' = owed \union {<<f, edits + 1>>}
    /\ Cross(f) /\ Touch(f)
    /\ UNCHANGED <<buf, job, ids>>

-----------------------------------------------------------------------------
(* replace_in_files.                                                        *)

Running(pc) == job.pc = pc
Continue(j) == job' = j
\* The next file, in any order the walk has.
After(j) == [j EXCEPT !.pc = "next", !.tries = 0]
Settled  == touched' = touched \ {job.file}

\* walk_candidates: every file the filters let through, or the pinned one.  The
\* ignored folders, excluded paths, other names and files that are too big are
\* none of Files.
Walked(pin) == {f \in Files : pin = 0 \/ f = pin}

\* docs_at_paths_with_hidden: hidden documents count; one look decides for the
\* whole batch.
StartReplace(pin) ==
    /\ Running("idle")
    /\ Continue([NoJob EXCEPT !.pc = "next", !.todo = Walked(pin), !.walked = Walked(pin), !.ids = [f \in Files |-> buf[f].id]])
    /\ touched' = {}
    /\ UNCHANGED <<onDisk, buf, edits, ids, owed, raced>>

\* tab_revision, for a document that was open.
ReadRevision(f) ==
    /\ Running("next") /\ f \in job.todo
    /\ LET j == [job EXCEPT !.todo = @ \ {f}, !.file = f] IN
       IF job.ids[f] = 0 THEN Continue([After(j) EXCEPT !.closed = @ \union {f}])
       ELSE IF buf[f].id # job.ids[f] THEN Continue(After(j))
       ELSE Continue([j EXCEPT !.pc = "text", !.rev = buf[f].rev])
    /\ UNCHANGED <<onDisk, buf, edits, ids, owed, raced, touched>>

\* tab_text: the tab may be gone, or have moved since its revision was read.
ReadText ==
    /\ Running("text")
    /\ LET f == job.file IN
       \/ buf[f].id # job.ids[f] /\ Continue(After(job)) /\ UNCHANGED touched
       \/ buf[f].id = job.ids[f] /\ ~buf[f].text.hits /\ Continue(After(job)) /\ Settled
       \/ /\ buf[f].id = job.ids[f] /\ buf[f].text.hits
          /\ Continue([job EXCEPT !.pc = "swap", !.text = buf[f].text])
          /\ UNCHANGED touched
    /\ UNCHANGED <<onDisk, buf, edits, ids, owed, raced>>

\* replace_text_cas clones the TabState, without a lock, ...
CloneTab ==
    /\ Running("swap") /\ buf[job.file].id = job.ids[job.file]
    /\ Continue([job EXCEPT !.pc = "cas"])
    /\ UNCHANGED <<onDisk, buf, edits, ids, owed, raced, touched>>

\* ... and exchanges the text under the lock of the one it has cloned.
SwapText ==
    /\ Running("cas") /\ Seen
    /\ LET f == job.file IN
       /\ buf' = [buf EXCEPT ![f].text = Computed(job.text), ![f].rev = job.rev + 1, ![f].dirty = TRUE]
       /\ Continue([After(job) EXCEPT !.applied = @ \union {f}])
    /\ Settled
    /\ UNCHANGED <<onDisk, edits, ids, owed, raced>>

\* One that has left the map is changed too, and reported as replaced.
SwapAstray ==
    /\ Running("astray")
    /\ Continue([After(job) EXCEPT !.applied = @ \union {job.file}])
    /\ UNCHANGED <<onDisk, buf, edits, ids, owed, raced, touched>>

\* Conflated: again from the fresh buffer, a bounded number of times.
SwapMisses ==
    /\ Running("moved") \/ (Running("cas") /\ ~Seen)
    /\ \/ job.tries + 1 < MaxRetries /\ Continue([job EXCEPT !.pc = "again", !.tries = @ + 1])
       \/ job.tries + 1 = MaxRetries /\ Continue([After(job) EXCEPT !.failed = @ \union {job.file}])
    /\ UNCHANGED <<onDisk, buf, edits, ids, owed, raced, touched>>

ReadAgain ==
    /\ Running("again")
    /\ Continue(IF buf[job.file].id # job.ids[job.file] THEN After(job)
          ELSE [job EXCEPT !.pc = "text", !.rev = buf[job.file].rev])
    /\ UNCHANGED <<onDisk, buf, edits, ids, owed, raced, touched>>

\* The tab is gone between the read and the swap: NotFound ends the command.
SwapAborts ==
    /\ Running("swap") /\ buf[job.file].id # job.ids[job.file]
    /\ Continue([job EXCEPT !.pc = "aborted"])
    /\ UNCHANGED <<onDisk, buf, edits, ids, owed, raced, touched>>

\* The batch of closed files: read and spliced ...
ReadClosed(f) ==
    /\ Running("next") /\ job.todo = {} /\ f \in job.closed
    /\ LET j == [job EXCEPT !.closed = @ \ {f}, !.file = f] IN
       \/ Continue([j EXCEPT !.failed = @ \union {f}])
       \/ Continue(IF onDisk[f].hits THEN [j EXCEPT !.pc = "write", !.text = onDisk[f]] ELSE j)
    /\ UNCHANGED <<onDisk, buf, edits, ids, owed, raced, touched>>

\* ... and written, or reported; the rest goes on.
WriteClosed ==
    /\ Running("write")
    /\ \/ /\ onDisk' = [onDisk EXCEPT ![job.file] = Computed(job.text)]
          /\ Continue([job EXCEPT !.pc = "next"])
       \/ /\ Continue([job EXCEPT !.pc = "next", !.failed = @ \union {job.file}])
          /\ UNCHANGED onDisk
    /\ UNCHANGED <<buf, edits, ids, owed, raced, touched>>

Answer ==
    /\ Running("next") /\ job.todo = {} /\ job.closed = {}
    /\ Continue([job EXCEPT !.pc = "done"])
    /\ UNCHANGED <<onDisk, buf, edits, ids, owed, raced, touched>>

ReplaceNext ==
    \/ \E f \in Files, hits \in BOOLEAN : External(f, hits) \/ \E bump \in 0 .. 1 : Type(f, bump, hits)
    \/ \E f \in Files : \/ SaveDoc(f) \/ OpenDoc(f) \/ CloseDoc(f) \/ ReloadDoc(f) \/ SwapTab(f)
                        \/ ReadRevision(f) \/ ReadClosed(f)
    \/ \E pin \in Files \union {0} : StartReplace(pin)
    \/ ReadText \/ CloneTab \/ SwapText \/ SwapAstray \/ SwapMisses \/ ReadAgain \/ SwapAborts
    \/ WriteClosed \/ Answer

ReplaceSpec == ReplaceInit /\ [][ReplaceNext]_replaceVars

-----------------------------------------------------------------------------
(* Properties.                                                              *)

\* What somebody typed and nobody else discarded is in the document or on the
\* disk, however the swaps and the retries fall ("ANY write landing between
\* the read and the CAS makes the check miss; the intervening edit is never
\* overwritten"); but a file that is written between the command's read and
\* its write of it.
EditsSurviveReplace ==
    \A fn \in owed : fn[1] \in raced \/ fn[2] \in Now(fn[1]).edits \/ fn[2] \in onDisk[fn[1]].edits

\* A command that answers has left no match behind unannounced: a file with
\* one was reported, or opened, closed, edited or saved after the command had
\* looked at it last.  The exception is real: a document that is closed, or
\* whose TabState is exchanged, between the clone and the lock counts as
\* replaced, and its match is still there.
MatchesAreAccounted ==
    job.pc = "done" => \A f \in job.walked : Now(f).hits => f \in job.failed \union touched

\* A replace loses no edit and leaves no match unannounced.
ReplaceIsSafe == EditsSurviveReplace /\ MatchesAreAccounted

\* "... surfaced in `failed` so the response reports exactly what was applied":
\* no document is changed by a command that answers with an error.
AppliedIsReported == job.pc = "aborted" => job.applied = {}
=============================================================================
