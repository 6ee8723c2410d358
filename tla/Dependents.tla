----------------------------- MODULE Dependents -----------------------------
(***************************************************************************)
(* Documents that include one another: the in-memory files the compiler    *)
(* reads before the disk, the reverse dependency graph each compile leaves *)
(* behind, and the recompiles an edit, a close or a change on disk sends   *)
(* to whatever includes the file.  A compile reads its files one by one,   *)
(* while editors write; the graph learns of them when it has ended.  An    *)
(* edit that has cloned the tab goes on when the tab is closed meanwhile.  *)
(***************************************************************************)
EXTENDS Integers, FiniteSets

CONSTANTS
    Files,        \* canonical paths
    Documents,    \* the files that are opened; the others are only read
    MaxVersion,   \* bound on the versions of all files together
    Includes      \* Includes[f][v]: the files that version v of f includes

ASSUME DependentsAssumption ==
    /\ IsFiniteSet(Files) /\ Documents \subseteq Files /\ MaxVersion \in Nat
    /\ Includes \in [Files -> [0..MaxVersion -> SUBSET Files]]

VARIABLES
    buf, onDisk, overlay, \* version in the open buffer (or -1), on disk, in the MemoryVfs (or -1)
    edges,      \* rev_deps: <<file, document that read it>>
    due,        \* documents whose worker is signalled
    seen, toRead, \* the compile under way: what it has read (none: the empty function), and has to
    result,     \* what the last result was made from
    calls,      \* commands and watcher events under way: <<step, file, version>>
    version,    \* versions made
    missed,     \* history: <<file, document>> whose cascade came before the first edge
    crossed     \* history: files whose last publication overlapped another, or a close

depVars == <<buf, onDisk, overlay, edges, due, seen, toRead, result, calls, version, missed, crossed>>

NotRead == [f \in {} |-> 0]
OpenFiles == {f \in Files : buf[f] # -1}
Working == {f \in OpenFiles : <<"close", f, 0>> \notin calls}     \* those with a worker
Compiling == {f \in Files : seen[f] # NotRead}
Current(f) == IF buf[f] # -1 THEN buf[f] ELSE onDisk[f]

\* dependents_of: what the breadth-first walk along the reverse edges visits.
DependentsOf(f) ==
    LET Closed(S) == \A d \in Files : (\E e \in S \union {f} : <<e, d>> \in edges) => d \in S
    IN  {d \in Files : \A S \in SUBSET Files : Closed(S) => d \in S} \ {f}

\* recompile_dependents_of: those with a worker are signalled.  A document that
\* has read the file and not yet reported it is not found.
Cascade(f) ==
    LET found == DependentsOf(f) IN
    /\ due' = due \union (found \intersect Working)
    /\ missed' = missed \union {<<f, d>> : d \in {e \in Compiling \ found : f \in DOMAIN seen[e]}}

DependentsInit ==
    /\ buf = [f \in Files |-> -1] /\ overlay = [f \in Files |-> -1] /\ onDisk = [f \in Files |-> 0]
    /\ edges = {} /\ due = {}
    /\ seen = [f \in Files |-> NotRead] /\ toRead = [f \in Files |-> {}]
    /\ result = [f \in Files |-> NotRead]
    /\ calls = {} /\ version = 0 /\ missed = {} /\ crossed = {}

OpenFile(f) ==
    /\ f \in Documents \ OpenFiles
    /\ buf' = [buf EXCEPT ![f] = onDisk[f]]
    /\ overlay' = [overlay EXCEPT ![f] = onDisk[f]]
    /\ due' = due \union {f}
    /\ UNCHANGED <<onDisk, edges, seen, toRead, result, calls, version, missed, crossed>>

\* apply_text clones the tab, and holds no lock when it has it.
CloneTab(f) ==
    /\ f \in OpenFiles /\ version < MaxVersion
    /\ version' = version + 1
    /\ calls' = calls \union {<<"edit", f, version + 1>>}
    /\ UNCHANGED <<buf, onDisk, overlay, edges, due, seen, toRead, result, missed, crossed>>

\* The state lock, of a tab that is in the map still ("edit") or not ("orphan").
SetBuffer(f, v, kind) ==
    LET alone == f \in Working /\ kind = "edit" /\ \A c \in calls : c[2] = f => c[1] # "publish" IN
    /\ <<kind, f, v>> \in calls
    /\ buf' = IF kind = "edit" THEN [buf EXCEPT ![f] = v] ELSE buf
    /\ calls' = (calls \ {<<kind, f, v>>}) \union {<<"publish", f, v>>}
    /\ crossed' = IF alone THEN crossed \ {f} ELSE crossed \union {f}
    /\ UNCHANGED <<onDisk, overlay, edges, due, seen, toRead, result, version, missed>>

\* vfs.upsert: whoever comes last is kept, whatever its revision.
Upsert(f, v) ==
    /\ <<"publish", f, v>> \in calls
    /\ overlay' = [overlay EXCEPT ![f] = v]
    /\ calls' = (calls \ {<<"publish", f, v>>}) \union {<<"cascade", f, v>>}
    /\ UNCHANGED <<buf, onDisk, edges, due, seen, toRead, result, version, missed, crossed>>

\* The dependents, then the document's own worker.
EditCascades(f, v) ==
    /\ <<"cascade", f, v>> \in calls
    /\ LET found == DependentsOf(f) IN
       /\ due' = due \union ((found \union {f}) \intersect Working)
       /\ missed' = missed \union {<<f, d>> : d \in {e \in Compiling \ found : f \in DOMAIN seen[e]}}
    /\ calls' = calls \ {<<"cascade", f, v>>}
    /\ UNCHANGED <<buf, onDisk, overlay, edges, seen, toRead, result, version, crossed>>

\* Another program, or a save, writes the file; the watcher tells later.
DiskChanges(f, v) ==
    /\ \/ v = buf[f] /\ version' = version
       \/ version < MaxVersion /\ v = version + 1 /\ version' = v
    /\ onDisk[f] # v /\ v # -1
    /\ onDisk' = [onDisk EXCEPT ![f] = v]
    /\ calls' = calls \union {<<"event", f, 0>>}
    /\ UNCHANGED <<buf, overlay, edges, due, seen, toRead, result, missed, crossed>>

\* handle_external_change: the cascade at its end.
EventCascades(f) ==
    /\ <<"event", f, 0>> \in calls
    /\ Cascade(f)
    /\ calls' = calls \ {<<"event", f, 0>>}
    /\ UNCHANGED <<buf, onDisk, overlay, edges, seen, toRead, result, version, crossed>>

\* A publication under way will outlive the overlay's removal.
Survives(f) == IF \E c \in calls : c[1] = "publish" /\ c[2] = f THEN crossed \union {f} ELSE crossed

\* Mutant: the file goes back to the disk and nobody is told.
DropSilently(f) ==
    /\ f \in Working
    /\ overlay' = [overlay EXCEPT ![f] = -1]
    /\ edges' = {e \in edges : e[2] # f}
    /\ due' = due \ {f}
    /\ calls' = calls \union {<<"close", f, 0>>}
    /\ crossed' = Survives(f)
    /\ UNCHANGED <<buf, onDisk, seen, toRead, result, version, missed>>

\* hard_close: the worker, then drop_vfs_for: the overlay, the outgoing edges,
\* the cascade.  Nobody waits for edits under way.
DropFile(f) ==
    /\ f \in Working
    /\ overlay' = [overlay EXCEPT ![f] = -1]
    /\ edges' = {e \in edges : e[2] # f}
    /\ LET found == DependentsOf(f) IN
       /\ due' = (due \union (found \intersect Working)) \ {f}
       /\ missed' = missed \union {<<f, d>> : d \in {e \in Compiling \ found : f \in DOMAIN seen[e]}}
    /\ calls' = calls \union {<<"close", f, 0>>}
    /\ crossed' = Survives(f)
    /\ UNCHANGED <<buf, onDisk, seen, toRead, result, version>>

\* The tab leaves the map: an edit that has cloned it works on an orphan, and
\* what a compile of it finds will be discarded.
CloseFile(f) ==
    LET clones == {c \in calls : c[1] = "edit" /\ c[2] = f} IN
    /\ <<"close", f, 0>> \in calls
    /\ buf' = [buf EXCEPT ![f] = -1]
    /\ seen' = [seen EXCEPT ![f] = NotRead]
    /\ toRead' = [toRead EXCEPT ![f] = {}]
    /\ result' = [result EXCEPT ![f] = NotRead]
    /\ calls' = (calls \ (clones \union {<<"close", f, 0>>})) \union {<<"orphan", f, c[3]>> : c \in clones}
    /\ UNCHANGED <<onDisk, overlay, edges, due, version, missed, crossed>>

CompileStarts(f) ==
    /\ f \in due \intersect Working /\ f \notin Compiling
    /\ due' = due \ {f}
    /\ seen' = [seen EXCEPT ![f] = [g \in {f} |-> buf[f]]]
    /\ toRead' = [toRead EXCEPT ![f] = Includes[f][buf[f]] \ {f}]
    /\ missed' = {m \in missed : m[2] # f}
    /\ UNCHANGED <<buf, onDisk, overlay, edges, result, calls, version, crossed>>

\* World::source and World::file: the request is recorded, then the overlay is
\* asked before the disk.
Reads(f, g) ==
    /\ g \in toRead[f]
    /\ LET v == IF overlay[g] # -1 THEN overlay[g] ELSE onDisk[g]
           got == [h \in DOMAIN seen[f] \union {g} |-> IF h = g THEN v ELSE seen[f][h]]
       IN  /\ seen' = [seen EXCEPT ![f] = got]
           /\ toRead' = [toRead EXCEPT ![f] = (@ \union Includes[g][v]) \ DOMAIN got]
    /\ UNCHANGED <<buf, onDisk, overlay, edges, due, result, calls, version, missed, crossed>>

\* post_compile_tail: the edges of this compile replace those of the last.
CompileEnds(f) ==
    /\ f \in Compiling /\ toRead[f] = {}
    /\ edges' = {e \in edges : e[2] # f} \union {<<g, f>> : g \in DOMAIN seen[f] \ {f}}
    /\ result' = [result EXCEPT ![f] = seen[f]]
    /\ seen' = [seen EXCEPT ![f] = NotRead]
    /\ UNCHANGED <<buf, onDisk, overlay, due, toRead, calls, version, missed, crossed>>

DependentsNext ==
    \E f \in Files :
        \/ OpenFile(f) \/ CloneTab(f) \/ EventCascades(f) \/ DropFile(f) \/ CloseFile(f)
        \/ \E v \in 0..MaxVersion :
               \/ \E kind \in {"edit", "orphan"} : SetBuffer(f, v, kind)
               \/ Upsert(f, v) \/ EditCascades(f, v) \/ DiskChanges(f, v)
        \/ CompileStarts(f) \/ CompileEnds(f)
        \/ \E g \in Files : Reads(f, g)

DependentsSpec == DependentsInit /\ [][DependentsNext]_depVars

-----------------------------------------------------------------------------

DependentsAtRest == calls = {} /\ Compiling = {} /\ due \intersect OpenFiles = {}

\* When everything is quiet, the result of every open document was made from
\* its own buffer and from the buffers and files it includes as they are now,
\* through any depth of inclusion, with two exceptions.  A change may have met a
\* compile that had read the file and not yet reported it; and the last edit of
\* the file may have overlapped another edit of it or its close, in which case
\* the overlay keeps a text that is in no buffer, for a closed file too.
DependentsFollow ==
    DependentsAtRest =>
        \A d \in OpenFiles :
            \A f \in DOMAIN result[d] \ (crossed \ {d}) : <<f, d>> \in missed \/ result[d][f] = Current(f)
=============================================================================
