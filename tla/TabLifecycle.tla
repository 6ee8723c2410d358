---------------------------- MODULE TabLifecycle ----------------------------
(***************************************************************************)
(* The life of open documents: the tab map, the registry of canonical      *)
(* paths, the compile workers and the in-memory files, under commands that *)
(* run at once on several threads and on the watcher's.  Every command is  *)
(* async with a body that takes one lock at a time, so that other threads  *)
(* run between its steps.                                                  *)
(*                                                                         *)
(* heap holds the TabStates: a thread that cloned a handle goes on using   *)
(* it after the map holds another one.  A text is named by a number, and   *)
(* the revision is kept apart since an edit may keep it (editor wins).     *)
(***************************************************************************)
EXTENDS Integers, FiniteSets

CONSTANTS
    Ids, Paths,       \* document ids, each used once, and canonical paths
    InRoot,           \* paths below the root of the workspace
    Renames,          \* functions from the paths a rename moves to the new ones
    Threads,
    MaxAttempts,      \* MAX_ATTEMPTS
    MaxObj, MaxText, MaxOps, \* bounds: TabStates built, texts typed, commands begun
    NoId, NoPath      \* model values

ASSUME TabsAssumption ==
    /\ InRoot \subseteq Paths
    /\ NoId \notin Ids \union Paths /\ NoPath \notin Paths
    /\ \A f \in Renames : DOMAIN f \subseteq Paths /\ \A p \in DOMAIN f : f[p] \in Paths
    /\ MaxAttempts \in Nat \ {0} /\ MaxObj \in Nat /\ MaxText \in Nat /\ MaxOps \in Nat

VARIABLES
    heap, tabs,      \* TabStates built so far; the one each id maps to, or 0
    byPath, byId,    \* the registry: id of a path; path of an id, or NoId if unregistered
    vfs,             \* MemoryVfs: the text of a path, or -1
    workers,         \* the TabState each id's worker compiles, or 0
    used,            \* ids given out
    open,            \* a workspace is open
    thr,             \* what each thread is doing
    texts, ops,      \* counters
    tangled,         \* history: ids two structural commands worked on at once, or given up on
    smeared          \* history: ids whose text or path two commands worked on at once,
                     \* and those that met such a document at their path since

tabVars == <<heap, tabs, byPath, byId, vfs, workers, used, open, thr, texts, ops, tangled, smeared>>

NoVersion == -1
Built  == DOMAIN heap
Live   == {i \in Ids : tabs[i] # 0}
Tab(i) == heap[tabs[i]]
Idle   == [op |-> "none", pc |-> "idle", id |-> NoId, path |-> NoPath, old |-> NoPath,
           obj |-> 0, text |-> NoVersion, rev |-> 0, todo |-> {}, tries |-> 0, saved |-> NoVersion]

\* resolver_for_origin and classify_new: a file below the root of the open
\* workspace is resolved against it, any other against its own directory.
Anchored(p) == open /\ p \in InRoot

Structural == {"open", "move", "reclassify", "rebuild", "close", "delete"}
Claimed(i, t) == \E u \in Threads \ {t} : thr[u].id = i /\ thr[u].op \in Structural
Touchers(i, ps, t) ==
    {u \in Threads \ {t} : thr[u].id = i \/ ps \intersect {thr[u].path, thr[u].old} # {}}
\* A smeared document may stand at a path that the registry has given away.
Strays(i, ps) == {j \in smeared \ {i} : j \in Live /\ Tab(j).path \in ps}
\* Thread t begins work on id i at the paths ps: who else is at it, or was?
Meet(t, i, ps) ==
    /\ tangled' = IF Claimed(i, t) THEN tangled \union {i} ELSE tangled
    /\ LET us == Touchers(i, ps \ {NoPath}, t)
           ss == Strays(i, ps \ {NoPath})
       IN  smeared' = smeared \union {thr[u].id : u \in us}
                              \union (IF us = {} /\ ss = {} THEN {} ELSE {i})

Go(t, rec)  == thr' = [thr EXCEPT ![t] = rec]
Step(t, pc) == Go(t, [thr[t] EXCEPT !.pc = pc])
At(t, op, pc) == thr[t].op = op /\ thr[t].pc = pc
Begin(t) == thr[t] = Idle /\ ops < MaxOps /\ ops' = ops + 1
Reclassify == IF Live = {} THEN Idle
              ELSE [Idle EXCEPT !.op = "reclassify", !.pc = "next", !.todo = Live]
\* On to the next document of a batch, or done; a rename ends with
\* reclassify_documents, since rebind makes every document loose.
NextOf(t, rest) ==
    IF rest = {} THEN IF thr[t].op = "move" /\ thr[t].saved = NoVersion THEN Reclassify ELSE Idle
    ELSE [Idle EXCEPT !.op = thr[t].op, !.pc = "next", !.todo = rest, !.saved = thr[t].saved]

\* A compare-and-swap that missed is tried again before the next document.
Retries(t)  == thr[t].tries > 0
Again(t, i) == Retries(t) => i = thr[t].id

\* TabState::with_meta_and_world: a new TabState replaces the one of the id.
InstallFor(i, rec) ==
    /\ heap' = [n \in Built \union {Cardinality(Built) + 1} |-> IF n \in Built THEN heap[n] ELSE rec]
    /\ tabs' = [tabs EXCEPT ![i] = Cardinality(Built) + 1]

\* DocumentRegistry::register and rebind: refused when another id has the path.
Free(i, p) == p = NoPath \/ byPath[p] \in {NoId, i}
Bind(i, p) ==
    /\ byId' = [byId EXCEPT ![i] = p]
    /\ byPath' = [q \in Paths |-> IF q = p THEN i
                                  ELSE IF q = byId[i] /\ byPath[q] = i THEN NoId ELSE byPath[q]]

\* DocumentRegistry::unregister
Unbind(i) ==
    /\ byId' = [byId EXCEPT ![i] = NoId]
    /\ byPath' = [q \in Paths |-> IF q = byId[i] /\ byPath[q] = i THEN NoId ELSE byPath[q]]

Put(files, p, x) == IF p = NoPath THEN files ELSE [files EXCEPT ![p] = x]

TabsInit ==
    /\ heap = [n \in {} |-> 0] /\ tabs = [i \in Ids |-> 0]
    /\ byPath = [p \in Paths |-> NoId] /\ byId = [i \in Ids |-> NoId]
    /\ vfs = [p \in Paths |-> NoVersion] /\ workers = [i \in Ids |-> 0]
    /\ used = {} /\ open = FALSE
    /\ thr = [t \in Threads |-> Idle]
    /\ texts = 0 /\ ops = 0 /\ tangled = {} /\ smeared = {}

-----------------------------------------------------------------------------
(* Opening.                                                                 *)

\* find_existing: the open document is shown again.  An id the registry has
\* and the map has not is handed out as if it were open.
OpenFound(t, p) ==
    /\ Begin(t) /\ byPath[p] # NoId
    /\ LET i == byPath[p] IN
       heap' = IF i \in Live THEN [heap EXCEPT ![tabs[i]].hidden = FALSE] ELSE heap
    /\ UNCHANGED <<tabs, byPath, byId, vfs, workers, used, open, thr, texts, tangled, smeared>>

\* open_from_content, open_non_typst_from_disk (a path nobody has), new_tab.
OpenNew(t, i, p) ==
    /\ Begin(t) /\ i \notin used
    /\ p # NoPath => byPath[p] = NoId
    /\ used' = used \union {i}
    /\ Go(t, [Idle EXCEPT !.op = "open", !.pc = "register", !.id = i, !.path = p])
    /\ Meet(t, i, {p})
    /\ UNCHANGED <<heap, tabs, byPath, byId, vfs, workers, open, texts>>

\* Mutant: two opens of one path that both found nothing both register.
RegisterUnchecked(t) ==
    /\ At(t, "open", "register")
    /\ Bind(thr[t].id, thr[t].path) /\ Step(t, "insert")
    /\ UNCHANGED <<heap, tabs, vfs, workers, used, open, texts, ops, tangled, smeared>>

\* The check and the entry are one step under the registry's write lock.
Register(t) ==
    /\ At(t, "open", "register")
    /\ LET i == thr[t].id  p == thr[t].path IN
       IF Free(i, p) THEN Bind(i, p) /\ Step(t, "insert")
       ELSE Go(t, Idle) /\ UNCHANGED <<byPath, byId>>
    /\ UNCHANGED <<heap, tabs, vfs, workers, used, open, texts, ops, tangled, smeared>>

Insert(t) ==
    /\ At(t, "open", "insert") /\ Cardinality(Built) < MaxObj
    /\ InstallFor(thr[t].id,
          [path |-> thr[t].path, ws |-> Anchored(thr[t].path), text |-> 0, rev |-> 0,
           dirty |-> FALSE, hidden |-> FALSE, missing |-> FALSE, known |-> FALSE])
    /\ Go(t, [thr[t] EXCEPT !.pc = "rotate", !.obj = Cardinality(Built) + 1])
    /\ UNCHANGED <<byPath, byId, vfs, workers, used, open, texts, ops, tangled, smeared>>

\* rotate_worker_if_typst, create_worker: the worker compiles the TabState the
\* thread built, whatever the map holds by now.
Rotate(t) ==
    /\ thr[t].pc = "rotate"
    /\ workers' = [workers EXCEPT ![thr[t].id] = thr[t].obj]
    /\ IF thr[t].op = "open" THEN Step(t, "publish") ELSE Go(t, NextOf(t, thr[t].todo))
    /\ UNCHANGED <<heap, tabs, byPath, byId, vfs, used, open, texts, ops, tangled, smeared>>

\* set_disk_version_from_path, vfs_snapshot, sync_vfs_for
Publish(t) ==
    /\ At(t, "open", "publish")
    /\ LET i == thr[t].id IN
       IF i \in Live
       THEN /\ vfs' = Put(vfs, Tab(i).path, Tab(i).text)
            /\ heap' = [heap EXCEPT ![tabs[i]].known = (Tab(i).path # NoPath)]
       ELSE UNCHANGED <<vfs, heap>>
    /\ Go(t, Idle)
    /\ UNCHANGED <<tabs, byPath, byId, workers, used, open, texts, ops, tangled, smeared>>

-----------------------------------------------------------------------------
(* Editing.                                                                 *)

\* apply_text and replace_text_cas clone the handle and let go of the map.
EditClones(t, i, op) ==
    /\ Begin(t) /\ i \in Live
    /\ Go(t, [Idle EXCEPT !.op = op, !.pc = "set", !.id = i, !.obj = tabs[i],
                          !.path = Tab(i).path, !.text = Tab(i).text, !.rev = Tab(i).rev])
    /\ Meet(t, i, {Tab(i).path})
    /\ UNCHANGED <<heap, tabs, byPath, byId, vfs, workers, used, open, texts>>

\* The state lock: text, revision and flag in one step.  The editor's own text
\* may come at the revision the buffer has; a compare-and-swap replaces what
\* its caller saw or nothing.
EditSets(t, bump) ==
    /\ thr[t].op \in {"edit", "swap"} /\ thr[t].pc = "set" /\ texts < MaxText
    /\ LET o == heap[thr[t].obj] IN
       IF thr[t].op = "swap" /\ ~(bump = 1 /\ o.text = thr[t].text /\ o.rev = thr[t].rev)
       THEN bump = 1 /\ Go(t, Idle) /\ UNCHANGED <<heap, texts>>
       ELSE /\ texts' = texts + 1
            /\ heap' = [heap EXCEPT ![thr[t].obj] =
                          [o EXCEPT !.text = texts + 1, !.rev = o.rev + bump, !.dirty = TRUE]]
            /\ Go(t, [thr[t] EXCEPT !.pc = "publish", !.text = texts + 1])
    /\ UNCHANGED <<tabs, byPath, byId, vfs, workers, used, open, ops, tangled, smeared>>

\* vfs.upsert, outside every lock of the tab.
EditPublishes(t) ==
    /\ thr[t].op \in {"edit", "swap"} /\ thr[t].pc = "publish"
    /\ vfs' = Put(vfs, thr[t].path, thr[t].text)
    /\ Go(t, Idle)
    /\ UNCHANGED <<heap, tabs, byPath, byId, workers, used, open, texts, ops, tangled, smeared>>

\* mark_saved, soft_close and reactivate, set_conflict: one field of the tab.
Saved(i) ==
    /\ i \in Live /\ Tab(i).path # NoPath /\ Tab(i).dirty
    /\ heap' = [heap EXCEPT ![tabs[i]].dirty = FALSE]
    /\ UNCHANGED <<tabs, byPath, byId, vfs, workers, used, open, thr, texts, ops, tangled, smeared>>

SetVisibility(t, i, hidden) ==
    /\ Begin(t) /\ i \in Live /\ Tab(i).hidden # hidden
    /\ heap' = [heap EXCEPT ![tabs[i]].hidden = hidden]
    /\ UNCHANGED <<tabs, byPath, byId, vfs, workers, used, open, thr, texts, tangled, smeared>>

-----------------------------------------------------------------------------
(* Moving: Save As and rename.                                              *)

\* save_as, its bytes written: refused before when another document has the target.
SaveAs(t, i, p) ==
    /\ Begin(t) /\ i \in Live /\ Free(i, p)
    /\ Go(t, [Idle EXCEPT !.op = "move", !.pc = "next", !.todo = {<<i, p>>}, !.saved = Tab(i).rev])
    /\ UNCHANGED <<heap, tabs, byPath, byId, vfs, workers, used, open, texts, tangled, smeared>>

\* rename_entry: the disk has moved; every open document below follows.
Rename(t, f) ==
    /\ Begin(t)
    /\ LET affected == {<<i, f[Tab(i).path]>> : i \in {j \in Live : Tab(j).path \in DOMAIN f}} IN
       /\ affected # {}
       /\ Go(t, [Idle EXCEPT !.op = "move", !.pc = "next", !.todo = affected])
    /\ UNCHANGED <<heap, tabs, byPath, byId, vfs, workers, used, open, texts, tangled, smeared>>

\* rebind_path_inner, one attempt: the snapshot.
MoveSnapshots(t, i, p) ==
    /\ At(t, "move", "next") /\ <<i, p>> \in thr[t].todo
    /\ Again(t, i) /\ (Retries(t) => p = thr[t].path)
    /\ IF i \in Live
       THEN /\ Go(t, [thr[t] EXCEPT !.pc = "bind", !.id = i, !.path = p, !.old = Tab(i).path,
                                    !.text = Tab(i).text, !.rev = Tab(i).rev, !.obj = tabs[i],
                                    !.todo = @ \ {<<i, p>>}])
            /\ Meet(t, i, {p, Tab(i).path})
       ELSE Go(t, NextOf(t, thr[t].todo \ {<<i, p>>})) /\ UNCHANGED <<tangled, smeared>>
    /\ UNCHANGED <<heap, tabs, byPath, byId, vfs, workers, used, open, texts, ops>>

\* The registry goes first; a conflict leaves the document at its old path.
MoveBinds(t) ==
    /\ At(t, "move", "bind")
    /\ LET i == thr[t].id  p == thr[t].path IN
       IF Free(i, p) THEN Bind(i, p) /\ Step(t, "compare")
       ELSE Go(t, NextOf(t, thr[t].todo)) /\ UNCHANGED <<byPath, byId>>
    /\ UNCHANGED <<heap, tabs, vfs, workers, used, open, texts, ops, tangled, smeared>>

\* Mutant: the revision alone decides, and an edit may keep it.
UnchangedRevision(t) == Tab(thr[t].id).rev = thr[t].rev

\* The buffer is still the one that was read.
Unchanged(t) == Tab(thr[t].id).rev = thr[t].rev /\ Tab(thr[t].id).text = thr[t].text

\* The compare-and-swap, under the map's write lock and the state lock.  The
\* new TabState is loose, and clean only after Save As at the saved revision;
\* kind, conflict and visibility are those of the snapshot.
MoveCompares(t) ==
    /\ At(t, "move", "compare")
    /\ LET i == thr[t].id IN
       \/ /\ i \notin Live
          /\ Go(t, NextOf(t, thr[t].todo))
          /\ UNCHANGED <<heap, tabs, tangled>>
       \/ /\ i \in Live /\ Unchanged(t) /\ Cardinality(Built) < MaxObj
          /\ InstallFor(i, [heap[thr[t].obj] EXCEPT
                               !.path = thr[t].path, !.ws = FALSE, !.rev = thr[t].rev, !.text = thr[t].text,
                               !.known = TRUE,
                               !.dirty = IF thr[t].saved = NoVersion THEN @ ELSE thr[t].saved # thr[t].rev])
          /\ Go(t, [thr[t] EXCEPT !.pc = "rekey", !.obj = Cardinality(Built) + 1])
          /\ UNCHANGED tangled
       \/ /\ i \in Live /\ ~Unchanged(t) /\ thr[t].tries + 1 < MaxAttempts
          /\ Go(t, [thr[t] EXCEPT !.pc = "next", !.todo = @ \union {<<i, thr[t].path>>}, !.tries = @ + 1])
          /\ UNCHANGED <<heap, tabs, tangled>>
       \/ /\ i \in Live /\ ~Unchanged(t) /\ thr[t].tries + 1 = MaxAttempts
          /\ Go(t, NextOf(t, thr[t].todo))
          /\ tangled' = tangled \union {i}
          /\ UNCHANGED <<heap, tabs>>
    /\ UNCHANGED <<byPath, byId, vfs, workers, used, open, texts, ops, smeared>>

\* Mutant: the entry under the old path stays.
MoveAdds(t) ==
    /\ At(t, "move", "rekey")
    /\ vfs' = Put(vfs, thr[t].path, thr[t].text)
    /\ Step(t, "rotate")
    /\ UNCHANGED <<heap, tabs, byPath, byId, workers, used, open, texts, ops, tangled, smeared>>

MoveRekeys(t) ==
    /\ At(t, "move", "rekey")
    /\ LET kept == IF thr[t].old = thr[t].path THEN vfs ELSE Put(vfs, thr[t].old, NoVersion) IN
       vfs' = Put(kept, thr[t].path, thr[t].text)
    /\ Step(t, "rotate")
    /\ UNCHANGED <<heap, tabs, byPath, byId, workers, used, open, texts, ops, tangled, smeared>>

-----------------------------------------------------------------------------
(* The workspace opens or closes, or its compile root moves.                *)

\* open_path_as_workspace, close_workspace: reclassify_documents at their end.
SwitchWorkspace(t) ==
    /\ Begin(t)
    /\ open' = ~open
    /\ Go(t, Reclassify)
    /\ UNCHANGED <<heap, tabs, byPath, byId, vfs, workers, used, texts, tangled, smeared>>

\* rebuild_workspace_worlds, on the watcher's thread
MoveRoot(t) ==
    /\ Begin(t) /\ open /\ Live # {}
    /\ Go(t, [Idle EXCEPT !.op = "rebuild", !.pc = "next", !.todo = Live])
    /\ UNCHANGED <<heap, tabs, byPath, byId, vfs, workers, used, open, texts, tangled, smeared>>

\* reclassified_origin and snapshot_workspace_tab: which documents are concerned.
Concerned(t, i) ==
    /\ i \in Live /\ Tab(i).path # NoPath
    /\ IF thr[t].op = "reclassify" THEN Tab(i).ws # Anchored(Tab(i).path) ELSE Tab(i).ws

BatchSnapshots(t, i) ==
    /\ thr[t].op \in {"reclassify", "rebuild"} /\ thr[t].pc = "next" /\ i \in thr[t].todo /\ Again(t, i)
    /\ IF Concerned(t, i)
       THEN /\ Go(t, [thr[t] EXCEPT !.pc = IF thr[t].op = "rebuild" THEN "compare" ELSE "bind",
                                    !.id = i, !.path = Tab(i).path, !.obj = tabs[i],
                                    !.text = Tab(i).text, !.rev = Tab(i).rev,
                                    !.todo = @ \ {i}])
            /\ Meet(t, i, {Tab(i).path})
       ELSE Go(t, NextOf(t, thr[t].todo \ {i})) /\ UNCHANGED <<tangled, smeared>>
    /\ UNCHANGED <<heap, tabs, byPath, byId, vfs, workers, used, open, texts, ops>>

\* reclassify_one binds the same path again, for an id that may be closed by now.
ReclassifyBinds(t) ==
    /\ At(t, "reclassify", "bind")
    /\ LET i == thr[t].id IN
       IF Free(i, thr[t].path) THEN Bind(i, thr[t].path) /\ Step(t, "swap")
       ELSE Go(t, NextOf(t, thr[t].todo)) /\ UNCHANGED <<byPath, byId>>
    /\ UNCHANGED <<heap, tabs, vfs, workers, used, open, texts, ops, tangled, smeared>>

\* What a world built for the thread's snapshot holds.
Rebuilt(t, ws) == [heap[thr[t].obj] EXCEPT !.text = thr[t].text, !.rev = thr[t].rev, !.ws = ws]

\* swap_world compares nothing.
ReclassifySwaps(t) ==
    /\ At(t, "reclassify", "swap") /\ Cardinality(Built) < MaxObj
    /\ InstallFor(thr[t].id, Rebuilt(t, Anchored(thr[t].path)))
    /\ Go(t, [thr[t] EXCEPT !.pc = "rotate", !.obj = Cardinality(Built) + 1])
    /\ UNCHANGED <<byPath, byId, vfs, workers, used, open, texts, ops, tangled, smeared>>

\* cas_swap_world: as MoveCompares, but a document that keeps changing is left
\* as it is, with nothing else done.
RebuildCompares(t) ==
    /\ At(t, "rebuild", "compare")
    /\ LET i == thr[t].id IN
       \/ /\ i \in Live /\ Unchanged(t) /\ Cardinality(Built) < MaxObj
          /\ InstallFor(i, Rebuilt(t, TRUE))
          /\ Go(t, [thr[t] EXCEPT !.pc = "rotate", !.obj = Cardinality(Built) + 1])
       \/ /\ i \in Live /\ ~Unchanged(t) /\ thr[t].tries + 1 < MaxAttempts
          /\ Go(t, [thr[t] EXCEPT !.pc = "next", !.todo = @ \union {i}, !.tries = @ + 1])
          /\ UNCHANGED <<heap, tabs>>
       \/ /\ i \in Live => ~Unchanged(t) /\ thr[t].tries + 1 = MaxAttempts
          /\ Go(t, NextOf(t, thr[t].todo))
          /\ UNCHANGED <<heap, tabs>>
    /\ UNCHANGED <<byPath, byId, vfs, workers, used, open, texts, ops, tangled, smeared>>

-----------------------------------------------------------------------------
(* Closing.                                                                 *)

\* hard_close: the worker and the in-memory file first
HardClose(t, i) ==
    /\ Begin(t) /\ i \in Live
    /\ workers' = [workers EXCEPT ![i] = 0]
    /\ vfs' = Put(vfs, Tab(i).path, NoVersion)
    /\ Go(t, [Idle EXCEPT !.op = "close", !.pc = "remove", !.id = i, !.path = Tab(i).path])
    /\ Meet(t, i, {Tab(i).path})
    /\ UNCHANGED <<heap, tabs, byPath, byId, used, open, texts>>

CloseRemoves(t) ==
    /\ At(t, "close", "remove")
    /\ IF thr[t].id \in Live
       THEN tabs' = [tabs EXCEPT ![thr[t].id] = 0] /\ Step(t, "unregister")
       ELSE Go(t, Idle) /\ UNCHANGED tabs
    /\ UNCHANGED <<heap, byPath, byId, vfs, workers, used, open, texts, ops, tangled, smeared>>

Unregister(t) ==
    /\ thr[t].op \in {"close", "delete"} /\ thr[t].pc = "unregister"
    /\ Unbind(thr[t].id)
    /\ Go(t, NextOf(t, thr[t].todo))
    /\ UNCHANGED <<heap, tabs, vfs, workers, used, open, texts, ops, tangled, smeared>>

\* block_on_unsaved_or_conflicted: hidden documents count too.  Then the entry
\* goes to the trash.
Delete(t, dead) ==
    /\ Begin(t)
    /\ LET affected == {i \in Live : Tab(i).path \in dead} IN
       /\ affected # {}
       /\ \A i \in affected : ~Tab(i).dirty /\ ~Tab(i).missing
       /\ Go(t, [Idle EXCEPT !.op = "delete", !.pc = "next", !.todo = affected])
    /\ UNCHANGED <<heap, tabs, byPath, byId, vfs, workers, used, open, texts, tangled, smeared>>

\* hard_close_if_clean: check and removal under the map's write lock.
DeleteCloses(t, i) ==
    /\ At(t, "delete", "next") /\ i \in thr[t].todo
    /\ \/ /\ i \in Live /\ ~Tab(i).dirty /\ ~Tab(i).missing
          /\ tabs' = [tabs EXCEPT ![i] = 0]
          /\ Go(t, [thr[t] EXCEPT !.pc = "teardown", !.id = i, !.path = Tab(i).path, !.todo = @ \ {i}])
          /\ Meet(t, i, {Tab(i).path})
          /\ UNCHANGED heap
       \/ /\ i \in Live /\ (Tab(i).dirty \/ Tab(i).missing)
          /\ heap' = [heap EXCEPT ![tabs[i]].missing = TRUE]
          /\ Go(t, NextOf(t, thr[t].todo \ {i}))
          /\ UNCHANGED <<tabs, tangled, smeared>>
       \/ /\ i \notin Live
          /\ Go(t, NextOf(t, thr[t].todo \ {i}))
          /\ UNCHANGED <<heap, tabs, tangled, smeared>>
    /\ UNCHANGED <<byPath, byId, vfs, workers, used, open, texts, ops>>

\* drop_vfs_for_canon, with the path read before the removal
Teardown(t) ==
    /\ At(t, "delete", "teardown")
    /\ workers' = [workers EXCEPT ![thr[t].id] = 0]
    /\ vfs' = Put(vfs, thr[t].path, NoVersion)
    /\ Step(t, "unregister")
    /\ UNCHANGED <<heap, tabs, byPath, byId, used, open, texts, ops, tangled, smeared>>

TabsNext ==
    \/ \E t \in Threads :
          \/ \E p \in Paths : OpenFound(t, p) \/ Delete(t, {p})
          \/ \E i \in Ids : \E p \in Paths \union {NoPath} : OpenNew(t, i, p)
          \/ Register(t) \/ Insert(t) \/ Rotate(t) \/ Publish(t)
          \/ \E i \in Ids : EditClones(t, i, "edit") \/ EditClones(t, i, "swap")
          \/ \E bump \in {0, 1} : EditSets(t, bump)
          \/ EditPublishes(t)
          \/ \E i \in Ids : SetVisibility(t, i, TRUE) \/ SetVisibility(t, i, FALSE)
          \/ \E i \in Ids, p \in Paths : SaveAs(t, i, p) \/ MoveSnapshots(t, i, p)
          \/ \E f \in Renames : Rename(t, f)
          \/ MoveBinds(t) \/ MoveCompares(t) \/ MoveRekeys(t)
          \/ SwitchWorkspace(t) \/ MoveRoot(t)
          \/ \E i \in Ids : BatchSnapshots(t, i)
          \/ ReclassifyBinds(t) \/ ReclassifySwaps(t) \/ RebuildCompares(t)
          \/ \E i \in Ids : HardClose(t, i) \/ DeleteCloses(t, i)
          \/ CloseRemoves(t) \/ Unregister(t) \/ Teardown(t)
    \/ \E i \in Ids : Saved(i)

TabsSpec == TabsInit /\ [][TabsNext]_tabVars

-----------------------------------------------------------------------------

\* Types; a revision never runs ahead of the texts that were typed.
TabsTypeOK ==
    /\ Built = 1..Cardinality(Built) /\ Cardinality(Built) <= MaxObj
    /\ \A n \in Built :
          /\ heap[n].path \in Paths \union {NoPath}
          /\ heap[n].text \in 0..MaxText /\ heap[n].rev \in 0..MaxText
          /\ \A f \in {"ws", "dirty", "hidden", "missing", "known"} : heap[n][f] \in BOOLEAN
    /\ tabs \in [Ids -> Built \union {0}] /\ workers \in [Ids -> Built \union {0}]
    /\ byPath \in [Paths -> Ids \union {NoId}] /\ byId \in [Ids -> Paths \union {NoPath, NoId}]
    /\ vfs \in [Paths -> NoVersion..MaxText]
    /\ used \subseteq Ids /\ tangled \subseteq used /\ smeared \subseteq used \union {NoId}
    /\ \A i \in Live : i \in used

AllIdle == \A t \in Threads : thr[t] = Idle

\* One document per canonical path (registry.rs): two opens, a Save As and a
\* rename race for a path and one of them gets it.  Between rebind's registry
\* step and its swap, through all its attempts, the tab still has the path it
\* leaves.
OneDocumentPerPath ==
    \A i, j \in Live \ tangled :
        i # j /\ Tab(i).path = Tab(j).path /\ Tab(i).path # NoPath =>
            \E t \in Threads : /\ thr[t].op = "move" /\ thr[t].id \in {i, j}
                               /\ byId[thr[t].id] = thr[t].path

\* When nothing is under way, the four stores tell the same story: a registered
\* id is open at its path and compiled from its own TabState, and the
\* in-memory files are the buffers of the open documents.
StoresAgree ==
    AllIdle =>
        /\ \A i \in Live \ tangled :
              /\ byId[i] = Tab(i).path /\ workers[i] = tabs[i]
              /\ Tab(i).path # NoPath => byPath[Tab(i).path] = i
        /\ \A i \in used \ (Live \union tangled) : byId[i] = NoId /\ workers[i] = 0
        /\ \A i \in Live \ smeared : Tab(i).path # NoPath => vfs[Tab(i).path] = Tab(i).text
        /\ smeared = {} => \A p \in Paths : vfs[p] # NoVersion => byPath[p] # NoId

\* A world that is built outside the locks replaces the text it was built from
\* and no other: an edit made meanwhile is not undone, whatever the revision
\* it came with (rebind_path_inner, cas_swap_world).
SwapKeepsText ==
    [][\A t \in Threads : MoveCompares(t) \/ RebuildCompares(t) =>
          \A i \in Live : tabs'[i] # tabs[i] => heap'[tabs'[i]].text = Tab(i).text]_tabVars

\* An edit either precedes the check of hard_close_if_clean or finds the tab
\* gone: no text is accepted into a TabState that left the map.
EditsReachTheMap ==
    [][\A t \in Threads : At(t, "edit", "set") /\ thr'[t].pc = "publish" => thr[t].obj = tabs[thr[t].id]]_tabVars
=============================================================================
