------------------------------ MODULE Workspace ------------------------------
(***************************************************************************)
(* The open workspace and its project config (.typstpro): opening,         *)
(* switching and closing, the config commands, and the watcher's thread    *)
(* that reads the file again after every change of it.  Every command is a *)
(* sequence of steps, each under one lock or of one use of the disk, so    *)
(* that a thread holds what it is still to do.                             *)
(***************************************************************************)
EXTENDS Integers, Sequences, Functions

CONSTANTS
    Threads,        \* threads of the commands and of the watchers
    Roots,          \* folders; the document lies in Home
    Home,
    Mains, Dirs,    \* main files and [compile].root values that are written
    MaxChanges      \* bound: workspaces opened and config files changed

\* No folder is named by the empty string, and no main file by the mark of a
\* config that cannot be read.
ASSUME WorkspaceAssumption ==
    Home \in Roots /\ "" \notin Roots /\ "corrupt" \notin Mains /\ MaxChanges \in Nat

VARIABLES
    ws,         \* WorkspaceService: root, resolver, id, watcher and what it watches; "" and 0 for None
    anchor,     \* what every FileResolver is anchored at
    disk,       \* .typstpro of every folder
    cache,      \* ProjectConfigService.config
    shown,      \* the config in the last project_config_changed
    flag,       \* watcher_failed
    world,      \* the document's: the workspace it belongs to, its resolver, the root it was built for
    changed,    \* the live watcher has .typstpro in its buffer
    thread,     \* what each thread is still to do, and what it holds
    changes,
    crossed,    \* history: a switch, or a change of the file, met a command under way
    smeared     \* history: a root moved while another thread built worlds

workspaceVars == <<ws, anchor, disk, cache, shown, flag, world, changed, thread, changes, crossed, smeared>>

\* A config is its main file and its [compile].root; a directory may be there
\* ("sub"), resolve to nothing or to outside ("gone"), or not be inside the
\* workspace as written ("out").
Configs == [main : Mains, dir : Dirs]
None    == [main |-> "none", dir |-> "top"]
Corrupt == [main |-> "corrupt", dir |-> "top"]

\* validate_workspace_relative_path
Escapes(config) == config.dir = "out"

\* read_and_parse: what cannot be read is no config, what escapes is dropped.
Parsed(text) ==
    IF text = Corrupt THEN None ELSE IF Escapes(text) THEN [text EXCEPT !.dir = "top"] ELSE text

\* resolve_effective_root
Effective(root, config) == <<root, IF config.dir = "sub" THEN "sub" ELSE "top">>

Loose == [owner |-> 0, resolver |-> 0, at |-> <<Home, "top">>]
Idle  == [todo |-> <<>>, root |-> "", config |-> None, built |-> Loose, guard |-> 0]

WorkspaceInit ==
    /\ ws = [root |-> "", resolver |-> 0, id |-> 0, watcher |-> 0, watched |-> ""]
    /\ anchor = <<>> /\ cache = None /\ shown = None /\ flag = FALSE /\ world = Loose
    /\ disk = [r \in Roots |-> None] /\ changed = FALSE
    /\ thread = [t \in Threads |-> Idle]
    /\ changes = 0 /\ crossed = FALSE /\ smeared = FALSE

-----------------------------------------------------------------------------
(* Threads and their steps.                                                *)

Busy(t) == thread[t].todo # <<>>
Others(t) == {u \in Threads \ {t} : Busy(u)}
AtRest == \A t \in Threads : ~Busy(t)

\* replace: the cache, then on_change, which re-anchors the resolver, builds
\* the worlds again if that moved it, and tells the frontend.
Replace == <<"store", "root of", "anchor", "emit">>
Opening == <<"set root", "set resolver", "set id", "unwatch", "watch", "read">> \o Replace
           \o <<"health", "reclassify", "swap">>
Closing == <<"unwatch", "unresolve", "unroot", "unid">> \o Replace \o <<"reclassify", "swap">>

At(t, step) == Busy(t) /\ Head(thread[t].todo) = step
Rest(t, steps) == IF steps = <<>> THEN Idle ELSE [thread[t] EXCEPT !.todo = steps]
Next(t) == Rest(t, Tail(thread[t].todo))
Does(t, record) == thread' = [thread EXCEPT ![t] = record]
Begin(t, record) == ~Busy(t) /\ Does(t, record)

\* A change of a watched file goes to the watcher's buffer, and meets the
\* commands that hold what they read or wrote before.
Held(but) == {u \in Threads \ but : Busy(u) /\ thread[u].guard = 0} # {}
Writes(but, root, text) ==
    /\ changes < MaxChanges /\ changes' = changes + 1
    /\ disk' = [disk EXCEPT ![root] = text]
    /\ changed' = (changed \/ (ws.watcher # 0 /\ root = ws.watched))
    /\ crossed' = (crossed \/ Held(but))

\* Some thread is still to do this.
Due(step) == \E u \in Threads : step \in Range(thread[u].todo)

\* An open or a close that nobody else is in the way of starts afresh.
Switches(t) == crossed' = (Others(t) # {}) /\ smeared' = (Others(t) # {})

-----------------------------------------------------------------------------
(* Opening and closing.                                                    *)

\* open_path_as_workspace peeks at the config for the resolver's first anchor;
\* a folder that is not there ends the command.
Open(t, root) ==
    /\ changes < MaxChanges /\ changes' = changes + 1
    /\ Begin(t, [Idle EXCEPT !.todo = Opening, !.root = root, !.config = Parsed(disk[root])])
    /\ Switches(t)
    /\ UNCHANGED <<ws, anchor, disk, cache, shown, flag, world, changed>>

SetRoot(t) ==
    /\ At(t, "set root") /\ ws' = [ws EXCEPT !.root = thread[t].root] /\ Does(t, Next(t))
    /\ UNCHANGED <<anchor, disk, cache, shown, flag, world, changed, changes, crossed, smeared>>

SetResolver(t) ==
    /\ At(t, "set resolver")
    /\ anchor' = Append(anchor, Effective(thread[t].root, thread[t].config))
    /\ ws' = [ws EXCEPT !.resolver = Len(anchor) + 1] /\ Does(t, Next(t))
    /\ UNCHANGED <<disk, cache, shown, flag, world, changed, changes, crossed, smeared>>

\* The serial number of its resolver stands for the fresh WorkspaceId.
SetId(t) ==
    /\ At(t, "set id") /\ ws' = [ws EXCEPT !.id = Len(anchor)] /\ Does(t, Next(t))
    /\ UNCHANGED <<anchor, disk, cache, shown, flag, world, changed, changes, crossed, smeared>>

\* Mutant: the watcher of the last workspace stays until there is a new one.
UnwatchLater(t) ==
    /\ At(t, "unwatch") /\ Does(t, Next(t))
    /\ UNCHANGED <<ws, anchor, disk, cache, shown, flag, world, changed, changes, crossed, smeared>>

\* The guard is dropped before the new one is made; a batch being delivered
\* is not waited for.
Unwatch(t) ==
    /\ At(t, "unwatch") /\ ws' = [ws EXCEPT !.watcher = 0, !.watched = ""] /\ changed' = FALSE /\ Does(t, Next(t))
    /\ UNCHANGED <<anchor, disk, cache, shown, flag, world, changes, crossed, smeared>>

\* A folder that cannot be watched is no error.
Watch(t) ==
    /\ At(t, "watch") /\ Does(t, Next(t))
    /\ \/ ws' = [ws EXCEPT !.watcher = Len(anchor), !.watched = ws.root] /\ changed' = FALSE
       \/ UNCHANGED <<ws, changed>>
    /\ UNCHANGED <<anchor, disk, cache, shown, flag, world, changes, crossed, smeared>>

Health(t) ==
    /\ At(t, "health") /\ flag' = (ws.watcher = 0) /\ Does(t, Next(t))
    /\ UNCHANGED <<ws, anchor, disk, cache, shown, world, changed, changes, crossed, smeared>>

\* close_workspace; reset caches no config and leaves the file alone.
Close(t) ==
    /\ Begin(t, [Idle EXCEPT !.todo = Closing]) /\ Switches(t)
    /\ UNCHANGED <<ws, anchor, disk, cache, shown, flag, world, changed, changes>>

Clear(t) ==
    /\ \/ At(t, "unresolve") /\ ws' = [ws EXCEPT !.resolver = 0]
       \/ At(t, "unroot") /\ ws' = [ws EXCEPT !.root = ""]
       \/ At(t, "unid") /\ ws' = [ws EXCEPT !.id = 0]
    /\ Does(t, Next(t))
    /\ UNCHANGED <<anchor, disk, cache, shown, flag, world, changed, changes, crossed, smeared>>

\* reclassified_origin; a document whose workspace changed is built anew ...
Reclassify(t) ==
    LET owner == IF ws.root = Home THEN ws.id ELSE 0 IN
    /\ At(t, "reclassify")
    /\ Does(t, IF owner = world.owner THEN Idle
               ELSE [Next(t) EXCEPT !.built = IF owner = 0 \/ ws.resolver = 0 THEN Loose
                                              ELSE [owner |-> owner, resolver |-> ws.resolver, at |-> anchor[ws.resolver]]])
    /\ UNCHANGED <<ws, anchor, disk, cache, shown, flag, world, changed, changes, crossed, smeared>>

\* ... and put in the place of the old one.
Swap(t) ==
    /\ At(t, "swap") /\ world' = thread[t].built /\ Does(t, Next(t))
    /\ UNCHANGED <<ws, anchor, disk, cache, shown, flag, changed, changes, crossed, smeared>>

-----------------------------------------------------------------------------
(* The config.                                                             *)

\* load, at the root the flush thread or the opening command found.
Read(t) ==
    LET root == IF thread[t].guard = 0 THEN ws.root ELSE thread[t].root IN
    /\ At(t, "read")
    /\ Does(t, IF root = "" THEN Rest(t, <<"health", "reclassify", "swap">>)
               ELSE [Next(t) EXCEPT !.config = Parsed(disk[root])])
    /\ UNCHANGED <<ws, anchor, disk, cache, shown, flag, world, changed, changes, crossed, smeared>>

Store(t) ==
    /\ At(t, "store") /\ cache' = thread[t].config /\ Does(t, Next(t))
    /\ UNCHANGED <<ws, anchor, disk, shown, flag, world, changed, changes, crossed, smeared>>

\* reanchor_compile_root: the root first ...
RootOf(t) ==
    /\ At(t, "root of") /\ Does(t, [Next(t) EXCEPT !.root = ws.root])
    /\ UNCHANGED <<ws, anchor, disk, cache, shown, flag, world, changed, changes, crossed, smeared>>

\* ... then the resolver; only a root that differs has rebuild_workspace_worlds follow.
Anchor(t) ==
    LET to == Effective(thread[t].root, thread[t].config)
        moves == thread[t].root # "" /\ ws.resolver # 0 /\ anchor[ws.resolver] # to IN
    /\ At(t, "anchor")
    /\ anchor' = IF moves THEN [anchor EXCEPT ![ws.resolver] = to] ELSE anchor
    /\ Does(t, IF moves THEN [Next(t) EXCEPT !.todo = <<"rebuild", "swap">> \o @] ELSE Next(t))
    /\ smeared' = (smeared \/ (moves /\ \E u \in Others(t) : At(u, "rebuild") \/ At(u, "swap")))
    /\ UNCHANGED <<ws, disk, cache, shown, flag, world, changed, changes, crossed>>

\* A world that belongs to a workspace, this one or another, is built anew.
Rebuild(t) ==
    /\ At(t, "rebuild")
    /\ Does(t, IF world.owner = 0 \/ ws.resolver = 0 THEN Rest(t, Tail(Tail(thread[t].todo)))
               ELSE [Next(t) EXCEPT !.built = [world EXCEPT !.resolver = ws.resolver, !.at = anchor[ws.resolver]]])
    /\ UNCHANGED <<ws, anchor, disk, cache, shown, flag, world, changed, changes, crossed, smeared>>

Emit(t) ==
    /\ At(t, "emit") /\ shown' = thread[t].config /\ Does(t, Next(t))
    /\ UNCHANGED <<ws, anchor, disk, cache, flag, world, changed, changes, crossed, smeared>>

\* validate_config_paths
Accepted(config) == ~Escapes(config)

\* set_project_config and clear_project_config at the open root: what escapes
\* the workspace is refused.
Set(t, config) ==
    /\ ws.root # "" /\ Accepted(config)
    /\ Begin(t, [Idle EXCEPT !.todo = <<"write">> \o Replace, !.root = ws.root, !.config = config])
    /\ crossed' = (crossed \/ Due("reclassify"))
    /\ UNCHANGED <<ws, anchor, disk, cache, shown, flag, world, changed, changes, smeared>>

\* set_main_file: the cached config with another main file.
SetMain(t, main) ==
    Set(t, IF cache = None THEN [main |-> main, dir |-> "top"] ELSE [cache EXCEPT !.main = main])

\* Nothing is cached or told when the file cannot be written.
Write(t) ==
    /\ At(t, "write")
    /\ \/ Writes({t}, thread[t].root, thread[t].config) /\ Does(t, Next(t))
       \/ Does(t, Idle) /\ UNCHANGED <<disk, changed, changes, crossed>>
    /\ UNCHANGED <<ws, anchor, cache, shown, flag, world, smeared>>

\* Somebody edits the file.
Edit(root, text) ==
    /\ text # disk[root] /\ Writes({}, root, text)
    /\ UNCHANGED <<ws, anchor, cache, shown, flag, world, thread, smeared>>

\* The flush thread of a watcher empties its buffer and delivers; what it
\* watches is compared with the root of that moment.
Flush(t) ==
    /\ ws.watcher # 0 /\ changed /\ \A u \in Threads : thread[u].guard # ws.watcher
    /\ changed' = FALSE /\ crossed' = (crossed \/ Due("unwatch"))
    /\ Begin(t, IF ws.root # ws.watched THEN Idle
                ELSE [Idle EXCEPT !.todo = <<"read">> \o Replace, !.root = ws.root, !.guard = ws.watcher])
    /\ UNCHANGED <<ws, anchor, disk, cache, shown, flag, world, changes, smeared>>

WorkspaceNext ==
    \/ \E t \in Threads :
          \/ \E root \in Roots : Open(t, root)
          \/ SetRoot(t) \/ SetResolver(t) \/ SetId(t) \/ Unwatch(t) \/ Watch(t) \/ Health(t)
          \/ Close(t) \/ Clear(t) \/ Reclassify(t) \/ Swap(t)
          \/ Read(t) \/ Store(t) \/ RootOf(t) \/ Anchor(t) \/ Rebuild(t) \/ Emit(t)
          \/ \E config \in Configs \union {None} : Set(t, config)
          \/ \E main \in Mains : SetMain(t, main)
          \/ Write(t) \/ Flush(t)
    \/ \E root \in Roots, text \in Configs \union {None, Corrupt} : Edit(root, text)

WorkspaceSpec == WorkspaceInit /\ [][WorkspaceNext]_workspaceVars

-----------------------------------------------------------------------------

\* Once nobody is at work and the watcher has delivered, the cached config, the
\* frontend's and the root the resolver is anchored at are those of the file of
\* the open folder: a set and the watcher's readings of it may overlap in any
\* order, and a watcher that does not run is told of.
ConfigSettles ==
    AtRest /\ ~crossed =>
        /\ ws.root = "" => cache = None /\ shown = None
        /\ ws.root # "" /\ ~flag /\ ~changed =>
              /\ ws.watched = ws.root
              /\ cache = Parsed(disk[ws.root]) /\ shown = cache
              /\ anchor[ws.resolver] = Effective(ws.root, cache)

\* At rest the document's world belongs to the open workspace and was built for
\* the root its resolver has now, or to none if the file is outside.
WorldSettles ==
    AtRest /\ ~crossed /\ ~smeared =>
        world = IF ws.root # Home THEN Loose
                ELSE [owner |-> ws.id, resolver |-> ws.resolver, at |-> anchor[ws.resolver]]

\* At rest the config, the resolver and the document's world are those of the
\* folder that is open and of its file.
WorkspaceSettles == ConfigSettles /\ WorldSettles
=============================================================================
