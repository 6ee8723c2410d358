------------------------------ MODULE Packages ------------------------------
(***************************************************************************)
(* The package service: installs, removals and template copies of one      *)
(* version of one package, as commands that run at the same time, and the  *)
(* index of all packages with its cache on disk and in memory.             *)
(***************************************************************************)
EXTENDS Integers, FiniteSets

CONSTANTS
    Commands,       \* package_install, package_uninstall and package_init_template under way
    Template,       \* the files of its template, beside the manifest
    Readers,        \* package_list_catalog and package_refresh_index under way
    MaxIndex        \* bound on the versions of the index that the registry serves

VARIABLES
    cached,     \* the package's directory: whether it exists, and its files
    inFlight,   \* in_flight holds InProgress for it
    command,    \* every command: its step, overwrite, plan, open tabs at the plan, the file at hand, files copied
    dest,       \* the folder the template goes to: whose file is where, or part of a copy
    open,       \* files of it that are open in a tab
    removals,   \* history: an uninstall has touched the directory
    idxDisk,    \* the cache file of the index: 0 none, n a version, -1 not an index
    idxMem,     \* the snapshot
    reader,     \* every use of the index: its step and what it holds
    served,     \* the version the registry serves
    overlapped  \* history: two uses of the index overlapped, or one got no index

packageVars == <<cached, inFlight, command, dest, open, removals>>
indexVars == <<idxDisk, idxMem, reader, served, overlapped>>

Manifest == "typst.toml"
Whole == [exists |-> TRUE, files |-> Template \union {Manifest}]
Absent == [exists |-> FALSE, files |-> {}]

PackagesInit ==
    /\ cached \in {Whole, Absent} /\ inFlight = FALSE
    /\ command = [c \in Commands |-> [step |-> "off", init |-> FALSE, overwrite |-> FALSE, plan |-> {}, opened |-> {}, at |-> {}, copied |-> {}]]
    /\ dest \in [Template -> {"none", "user"}] /\ open = {} /\ removals = FALSE

IndexInit ==
    /\ idxDisk \in {0, 1} /\ idxMem = 0 /\ served = 1 /\ overlapped = FALSE
    /\ reader = [r \in Readers |-> [step |-> "idle", v |-> 0]]

-----------------------------------------------------------------------------
(* Installing.                                                             *)

Is(c, step) == command[c].step = step
To(c, step) == command' = [command EXCEPT ![c].step = step]

\* install_blocking: the second caller of a package returns at once.
Enter(c, init, overwrite) ==
    /\ Is(c, "off")
    /\ command' = [command EXCEPT ![c] = [@ EXCEPT !.init = init, !.overwrite = overwrite,
                                          !.step = IF ~inFlight THEN "obtain" ELSE IF init THEN "plan" ELSE "ok"]]
    /\ inFlight' = TRUE
    /\ UNCHANGED <<cached, dest, open, removals>>

\* Mutant: an error leaves the entry.
ObtainKeepsEntry(c) ==
    /\ Is(c, "obtain")
    /\ \/ cached' = (IF cached.exists THEN cached ELSE Whole) /\ inFlight' = FALSE /\ To(c, IF command[c].init THEN "plan" ELSE "ok")
       \/ ~cached.exists /\ To(c, "error") /\ UNCHANGED <<cached, inFlight>>
    /\ UNCHANGED <<dest, open, removals>>

\* SystemPackages::obtain takes a directory that exists for the package, or
\* downloads it and moves it into place.
Obtain(c) ==
    /\ Is(c, "obtain") /\ inFlight' = FALSE
    /\ \/ cached' = (IF cached.exists THEN cached ELSE Whole) /\ To(c, IF command[c].init THEN "plan" ELSE "ok")
       \/ ~cached.exists /\ To(c, "error") /\ UNCHANGED cached
    /\ UNCHANGED <<dest, open, removals>>

\* A compile that imports the package obtains it by itself.
CompileObtains ==
    /\ ~cached.exists /\ cached' = Whole
    /\ UNCHANGED <<inFlight, command, dest, open, removals>>

\* uninstall: remove_dir_all, one file after the other.
Uninstall(c) ==
    /\ Is(c, "off") /\ removals' = (removals \/ cached.exists)
    /\ To(c, IF cached.exists THEN "remove" ELSE "error")
    /\ UNCHANGED <<cached, inFlight, dest, open>>

Remove(c) ==
    /\ Is(c, "remove")
    /\ \/ To(c, "error") /\ UNCHANGED cached
       \/ \E f \in cached.files : cached' = [cached EXCEPT !.files = @ \ {f}] /\ UNCHANGED command
       \/ cached.files = {} /\ cached' = Absent /\ To(c, "ok")
    /\ UNCHANGED <<inFlight, dest, open, removals>>

-----------------------------------------------------------------------------
(* Templates.                                                              *)

\* template_init_plan: the manifest is read and the files are listed.
Plan(c) ==
    /\ Is(c, "plan")
    /\ IF Manifest \in cached.files /\ cached.files \intersect Template # {}
       THEN command' = [command EXCEPT ![c].step = "check", ![c].plan = cached.files \intersect Template]
       ELSE To(c, "error")
    /\ UNCHANGED <<cached, inFlight, dest, open, removals>>

\* docs_at_paths: no file of the plan is open.
CheckOpen(c) ==
    /\ Is(c, "check")
    /\ command' = [command EXCEPT ![c].step = IF command[c].plan \intersect open = {} THEN "list" ELSE "error",
                                  ![c].opened = open]
    /\ UNCHANGED <<cached, inFlight, dest, open, removals>>

\* copy_tree walks the source again.
List(c) ==
    /\ Is(c, "list")
    /\ command' = [command EXCEPT ![c].step = "copy", ![c].plan = cached.files \intersect Template]
    /\ UNCHANGED <<cached, inFlight, dest, open, removals>>

\* One file after the other; the first that is in the way ends it.
Copy(c) ==
    /\ Is(c, "copy")
    /\ \/ command[c].plan = {} /\ To(c, "ok")
       \/ \E f \in command[c].plan :
             /\ dest[f] = "none" \/ command[c].overwrite
             /\ command' = [command EXCEPT ![c].step = "create", ![c].plan = @ \ {f}, ![c].at = {f}]
       \/ command[c].plan # {} /\ To(c, "error")
    /\ UNCHANGED <<cached, inFlight, dest, open, removals>>

\* fs::copy opens the source, which may be gone, and creates or truncates the
\* target, whatever has come there by now, ...
CreateTarget(c) ==
    /\ Is(c, "create")
    /\ \/ \E f \in command[c].at :
             /\ f \in cached.files /\ dest' = [dest EXCEPT ![f] = "part"]
             /\ To(c, "write")
       \/ command' = [command EXCEPT ![c].step = "error", ![c].at = {}] /\ UNCHANGED dest
    /\ UNCHANGED <<cached, inFlight, open, removals>>

\* ... and writes it; only what was written to the end is on the list.
WriteTarget(c) ==
    /\ Is(c, "write")
    /\ \/ \E f \in command[c].at :
             /\ dest' = [dest EXCEPT ![f] = "template"]
             /\ command' = [command EXCEPT ![c].step = "copy", ![c].at = {}, ![c].copied = @ \union {f}]
       \/ To(c, "error") /\ UNCHANGED dest
    /\ UNCHANGED <<cached, inFlight, open, removals>>

\* The user opens a file of the folder.
OpenFile(f) ==
    /\ dest[f] # "none" /\ f \notin open /\ open' = open \union {f}
    /\ UNCHANGED <<cached, inFlight, command, dest, removals>>

PackagesNext ==
    \/ \E c \in Commands :
          \/ \E init, overwrite \in BOOLEAN : Enter(c, init, overwrite)
          \/ Obtain(c) \/ Uninstall(c) \/ Remove(c)
          \/ Plan(c) \/ CheckOpen(c) \/ List(c)
          \/ Copy(c) \/ CreateTarget(c) \/ WriteTarget(c)
    \/ CompileObtains
    \/ \E f \in Template : OpenFile(f)

PackagesSpec == PackagesInit /\ [][PackagesNext]_packageVars

-----------------------------------------------------------------------------
(* The index.                                                              *)

Quiet == \A r \in Readers : reader[r].step = "idle"
Holds(r, step, v) == reader' = [reader EXCEPT ![r] = [step |-> step, v |-> v]]

\* list_catalog without a snapshot reads the file ...
LoadCached(r) ==
    /\ reader[r].step = "idle" /\ idxMem = 0 /\ idxDisk # 0
    /\ Holds(r, "loaded", idxDisk)
    /\ overlapped' = (overlapped \/ ~Quiet)
    /\ UNCHANGED <<idxDisk, idxMem, served>>

\* ... and makes it the snapshot, if it parses.
StoreLoaded(r) ==
    /\ reader[r].step = "loaded"
    /\ idxMem' = IF reader[r].v > 0 THEN reader[r].v ELSE idxMem
    /\ Holds(r, "idle", 0)
    /\ UNCHANGED <<idxDisk, served, overlapped>>

\* refresh: what was fetched need not be an index.
Fetch(r) ==
    /\ reader[r].step = "idle"
    /\ \E v \in {served, -1} :
          /\ Holds(r, "fetched", v)
          /\ overlapped' = (overlapped \/ ~Quiet \/ v < 0)
    /\ UNCHANGED <<idxDisk, idxMem, served>>

\* Mutant: the snapshot is replaced although the file could not be written.
WriteAnyway(r) ==
    /\ reader[r].step = "fetched"
    /\ idxDisk' \in {idxDisk, reader[r].v}
    /\ Holds(r, "written", reader[r].v)
    /\ UNCHANGED <<idxMem, served, overlapped>>

\* It is written before it is parsed.
WriteIndex(r) ==
    /\ reader[r].step = "fetched"
    /\ \/ Holds(r, "idle", 0) /\ UNCHANGED idxDisk
       \/ Holds(r, "written", reader[r].v) /\ idxDisk' = reader[r].v
    /\ UNCHANGED <<idxMem, served, overlapped>>

ParseIndex(r) ==
    /\ reader[r].step = "written"
    /\ idxMem' = IF reader[r].v > 0 THEN reader[r].v ELSE idxMem
    /\ Holds(r, "idle", 0)
    /\ UNCHANGED <<idxDisk, served, overlapped>>

\* The registry publishes, or the program is started again.
Publish ==
    /\ served < MaxIndex /\ served' = served + 1
    /\ UNCHANGED <<idxDisk, idxMem, reader, overlapped>>

StartAgain ==
    /\ idxMem # 0 /\ idxMem' = 0
    /\ reader' = [r \in Readers |-> [step |-> "idle", v |-> 0]]
    /\ UNCHANGED <<idxDisk, served, overlapped>>

IndexNext ==
    \/ \E r \in Readers : LoadCached(r) \/ StoreLoaded(r) \/ Fetch(r) \/ WriteIndex(r) \/ ParseIndex(r)
    \/ Publish \/ StartAgain

IndexSpec == IndexInit /\ [][IndexNext]_indexVars

-----------------------------------------------------------------------------

\* The entry of the package in the map says exactly that one command is
\* obtaining it: none is kept out for ever, and no two download it.
InstallsAreAlone ==
    Cardinality({c \in Commands : Is(c, "obtain")}) = (IF inFlight THEN 1 ELSE 0)

\* A template command that succeeds has copied the whole template, unless an
\* uninstall took files away under it.
TemplateIsWhole ==
    \A c \in Commands : command[c].init /\ Is(c, "ok") /\ ~removals => command[c].copied = Template

\* Unless an uninstall changed the package in between, a file that was open when
\* the command looked is not touched by it, not even in part.
OpenFilesKept ==
    \A c \in Commands : ~removals => (command[c].at \union command[c].copied) \intersect command[c].opened = {}

\* Part of a file is left only where a command is writing, or has failed, and it
\* is one file of each: that one is not on the list that a failing command
\* reports, and what is on a list is whole unless another command began it again.
TornFilesAreKnown ==
    /\ \A c \in Commands, f, g \in Template : f \in command[c].at /\ g \in command[c].at => f = g
    /\ \A f \in Template : dest[f] = "part" => \E c \in Commands : f \in command[c].at /\ (Is(c, "write") \/ Is(c, "error"))
    /\ \A f \in Template : dest[f] \notin {"part", "template"} => \A c \in Commands : f \notin command[c].copied

\* Installs and templates: one download, a whole copy, no open file under it, and
\* no torn file but the one a command failed on.
PackagesAreWhole == InstallsAreAlone /\ TemplateIsWhole /\ OpenFilesKept /\ TornFilesAreKnown

\* Uses of the index that do not overlap, of indexes that parse, leave the
\* file and the snapshot the same.
IndexAgrees == ~overlapped /\ Quiet /\ idxMem # 0 => idxMem = idxDisk
=============================================================================
