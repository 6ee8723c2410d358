------------------------------ MODULE Entries ------------------------------
(***************************************************************************)
(* The workspace's files as the Explorer and the entry commands see and    *)
(* change them: WorkspaceService's create, rename, copy and delete, the    *)
(* paths they accept, and the lists of directories the Explorer keeps.     *)
(* A path is a sequence of names from the root of the file system; the     *)
(* workspace is Root.  A command and the refresh of lists after it are one *)
(* step.                                                                   *)
(***************************************************************************)
EXTENDS Integers, SequencesExt, FiniteSetsExt, TLC

CONSTANTS
    Trees,     \* file systems to begin with: functions from paths to entries
    Inputs,    \* relative paths that are typed or sent, ".." among the names
    Root,
    MaxDepth,  \* longest path the file system takes
    MaxCommands    \* bound: commands and changes by other programs

VARIABLES
    tree,      \* the file system
    listing,   \* what the Explorer has read: directory |-> set of entries' paths
    last,      \* the last command
    commands

entryVars == <<tree, listing, last, commands>>

NoPath   == <<"?">>
Dir      == [kind |-> "dir", data |-> <<>>]
File(c)  == [kind |-> "file", data |-> <<c>>]
LinkTo(p) == [kind |-> "link", data |-> p]
Nothing  == [op |-> "none", from |-> <<>>, to |-> <<>>, ok |-> FALSE]

Under(base, p) == IsPrefix(base, p)
WithEntry(t, p, e) == (p :> e) @@ t
Without(t, base) == [q \in {p \in DOMAIN t : ~Under(base, p)} |-> t[q]]
Children(t, dir) == {p \in DOMAIN t : p # <<>> /\ Front(p) = dir}

-----------------------------------------------------------------------------
(* Paths.                                                                   *)

\* Where the file system takes a path, links followed.
RECURSIVE Follow(_, _, _)
Follow(t, p, hops) ==
    IF p = <<>> THEN <<>>
    ELSE LET dir == Follow(t, Front(p), hops)
             here == Append(dir, Last(p))
         IN IF dir = NoPath \/ here \notin DOMAIN t THEN NoPath
            ELSE IF t[here].kind # "link" THEN here
            ELSE IF hops = 0 THEN NoPath ELSE Follow(t, t[here].data, hops - 1)
Real(t, p) == Follow(t, p, 2)

\* symlink_metadata: the last name is not followed.
Lstat(t, p) ==
    IF p = <<>> THEN p
    ELSE LET dir == Real(t, Front(p)) IN
         IF dir # NoPath /\ Append(dir, Last(p)) \in DOMAIN t THEN Append(dir, Last(p)) ELSE NoPath
Exists(t, p)  == Lstat(t, p) # NoPath
IsKind(t, p, k) == Real(t, p) # NoPath /\ t[Real(t, p)].kind = k
IsDir(t, p)   == IsKind(t, p, "dir")
IsFile(t, p)  == IsKind(t, p, "file")

\* normalize_lexical of an absolute path.
Normal(p) ==
    LET norm[n \in 0 .. Len(p)] ==
            IF n = 0 THEN <<>>
            ELSE IF p[n] # ".." THEN Append(norm[n - 1], p[n])
            ELSE IF norm[n - 1] = <<>> THEN <<>> ELSE Front(norm[n - 1])
    IN norm[Len(p)]

\* canonicalize_with_missing: the deepest ancestor that exists is resolved and
\* the missing names are put back.
Canonical(t, p) ==
    LET k == Max({n \in 0 .. Len(p) : Exists(t, SubSeq(p, 1, n))})
        there == SubSeq(p, 1, k)
    IN IF Real(t, there) = NoPath \/ (k < Len(p) /\ IsFile(t, there)) THEN NoPath
       ELSE Real(t, there) \o SubSeq(p, k + 1, Len(p))

\* Mutant: containment is judged by the names alone.
ContainedByName(t, base, p) == IF Under(base, Normal(p)) THEN Normal(p) ELSE NoPath

\* ensure_contained_path: judged with links resolved, used as it was written.
Contained(t, base, p) ==
    LET lexical == Normal(p) IN
    IF Canonical(t, lexical) # NoPath /\ Under(Canonical(t, base), Canonical(t, lexical)) THEN lexical ELSE NoPath

Located(t, rel) == Contained(t, Root, Root \o rel)

-----------------------------------------------------------------------------
(* What the file system does, with the outcome.                             *)

Success(t)   == [tree |-> t, ok |-> TRUE]
Failed(t) == [tree |-> t, ok |-> FALSE]

\* create_dir_all.
MakeDirs(t, p) ==
    FoldLeft(LAMBDA r, n :
                LET here == SubSeq(p, 1, n) IN
                IF ~r.ok \/ IsDir(r.tree, here) THEN r
                ELSE IF Exists(r.tree, here) \/ n > MaxDepth THEN Failed(r.tree)
                ELSE Success(WithEntry(r.tree, Append(Real(r.tree, Front(here)), Last(here)), Dir)),
             Success(t), [n \in 1 .. Len(p) |-> n])

\* Open for writing, made if it is not there; a link to nothing makes its target.
WriteFile(t, p, e) ==
    LET at == IF Exists(t, p) /\ t[Lstat(t, p)].kind = "link" THEN t[Lstat(t, p)].data ELSE p IN
    IF IsFile(t, p) THEN Success(WithEntry(t, Real(t, p), e))
    ELSE IF Real(t, p) # NoPath \/ Exists(t, at) \/ Len(at) > MaxDepth \/ ~IsDir(t, Front(at)) THEN Failed(t)
    ELSE Success(WithEntry(t, Append(Real(t, Front(at)), Last(at)), e))

CreateNew(t, p, c) == IF Exists(t, p) THEN Failed(t) ELSE WriteFile(t, p, File(c))

\* std::fs::copy; of a file onto itself nothing is left.
CopyFile(t, src, dst) ==
    IF ~IsFile(t, src) THEN Failed(t)
    ELSE WriteFile(t, dst, IF Real(t, src) = Real(t, dst) THEN File(0) ELSE t[Real(t, src)])

\* rename(2): a file takes the place of a file, a directory that of an empty
\* one.
Move(t, src, dst) ==
    LET a == Lstat(t, src)
        b == IF IsDir(t, Front(dst)) THEN Append(Real(t, Front(dst)), Last(dst)) ELSE NoPath
        taken == b \in DOMAIN t
        dir(p) == t[p].kind = "dir"
        rest == Without(t, a)
        moved == {b \o SubSeq(p, Len(a) + 1, Len(p)) : p \in {q \in DOMAIN t : Under(a, q)}}
    IN IF a = NoPath \/ b = NoPath \/ (Under(a, b) /\ a # b) \/ \E p \in moved : Len(p) > MaxDepth THEN Failed(t)
       ELSE IF taken /\ (dir(a) # dir(b) \/ (dir(b) /\ a # b /\ Children(t, b) # {})) THEN Failed(t)
       ELSE Success([p \in DOMAIN rest \union moved |->
                    IF p \in moved THEN t[a \o SubSeq(p, Len(b) + 1, Len(p))] ELSE rest[p]])

-----------------------------------------------------------------------------
(* The commands.                                                            *)

\* What the walk of a directory yields.
Copied(t, src) == Children(t, Real(t, src))

\* copy_dir_recursive.  The walk does not follow links; the copy does: a linked
\* directory is walked in its turn, a linked file copied by content.
RECURSIVE CopyDir(_, _, _)
CopyDir(t, src, dst) ==
    LET made == MakeDirs(t, dst)
        step(p, r) == LET s == Append(src, Last(p))
                          d == Append(dst, Last(p))
                      IN IF ~r.ok \/ Len(s) > MaxDepth THEN Failed(r.tree)
                         ELSE IF IsDir(r.tree, s) THEN CopyDir(r.tree, s, d) ELSE CopyFile(r.tree, s, d)
    IN IF ~made.ok THEN made ELSE FoldSet(step, made, Copied(made.tree, src))

\* copy_entry.
CopyEntry(t, from, to) ==
    LET parent == MakeDirs(t, Front(to)) IN
    IF Under(from, to) \/ ~parent.ok \/ ~Exists(parent.tree, from) THEN Failed(IF Under(from, to) THEN t ELSE parent.tree)
    ELSE IF parent.tree[Lstat(parent.tree, from)].kind = "dir" THEN CopyDir(parent.tree, from, to)
    ELSE CopyFile(parent.tree, from, to)

\* rename_entry.
RenameEntry(t, from, to) ==
    LET parent == MakeDirs(t, Front(to)) IN IF parent.ok THEN Move(parent.tree, from, to) ELSE parent

\* read_dir, which gives an empty list for what is not there; a list that
\* cannot be read is kept as it was.
Read(list, t, dir) ==
    IF Contained(t, Root, dir) = NoPath \/ (Exists(t, dir) /\ ~IsDir(t, dir)) THEN list
    ELSE WithEntry(list, dir, {Append(dir, Last(p)) : p \in IF Exists(t, dir) THEN Children(t, Real(t, dir)) ELSE {}})

\* A command of the Explorer: on success the lists of both parents are read.
Command(op, from, to, r) ==
    /\ commands' = commands + 1
    /\ tree' = r.tree
    /\ last' = [op |-> op, from |-> from, to |-> to, ok |-> r.ok]
    /\ listing' = IF r.ok /\ from # Root THEN Read(Read(listing, r.tree, Front(from)), r.tree, Front(to)) ELSE listing

Listed == UNION {listing[d] : d \in DOMAIN listing}

\* resolveCollision over allLoadedEntries: only the directories that were
\* opened are known.
FreeName(p) ==
    LET named(s) == Append(Front(p), Last(p) \o s) IN
    IF p \notin Listed THEN p ELSE IF named(" copy") \notin Listed THEN named(" copy") ELSE named(" copy 2")

\* New File and New Folder.
CreateEntry(rel, kind) ==
    LET p == Located(tree, rel)
        parent == MakeDirs(tree, Front(p))
        r == IF kind = "dir" THEN MakeDirs(tree, p) ELSE IF parent.ok THEN CreateNew(parent.tree, p, 8) ELSE parent
    IN /\ p # NoPath /\ p # Root
       /\ Command("create", p, p, r)

\* Paste of what was copied or cut, and Duplicate: handlePaste, handleDuplicate.
Paste(entry, dir, mode) ==
    LET want == Append(dir, Last(entry))
        to == Located(tree, SubSeq(FreeName(want), 2, Len(want)))
        from == Located(tree, SubSeq(entry, 2, Len(entry)))
    IN /\ entry \in Listed
       /\ ~(Exists(tree, entry) /\ tree[Lstat(tree, entry)].kind = "dir" /\ Under(entry, dir))
       /\ from # NoPath /\ to # NoPath
       /\ Command(mode, from, to, IF mode = "copy" THEN CopyEntry(tree, from, to) ELSE RenameEntry(tree, from, to))

\* The inline rename.
Rename(entry, name) ==
    LET from == Located(tree, SubSeq(entry, 2, Len(entry)))
        to == Located(tree, SubSeq(Append(Front(entry), name), 2, Len(entry)))
    IN /\ entry \in Listed /\ from # NoPath /\ to # NoPath
       /\ Command("rename", from, to, RenameEntry(tree, from, to))

\* delete_entry and delete_entry_permanent: a link goes, not what it leads to.
Delete(rel) ==
    LET p == Located(tree, rel)
        r == IF p # NoPath /\ Exists(tree, p) THEN Success(Without(tree, Lstat(tree, p))) ELSE Failed(tree)
    IN /\ p # NoPath /\ p # Root
       /\ Command("delete", p, p, r)

\* write_bytes_to_file: a pasted image.
WriteBytes(rel) ==
    LET p == Root \o rel
        parent == MakeDirs(tree, Front(p))
    IN /\ Contained(tree, Root, p) # NoPath /\ p = Normal(p) /\ p # Root
       /\ Command("write", p, p, IF parent.ok THEN WriteFile(parent.tree, p, File(9)) ELSE parent)

\* A directory is opened in the Explorer, or read again after a change.
Open(dir) ==
    /\ IsDir(tree, dir) /\ listing' = Read(listing, tree, dir) /\ listing' # listing
    /\ last' = Nothing
    /\ UNCHANGED <<tree, commands>>

\* Another program makes a file.
Foreign(p) ==
    /\ commands' = commands + 1
    /\ ~Exists(tree, p) /\ tree' = WriteFile(tree, p, File(7)).tree /\ tree' # tree
    /\ last' = Nothing
    /\ UNCHANGED listing

-----------------------------------------------------------------------------
EntriesInit ==
    /\ tree \in Trees
    /\ listing = Read(<<>>, tree, Root)
    /\ last = Nothing
    /\ commands = 0

\* Directories the Explorer can show: the workspace and those listed as such.
ShownDirs == {Root} \union {p \in Listed : Exists(tree, p) /\ tree[Lstat(tree, p)].kind = "dir"}

EntriesNext ==
    \/ /\ commands < MaxCommands
       /\ \/ \E rel \in Inputs, k \in {"dir", "file"} : CreateEntry(rel, k)
          \/ \E e \in Listed, d \in ShownDirs, mode \in {"copy", "cut"} : Paste(e, d, mode)
          \/ \E e \in Listed, rel \in Inputs : rel # <<>> /\ Rename(e, Last(rel))
          \/ \E rel \in Inputs : Delete(rel)
          \/ \E rel \in Inputs : WriteBytes(rel)
          \/ \E rel \in Inputs : Foreign(Normal(Root \o rel))
    \/ \E d \in ShownDirs : Open(d)

-----------------------------------------------------------------------------
(* Properties.                                                              *)

Outside(t) == [p \in {q \in DOMAIN t : ~Under(Root, q)} |-> t[p]]

\* resolve_rel: "Errors if ... the path escapes the root".  A workspace may hold
\* links to places outside of it.  Whatever path a command is given, it changes
\* nothing outside the workspace, unless it copies a directory into one that is
\* there already (links inside the destination are then written through).
OutsideUntouched ==
    [][(last' # Nothing /\ ~(last'.op = "copy" /\ Exists(tree, last'.to)))
         => Outside(tree') = Outside(tree)]_entryVars

FilesIn(t) == {p \in DOMAIN t : t[p].kind = "file"}
Known(dir) == dir \in DOMAIN listing /\ listing = Read(listing, tree, dir)
Kept == /\ Cardinality(FilesIn(tree')) >= Cardinality(FilesIn(tree))
        /\ last'.op # "cut" => \A p \in DOMAIN tree : p \in DOMAIN tree' /\ tree'[p] = tree[p]

\* handlePaste: "Name collisions resolve to "X copy"", and create_new for new
\* files: as long as the Explorer's list of the destination is what is on disk,
\* creating, pasting and duplicating take nothing away, not even when they fail
\* on the way, and a copy leaves its source as it was.
NothingIsOverwritten ==
    [][(/\ last' # Nothing /\ last'.op \in {"create", "copy", "cut"}
        /\ last'.op # "create" => Known(Front(last'.to))) => Kept]_entryVars

\* explorerOps.ts: "the backend's `create_new` is the backstop if a race beats
\* the UI": nor do they when the list is old, or was never read.
BackstopHolds == [][(last' # Nothing /\ last'.op \in {"create", "copy", "cut"}) => Kept]_entryVars

Tails(t) == UNION {[1 .. n -> {Last(p) : p \in DOMAIN t \ {<<>>}}] : n \in 0 .. 2}
View(t, p) == [q \in {s \in Tails(t) : Real(t, p \o s) # NoPath} |-> t[Real(t, p \o q)]]

\* copy_dir_recursive: "a copy should materialize content, not a dangling
\* reference": after a copy that succeeded and had a new name, the copy shows
\* everything that the source shows, links followed.
CopyIsWhole ==
    [][(last' # Nothing /\ last'.op = "copy" /\ last'.ok /\ ~Exists(tree, last'.to))
         => View(tree', last'.to) = View(tree, last'.from)]_entryVars

\* Commands on entries stay in the workspace, take nothing away unasked, and
\* copy all or say that they did not.
EntriesAreSafe == OutsideUntouched /\ NothingIsOverwritten /\ CopyIsWhole
=============================================================================
