----------------------------- MODULE AtomicFile -----------------------------
(***************************************************************************)
(* A state file and its backup: the steps of an atomic write, the rotation *)
(* of the previous bytes into .bak, power loss between any two of them,    *)
(* damage from outside, and the load at the next start.                    *)
(*                                                                         *)
(* Bytes are generations.  The directory operations since the last sync    *)
(* are kept: a crash leaves the directory as it was after any of them.     *)
(***************************************************************************)
EXTENDS Integers, FiniteSets

CONSTANTS
    Writers,     \* threads that persist the file
    MaxGen,      \* bound on the generations
    MaxCrashes   \* bound on the crashes

ASSUME AtomicFileAssumption == MaxGen \in Nat /\ MaxCrashes \in Nat

Missing == 0    \* no file
Torn    == -1   \* bytes that do not parse
Gens    == 1..MaxGen
Bytes   == {Missing, Torn} \union Gens
Names   == {"main", "bak"}

VARIABLES
    dir,      \* the file and its backup, as programs see them
    past,     \* the directories a crash may leave
    temp,     \* each writer's temporary file
    strays,   \* temporary files of writers that are gone
    afPc, target, prev, gen,  \* each writer's step, target, old and new bytes
    value,    \* the generation in memory
    nextGen,
    running, crashes,
    damaged,  \* history: a program from outside has damaged the file
    solid,    \* history: the youngest generation whose rename was synced
    rotated   \* history: a backup was written and synced

afWriter  == <<temp, afPc, target, prev, gen>>
afHistory == <<damaged, solid, rotated>>
atomicFileVars ==
    <<dir, past, afWriter, strays, value, nextGen, running, crashes, afHistory>>

AtomicFileTypeOK ==
    /\ dir \in [Names -> Bytes] /\ past \subseteq [Names -> Bytes]
    /\ temp \in [Writers -> Bytes] /\ (\A w \in Writers : afPc[w] \in {"idle", "sync"} => temp[w] = Missing)
    /\ strays \in BOOLEAN
    /\ afPc \in [Writers -> {"idle", "create", "write", "perms", "rename", "sync"}]
    /\ target \in [Writers -> Names]
    /\ prev \in [Writers -> Bytes] /\ gen \in [Writers -> Bytes]
    /\ value \in Gens \union {Missing} /\ nextGen \in 1..MaxGen + 1
    /\ running \in BOOLEAN /\ crashes \in 0..MaxCrashes
    /\ damaged \in BOOLEAN /\ solid \in Gens \union {Missing} /\ rotated \in BOOLEAN

AtomicFileInit ==
    /\ dir = [n \in Names |-> Missing] /\ past = {dir}
    /\ temp = [w \in Writers |-> Missing] /\ strays = FALSE
    /\ afPc = [w \in Writers |-> "idle"] /\ target = [w \in Writers |-> "main"]
    /\ prev = [w \in Writers |-> Missing] /\ gen = [w \in Writers |-> Missing]
    /\ value = Missing /\ nextGen = 1 /\ running = TRUE /\ crashes = 0
    /\ damaged = FALSE /\ solid = Missing /\ rotated = FALSE

WriterAt(w, step) == running /\ afPc[w] = step
WriterGo(w, step) == afPc' = [afPc EXCEPT ![w] = step]

-----------------------------------------------------------------------------
(* write_with_backup, serialized by its callers' locks.                     *)

\* The bytes to be replaced are read before the write begins.
ReadPrevious(w) ==
    /\ WriterAt(w, "idle") /\ \A v \in Writers : afPc[v] = "idle"
    /\ nextGen <= MaxGen
    /\ gen' = [gen EXCEPT ![w] = nextGen]
    /\ prev' = [prev EXCEPT ![w] = dir["main"]]
    /\ target' = [target EXCEPT ![w] = "main"]
    /\ value' = nextGen
    /\ nextGen' = nextGen + 1
    /\ WriterGo(w, "create")
    /\ UNCHANGED <<dir, past, temp, strays, running, crashes, afHistory>>

New(w) == IF target[w] = "main" THEN gen[w] ELSE prev[w]

\* File::create and write_all: until the sync, a crash may tear the bytes.
CreateTemp(w) ==
    /\ WriterAt(w, "create")
    /\ temp' = [temp EXCEPT ![w] = Torn]
    /\ WriterGo(w, "write")
    /\ UNCHANGED <<dir, past, strays, target, prev, gen, value, nextGen, running, crashes, afHistory>>

\* Mutant: the bytes are not synced before the rename.
SyncTempNever(w) ==
    /\ WriterAt(w, "write")
    /\ WriterGo(w, "perms")
    /\ UNCHANGED <<dir, past, temp, strays, target, prev, gen, value, nextGen, running, crashes, afHistory>>

SyncTemp(w) ==
    /\ WriterAt(w, "write")
    /\ temp' = [temp EXCEPT ![w] = New(w)]
    /\ WriterGo(w, "perms")
    /\ UNCHANGED <<dir, past, strays, target, prev, gen, value, nextGen, running, crashes, afHistory>>

CopyPermissions(w) ==
    /\ WriterAt(w, "perms")
    /\ WriterGo(w, "rename")
    /\ UNCHANGED <<dir, past, temp, strays, target, prev, gen, value, nextGen, running, crashes, afHistory>>

\* Any step up to the rename may fail: the temporary file is removed, the
\* target is intact; for the backup the error is swallowed.
Fail(w) ==
    /\ running /\ afPc[w] \in {"create", "write", "perms", "rename"}
    /\ temp' = [temp EXCEPT ![w] = Missing]
    /\ WriterGo(w, "idle")
    /\ UNCHANGED <<dir, past, strays, target, prev, gen, value, nextGen, running, crashes, afHistory>>

\* atomic_replace: one rename over the target.
RenameTemp(w) ==
    /\ WriterAt(w, "rename")
    /\ dir' = [dir EXCEPT ![target[w]] = temp[w]]
    /\ past' = past \union {dir'}
    /\ temp' = [temp EXCEPT ![w] = Missing]
    /\ WriterGo(w, "sync")
    /\ UNCHANGED <<strays, target, prev, gen, value, nextGen, running, crashes, afHistory>>

\* Mutant: the directory is taken as synced without a sync.
SyncDirectoryNever(w) ==
    /\ WriterAt(w, "sync")
    /\ solid' = IF target[w] = "main" THEN gen[w] ELSE solid
    /\ rotated' = (rotated \/ (target[w] = "bak" /\ prev[w] # Torn))
    /\ IF target[w] = "main" /\ prev[w] # Missing
       THEN target' = [target EXCEPT ![w] = "bak"] /\ WriterGo(w, "create")
       ELSE target' = target /\ WriterGo(w, "idle")
    /\ UNCHANGED <<dir, past, temp, strays, prev, gen, value, nextGen, running, crashes, damaged>>

\* The directory is synced, or that fails silently.  Then the old bytes, if
\* there were any, go to .bak by the same steps.
SyncDirectory(w) ==
    /\ WriterAt(w, "sync")
    /\ \/ /\ past' = {dir}
          /\ solid' = IF target[w] = "main" THEN gen[w] ELSE solid
          /\ rotated' = (rotated \/ (target[w] = "bak" /\ prev[w] # Torn))
       \/ UNCHANGED <<past, solid, rotated>>
    /\ IF target[w] = "main" /\ prev[w] # Missing
       THEN target' = [target EXCEPT ![w] = "bak"] /\ WriterGo(w, "create")
       ELSE target' = target /\ WriterGo(w, "idle")
    /\ UNCHANGED <<dir, temp, strays, prev, gen, value, nextGen, running, crashes, damaged>>

-----------------------------------------------------------------------------
(* Crashes, damage, and the load.                                           *)

PowerLoss ==
    /\ running /\ crashes < MaxCrashes
    /\ running' = FALSE
    /\ crashes' = crashes + 1
    /\ \E d \in past : dir' = d /\ past' = {d}
    /\ strays' = (strays \/ \E w \in Writers : temp[w] # Missing)
    /\ temp' = [w \in Writers |-> Missing]
    /\ afPc' = [w \in Writers |-> "idle"]
    /\ UNCHANGED <<target, prev, gen, value, nextGen, afHistory>>

\* A hand edit or a file-system error, once.
Damage ==
    /\ ~damaged /\ dir["main"] # Missing
    /\ dir' = [dir EXCEPT !["main"] = Torn]
    /\ past' = {dir'}
    /\ damaged' = TRUE
    /\ UNCHANGED <<afWriter, strays, value, nextGen, running, crashes, solid, rotated>>

\* read_and_parse: a missing file and a corrupt one both yield nothing.
Parses(bytes) == bytes \in Gens

\* try_backup, try_backup_with_corrupt: the backup's value, or the defaults.
FromBackup == IF Parses(dir["bak"]) THEN dir["bak"] ELSE Missing

\* quarantine_corrupt: the corrupt file is moved aside, under a fresh name, or
\* stays where it is when both renames fail.
Quarantine ==
    \/ dir["main"] = Torn /\ dir' = [dir EXCEPT !["main"] = Missing] /\ past' = past \union {dir'}
    \/ UNCHANGED <<dir, past>>

\* load_json_with_backup: the file; else the backup; else the defaults.
Load ==
    /\ ~running
    /\ value' = IF Parses(dir["main"]) THEN dir["main"] ELSE FromBackup
    /\ Quarantine
    /\ running' = TRUE
    /\ UNCHANGED <<afWriter, strays, nextGen, crashes, afHistory>>

\* cleanup_stale_temps: files older than a day, found at a start.
CleanStaleTemps ==
    /\ strays
    /\ strays' = FALSE
    /\ UNCHANGED <<dir, past, afWriter, value, nextGen, running, crashes, afHistory>>

AtomicFileNext ==
    \/ \E w \in Writers :
          \/ ReadPrevious(w) \/ CreateTemp(w) \/ SyncTemp(w) \/ CopyPermissions(w)
          \/ RenameTemp(w) \/ SyncDirectory(w) \/ Fail(w)
    \/ PowerLoss \/ Damage \/ Load \/ CleanStaleTemps

AtomicFileSpec == AtomicFileInit /\ [][AtomicFileNext]_atomicFileVars

-----------------------------------------------------------------------------

\* Neither file is half-written, whatever step a crash or a failure falls on
\* (write_bytes): only damage from outside makes bytes that do not parse.
NeverTorn == ~damaged => \A d \in past \union {dir} : \A n \in Names : d[n] # Torn

\* A start after a crash finds the last generation whose write went through, or
\* a younger one; and one damage from outside never costs everything: once a
\* backup was rotated a start finds a value (write_with_backup's order).
NoAckedLoss ==
    [][Load => /\ ~damaged => value' >= solid
               /\ rotated => value' # Missing]_atomicFileVars
=============================================================================
