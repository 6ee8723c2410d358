---------------------------- MODULE LspInstaller ----------------------------
(***************************************************************************)
(* The managed install of the language server: attempts that the startup,  *)
(* the settings and the status bar ask for, their files in one directory,  *)
(* the network that cuts or alters a download, errors of the file system   *)
(* and an end of the program between any two steps.  Files are removed     *)
(* without a look at whether that worked: on Windows a program that runs   *)
(* cannot be.                                                              *)
(***************************************************************************)
EXTENDS Naturals

CONSTANTS
    Installs,           \* calls of begin_install
    DownloadAttempts,   \* DOWNLOAD_ATTEMPTS
    Releases            \* what the release holds for this machine: "runs", "fails" or "none"

ASSUME InstallerAssumption == DownloadAttempts \in Nat /\ Releases \subseteq {"runs", "fails", "none"}

VARIABLES
    release,    \* one of Releases
    phase,      \* InstallState.state
    install,    \* every call: its step, and the attempts it has made to download
    files,      \* the directory: binary, parked (.old), extracted, archive, marker
    had,        \* history: a working binary has been in its place
    marred,     \* history: the program ended inside an install, a restore failed, or a binary
                \* that did not run could neither be removed nor replaced
    dropped     \* history: an install removed the only working binary, which an earlier
                \* one had left parked, or parked another over it

installerVars == <<release, phase, install, files, had, marred, dropped>>

\* platform_asset and the place of the files: an earlier version may be there.
InstallerInit ==
    /\ release \in Releases
    /\ phase = IF release = "none" THEN "unsupported" ELSE "notInstalled"
    /\ install = [t \in Installs |-> [step |-> "off", attempt |-> 1]]
    /\ \E v \in {"none", "previous"} :
          /\ files = [binary |-> v, parked |-> "none", extracted |-> "none", archive |-> "none", marker |-> v]
          /\ had = (v = "previous")
    /\ marred = FALSE /\ dropped = FALSE

\* What `--version` answers.
Runs(f) == f = "previous" \/ (f = "release" /\ release = "runs")

Under(t, step) == install[t].step = step
Goes(t, step) == install' = [install EXCEPT ![t].step = step]
Enters(p) == phase' = p
Put(f, v) == files' = [files EXCEPT ![f] = v]
\* The error of a removal is ignored.
Removal(f) == {"none", files[f]}

\* run_install returns an error.
Fails(t) == Goes(t, "done") /\ Enters("failed")

\* Mutant: the flag is not looked at.
BeginAnyway(t) ==
    /\ Under(t, "off") /\ Goes(t, "clean") /\ Enters("downloading")
    /\ UNCHANGED <<release, files, had, marred, dropped>>

\* begin_install: one at a time.
BeginInstall(t) ==
    /\ Under(t, "off") /\ phase \notin {"downloading", "verifying"}
    /\ Goes(t, "clean") /\ Enters("downloading")
    /\ UNCHANGED <<release, files, had, marred, dropped>>

\* The leftovers of an earlier run go first, the parked binary with them.
Clean(t) ==
    /\ Under(t, "clean")
    /\ \/ release = "none" /\ Goes(t, "done") /\ Enters("unsupported") /\ UNCHANGED <<files, dropped>>
       \/ release # "none" /\ Fails(t) /\ UNCHANGED <<files, dropped>>
       \/ /\ release # "none" /\ Goes(t, "download")
          /\ \E a \in Removal("archive"), p \in Removal("parked"), e \in Removal("extracted") :
                /\ files' = [files EXCEPT !.archive = a, !.parked = p, !.extracted = e]
                /\ dropped' = (dropped \/ (p = "none" /\ Runs(files.parked) /\ ~Runs(files.binary)))
          /\ UNCHANGED phase
    /\ UNCHANGED <<release, had, marred>>

\* The pair of download and check is tried again, or the install fails.
AttemptFails(t) ==
    IF install[t].attempt < DownloadAttempts
    THEN install' = [install EXCEPT ![t] = [step |-> "download", attempt |-> @.attempt + 1]] /\ Enters("downloading")
    ELSE Fails(t)

\* The body arrives whole, altered, or is cut (which a length may show).
Download(t) ==
    /\ Under(t, "download")
    /\ \/ Put("archive", "part") /\ AttemptFails(t)
       \/ \E body \in {"part", "altered", "release"} :
             Put("archive", body) /\ Goes(t, "verify") /\ Enters("verifying")
    /\ UNCHANGED <<release, had, marred, dropped>>

\* The digest of what was received against the sums, which may be out of reach.
Verify(t) ==
    /\ Under(t, "verify")
    /\ \/ AttemptFails(t)
       \/ files.archive = "release" /\ Goes(t, "extract") /\ UNCHANGED phase
    /\ UNCHANGED <<release, files, had, marred, dropped>>

Extract(t) ==
    /\ Under(t, "extract")
    /\ \/ Put("extracted", "part") /\ Fails(t)
       \/ /\ files.archive = "release"
          /\ \E a \in Removal("archive") : files' = [files EXCEPT !.extracted = "release", !.archive = a]
          /\ Goes(t, "park") /\ UNCHANGED phase
    /\ UNCHANGED <<release, had, marred, dropped>>

\* place_binary: the binary that is there is parked, over one that could not
\* be removed, ...
Park(t) ==
    /\ Under(t, "park")
    /\ \/ (\E e \in Removal("extracted") : Put("extracted", e)) /\ Fails(t) /\ UNCHANGED dropped
       \/ /\ files.binary = "none" /\ UNCHANGED <<files, dropped>>
          /\ Goes(t, "place") /\ UNCHANGED phase
       \/ /\ files.binary # "none"
          /\ files' = [files EXCEPT !.parked = files.binary, !.binary = "none"]
          /\ dropped' = (dropped \/ (Runs(files.parked) /\ ~Runs(files.binary)))
          /\ Goes(t, "place") /\ UNCHANGED phase
    /\ UNCHANGED <<release, had, marred>>

\* rename(.old, binary) replaces what is there; without a parked one it fails,
\* as it may with one.
RestoreThen(f) ==
    \/ f.parked # "none" /\ files' = [f EXCEPT !.binary = f.parked, !.parked = "none"] /\ UNCHANGED marred
    \/ files' = f /\ marred' = (marred \/ f.parked # "none" \/ f.binary # "none")

\* ... the new one takes its place, or the old one comes back.
Place(t) ==
    /\ Under(t, "place")
    /\ \/ (\E e \in Removal("extracted") : RestoreThen([files EXCEPT !.extracted = e])) /\ Fails(t)
       \/ /\ files.extracted # "none"
          /\ files' = [files EXCEPT !.binary = files.extracted, !.extracted = "none"]
          /\ Goes(t, "smoke") /\ UNCHANGED <<phase, marred>>
    /\ UNCHANGED <<release, had, dropped>>

\* smoke_test: a binary that fails, or does not answer in time, is to go.
Smoke(t) ==
    /\ Under(t, "smoke")
    /\ \/ Runs(files.binary) /\ Goes(t, "marker") /\ UNCHANGED <<files, phase>>
       \/ (\E b \in Removal("binary") : Put("binary", b)) /\ Goes(t, "restore") /\ UNCHANGED phase
    /\ UNCHANGED <<release, had, marred, dropped>>

Restore(t) ==
    /\ Under(t, "restore") /\ RestoreThen(files) /\ Fails(t)
    /\ UNCHANGED <<release, had, dropped>>

\* The version marker is written atomically, or the install fails here.
Mark(t) ==
    /\ Under(t, "marker")
    /\ \/ Put("marker", files.binary) /\ Goes(t, "finish") /\ UNCHANGED phase
       \/ Fails(t) /\ UNCHANGED files
    /\ UNCHANGED <<release, had, marred, dropped>>

\* The parked binary is to go, Installed is published and the bridge relaunched.
Finish(t) ==
    /\ Under(t, "finish") /\ \E p \in Removal("parked") : Put("parked", p)
    /\ Goes(t, "done") /\ Enters("installed") /\ had' = TRUE
    /\ UNCHANGED <<release, marred, dropped>>

InstallsIdle == \A t \in Installs : install[t].step \in {"off", "done"}

\* The program ends inside an install and is started again.
ProgramEnds ==
    /\ ~InstallsIdle
    /\ install' = [t \in Installs |-> IF Under(t, "off") THEN install[t] ELSE [install[t] EXCEPT !.step = "done"]]
    /\ Enters("notInstalled") /\ marred' = TRUE
    /\ UNCHANGED <<release, files, had, dropped>>

InstallerNext ==
    \/ \E t \in Installs :
          \/ BeginInstall(t) \/ Clean(t) \/ Download(t) \/ Verify(t) \/ Extract(t) \/ Park(t)
          \/ Place(t) \/ Smoke(t) \/ Restore(t) \/ Mark(t) \/ Finish(t)
    \/ ProgramEnds

InstallerSpec == InstallerInit /\ [][InstallerNext]_installerVars

-----------------------------------------------------------------------------

\* Whatever fails, and wherever the program ends, a working binary is still in
\* its place or parked, and in its place when nothing is under way - unless a
\* later install has removed the parked one, or parked a broken one over it
\* that could not be removed.
WorkingBinaryKept ==
    had /\ ~dropped =>
        /\ Runs(files.binary) \/ Runs(files.parked)
        /\ InstallsIdle /\ ~marred => Runs(files.binary)

\* Between two installs the place is empty or holds a binary that runs, unless
\* one that does not could neither be removed nor replaced, and Installed means
\* the release is there under its own version, whatever is still parked.
InstalledIsVerified ==
    /\ InstallsIdle /\ ~marred => files.binary = "none" \/ Runs(files.binary)
    /\ phase = "installed" => Runs(files.binary) /\ files.marker = "release" /\ files.binary = "release"

\* installed_binary, from which resolve_tinymist_path takes the path.
ResolvedRuns == InstallsIdle => files.binary = "none" \/ Runs(files.binary)

\* An upgrade never costs the working binary, and leaves one that does not run
\* in its place only where the file system refuses both ways to be rid of it.
BinaryIsSafe == WorkingBinaryKept /\ InstalledIsVerified
=============================================================================
