--------------------------- MODULE Services_proofs ---------------------------
(***************************************************************************)
(* Theorems about Packages, for any commands, templates and readers; about *)
(* LspInstaller, for any number of calls and of attempts to download;      *)
(* about ReplaceInFiles, for any files, edits and retries; and about       *)
(* Workspace, for any folders, threads and changes of the config.          *)
(***************************************************************************)
EXTENDS Packages, Workspace, LspInstaller, ReplaceInFiles, FiniteSetTheorems, SequenceTheorems, TLAPS

-----------------------------------------------------------------------------
(* Package commands.                                                       *)

CommandSteps == {"off", "obtain", "plan", "check", "list", "copy", "create", "write",
                 "remove", "ok", "error"}
Records == [step : CommandSteps, init : BOOLEAN, overwrite : BOOLEAN, plan : SUBSET Template,
            opened : SUBSET Template, at : SUBSET Template, copied : SUBSET Template]

PackagesTyped ==
    /\ command \in [Commands -> Records]
    /\ dest \in [Template -> {"none", "user", "part", "template"}]
    /\ open \subseteq Template

\* The entry belongs to one command.
OneObtains ==
    /\ \A c \in Commands : Is(c, "obtain") => inFlight
    /\ \A b, c \in Commands : Is(b, "obtain") /\ Is(c, "obtain") => b = c
    /\ inFlight => \E c \in Commands : Is(c, "obtain")

\* A template command that has planned works with the whole package, and has no
\* open file under it.
Fresh(c) ==
    /\ ~Is(c, "remove")
    /\ command[c].step \in {"check", "list", "copy", "create", "write"} => cached = Whole
    /\ command[c].step \in {"off", "obtain", "plan", "check", "list"} => command[c].copied = {}
    /\ Is(c, "check") => command[c].plan = Template
    /\ command[c].step \in {"copy", "create", "write"} =>
           command[c].plan \union command[c].at \union command[c].copied = Template
    /\ Is(c, "ok") /\ command[c].init => command[c].copied = Template
    /\ Is(c, "error") \/ command[c].opened = {}
    /\ (command[c].at = {} /\ command[c].copied = {}) \/ command[c].opened = {}

\* So it is as long as no uninstall has begun.
Untouched == ~removals => cached \in {Whole, Absent} /\ \A c \in Commands : Fresh(c)

\* Where parts of files are, and what is on the lists.
Torn ==
    /\ \A c \in Commands : command[c].step \notin {"create", "write", "error"} => command[c].at = {}
    /\ \A c \in Commands, f, g \in Template : f \in command[c].at /\ g \in command[c].at => f = g
    /\ \A f \in Template : dest[f] = "part" => \E c \in Commands : f \in command[c].at /\ command[c].step \in {"write", "error"}
    /\ \A f \in Template : dest[f] \notin {"part", "template"} => \A c \in Commands : f \notin command[c].copied

PackagesInv == PackagesTyped /\ OneObtains /\ Untouched /\ Torn

\* The two directories a package has before an uninstall.
LEMMA Shapes ==
    /\ Whole.exists = TRUE /\ Absent.exists = FALSE /\ Absent.files = {}
    /\ Whole.files \intersect Template = Template
BY DEF Whole, Absent

\* It holds with and without the package, in a folder with any files.
THEOREM PackagesInitInv == PackagesInit => PackagesInv
<1> SUFFICES ASSUME PackagesInit PROVE PackagesInv
  OBVIOUS
<1> USE DEF PackagesInit, Is, Fresh
<1>1. PackagesTyped
  <2>1. command \in [Commands -> Records]
    <3>1. [step |-> "off", init |-> FALSE, overwrite |-> FALSE, plan |-> {}, opened |-> {}, at |-> {}, copied |-> {}] \in Records
      BY DEF Records, CommandSteps
    <3> QED
      BY <3>1
  <2>2. /\ dest \in [Template -> {"none", "user", "part", "template"}]
        /\ open \subseteq Template
    OBVIOUS
  <2> QED
    BY <2>1, <2>2 DEF PackagesTyped
<1>2. OneObtains /\ Untouched /\ Torn
  BY DEF OneObtains, Untouched, Torn
<1> QED
  BY <1>1, <1>2 DEF PackagesInv

\* A command that does not obtain, and does not begin to, leaves the entry alone.
LEMMA EntryKept ==
    ASSUME OneObtains, NEW c \in Commands, ~Is(c, "obtain"), command'[c].step # "obtain", inFlight' = inFlight,
           \A b \in Commands \ {c} : command'[b] = command[b]
    PROVE  OneObtains'
BY DEF OneObtains, Is

\* Every step keeps it.
LEMMA PackagesStepInv == PackagesInv /\ [PackagesNext]_packageVars => PackagesInv'
<1> SUFFICES ASSUME PackagesInv, [PackagesNext]_packageVars PROVE PackagesInv'
  OBVIOUS
<1> USE Shapes DEF PackagesInv, PackagesTyped, Is, To, Fresh
<1>0. CASE UNCHANGED packageVars
  BY <1>0 DEF packageVars, OneObtains, Untouched, Torn
<1>1. ASSUME NEW c \in Commands, NEW init \in BOOLEAN, NEW overwrite \in BOOLEAN, Enter(c, init, overwrite) PROVE PackagesInv'
  <2> USE <1>1 DEF Enter
  <2>a. command' \in [Commands -> Records]
    <3>1. command' = [command EXCEPT ![c] = [@ EXCEPT !.init = init, !.overwrite = overwrite,
               !.step = IF ~inFlight THEN "obtain" ELSE IF init THEN "plan" ELSE "ok"]]
      OBVIOUS
    <3>2. [command[c] EXCEPT !.init = init, !.overwrite = overwrite,
               !.step = IF ~inFlight THEN "obtain" ELSE IF init THEN "plan" ELSE "ok"] \in Records
      BY DEF Records, CommandSteps
    <3> QED
      BY <3>1, <3>2
  <2>d. \A b \in Commands \ {c} : command'[b] = command[b]
    OBVIOUS
  <2>b. /\ command'[c].step = IF ~inFlight THEN "obtain" ELSE IF init THEN "plan" ELSE "ok"
        /\ command'[c].init = init
        /\ command'[c].plan = command[c].plan
        /\ command'[c].opened = command[c].opened
        /\ command'[c].copied = command[c].copied /\ command'[c].at = command[c].at
    OBVIOUS
  <2>1. PackagesTyped'
    BY <2>a, <2>b, <2>d DEF CommandSteps, Records
  <2>2. OneObtains'
    BY <2>a, <2>b, <2>d DEF Records, OneObtains
  <2>3. Untouched'
    BY <2>a, <2>b, <2>d DEF Records, Untouched
  <2>4. Torn'
    BY <2>a, <2>b, <2>d DEF Records, Torn
  <2> QED
    BY <2>1, <2>2, <2>3, <2>4
<1>2. ASSUME NEW c \in Commands, Obtain(c) PROVE PackagesInv'
  <2> USE <1>2 DEF Obtain
  <2>a. command' \in [Commands -> Records]
    BY DEF Records, CommandSteps
  <2>d. \A b \in Commands \ {c} : command'[b] = command[b]
    OBVIOUS
  <2>c. ASSUME NEW s \in {"plan", "ok", "error"}, To(c, s)
        PROVE  command'[c].step = s /\ command'[c].init = command[c].init
               /\ command'[c].plan = command[c].plan /\ command'[c].opened = command[c].opened /\ command'[c].copied = command[c].copied /\ command'[c].at = command[c].at
    BY <2>c
  <2>b. /\ command'[c].step \in {"plan", "ok", "error"}
        /\ command'[c].step = "ok" => ~command[c].init
        /\ command'[c].init = command[c].init
        /\ command'[c].plan = command[c].plan /\ command'[c].opened = command[c].opened /\ command'[c].copied = command[c].copied /\ command'[c].at = command[c].at
    <3>1. CASE command[c].init
      BY <2>c, <3>1
    <3>2. CASE ~command[c].init
      BY <2>c, <3>2
    <3> QED
      BY <3>1, <3>2
  <2>1. PackagesTyped'
    BY <2>a, <2>b, <2>d DEF CommandSteps, Records
  <2>2. OneObtains'
    BY <2>a, <2>b, <2>d DEF Records, OneObtains
  <2>3. Untouched'
    BY <2>a, <2>b, <2>d DEF Records, Untouched
  <2>4. Torn'
    BY <2>a, <2>b, <2>d DEF Records, Torn
  <2> QED
    BY <2>1, <2>2, <2>3, <2>4
<1>3. ASSUME NEW c \in Commands, Uninstall(c) PROVE PackagesInv'
  <2> USE <1>3 DEF Uninstall
  <2>a. command' \in [Commands -> Records]
    BY DEF Records, CommandSteps
  <2>d. \A b \in Commands \ {c} : command'[b] = command[b]
    OBVIOUS
  <2>b. /\ command'[c].step = IF cached.exists THEN "remove" ELSE "error"
        /\ command'[c].init = command[c].init
        /\ command'[c].plan = command[c].plan
        /\ command'[c].opened = command[c].opened
        /\ command'[c].copied = command[c].copied /\ command'[c].at = command[c].at
    OBVIOUS
  <2>1. PackagesTyped'
    BY <2>a, <2>b, <2>d DEF CommandSteps, Records
  <2>2. OneObtains'
    BY <2>a, <2>b, <2>d DEF Records, OneObtains
  <2>3. Untouched'
    <3>1. ~removals' => ~removals /\ ~cached.exists
      BY Zenon
    <3>2. ~removals' => cached' \in {Whole, Absent} /\ command'[c].step = "error"
      BY <2>b, <3>1 DEF Untouched
    <3>3. ASSUME ~removals' PROVE Fresh(c)'
      BY <2>b, <3>1, <3>2, <3>3 DEF Untouched
    <3>4. ASSUME ~removals', NEW b \in Commands \ {c} PROVE Fresh(b)'
      BY <2>d, <3>1, <3>4 DEF Untouched
    <3> QED
      BY <3>2, <3>3, <3>4 DEF Untouched
  <2>4. Torn'
    BY <2>a, <2>b, <2>d DEF Records, Torn
  <2> QED
    BY <2>1, <2>2, <2>3, <2>4
<1>4. ASSUME NEW c \in Commands, Remove(c) PROVE PackagesInv'
  <2> USE <1>4 DEF Remove
  <2>1. PackagesTyped'
    BY DEF CommandSteps, Records
  <2>2. OneObtains'
    BY DEF Records, OneObtains
  <2>3. Untouched'
    BY DEF Records, Untouched
  <2>4. Torn'
    BY DEF Records, Torn
  <2> QED
    BY <2>1, <2>2, <2>3, <2>4
<1>5. ASSUME NEW c \in Commands, Plan(c) PROVE PackagesInv'
  <2>1. Is(c, "plan") /\ UNCHANGED <<cached, inFlight, dest, open, removals>>
    BY <1>5 DEF Plan
  <2>2. ASSUME Manifest \in cached.files,
               command' = [command EXCEPT ![c].step = "check", ![c].plan = cached.files \intersect Template]
        PROVE  PackagesInv'
    <3> DEFINE r == [command[c] EXCEPT !.step = "check", !.plan = cached.files \intersect Template]
    <3>0. r \in Records
      BY DEF Records, CommandSteps
    <3>r. /\ r.step = "check" /\ r.plan = cached.files \intersect Template
          /\ r.init = command[c].init /\ r.opened = command[c].opened /\ r.copied = command[c].copied /\ r.at = command[c].at
      BY DEF Records
    <3>s. command' = [command EXCEPT ![c] = r]
      BY <2>2
    <3> HIDE DEF r
    <3>1. /\ command'[c].step = "check" /\ command'[c].plan = cached.files \intersect Template
          /\ command'[c].init = command[c].init /\ command'[c].opened = command[c].opened /\ command'[c].copied = command[c].copied /\ command'[c].at = command[c].at
          /\ \A b \in Commands \ {c} : command'[b] = command[b]
      BY <3>r, <3>s
    <3>2. PackagesTyped'
      BY <2>1, <3>0, <3>s
    <3>3. OneObtains'
      BY <2>1, <3>1 DEF OneObtains
    <3>4. Untouched'
      <4>1. ~removals => cached = Whole /\ command[c].copied = {} /\ command[c].opened = {}
        BY <2>1, <2>2 DEF Untouched
      <4>2. ~removals => command'[c].plan = Template
        BY <3>1, <4>1
      <4>3. ASSUME ~removals PROVE Fresh(c)'
        BY <2>1, <3>1, <4>1, <4>2, <4>3
      <4>4. ASSUME ~removals, NEW b \in Commands \ {c} PROVE Fresh(b)'
        BY <2>1, <3>1, <4>4 DEF Untouched
      <4> QED
        BY <2>1, <4>1, <4>3, <4>4 DEF Untouched
    <3>5. Torn'
      BY <2>1, <3>1 DEF Torn
    <3> QED
      BY <3>2, <3>3, <3>4, <3>5
  <2>3. ASSUME To(c, "error") PROVE PackagesInv'
    <3>1. /\ command'[c].step = "error" /\ command'[c].init = command[c].init /\ command'[c].opened = command[c].opened /\ command'[c].copied = command[c].copied /\ command'[c].at = command[c].at
          /\ \A b \in Commands \ {c} : command'[b] = command[b]
      BY <2>3
    <3>2. PackagesTyped'
      BY <2>1, <2>3 DEF Records, CommandSteps
    <3>3. OneObtains'
      BY <2>1, <3>1 DEF OneObtains
    <3>4. Untouched'
      BY <2>1, <3>1 DEF Untouched
    <3>5. Torn'
      BY <2>1, <3>1 DEF Torn
    <3> QED
      BY <3>2, <3>3, <3>4, <3>5
  <2> QED
    BY <1>5, <2>2, <2>3 DEF Plan
<1>6. ASSUME NEW c \in Commands, CheckOpen(c) PROVE PackagesInv'
  <2> USE <1>6 DEF CheckOpen
  <2>a. command' \in [Commands -> Records]
    <3>1. command' = [command EXCEPT ![c] = [@ EXCEPT !.step = IF command[c].plan \intersect open = {} THEN "list" ELSE "error", !.opened = open]]
      OBVIOUS
    <3>2. [command[c] EXCEPT !.step = IF command[c].plan \intersect open = {} THEN "list" ELSE "error", !.opened = open] \in Records
      BY DEF Records, CommandSteps
    <3> QED
      BY <3>1, <3>2
  <2>d. \A b \in Commands \ {c} : command'[b] = command[b]
    OBVIOUS
  <2>b. /\ command'[c].step = IF command[c].plan \intersect open = {} THEN "list" ELSE "error"
        /\ command'[c].opened = open
        /\ command'[c].init = command[c].init
        /\ command'[c].plan = command[c].plan
        /\ command'[c].copied = command[c].copied /\ command'[c].at = command[c].at
    OBVIOUS
  <2>e. command[c].at = {}
    BY DEF Torn
  <2>1. PackagesTyped'
    BY <2>a, <2>b, <2>d DEF CommandSteps, Records
  <2>2. OneObtains'
    <3>1. ~Is(c, "obtain") /\ command'[c].step # "obtain" /\ inFlight' = inFlight
      BY <2>b
    <3> QED
      BY <2>d, <3>1, EntryKept
  <2>3. Untouched'
    <3>0. ~removals => Fresh(c) /\ cached = Whole
      BY DEF Untouched
    <3>1. ASSUME ~removals PROVE Fresh(c)'
      <4>1. command[c].plan = Template /\ command[c].copied = {}
        BY <3>0, <3>1
      <4>2. open # {} => command'[c].step = "error"
        BY <2>b, <4>1
      <4> QED
        BY <2>b, <2>e, <3>0, <3>1, <4>1, <4>2
    <3>2. ASSUME ~removals, NEW b \in Commands \ {c} PROVE Fresh(b)'
      BY <2>d, <3>2 DEF Untouched
    <3> QED
      BY <3>0, <3>1, <3>2 DEF Untouched
  <2>4. Torn'
    BY <2>a, <2>b, <2>d DEF Records, Torn
  <2> QED
    BY <2>1, <2>2, <2>3, <2>4
<1>7. ASSUME NEW c \in Commands, List(c) PROVE PackagesInv'
  <2> USE <1>7 DEF List
  <2>a. command' \in [Commands -> Records]
    <3>1. command' = [command EXCEPT ![c] = [@ EXCEPT !.step = "copy", !.plan = cached.files \intersect Template]]
      OBVIOUS
    <3>2. [command[c] EXCEPT !.step = "copy", !.plan = cached.files \intersect Template] \in Records
      BY DEF Records, CommandSteps
    <3> QED
      BY <3>1, <3>2
  <2>d. \A b \in Commands \ {c} : command'[b] = command[b]
    OBVIOUS
  <2>b. /\ command'[c].step = "copy" /\ command'[c].plan = cached.files \intersect Template
        /\ command'[c].init = command[c].init
        /\ command'[c].opened = command[c].opened
        /\ command'[c].copied = command[c].copied /\ command'[c].at = command[c].at
    OBVIOUS
  <2>1. PackagesTyped'
    BY <2>a, <2>b, <2>d DEF CommandSteps, Records
  <2>2. OneObtains'
    BY <2>a, <2>b, <2>d DEF Records, OneObtains
  <2>3. Untouched'
    BY <2>a, <2>b, <2>d DEF Records, Untouched
  <2>4. Torn'
    BY <2>a, <2>b, <2>d DEF Records, Torn
  <2> QED
    BY <2>1, <2>2, <2>3, <2>4
<1>8. ASSUME NEW c \in Commands, Copy(c) PROVE PackagesInv'
  <2>1. Is(c, "copy") /\ UNCHANGED <<cached, inFlight, dest, open, removals>>
    BY <1>8 DEF Copy
  <2>2. ASSUME NEW s \in {"ok", "error"}, s = "ok" => command[c].plan = {},
               To(c, s)
        PROVE  PackagesInv'
    <3> DEFINE r == [command[c] EXCEPT !.step = s]
    <3>0. r \in Records
      BY DEF Records, CommandSteps
    <3>r. /\ r.step = s /\ r.init = command[c].init /\ r.opened = command[c].opened /\ r.plan = command[c].plan
          /\ r.at = command[c].at /\ r.copied = command[c].copied
      BY DEF Records
    <3>s. command' = [command EXCEPT ![c] = r]
      BY <2>2
    <3> HIDE DEF r
    <3>1. command'[c] = r /\ \A b \in Commands \ {c} : command'[b] = command[b]
      BY <3>0, <3>s
    <3>2. PackagesTyped'
      BY <2>1, <2>2, <3>0, <3>s
    <3>3. OneObtains'
      BY <2>1, <3>1, <3>r, EntryKept
    <3>4. Untouched'
      <4>0. ~removals => Fresh(c) /\ cached = Whole
        BY <2>1 DEF Untouched
      <4>a. command[c].at = {}
        BY <2>1 DEF Torn
      <4>1. ASSUME ~removals PROVE Fresh(c)'
        BY <4>a, <4>0, <2>1, <2>2, <3>1, <3>r, <4>1
      <4>2. ASSUME ~removals, NEW b \in Commands \ {c} PROVE Fresh(b)'
        BY <2>1, <3>1, <4>2 DEF Untouched
      <4> QED
        BY <2>1, <4>1, <4>2 DEF Untouched
    <3>5. Torn'
      BY <2>1, <2>2, <3>1, <3>r DEF Torn, Records
    <3> QED
      BY <3>2, <3>3, <3>4, <3>5
  <2>3. ASSUME NEW f \in command[c].plan,
               command' = [command EXCEPT ![c].step = "create", ![c].plan = @ \ {f}, ![c].at = {f}]
        PROVE  PackagesInv'
    <3> DEFINE r == [command[c] EXCEPT !.step = "create", !.plan = @ \ {f}, !.at = {f}]
    <3>0. r \in Records
      BY DEF Records, CommandSteps
    <3>r. /\ r.step = "create" /\ r.init = command[c].init /\ r.opened = command[c].opened
          /\ r.plan = command[c].plan \ {f} /\ r.at = {f} /\ r.copied = command[c].copied
      BY DEF Records
    <3>s. command' = [command EXCEPT ![c] = r]
      BY <2>3
    <3> HIDE DEF r
    <3>1. command'[c] = r /\ \A b \in Commands \ {c} : command'[b] = command[b]
      BY <3>0, <3>s
    <3>2. PackagesTyped'
      BY <2>1, <2>3, <3>0, <3>s
    <3>3. OneObtains'
      BY <2>1, <3>1, <3>r, EntryKept
    <3>4. Untouched'
      <4>0. ~removals => Fresh(c) /\ cached = Whole
        BY <2>1 DEF Untouched
      <4>a. command[c].at = {}
        BY <2>1 DEF Torn
      <4>1. ASSUME ~removals PROVE Fresh(c)'
        BY <4>a, <4>0, <2>1, <2>3, <3>1, <3>r, <4>1
      <4>2. ASSUME ~removals, NEW b \in Commands \ {c} PROVE Fresh(b)'
        BY <2>1, <3>1, <4>2 DEF Untouched
      <4> QED
        BY <2>1, <4>1, <4>2 DEF Untouched
    <3>5. Torn'
      BY <2>1, <2>3, <3>1, <3>r DEF Torn, Records
    <3> QED
      BY <3>2, <3>3, <3>4, <3>5
  <2> QED
    BY <1>8, <2>2, <2>3 DEF Copy
<1>9. ASSUME NEW c \in Commands, CreateTarget(c) PROVE PackagesInv'
  <2>1. Is(c, "create") /\ UNCHANGED <<cached, inFlight, open, removals>>
    BY <1>9 DEF CreateTarget
  <2>2. ASSUME NEW f \in command[c].at, dest' = [dest EXCEPT ![f] = "part"],
               To(c, "write")
        PROVE  PackagesInv'
    <3> DEFINE r == [command[c] EXCEPT !.step = "write"]
    <3>0. r \in Records
      BY DEF Records, CommandSteps
    <3>r. /\ r.step = "write" /\ r.init = command[c].init /\ r.opened = command[c].opened /\ r.plan = command[c].plan
          /\ r.at = command[c].at /\ r.copied = command[c].copied
      BY DEF Records
    <3>s. command' = [command EXCEPT ![c] = r]
      BY <2>2
    <3> HIDE DEF r
    <3>1. command'[c] = r /\ \A b \in Commands \ {c} : command'[b] = command[b]
      BY <3>0, <3>s
    <3>2. PackagesTyped'
      BY <2>1, <2>2, <3>0, <3>s
    <3>3. OneObtains'
      BY <2>1, <3>1, <3>r, EntryKept
    <3>4. Untouched'
      <4>0. ~removals => Fresh(c) /\ cached = Whole
        BY <2>1 DEF Untouched
      <4>1. ASSUME ~removals PROVE Fresh(c)'
        BY <4>0, <2>1, <2>2, <3>1, <3>r, <4>1
      <4>2. ASSUME ~removals, NEW b \in Commands \ {c} PROVE Fresh(b)'
        BY <2>1, <3>1, <4>2 DEF Untouched
      <4> QED
        BY <2>1, <4>1, <4>2 DEF Untouched
    <3>5. Torn'
      BY <2>1, <2>2, <3>1, <3>r DEF Torn, Records
    <3> QED
      BY <3>2, <3>3, <3>4, <3>5
  <2>3. ASSUME dest' = dest,
               command' = [command EXCEPT ![c].step = "error", ![c].at = {}]
        PROVE  PackagesInv'
    <3> DEFINE r == [command[c] EXCEPT !.step = "error", !.at = {}]
    <3>0. r \in Records
      BY DEF Records, CommandSteps
    <3>r. /\ r.step = "error" /\ r.init = command[c].init /\ r.opened = command[c].opened /\ r.plan = command[c].plan
          /\ r.at = {} /\ r.copied = command[c].copied
      BY DEF Records
    <3>s. command' = [command EXCEPT ![c] = r]
      BY <2>3
    <3> HIDE DEF r
    <3>1. command'[c] = r /\ \A b \in Commands \ {c} : command'[b] = command[b]
      BY <3>0, <3>s
    <3>2. PackagesTyped'
      BY <2>1, <2>3, <3>0, <3>s
    <3>3. OneObtains'
      BY <2>1, <3>1, <3>r, EntryKept
    <3>4. Untouched'
      <4>0. ~removals => Fresh(c) /\ cached = Whole
        BY <2>1 DEF Untouched
      <4>1. ASSUME ~removals PROVE Fresh(c)'
        BY <4>0, <2>1, <2>3, <3>1, <3>r, <4>1
      <4>2. ASSUME ~removals, NEW b \in Commands \ {c} PROVE Fresh(b)'
        BY <2>1, <3>1, <4>2 DEF Untouched
      <4> QED
        BY <2>1, <4>1, <4>2 DEF Untouched
    <3>5. Torn'
      BY <2>1, <2>3, <3>1, <3>r DEF Torn, Records
    <3> QED
      BY <3>2, <3>3, <3>4, <3>5
  <2> QED
    BY <1>9, <2>2, <2>3 DEF CreateTarget
<1>10. ASSUME NEW c \in Commands, WriteTarget(c) PROVE PackagesInv'
  <2>1. Is(c, "write") /\ UNCHANGED <<cached, inFlight, open, removals>>
    BY <1>10 DEF WriteTarget
  <2>2. ASSUME NEW f \in command[c].at, dest' = [dest EXCEPT ![f] = "template"],
               command' = [command EXCEPT ![c].step = "copy", ![c].at = {}, ![c].copied = @ \union {f}]
        PROVE  PackagesInv'
    <3> DEFINE r == [command[c] EXCEPT !.step = "copy", !.at = {}, !.copied = @ \union {f}]
    <3>0. r \in Records
      BY DEF Records, CommandSteps
    <3>r. /\ r.step = "copy" /\ r.init = command[c].init /\ r.opened = command[c].opened /\ r.plan = command[c].plan
          /\ r.at = {} /\ r.copied = command[c].copied \union {f}
      BY DEF Records
    <3>s. command' = [command EXCEPT ![c] = r]
      BY <2>2
    <3> HIDE DEF r
    <3>1. command'[c] = r /\ \A b \in Commands \ {c} : command'[b] = command[b]
      BY <3>0, <3>s
    <3>2. PackagesTyped'
      BY <2>1, <2>2, <3>0, <3>s
    <3>3. OneObtains'
      BY <2>1, <3>1, <3>r, EntryKept
    <3>4. Untouched'
      <4>0. ~removals => Fresh(c) /\ cached = Whole
        BY <2>1 DEF Untouched
      <4>a. command[c].at = {f}
        BY <2>2 DEF Torn, Records
      <4>1. ASSUME ~removals PROVE Fresh(c)'
        BY <4>a, <4>0, <2>1, <2>2, <3>1, <3>r, <4>1
      <4>2. ASSUME ~removals, NEW b \in Commands \ {c} PROVE Fresh(b)'
        BY <2>1, <3>1, <4>2 DEF Untouched
      <4> QED
        BY <2>1, <4>1, <4>2 DEF Untouched
    <3>5. Torn'
      BY <2>1, <2>2, <3>1, <3>r DEF Torn, Records
    <3> QED
      BY <3>2, <3>3, <3>4, <3>5
  <2>3. ASSUME dest' = dest,
               To(c, "error")
        PROVE  PackagesInv'
    <3> DEFINE r == [command[c] EXCEPT !.step = "error"]
    <3>0. r \in Records
      BY DEF Records, CommandSteps
    <3>r. /\ r.step = "error" /\ r.init = command[c].init /\ r.opened = command[c].opened /\ r.plan = command[c].plan
          /\ r.at = command[c].at /\ r.copied = command[c].copied
      BY DEF Records
    <3>s. command' = [command EXCEPT ![c] = r]
      BY <2>3
    <3> HIDE DEF r
    <3>1. command'[c] = r /\ \A b \in Commands \ {c} : command'[b] = command[b]
      BY <3>0, <3>s
    <3>2. PackagesTyped'
      BY <2>1, <2>3, <3>0, <3>s
    <3>3. OneObtains'
      BY <2>1, <3>1, <3>r, EntryKept
    <3>4. Untouched'
      <4>0. ~removals => Fresh(c) /\ cached = Whole
        BY <2>1 DEF Untouched
      <4>1. ASSUME ~removals PROVE Fresh(c)'
        BY <4>0, <2>1, <2>3, <3>1, <3>r, <4>1
      <4>2. ASSUME ~removals, NEW b \in Commands \ {c} PROVE Fresh(b)'
        BY <2>1, <3>1, <4>2 DEF Untouched
      <4> QED
        BY <2>1, <4>1, <4>2 DEF Untouched
    <3>5. Torn'
      BY <2>1, <2>3, <3>1, <3>r DEF Torn, Records
    <3> QED
      BY <3>2, <3>3, <3>4, <3>5
  <2> QED
    BY <1>10, <2>2, <2>3 DEF WriteTarget
<1>11. ASSUME CompileObtains PROVE PackagesInv'
  <2> USE <1>11 DEF CompileObtains
  <2>1. PackagesTyped'
    BY DEF CommandSteps, Records
  <2>2. OneObtains'
    BY DEF Records, OneObtains
  <2>3. Untouched'
    BY DEF Records, Untouched
  <2>4. Torn'
    BY DEF Records, Torn
  <2> QED
    BY <2>1, <2>2, <2>3, <2>4
<1>12. ASSUME NEW f \in Template, OpenFile(f) PROVE PackagesInv'
  <2> USE <1>12 DEF OpenFile
  <2>1. PackagesTyped'
    BY DEF CommandSteps, Records
  <2>2. OneObtains'
    BY DEF Records, OneObtains
  <2>3. Untouched'
    BY DEF Records, Untouched
  <2>4. Torn'
    BY DEF Records, Torn
  <2> QED
    BY <2>1, <2>2, <2>3, <2>4
<1> QED
  BY <1>0, <1>1, <1>2, <1>3, <1>4, <1>5, <1>6, <1>7, <1>8, <1>9, <1>10, <1>11, <1>12 DEF PackagesNext

\* What the entry says of the number of commands that obtain the package.
LEMMA EntryCounts == ASSUME OneObtains PROVE InstallsAreAlone
<1> DEFINE Obtaining == {c \in Commands : Is(c, "obtain")}
<1>1. CASE inFlight
  <2>1. PICK c \in Commands : Obtaining = {c}
    BY <1>1 DEF OneObtains
  <2>2. Cardinality(Obtaining) = 1
    BY <2>1, FS_Singleton
  <2> QED
    BY <1>1, <2>2 DEF InstallsAreAlone
<1>2. CASE ~inFlight
  <2>1. Obtaining = {}
    BY <1>2 DEF OneObtains
  <2>2. Cardinality(Obtaining) = 0
    BY <2>1, FS_EmptySet
  <2> QED
    BY <1>2, <2>2 DEF InstallsAreAlone
<1> QED
  BY <1>1, <1>2

\* package_install, package_init_template and package_uninstall: one download at
\* a time, a template copied whole and no open file touched unless an uninstall
\* came between, and no torn file but the one at which a copy failed, for any
\* number of commands at the same time.
THEOREM TemplatesAreWhole == PackagesSpec => []PackagesAreWhole
<1>1. ASSUME PackagesInv PROVE PackagesAreWhole
  <2>1. InstallsAreAlone
    BY <1>1, EntryCounts DEF PackagesInv
  <2>2. TemplateIsWhole
    BY <1>1 DEF PackagesInv, PackagesTyped, Untouched, Fresh, TemplateIsWhole
  <2>3. OpenFilesKept
    BY <1>1 DEF PackagesInv, PackagesTyped, Untouched, Fresh, OpenFilesKept
  <2>4. TornFilesAreKnown
    BY <1>1 DEF PackagesInv, Torn, Is, TornFilesAreKnown
  <2> QED
    BY <2>1, <2>2, <2>3, <2>4 DEF PackagesAreWhole
<1> QED
  BY <1>1, PackagesInitInv, PackagesStepInv, PTL DEF PackagesSpec

-----------------------------------------------------------------------------

IndexTyped ==
    /\ idxDisk \in Int /\ idxMem \in Nat /\ served \in Nat \ {0} /\ overlapped \in BOOLEAN
    /\ reader \in [Readers -> [step : {"idle", "loaded", "fetched", "written"}, v : Int]]

Reads(r, step) == reader[r].step = step

\* As long as no two uses overlap, the file is ahead of the snapshot only
\* between the write and the parse of one refresh.
Alone ==
    ~overlapped =>
        /\ \A r, s \in Readers : ~Reads(r, "idle") /\ ~Reads(s, "idle") => r = s
        /\ \A r \in Readers :
              /\ Reads(r, "loaded") => reader[r].v = idxDisk /\ idxMem = 0
              /\ Reads(r, "fetched") => reader[r].v > 0
              /\ Reads(r, "written") => reader[r].v = idxDisk /\ idxDisk > 0
        /\ idxMem # 0 /\ (\A r \in Readers : ~Reads(r, "written")) => idxMem = idxDisk

IndexInv == IndexTyped /\ Alone

\* It holds with no snapshot, with or without a cache file.
THEOREM IndexInitInv == IndexInit => IndexInv
<1> SUFFICES ASSUME IndexInit PROVE IndexInv
  OBVIOUS
<1>1. IndexTyped
  <2>1. overlapped \in BOOLEAN
    BY Zenon DEF IndexInit
  <2>2. idxDisk \in Int /\ idxMem \in Nat /\ served \in Nat \ {0}
    BY DEF IndexInit
  <2>3. reader \in [Readers -> [step : {"idle", "loaded", "fetched", "written"}, v : Int]]
    BY DEF IndexInit
  <2> QED
    BY <2>1, <2>2, <2>3 DEF IndexTyped
<1>2. Alone
  BY DEF IndexInit, Alone, Reads
<1> QED
  BY <1>1, <1>2 DEF IndexInv

\* Every step of a reader, the registry or a restart keeps it.
LEMMA IndexStepInv == IndexInv /\ [IndexNext]_indexVars => IndexInv'
<1> SUFFICES ASSUME IndexInv, [IndexNext]_indexVars PROVE IndexInv'
  OBVIOUS
<1> USE DEF IndexInv, IndexTyped, Quiet, Holds, Reads
<1>0. CASE UNCHANGED indexVars
  BY <1>0 DEF indexVars, Alone
<1>1. ASSUME NEW r \in Readers, LoadCached(r) PROVE IndexInv'
  <2> USE <1>1 DEF LoadCached
  <2>0. overlapped' \in BOOLEAN /\ (~overlapped' => ~overlapped /\ \A s \in Readers : reader[s].step = "idle")
    BY Zenon
  <2>1. IndexTyped'
    BY <2>0
  <2>2. Alone'
    BY <2>0 DEF Alone
  <2> QED
    BY <2>1, <2>2
<1>2. ASSUME NEW r \in Readers, StoreLoaded(r) PROVE IndexInv'
  <2> USE <1>2 DEF StoreLoaded
  <2>1. IndexTyped'
    OBVIOUS
  <2>2. Alone'
    BY DEF Alone
  <2> QED
    BY <2>1, <2>2
<1>3. ASSUME NEW r \in Readers, Fetch(r) PROVE IndexInv'
  <2> USE <1>3 DEF Fetch
  <2>v. PICK v \in {served, -1} : /\ Holds(r, "fetched", v)
                                    /\ overlapped' = (overlapped \/ ~Quiet \/ v < 0)
    OBVIOUS
  <2>0. overlapped' \in BOOLEAN /\ (~overlapped' => ~overlapped /\ ~(v < 0) /\ \A s \in Readers : reader[s].step = "idle")
    BY <2>v, Zenon
  <2>1. IndexTyped'
    BY <2>v, <2>0
  <2>2. Alone'
    BY <2>v, <2>0 DEF Alone
  <2> QED
    BY <2>1, <2>2
<1>4. ASSUME NEW r \in Readers, WriteIndex(r) PROVE IndexInv'
  <2> USE <1>4 DEF WriteIndex
  <2>1. IndexTyped'
    OBVIOUS
  <2>2. Alone'
    BY DEF Alone
  <2> QED
    BY <2>1, <2>2
<1>5. ASSUME NEW r \in Readers, ParseIndex(r) PROVE IndexInv'
  <2> USE <1>5 DEF ParseIndex
  <2>1. IndexTyped'
    OBVIOUS
  <2>2. Alone'
    BY DEF Alone
  <2> QED
    BY <2>1, <2>2
<1>6. ASSUME Publish PROVE IndexInv'
  <2> USE <1>6 DEF Publish
  <2>1. IndexTyped'
    OBVIOUS
  <2>2. Alone'
    BY DEF Alone
  <2> QED
    BY <2>1, <2>2
<1>7. ASSUME StartAgain PROVE IndexInv'
  <2> USE <1>7 DEF StartAgain
  <2>1. IndexTyped'
    OBVIOUS
  <2>2. Alone'
    BY DEF Alone
  <2> QED
    BY <2>1, <2>2
<1> QED
  BY <1>0, <1>1, <1>2, <1>3, <1>4, <1>5, <1>6, <1>7 DEF IndexNext

\* list_catalog and refresh: uses of the index that do not overlap leave the
\* cache file and the snapshot the same, with any number of readers.
THEOREM SnapshotIsTheFile == IndexSpec => []IndexAgrees
<1>1. IndexInv => IndexAgrees
  BY DEF IndexInv, IndexTyped, Alone, Reads, Quiet, IndexAgrees
<1> QED
  BY <1>1, IndexInitInv, IndexStepInv, PTL DEF IndexSpec

-----------------------------------------------------------------------------
(* The installer of the language server.                                   *)

InstallSteps == {"off", "clean", "download", "verify", "extract", "park", "place", "smoke",
          "restore", "marker", "finish", "done"}
Contents == {"none", "part", "altered", "previous", "release"}

InstallerTyped ==
    /\ install \in [Installs -> [step : InstallSteps, attempt : Nat]]
    /\ files \in [binary : Contents, parked : Contents, extracted : Contents, archive : Contents, marker : Contents]
    /\ marred \in BOOLEAN /\ dropped \in BOOLEAN /\ had \in BOOLEAN

Active(t) == install[t].step \notin {"off", "done"}

\* The flag keeps a second install out.
OneInstall ==
    /\ \A t \in Installs : Active(t) => phase \in {"downloading", "verifying"}
    /\ \A s, t \in Installs : Active(s) /\ Active(t) => s = t

\* What a working binary that was there before asks of a file.
Owed(f) == had /\ ~dropped => Runs(f)
\* What is expected of a file as long as nothing has gone wrong.
Sound(f) == ~marred => f = "none" \/ Runs(f)

\* Where the old binary and the new one are at each step: until it is parked the
\* old one is in its place, then it is parked until the new one has run.
Placed ==
    /\ Sound(files.parked)
    /\ \A t \in Installs :
          /\ install[t].step \in {"clean", "download", "verify", "extract", "park"} =>
                 Sound(files.binary) /\ (~marred => Owed(files.binary))
          /\ install[t].step \in {"park", "place"} => files.extracted = "release"
          /\ install[t].step = "place" => files.binary = "none"
          /\ install[t].step \in {"place", "smoke", "restore"} => Owed(files.parked)
          /\ install[t].step \in {"smoke", "marker", "finish"} => files.binary = "release"
          /\ install[t].step \in {"marker", "finish"} => Runs(files.binary)
          /\ install[t].step = "finish" => files.marker = "release"

InstallerInv == InstallerTyped /\ OneInstall /\ Placed /\ WorkingBinaryKept /\ InstalledIsVerified

\* It holds where the program starts, with or without an earlier version.
THEOREM InstallerInitInv == InstallerInit => InstallerInv
<1> SUFFICES ASSUME InstallerInit PROVE InstallerInv
  OBVIOUS
<1> USE InstallerAssumption DEF InstallerInit, Runs
<1>1. PICK v \in {"none", "previous"} :
          /\ files = [binary |-> v, parked |-> "none", extracted |-> "none", archive |-> "none", marker |-> v]
          /\ had = (v = "previous")
  OBVIOUS
<1>2. InstallerTyped
  <2>1. had \in BOOLEAN /\ marred \in BOOLEAN /\ dropped \in BOOLEAN
    BY <1>1, Zenon
  <2>2. install \in [Installs -> [step : InstallSteps, attempt : Nat]]
    BY DEF InstallSteps
  <2>3. files \in [binary : Contents, parked : Contents, extracted : Contents, archive : Contents, marker : Contents]
    BY <1>1 DEF Contents
  <2> QED
    BY <2>1, <2>2, <2>3 DEF InstallerTyped
<1>3. OneInstall /\ Placed
  <2>1. files.parked = "none"
    BY <1>1
  <2> QED
    BY <2>1 DEF OneInstall, Placed, Active, Sound
<1>4. WorkingBinaryKept /\ InstalledIsVerified
  <2>1. had => v = "previous"
    BY <1>1, Zenon
  <2>2. files.binary = v
    BY <1>1
  <2> QED
    BY <2>1, <2>2 DEF WorkingBinaryKept, InstalledIsVerified
<1> QED
  BY <1>2, <1>3, <1>4 DEF InstallerInv

\* What a call that goes on does to the calls.
LEMMA InstallGoes ==
    ASSUME InstallerTyped, NEW t \in Installs, NEW step \in InstallSteps, Goes(t, step)
    PROVE  install'[t].step = step /\ install' \in [Installs -> [step : InstallSteps, attempt : Nat]]
  BY DEF InstallerTyped, Goes

\* Every step keeps it.
LEMMA InstallerStepInv == InstallerInv /\ [InstallerNext]_installerVars => InstallerInv'
<1> SUFFICES ASSUME InstallerInv, [InstallerNext]_installerVars PROVE InstallerInv'
  OBVIOUS
<1> USE InstallerAssumption DEF InstallerInv, InstallerTyped, Active, Under, Goes, Enters, Put, Fails, Runs
<1>0. CASE UNCHANGED installerVars
  BY <1>0 DEF installerVars, OneInstall, Placed, WorkingBinaryKept, InstalledIsVerified, InstallsIdle, Owed, Sound
<1>1. ASSUME NEW t \in Installs, BeginInstall(t) PROVE InstallerInv'
  <2> USE <1>1 DEF BeginInstall
  <2>1. InstallerTyped'
    BY DEF InstallSteps, Contents
  <2>2. OneInstall'
    BY DEF OneInstall
  <2>3. Placed'
    BY DEF OneInstall, Placed, Owed, Sound, WorkingBinaryKept, InstalledIsVerified, InstallsIdle
  <2>4. WorkingBinaryKept'
    BY DEF OneInstall, Placed, Owed, Sound, WorkingBinaryKept, InstallsIdle
  <2>5. InstalledIsVerified'
    BY DEF OneInstall, Placed, Owed, Sound, WorkingBinaryKept, InstalledIsVerified, InstallsIdle
  <2> QED
    BY <2>1, <2>2, <2>3, <2>4, <2>5
<1>2. ASSUME NEW t \in Installs, Clean(t) PROVE InstallerInv'
  <2> USE <1>2 DEF Clean
  <2>c. ASSUME NEW a \in Removal("archive"), NEW p \in Removal("parked"), NEW e \in Removal("extracted"),
               files' = [files EXCEPT !.archive = a, !.parked = p, !.extracted = e],
               dropped' = (dropped \/ (p = "none" /\ Runs(files.parked) /\ ~Runs(files.binary)))
        PROVE  /\ files' \in [binary : Contents, parked : Contents, extracted : Contents, archive : Contents, marker : Contents]
               /\ files'.binary = files.binary /\ files'.marker = files.marker
               /\ files'.parked = p /\ p \in {"none", files.parked}
               /\ dropped' \in BOOLEAN /\ (dropped => dropped') /\ (p = "none" /\ Runs(files.parked) /\ ~Runs(files.binary) => dropped')
    <3>1. a \in Contents /\ p \in Contents /\ e \in Contents /\ p \in {"none", files.parked}
      BY DEF Removal, Contents
    <3>2. dropped' \in BOOLEAN /\ (dropped => dropped') /\ (p = "none" /\ Runs(files.parked) /\ ~Runs(files.binary) => dropped')
      BY <2>c, Zenon
    <3> QED
      BY <2>c, <3>1, <3>2
  <2>a. \/ files' = files /\ dropped' = dropped /\ install'[t].step = "done" /\ phase' \in {"failed", "unsupported"}
        \/ /\ install'[t].step = "download" /\ phase' = phase
           /\ \E p \in {"none", files.parked} :
                 /\ files' \in [binary : Contents, parked : Contents, extracted : Contents, archive : Contents, marker : Contents]
                 /\ files'.binary = files.binary /\ files'.marker = files.marker /\ files'.parked = p
                 /\ dropped' \in BOOLEAN /\ (dropped => dropped') /\ (p = "none" /\ Runs(files.parked) /\ ~Runs(files.binary) => dropped')
    <3>1. CASE files' = files /\ dropped' = dropped /\ Goes(t, "done") /\ phase' \in {"failed", "unsupported"}
      BY <3>1
    <3>2. CASE /\ Goes(t, "download") /\ phase' = phase
               /\ \E a \in Removal("archive"), p \in Removal("parked"), e \in Removal("extracted") :
                     /\ files' = [files EXCEPT !.archive = a, !.parked = p, !.extracted = e]
                     /\ dropped' = (dropped \/ (p = "none" /\ Runs(files.parked) /\ ~Runs(files.binary)))
      <4>1. install'[t].step = "download" /\ phase' = phase
        BY <3>2, InstallGoes DEF InstallSteps
      <4> QED
        BY <3>2, <4>1, <2>c, Zenon
    <3> QED
      BY <3>1, <3>2, Zenon
  <2>b. install' \in [Installs -> [step : InstallSteps, attempt : Nat]]
    BY InstallGoes DEF InstallSteps
  <2>1. InstallerTyped'
    BY <2>a, <2>b
  <2>2. OneInstall'
    BY DEF OneInstall
  <2>3. Placed'
    BY <2>a DEF OneInstall, Placed, Owed, Sound, WorkingBinaryKept, InstalledIsVerified, InstallsIdle
  <2>4. WorkingBinaryKept'
    BY <2>a DEF OneInstall, Placed, Owed, Sound, WorkingBinaryKept, InstallsIdle
  <2>5. InstalledIsVerified'
    BY <2>a DEF OneInstall, Placed, Owed, Sound, WorkingBinaryKept, InstalledIsVerified, InstallsIdle
  <2> QED
    BY <2>1, <2>2, <2>3, <2>4, <2>5
<1>3. ASSUME NEW t \in Installs, Download(t) PROVE InstallerInv'
  <2> USE <1>3 DEF Download, AttemptFails
  <2>1. InstallerTyped'
    BY DEF InstallSteps, Contents
  <2>2. OneInstall'
    BY DEF OneInstall
  <2>3. Placed'
    BY DEF OneInstall, Placed, Owed, Sound, WorkingBinaryKept, InstalledIsVerified, InstallsIdle
  <2>4. WorkingBinaryKept'
    BY DEF OneInstall, Placed, Owed, Sound, WorkingBinaryKept, InstallsIdle
  <2>5. InstalledIsVerified'
    BY DEF OneInstall, Placed, Owed, Sound, WorkingBinaryKept, InstalledIsVerified, InstallsIdle
  <2> QED
    BY <2>1, <2>2, <2>3, <2>4, <2>5
<1>4. ASSUME NEW t \in Installs, Verify(t) PROVE InstallerInv'
  <2> USE <1>4 DEF Verify, AttemptFails
  <2>1. InstallerTyped'
    BY DEF InstallSteps, Contents
  <2>2. OneInstall'
    BY DEF OneInstall
  <2>3. Placed'
    BY DEF OneInstall, Placed, Owed, Sound, WorkingBinaryKept, InstalledIsVerified, InstallsIdle
  <2>4. WorkingBinaryKept'
    BY DEF OneInstall, Placed, Owed, Sound, WorkingBinaryKept, InstallsIdle
  <2>5. InstalledIsVerified'
    BY DEF OneInstall, Placed, Owed, Sound, WorkingBinaryKept, InstalledIsVerified, InstallsIdle
  <2> QED
    BY <2>1, <2>2, <2>3, <2>4, <2>5
<1>5. ASSUME NEW t \in Installs, Extract(t) PROVE InstallerInv'
  <2> USE <1>5 DEF Extract
  <2>c. ASSUME NEW a \in Removal("archive"), files' = [files EXCEPT !.extracted = "release", !.archive = a]
        PROVE  /\ files' \in [binary : Contents, parked : Contents, extracted : Contents, archive : Contents, marker : Contents]
               /\ files'.extracted = "release"
               /\ files'.binary = files.binary /\ files'.parked = files.parked /\ files'.marker = files.marker
    BY <2>c DEF Removal, Contents
  <2>a. files' \in [binary : Contents, parked : Contents, extracted : Contents, archive : Contents, marker : Contents]
    BY <2>c DEF Contents
  <2>b. /\ files'.binary = files.binary /\ files'.parked = files.parked /\ files'.marker = files.marker
        /\ \/ install'[t].step = "done" /\ phase' = "failed"
           \/ install'[t].step = "park" /\ phase' = phase /\ files'.extracted = "release"
    <3>1. CASE Put("extracted", "part") /\ Fails(t)
      BY <3>1
    <3>2. CASE /\ \E a \in Removal("archive") : files' = [files EXCEPT !.extracted = "release", !.archive = a]
               /\ Goes(t, "park") /\ phase' = phase
      <4>1. install'[t].step = "park"
        BY <3>2, InstallGoes DEF InstallSteps
      <4> QED
        BY <2>c, <3>2, <4>1
    <3> QED
      BY <3>1, <3>2, Zenon
  <2>d. install' \in [Installs -> [step : InstallSteps, attempt : Nat]]
    BY InstallGoes DEF InstallSteps
  <2>1. InstallerTyped'
    BY <2>a, <2>d
  <2>2. OneInstall'
    BY DEF OneInstall
  <2>3. Placed'
    BY <2>a, <2>b DEF OneInstall, Placed, Owed, Sound, WorkingBinaryKept, InstalledIsVerified, InstallsIdle
  <2>4. WorkingBinaryKept'
    BY <2>a, <2>b DEF OneInstall, Placed, Owed, Sound, WorkingBinaryKept, InstallsIdle
  <2>5. InstalledIsVerified'
    BY <2>a, <2>b DEF OneInstall, Placed, Owed, Sound, WorkingBinaryKept, InstalledIsVerified, InstallsIdle
  <2> QED
    BY <2>1, <2>2, <2>3, <2>4, <2>5
<1>6. ASSUME NEW t \in Installs, Park(t) PROVE InstallerInv'
  <2> USE <1>6 DEF Park
  <2>c. ASSUME NEW e \in Removal("extracted"), Put("extracted", e), Fails(t)
        PROVE  /\ files' \in [binary : Contents, parked : Contents, extracted : Contents, archive : Contents, marker : Contents]
               /\ files'.binary = files.binary /\ files'.parked = files.parked /\ files'.marker = files.marker
               /\ install'[t].step = "done" /\ phase' = "failed"
    BY <2>c DEF Removal, Contents
  <2>d. ASSUME files.binary # "none",
               files' = [files EXCEPT !.parked = files.binary, !.binary = "none"], Goes(t, "place"), phase' = phase
        PROVE  /\ files' \in [binary : Contents, parked : Contents, extracted : Contents, archive : Contents, marker : Contents]
               /\ files'.binary = "none" /\ files'.extracted = files.extracted /\ files'.marker = files.marker
               /\ files'.parked = files.binary /\ install'[t].step = "place" /\ phase' = phase
    BY <2>d DEF Contents
  <2>e. dropped' \in BOOLEAN /\ (dropped => dropped')
    BY Zenon
  <2>a. files' \in [binary : Contents, parked : Contents, extracted : Contents, archive : Contents, marker : Contents]
    BY <2>c, <2>d
  <2>b. \/ /\ files'.binary = files.binary /\ files'.parked = files.parked /\ files'.marker = files.marker
           /\ install'[t].step = "done" /\ phase' = "failed" /\ dropped' = dropped
        \/ /\ files.binary = "none" /\ files' = files /\ dropped' = dropped
           /\ install'[t].step = "place" /\ phase' = phase
        \/ /\ files'.binary = "none" /\ files'.extracted = files.extracted /\ files'.marker = files.marker
           /\ files'.parked = files.binary /\ dropped' = (dropped \/ (Runs(files.parked) /\ ~Runs(files.binary)))
           /\ install'[t].step = "place" /\ phase' = phase
    BY <2>c, <2>d
  <2>1. InstallerTyped'
    BY <2>a, <2>e DEF InstallSteps
  <2>2. OneInstall'
    BY DEF OneInstall
  <2>3. Placed'
    BY <2>a, <2>b, <2>e DEF OneInstall, Placed, Owed, Sound, WorkingBinaryKept, InstalledIsVerified, InstallsIdle
  <2>4. WorkingBinaryKept'
    BY <2>a, <2>b, <2>e DEF OneInstall, Placed, Owed, Sound, WorkingBinaryKept, InstallsIdle
  <2>5. InstalledIsVerified'
    BY <2>a, <2>b, <2>e DEF OneInstall, Placed, Owed, Sound, WorkingBinaryKept, InstalledIsVerified, InstallsIdle
  <2> QED
    BY <2>1, <2>2, <2>3, <2>4, <2>5
<1>7. ASSUME NEW t \in Installs, Place(t) PROVE InstallerInv'
  <2> USE <1>7 DEF Place
  <2>c. ASSUME NEW e \in Removal("extracted"), RestoreThen([files EXCEPT !.extracted = e]), Fails(t)
        PROVE  /\ files' \in [binary : Contents, parked : Contents, extracted : Contents, archive : Contents, marker : Contents]
               /\ marred' \in BOOLEAN /\ files'.marker = files.marker
               /\ install'[t].step = "done" /\ phase' = "failed"
               /\ \/ files'.binary = files.parked /\ files'.parked = "none" /\ marred' = marred
                  \/ /\ files'.binary = files.binary /\ files'.parked = files.parked
                     /\ marred' = (marred \/ files.parked # "none" \/ files.binary # "none")
    <3> DEFINE kept == [files EXCEPT !.extracted = e]
    <3>1. kept.binary = files.binary /\ kept.parked = files.parked /\ kept.marker = files.marker
      OBVIOUS
    <3>2. kept \in [binary : Contents, parked : Contents, extracted : Contents, archive : Contents, marker : Contents]
      BY DEF Removal, Contents
    <3> HIDE DEF kept
    <3>3. RestoreThen(kept)
      BY <2>c DEF kept
    <3>4. install'[t].step = "done" /\ phase' = "failed"
      BY <2>c
    <3>5. CASE kept.parked # "none" /\ files' = [kept EXCEPT !.binary = kept.parked, !.parked = "none"] /\ marred' = marred
      BY <3>1, <3>2, <3>4, <3>5 DEF Contents
    <3>6. CASE files' = kept /\ marred' = (marred \/ kept.parked # "none" \/ kept.binary # "none")
      <4>1. marred' \in BOOLEAN
        BY <3>6, Zenon
      <4> QED
        BY <3>1, <3>2, <3>4, <3>6, <4>1
    <3> QED
      BY <3>3, <3>5, <3>6 DEF RestoreThen
  <2>d. ASSUME files' = [files EXCEPT !.binary = files.extracted, !.extracted = "none"],
               Goes(t, "smoke"), phase' = phase
        PROVE  /\ files' \in [binary : Contents, parked : Contents, extracted : Contents, archive : Contents, marker : Contents]
               /\ files'.binary = files.extracted /\ files'.parked = files.parked
               /\ install'[t].step = "smoke" /\ phase' = phase
    BY <2>d DEF Contents
  <2>a. files' \in [binary : Contents, parked : Contents, extracted : Contents, archive : Contents, marker : Contents]
    BY <2>c, <2>d
  <2>e. marred' \in BOOLEAN
    BY <2>c
  <2>b. \/ /\ install'[t].step = "done" /\ phase' = "failed"
           /\ \/ files'.binary = files.parked /\ files'.parked = "none" /\ marred' = marred
              \/ /\ files'.binary = files.binary /\ files'.parked = files.parked
                 /\ marred' = (marred \/ files.parked # "none" \/ files.binary # "none")
        \/ /\ files'.binary = files.extracted /\ files'.parked = files.parked
           /\ install'[t].step = "smoke" /\ phase' = phase /\ marred' = marred
    BY <2>c, <2>d
  <2>1. InstallerTyped'
    BY <2>a, <2>e DEF InstallSteps
  <2>2. OneInstall'
    BY DEF OneInstall
  <2>3. Placed'
    BY <2>a, <2>b, <2>e DEF OneInstall, Placed, Owed, Sound, WorkingBinaryKept, InstalledIsVerified, InstallsIdle
  <2>4. WorkingBinaryKept'
    BY <2>a, <2>b, <2>e DEF OneInstall, Placed, Owed, Sound, WorkingBinaryKept, InstallsIdle
  <2>5. InstalledIsVerified'
    BY <2>a, <2>b, <2>e DEF OneInstall, Placed, Owed, Sound, WorkingBinaryKept, InstalledIsVerified, InstallsIdle
  <2> QED
    BY <2>1, <2>2, <2>3, <2>4, <2>5
<1>8. ASSUME NEW t \in Installs, Smoke(t) PROVE InstallerInv'
  <2> USE <1>8 DEF Smoke
  <2>c. ASSUME NEW b \in Removal("binary"), Put("binary", b)
        PROVE  /\ files' \in [binary : Contents, parked : Contents, extracted : Contents, archive : Contents, marker : Contents]
               /\ files'.parked = files.parked
    BY <2>c DEF Removal, Contents
  <2>a. files' \in [binary : Contents, parked : Contents, extracted : Contents, archive : Contents, marker : Contents] /\ files'.parked = files.parked
    BY <2>c
  <2>1. InstallerTyped'
    BY <2>a DEF InstallSteps, Contents
  <2>2. OneInstall'
    BY DEF OneInstall
  <2>3. Placed'
    BY <2>a DEF OneInstall, Placed, Owed, Sound, WorkingBinaryKept, InstalledIsVerified, InstallsIdle
  <2>4. WorkingBinaryKept'
    BY <2>a DEF OneInstall, Placed, Owed, Sound, WorkingBinaryKept, InstallsIdle
  <2>5. InstalledIsVerified'
    BY <2>a DEF OneInstall, Placed, Owed, Sound, WorkingBinaryKept, InstalledIsVerified, InstallsIdle
  <2> QED
    BY <2>1, <2>2, <2>3, <2>4, <2>5
<1>9. ASSUME NEW t \in Installs, Restore(t) PROVE InstallerInv'
  <2> USE <1>9 DEF Restore, RestoreThen
  <2>a. files' \in [binary : Contents, parked : Contents, extracted : Contents, archive : Contents, marker : Contents]
    BY DEF Contents
  <2>e. marred' \in BOOLEAN
    BY Zenon
  <2>b. /\ install'[t].step = "done" /\ phase' = "failed"
        /\ \/ files'.binary = files.parked /\ files'.parked = "none" /\ marred' = marred
           \/ /\ files'.binary = files.binary /\ files'.parked = files.parked
              /\ marred' = (marred \/ files.parked # "none" \/ files.binary # "none")
    OBVIOUS
  <2>1. InstallerTyped'
    BY <2>a, <2>e DEF InstallSteps
  <2>2. OneInstall'
    BY DEF OneInstall
  <2>3. Placed'
    BY <2>a, <2>b, <2>e DEF OneInstall, Placed, Owed, Sound, WorkingBinaryKept, InstalledIsVerified, InstallsIdle
  <2>4. WorkingBinaryKept'
    BY <2>a, <2>b, <2>e DEF OneInstall, Placed, Owed, Sound, WorkingBinaryKept, InstallsIdle
  <2>5. InstalledIsVerified'
    BY <2>a, <2>b, <2>e DEF OneInstall, Placed, Owed, Sound, WorkingBinaryKept, InstalledIsVerified, InstallsIdle
  <2> QED
    BY <2>1, <2>2, <2>3, <2>4, <2>5
<1>10. ASSUME NEW t \in Installs, Mark(t) PROVE InstallerInv'
  <2> USE <1>10 DEF Mark
  <2>1. InstallerTyped'
    BY DEF InstallSteps, Contents
  <2>2. OneInstall'
    BY DEF OneInstall
  <2>3. Placed'
    BY DEF OneInstall, Placed, Owed, Sound, WorkingBinaryKept, InstalledIsVerified, InstallsIdle
  <2>4. WorkingBinaryKept'
    BY DEF OneInstall, Placed, Owed, Sound, WorkingBinaryKept, InstallsIdle
  <2>5. InstalledIsVerified'
    BY DEF OneInstall, Placed, Owed, Sound, WorkingBinaryKept, InstalledIsVerified, InstallsIdle
  <2> QED
    BY <2>1, <2>2, <2>3, <2>4, <2>5
<1>11. ASSUME NEW t \in Installs, Finish(t) PROVE InstallerInv'
  <2> USE <1>11 DEF Finish
  <2>c. ASSUME NEW p \in Removal("parked"), Put("parked", p)
        PROVE  /\ files' \in [binary : Contents, parked : Contents, extracted : Contents, archive : Contents, marker : Contents]
               /\ files'.binary = files.binary /\ files'.marker = files.marker /\ files'.parked \in {"none", files.parked}
    BY <2>c DEF Removal, Contents
  <2>a. /\ files' \in [binary : Contents, parked : Contents, extracted : Contents, archive : Contents, marker : Contents]
        /\ files'.binary = files.binary /\ files'.marker = files.marker /\ files'.parked \in {"none", files.parked}
    BY <2>c
  <2>1. InstallerTyped'
    BY <2>a DEF InstallSteps, Contents
  <2>2. OneInstall'
    BY DEF OneInstall
  <2>3. Placed'
    BY <2>a DEF OneInstall, Placed, Owed, Sound, WorkingBinaryKept, InstalledIsVerified, InstallsIdle
  <2>4. WorkingBinaryKept'
    BY <2>a DEF OneInstall, Placed, Owed, Sound, WorkingBinaryKept, InstallsIdle
  <2>5. InstalledIsVerified'
    BY <2>a DEF OneInstall, Placed, Owed, Sound, WorkingBinaryKept, InstalledIsVerified, InstallsIdle
  <2> QED
    BY <2>1, <2>2, <2>3, <2>4, <2>5
<1>12. ASSUME ProgramEnds PROVE InstallerInv'
  <2> USE <1>12 DEF ProgramEnds
  <2>1. InstallerTyped'
    BY DEF InstallSteps, Contents
  <2>2. OneInstall'
    BY DEF OneInstall
  <2>3. Placed'
    BY DEF OneInstall, Placed, Owed, Sound, WorkingBinaryKept, InstalledIsVerified, InstallsIdle
  <2>4. WorkingBinaryKept'
    BY DEF OneInstall, Placed, Owed, Sound, WorkingBinaryKept, InstallsIdle
  <2>5. InstalledIsVerified'
    BY DEF OneInstall, Placed, Owed, Sound, WorkingBinaryKept, InstalledIsVerified, InstallsIdle
  <2> QED
    BY <2>1, <2>2, <2>3, <2>4, <2>5
<1> QED
  BY <1>0, <1>1, <1>2, <1>3, <1>4, <1>5, <1>6, <1>7, <1>8, <1>9, <1>10, <1>11, <1>12 DEF InstallerNext

\* LspInstaller: an upgrade never costs the binary that works, however often it
\* is asked for and whichever removal fails, and leaves one that does not run in
\* its place only where the file system refuses to remove and to replace it.
THEOREM UpgradesAreSafe == InstallerSpec => []BinaryIsSafe
<1>1. InstallerInv => BinaryIsSafe
  BY DEF InstallerInv, BinaryIsSafe
<1> QED
  BY <1>1, InstallerInitInv, InstallerStepInv, PTL DEF InstallerSpec

-----------------------------------------------------------------------------
(* Replace in files.                                                       *)

Buffers == [id : Nat, text : Text, rev : Nat, dirty : BOOLEAN, base : Text]
Jobs == [pc : {"idle", "next", "text", "swap", "cas", "astray", "moved", "again", "write", "done", "aborted"},
         todo : SUBSET Files, walked : SUBSET Files, ids : [Files -> Nat], file : Files \union {0},
         text : Text, rev : Nat, tries : Nat, closed : SUBSET Files, applied : SUBSET Files, failed : SUBSET Files]

ReplaceTyped ==
    /\ onDisk \in [Files -> Text] /\ buf \in [Files -> Buffers] /\ job \in Jobs
    /\ edits \in Nat /\ ids \in Nat /\ owed \subseteq Files \X Nat
    /\ raced \subseteq Files /\ touched \subseteq Files

\* A buffer holds the edits of the text it was loaded from or saved as, and the
\* disk still does; a clean one holds no others.
BufferKeepsBase(f) ==
    Doc(f) => /\ buf[f].base.edits \subseteq buf[f].text.edits
              /\ buf[f].base.edits \subseteq onDisk[f].edits \/ f \in raced
              /\ ~buf[f].dirty => buf[f].text.edits = buf[f].base.edits
BuffersKeepBase == \A f \in Files : BufferKeepsBase(f)

\* What the command has in hand, and of which kind the file is.
InHandOnce ==
    /\ job.pc \in {"text", "swap", "cas", "astray", "moved", "again"} => job.file \in Files /\ job.ids[job.file] # 0
    /\ job.pc = "cas" => buf[job.file].id = job.ids[job.file]
    /\ job.pc = "astray" => job.file \in touched
    /\ job.pc = "write" =>
          job.file \in Files /\ job.ids[job.file] = 0 /\ (job.file \in raced \/ onDisk[job.file] = job.text)
    /\ \A f \in job.closed : job.ids[f] = 0
    /\ job.pc = "done" => job.todo = {} /\ job.closed = {}

\* A file that opened or closed since the command looked is known to have.
OpenedIsTouched == job.pc # "idle" => \A f \in Files : buf[f].id # job.ids[f] => f \in touched

\* The files that are not done with, and those that are.
Waiting(f) ==
    \/ f \in job.todo \/ f \in job.closed
    \/ f = job.file /\ job.pc \in {"text", "swap", "cas", "astray", "moved", "again", "write"}
Accounted(f) == f \in job.failed \/ f \in touched \/ ~Now(f).hits
AllAccounted ==
    job.pc \notin {"idle", "aborted"} => \A f \in job.walked : Waiting(f) \/ Accounted(f)

ReplaceInv ==
    /\ ReplaceTyped /\ BuffersKeepBase /\ InHandOnce /\ OpenedIsTouched /\ AllAccounted
    /\ EditsSurviveReplace

\* What somebody does to one file leaves the command's books in order.
LEMMA OthersAccount ==
    ASSUME ReplaceInv, NEW f \in Files, job' = job \/ Strays(f), touched' = touched \union {f},
           \A g \in Files \ {f} : buf'[g] = buf[g] /\ onDisk'[g] = onDisk[g],
           raced \subseteq raced', onDisk'[f] = onDisk[f] \/ Cross(f),
           buf'[f].id = buf[f].id \/ ~Doc(f) \/ Strays(f)
    PROVE  job' \in Jobs /\ InHandOnce' /\ OpenedIsTouched' /\ AllAccounted'
<1> USE DEF ReplaceInv
<1>0. /\ job' \in Jobs /\ job'.todo = job.todo /\ job'.closed = job.closed /\ job'.file = job.file
      /\ job'.ids = job.ids /\ job'.walked = job.walked /\ job'.failed = job.failed /\ job'.text = job.text
      /\ \/ job'.pc = job.pc
         \/ job.pc = "cas" /\ job.file = f /\ job'.pc \in {"astray", "moved"}
  BY DEF Strays, ReplaceTyped, Jobs
<1>1. InHandOnce'
  <2>1. job'.pc = "cas" => buf'[job.file].id = job.ids[job.file]
    <3> SUFFICES ASSUME job'.pc = "cas" PROVE buf'[job.file].id = job.ids[job.file]
      OBVIOUS
    <3>1. job.pc = "cas" /\ job.file \in Files /\ job.ids[job.file] # 0 /\ buf[job.file].id = job.ids[job.file]
      BY <1>0 DEF InHandOnce
    <3>2. CASE job.file = f
      <4>1. ~Strays(f)
        <5>1. SUFFICES ASSUME Strays(f) PROVE FALSE
          OBVIOUS
        <5>2. job \in Jobs /\ job' = [job EXCEPT !.pc = IF Seen THEN "astray" ELSE "moved"]
          BY <3>1, <3>2, <5>1 DEF Strays, ReplaceTyped
        <5> QED BY <5>2 DEF Jobs
      <4> QED BY <3>1, <3>2, <4>1 DEF Doc
    <3>3. CASE job.file # f
      BY <3>1, <3>3
    <3> QED BY <3>2, <3>3
  <2>2. job'.pc = "astray" => job.file \in touched'
    BY <1>0 DEF InHandOnce
  <2> QED BY <1>0, <2>1, <2>2 DEF InHandOnce, Cross
<1>2. OpenedIsTouched'
  BY <1>0 DEF OpenedIsTouched, ReplaceTyped
<1>3. ASSUME NEW g \in job.walked, Waiting(g) \/ Accounted(g) PROVE (Waiting(g) \/ Accounted(g))'
  <2>1. CASE g = f
    BY <1>0, <2>1 DEF Accounted
  <2>2. CASE g # f
    <3>1. g \in Files
      BY <1>3 DEF ReplaceTyped, Jobs
    <3>2. Now(g)' = Now(g)
      BY <2>2, <3>1 DEF Now, Doc
    <3> QED BY <1>0, <1>3, <2>2, <3>2 DEF Waiting, Accounted
  <2> QED BY <2>1, <2>2
<1>4. AllAccounted'
  BY <1>0, <1>3 DEF AllAccounted
<1> QED BY <1>0, <1>1, <1>2, <1>4

\* A command that changes no text and no document loses no edit.
LEMMA QuietStep ==
    ASSUME ReplaceInv, UNCHANGED <<onDisk, buf, owed, raced>>
    PROVE  BuffersKeepBase' /\ EditsSurviveReplace'
BY DEF ReplaceInv, BuffersKeepBase, BufferKeepsBase, EditsSurviveReplace, Doc, Now

LEMMA TypeKeeps ==
    ASSUME ReplaceInv, NEW f \in Files, NEW hits \in BOOLEAN, NEW bump \in 0 .. 1, Type(f, bump, hits)
    PROVE  ReplaceInv'
<1> USE DEF ReplaceInv
<1> DEFINE new == Edited(buf[f].text, hits)
<1> DEFINE r == [buf[f] EXCEPT !.text = new, !.rev = @ + bump, !.dirty = TRUE]
<1>1. /\ Doc(f) /\ edits < MaxEdits /\ edits' = edits + 1
      /\ owed' = owed \union {<<f, edits + 1>>} /\ touched' = touched \union {f}
      /\ UNCHANGED <<onDisk, job, ids, raced>>
  BY DEF Type, Touch
<1>2. buf[f] \in Buffers /\ buf[f].text \in Text /\ edits + 1 \in 1 .. MaxEdits
  BY <1>1, ReplaceAssumption DEF ReplaceTyped, Buffers
<1>3. buf[f].text.hits \in BOOLEAN /\ buf[f].text.edits \subseteq 1 .. MaxEdits
  BY <1>2 DEF Text
<1>4. new \in Text /\ new.edits = buf[f].text.edits \union {edits + 1}
  <2>1. (buf[f].text.hits \/ hits) \in BOOLEAN
    OBVIOUS
  <2> QED BY <1>2, <1>3, <2>1 DEF Text, Edited
<1> HIDE DEF new
<1>5. r \in Buffers /\ r.id = buf[f].id /\ r.text = new /\ r.base = buf[f].base /\ r.dirty = TRUE
  <2>1. buf[f].rev + bump \in Nat
    BY <1>2 DEF Buffers
  <2> QED BY <1>2, <1>4, <2>1 DEF Buffers
<1>6. buf' = [buf EXCEPT ![f] = r]
  BY DEF Type, new
<1> HIDE DEF r
<1>7. buf' \in [Files -> Buffers] /\ buf'[f] = r /\ \A g \in Files \ {f} : buf'[g] = buf[g]
  BY <1>5, <1>6 DEF ReplaceTyped
<1>8. ReplaceTyped'
  BY <1>1, <1>2, <1>7 DEF ReplaceTyped
<1>9. InHandOnce' /\ OpenedIsTouched' /\ AllAccounted'
  BY <1>1, <1>5, <1>7, OthersAccount
<1>10. BuffersKeepBase'
  BY <1>1, <1>4, <1>5, <1>7 DEF BuffersKeepBase, BufferKeepsBase, Doc
<1>11. \A g \in Files : Now(g).edits \subseteq Now(g)'.edits
  BY <1>1, <1>4, <1>5, <1>7 DEF Now, Doc
<1>12. edits + 1 \in Now(f)'.edits
  BY <1>1, <1>4, <1>5, <1>7 DEF Now, Doc
<1>13. EditsSurviveReplace'
  <2>1. ASSUME NEW fn \in owed' PROVE fn[1] \in raced' \/ fn[2] \in Now(fn[1])'.edits \/ fn[2] \in onDisk'[fn[1]].edits
    <3>1. CASE fn \in owed
      BY <1>1, <1>11, <3>1 DEF EditsSurviveReplace, ReplaceTyped
    <3>2. CASE fn = <<f, edits + 1>>
      BY <1>12, <3>2
    <3> QED BY <1>1, <2>1, <3>1, <3>2
  <2> QED BY <2>1 DEF EditsSurviveReplace
<1> QED BY <1>8, <1>9, <1>10, <1>13

\* Whatever was in a file is there still, or somebody wrote it in between.
LEMMA GrownKeepsEdits ==
    ASSUME ReplaceInv, owed' \subseteq owed, raced \subseteq raced',
           \A f \in Files : f \in raced' \/ \A n \in Now(f).edits \union onDisk[f].edits :
                                <<f, n>> \in owed' => n \in Now(f)'.edits \union onDisk'[f].edits
    PROVE  EditsSurviveReplace'
<1>1. ASSUME NEW fn \in owed'
      PROVE  fn[1] \in raced' \/ fn[2] \in Now(fn[1])'.edits \/ fn[2] \in onDisk'[fn[1]].edits
  <2>1. /\ fn \in owed /\ fn[1] \in Files /\ fn = <<fn[1], fn[2]>>
        /\ fn[1] \in raced \/ fn[2] \in Now(fn[1]).edits \/ fn[2] \in onDisk[fn[1]].edits
    BY <1>1 DEF ReplaceInv, ReplaceTyped, EditsSurviveReplace
  <2> QED BY <1>1, <2>1
<1> QED BY <1>1 DEF EditsSurviveReplace

LEMMA SaveDocKeeps == ASSUME ReplaceInv, NEW f \in Files, SaveDoc(f) PROVE ReplaceInv'
<1> USE DEF ReplaceInv
<1> DEFINE r == [buf[f] EXCEPT !.dirty = FALSE, !.base = buf[f].text]
<1>1. /\ Doc(f) /\ onDisk' = [onDisk EXCEPT ![f] = buf[f].text]
      /\ owed' = owed \ {<<f, n>> : n \in onDisk[f].edits \ (buf[f].base.edits \union buf[f].text.edits)}
      /\ Cross(f) /\ touched' = touched \union {f}
      /\ UNCHANGED <<job, edits, ids>>
  BY DEF SaveDoc, Touch
<1>2. buf[f] \in Buffers /\ buf[f].text \in Text
  BY DEF ReplaceTyped, Buffers
<1>3. r \in Buffers /\ r.id = buf[f].id /\ r.text = buf[f].text /\ r.base = buf[f].text /\ r.dirty = FALSE
  BY <1>2 DEF Buffers
<1>4. buf' = [buf EXCEPT ![f] = r]
  BY DEF SaveDoc
<1> HIDE DEF r
<1>5. /\ buf' \in [Files -> Buffers] /\ buf'[f] = r /\ onDisk' \in [Files -> Text] /\ onDisk'[f] = buf[f].text
      /\ \A g \in Files \ {f} : buf'[g] = buf[g] /\ onDisk'[g] = onDisk[g]
  BY <1>1, <1>2, <1>3, <1>4 DEF ReplaceTyped
<1>6. raced \subseteq raced' /\ raced' \subseteq Files
  BY <1>1 DEF Cross, ReplaceTyped
<1>7. ReplaceTyped'
  BY <1>1, <1>5, <1>6 DEF ReplaceTyped
<1>8. InHandOnce' /\ OpenedIsTouched' /\ AllAccounted'
  BY <1>1, <1>3, <1>5, <1>6, OthersAccount
<1>9. BuffersKeepBase'
  BY <1>3, <1>5, <1>6 DEF BuffersKeepBase, BufferKeepsBase, Doc
<1>10. buf[f].base.edits \subseteq buf[f].text.edits
  BY <1>1 DEF BuffersKeepBase, BufferKeepsBase
<1>11. ASSUME NEW n \in Now(f).edits \union onDisk[f].edits, <<f, n>> \in owed' PROVE n \in onDisk'[f].edits
  <2>1. CASE n \in Now(f).edits
    BY <1>1, <1>5, <2>1 DEF Now
  <2>2. CASE n \in onDisk[f].edits
    BY <1>1, <1>5, <1>10, <1>11, <2>2
  <2> QED BY <1>11, <2>1, <2>2
<1>12. \A g \in Files \ {f} : Now(g)' = Now(g)
  BY <1>5 DEF Now, Doc
<1>13. EditsSurviveReplace'
  BY <1>1, <1>5, <1>6, <1>11, <1>12, GrownKeepsEdits
<1> QED BY <1>7, <1>8, <1>9, <1>13

LEMMA OpenDocKeeps == ASSUME ReplaceInv, NEW f \in Files, OpenDoc(f) PROVE ReplaceInv'
<1> USE DEF ReplaceInv
<1> DEFINE q == NoDoc(onDisk[f])
<1> DEFINE r == [q EXCEPT !.id = ids + 1]
<1>1. /\ ~Doc(f) /\ ids' = ids + 1 /\ buf' = [buf EXCEPT ![f] = r] /\ touched' = touched \union {f}
      /\ UNCHANGED <<onDisk, job, edits, owed, raced>>
  BY DEF OpenDoc, Touch
<1>2. r \in Buffers /\ r.id # 0 /\ r.text = onDisk[f] /\ r.base = onDisk[f]
  <2>1. onDisk[f] \in Text /\ ids + 1 \in Nat /\ ids + 1 # 0
    BY DEF ReplaceTyped
  <2>2. q \in Buffers /\ q.text = onDisk[f] /\ q.base = onDisk[f]
    BY <2>1 DEF NoDoc, Buffers
  <2> HIDE DEF q
  <2> QED BY <2>1, <2>2 DEF Buffers
<1> HIDE DEF r
<1>3. buf' \in [Files -> Buffers] /\ buf'[f] = r /\ \A g \in Files \ {f} : buf'[g] = buf[g]
  BY <1>1, <1>2 DEF ReplaceTyped
<1>4. ReplaceTyped'
  BY <1>1, <1>3 DEF ReplaceTyped
<1>5. InHandOnce' /\ OpenedIsTouched' /\ AllAccounted'
  BY <1>1, <1>3, OthersAccount
<1>6. BuffersKeepBase'
  BY <1>1, <1>2, <1>3 DEF BuffersKeepBase, BufferKeepsBase, Doc
<1>7. EditsSurviveReplace'
  BY <1>1, <1>2, <1>3, GrownKeepsEdits DEF Now, Doc
<1> QED BY <1>4, <1>5, <1>6, <1>7

LEMMA CloseDocKeeps == ASSUME ReplaceInv, NEW f \in Files, CloseDoc(f) PROVE ReplaceInv'
<1> USE DEF ReplaceInv
<1>1. /\ Doc(f) /\ buf' = [buf EXCEPT ![f] = NoDoc(Blank)] /\ touched' = touched \union {f}
      /\ owed' = IF buf[f].dirty THEN owed \ {<<f, n>> : n \in buf[f].text.edits \ onDisk[f].edits} ELSE owed
      /\ Strays(f) /\ UNCHANGED <<onDisk, edits, ids, raced>>
  BY DEF CloseDoc, Touch
<1>2. NoDoc(Blank) \in Buffers /\ NoDoc(Blank).id = 0
  BY DEF NoDoc, Blank, Buffers, Text
<1>3. buf' \in [Files -> Buffers] /\ buf'[f].id = 0 /\ \A g \in Files \ {f} : buf'[g] = buf[g]
  BY <1>1, <1>2 DEF ReplaceTyped
<1>4. owed' \subseteq owed
  BY <1>1
<1>6. job' \in Jobs /\ InHandOnce' /\ OpenedIsTouched' /\ AllAccounted'
  BY <1>1, <1>3, OthersAccount
<1>5. ReplaceTyped'
  BY <1>1, <1>3, <1>4, <1>6 DEF ReplaceTyped
<1>7. BuffersKeepBase'
  BY <1>1, <1>3 DEF BuffersKeepBase, BufferKeepsBase, Doc
<1>8. ASSUME f \notin raced, NEW n \in Now(f).edits \union onDisk[f].edits, <<f, n>> \in owed'
      PROVE  n \in onDisk[f].edits
  <2>1. CASE buf[f].dirty
    BY <1>1, <1>8, <2>1 DEF Now
  <2>2. CASE ~buf[f].dirty
    BY <1>1, <1>8, <2>2 DEF Now, BuffersKeepBase, BufferKeepsBase
  <2> QED BY <2>1, <2>2
<1>9. \A g \in Files \ {f} : Now(g)' = Now(g)
  BY <1>1, <1>3 DEF Now, Doc
<1>10. EditsSurviveReplace'
  BY <1>1, <1>4, <1>8, <1>9, GrownKeepsEdits
<1> QED BY <1>5, <1>6, <1>7, <1>10

LEMMA SwapTabKeeps == ASSUME ReplaceInv, NEW f \in Files, SwapTab(f) PROVE ReplaceInv'
<1> USE DEF ReplaceInv
<1>1. Strays(f) /\ touched' = touched \union {f} /\ UNCHANGED <<onDisk, buf, edits, ids, owed, raced>>
  BY DEF SwapTab, Touch
<1>2. job' \in Jobs /\ InHandOnce' /\ OpenedIsTouched' /\ AllAccounted'
  BY <1>1, OthersAccount
<1>3. ReplaceTyped'
  BY <1>1, <1>2 DEF ReplaceTyped
<1>4. BuffersKeepBase' /\ EditsSurviveReplace'
  BY <1>1, QuietStep
<1> QED BY <1>2, <1>3, <1>4

LEMMA ReloadDocKeeps == ASSUME ReplaceInv, NEW f \in Files, ReloadDoc(f) PROVE ReplaceInv'
<1> USE DEF ReplaceInv
<1> DEFINE r == [buf[f] EXCEPT !.text = onDisk[f], !.base = onDisk[f], !.rev = @ + 1]
<1>1. /\ Doc(f) /\ ~buf[f].dirty /\ touched' = touched \union {f}
      /\ UNCHANGED <<onDisk, job, edits, ids, owed, raced>>
  BY DEF ReloadDoc, Touch
<1>2. buf[f] \in Buffers /\ onDisk[f] \in Text
  BY DEF ReplaceTyped
<1>3. r \in Buffers /\ r.id = buf[f].id /\ r.text = onDisk[f] /\ r.base = onDisk[f]
  <2>1. buf[f].rev + 1 \in Nat
    BY <1>2 DEF Buffers
  <2> QED BY <1>2, <2>1 DEF Buffers
<1>4. buf' = [buf EXCEPT ![f] = r]
  BY DEF ReloadDoc
<1> HIDE DEF r
<1>5. buf' \in [Files -> Buffers] /\ buf'[f] = r /\ \A g \in Files \ {f} : buf'[g] = buf[g]
  BY <1>3, <1>4 DEF ReplaceTyped
<1>6. ReplaceTyped'
  BY <1>1, <1>5 DEF ReplaceTyped
<1>7. InHandOnce' /\ OpenedIsTouched' /\ AllAccounted'
  BY <1>1, <1>3, <1>5, OthersAccount
<1>8. BuffersKeepBase'
  BY <1>1, <1>3, <1>5 DEF BuffersKeepBase, BufferKeepsBase, Doc
<1>9. f \in raced \/ buf[f].text.edits \subseteq onDisk[f].edits
  BY <1>1 DEF BuffersKeepBase, BufferKeepsBase
<1>10. EditsSurviveReplace'
  BY <1>1, <1>3, <1>5, <1>9, GrownKeepsEdits DEF Now, Doc
<1> QED BY <1>6, <1>7, <1>8, <1>10

LEMMA ExternalKeeps ==
    ASSUME ReplaceInv, NEW f \in Files, NEW hits \in BOOLEAN, External(f, hits)
    PROVE  ReplaceInv'
<1> USE DEF ReplaceInv
<1> DEFINE new == Edited(onDisk[f], hits)
<1>1. /\ edits < MaxEdits /\ edits' = edits + 1 /\ onDisk' = [onDisk EXCEPT ![f] = new]
      /\ owed' = owed \union {<<f, edits + 1>>} /\ Cross(f) /\ touched' = touched \union {f}
      /\ UNCHANGED <<buf, job, ids>>
  BY DEF External, Touch
<1>2. onDisk[f] \in Text /\ edits + 1 \in 1 .. MaxEdits
  BY <1>1, ReplaceAssumption DEF ReplaceTyped
<1>3. onDisk[f].hits \in BOOLEAN /\ onDisk[f].edits \subseteq 1 .. MaxEdits
  BY <1>2 DEF Text
<1>4. new \in Text /\ new.edits = onDisk[f].edits \union {edits + 1}
  <2>1. (onDisk[f].hits \/ hits) \in BOOLEAN
    OBVIOUS
  <2> QED BY <1>2, <1>3, <2>1 DEF Text, Edited
<1> HIDE DEF new
<1>5. onDisk' \in [Files -> Text] /\ onDisk'[f] = new /\ \A g \in Files \ {f} : onDisk'[g] = onDisk[g]
  BY <1>1, <1>4 DEF ReplaceTyped
<1>6. raced \subseteq raced' /\ raced' \subseteq Files
  BY <1>1 DEF Cross, ReplaceTyped
<1>7. ReplaceTyped'
  BY <1>1, <1>2, <1>5, <1>6 DEF ReplaceTyped
<1>8. InHandOnce' /\ OpenedIsTouched' /\ AllAccounted'
  BY <1>1, <1>5, <1>6, OthersAccount
<1>9. \A g \in Files : onDisk[g].edits \subseteq onDisk'[g].edits
  BY <1>4, <1>5
<1>10. BuffersKeepBase'
  BY <1>1, <1>6, <1>9 DEF BuffersKeepBase, BufferKeepsBase, Doc
<1>11. \A g \in Files : Now(g).edits \subseteq Now(g)'.edits
  BY <1>1, <1>9 DEF Now, Doc
<1>12. EditsSurviveReplace'
  <2>1. ASSUME NEW fn \in owed' PROVE fn[1] \in raced' \/ fn[2] \in Now(fn[1])'.edits \/ fn[2] \in onDisk'[fn[1]].edits
    <3>1. CASE fn \in owed
      BY <1>6, <1>9, <1>11, <3>1 DEF EditsSurviveReplace, ReplaceTyped
    <3>2. CASE fn = <<f, edits + 1>>
      BY <1>4, <1>5, <3>2
    <3> QED BY <1>1, <2>1, <3>1, <3>2
  <2> QED BY <2>1 DEF EditsSurviveReplace
<1> QED BY <1>7, <1>8, <1>10, <1>12

\* The command turns to its next state, and what people see stays as it is.
LEMMA TurnKeeps ==
    ASSUME ReplaceInv, job' \in Jobs, job'.ids = job.ids, job'.walked = job.walked, job.pc # "idle", job'.pc # "idle",
           UNCHANGED <<onDisk, buf, edits, ids, owed, raced>>,
           touched' \subseteq touched, \A f \in touched \ touched' : f = job.file /\ buf[f].id = job.ids[f],
           InHandOnce',
           job'.pc \notin {"idle", "aborted"} => job.pc # "aborted",
           \A f \in job.walked : Waiting(f) \/ Accounted(f) => (Waiting(f) \/ Accounted(f))'
    PROVE  ReplaceInv'
<1> USE DEF ReplaceInv
<1>1. ReplaceTyped'
  BY DEF ReplaceTyped
<1>2. BuffersKeepBase' /\ EditsSurviveReplace'
  BY QuietStep
<1>3. OpenedIsTouched'
  BY DEF OpenedIsTouched
<1>4. AllAccounted'
  BY DEF AllAccounted
<1> QED BY <1>1, <1>2, <1>3, <1>4

LEMMA StartReplaceKeeps == ASSUME ReplaceInv, NEW pin \in Files \union {0}, StartReplace(pin) PROVE ReplaceInv'
<1> USE DEF ReplaceInv
<1>1. /\ job' = [NoJob EXCEPT !.pc = "next", !.todo = Walked(pin), !.walked = Walked(pin),
                              !.ids = [f \in Files |-> buf[f].id]]
      /\ touched' = {} /\ UNCHANGED <<onDisk, buf, edits, ids, owed, raced>>
  BY DEF StartReplace, Continue
<1>2. [f \in Files |-> buf[f].id] \in [Files -> Nat]
  BY DEF ReplaceTyped, Buffers
<1>3. /\ job'.pc = "next" /\ job'.todo = job'.walked /\ job'.closed = {}
      /\ \A f \in Files : job'.ids[f] = buf[f].id
  BY <1>1 DEF NoJob
<1>4. job' \in Jobs
  <2>1. Walked(pin) \subseteq Files /\ Blank \in Text
    BY DEF Walked, Blank, Text
  <2> QED BY <1>1, <1>2, <2>1 DEF NoJob, Jobs
<1>5. ReplaceTyped'
  BY <1>1, <1>4 DEF ReplaceTyped
<1>6. BuffersKeepBase' /\ EditsSurviveReplace'
  BY <1>1, QuietStep
<1>7. InHandOnce' /\ OpenedIsTouched' /\ AllAccounted'
  BY <1>1, <1>3 DEF InHandOnce, OpenedIsTouched, AllAccounted, Waiting
<1> QED BY <1>5, <1>6, <1>7

LEMMA ReadRevisionKeeps == ASSUME ReplaceInv, NEW f \in Files, ReadRevision(f) PROVE ReplaceInv'
<1> USE DEF ReplaceInv
<1>1. job \in Jobs /\ job.pc = "next" /\ f \in job.todo /\ UNCHANGED <<onDisk, buf, edits, ids, owed, raced, touched>>
  BY DEF ReadRevision, ReplaceTyped, Running
<1> DEFINE j == [job EXCEPT !.todo = @ \ {f}, !.file = f]
<1>2. /\ j \in Jobs /\ j.todo = job.todo \ {f} /\ j.file = f /\ j.ids = job.ids /\ j.walked = job.walked
      /\ j.closed = job.closed /\ j.failed = job.failed
  BY <1>1 DEF Jobs
<1>3. job' = IF job.ids[f] = 0 THEN [After(j) EXCEPT !.closed = @ \union {f}]
             ELSE IF buf[f].id # job.ids[f] THEN After(j)
             ELSE [j EXCEPT !.pc = "text", !.rev = buf[f].rev]
  BY DEF ReadRevision, Continue
<1> HIDE DEF j
<1>4. buf[f].rev \in Nat
  BY DEF ReplaceTyped, Buffers
<1>5. /\ job' \in Jobs /\ job'.ids = job.ids /\ job'.walked = job.walked /\ job'.failed = job.failed
      /\ job'.todo = job.todo \ {f} /\ job'.file = f
      /\ \/ job.ids[f] = 0 /\ job'.pc = "next" /\ job'.closed = job.closed \union {f}
         \/ buf[f].id # job.ids[f] /\ job'.pc = "next" /\ job'.closed = job.closed
         \/ job.ids[f] # 0 /\ job'.pc = "text" /\ job'.closed = job.closed
  <2>1. CASE job.ids[f] = 0
    BY <1>2, <1>3, <2>1 DEF After, Jobs
  <2>2. CASE job.ids[f] # 0 /\ buf[f].id # job.ids[f]
    BY <1>2, <1>3, <2>2 DEF After, Jobs
  <2>3. CASE job.ids[f] # 0 /\ buf[f].id = job.ids[f]
    BY <1>2, <1>3, <1>4, <2>3 DEF Jobs
  <2> QED BY <2>1, <2>2, <2>3
<1>6. InHandOnce'
  BY <1>1, <1>5 DEF InHandOnce
<1>7. ASSUME NEW g \in job.walked, Waiting(g) \/ Accounted(g) PROVE (Waiting(g) \/ Accounted(g))'
  <2>1. Accounted(g) => Accounted(g)'
    BY <1>1, <1>5 DEF Accounted, Now, Doc
  <2>2. CASE Waiting(g) /\ g # f
    BY <1>1, <1>5, <2>2 DEF Waiting
  <2>3. CASE g = f
    BY <1>1, <1>5, <2>3 DEF Waiting, Accounted, OpenedIsTouched
  <2> QED BY <1>7, <2>1, <2>2, <2>3
<1> QED BY <1>1, <1>5, <1>6, <1>7, TurnKeeps

LEMMA ReadTextKeeps == ASSUME ReplaceInv, ReadText PROVE ReplaceInv'
<1> USE DEF ReplaceInv
<1> DEFINE f == job.file
<1>1. /\ job \in Jobs /\ job.pc = "text" /\ f \in Files /\ job.ids[f] # 0
      /\ UNCHANGED <<onDisk, buf, edits, ids, owed, raced>>
  BY DEF ReadText, ReplaceTyped, Running, InHandOnce
<1>2. \/ buf[f].id # job.ids[f] /\ job' = After(job) /\ touched' = touched
      \/ buf[f].id = job.ids[f] /\ ~buf[f].text.hits /\ job' = After(job) /\ touched' = touched \ {f}
      \/ /\ buf[f].id = job.ids[f]
         /\ job' = [job EXCEPT !.pc = "swap", !.text = buf[f].text] /\ touched' = touched
  BY DEF ReadText, Continue, Settled
<1>3. buf[f].text \in Text
  BY <1>1 DEF ReplaceTyped, Buffers
<1>4. /\ job' \in Jobs /\ job'.ids = job.ids /\ job'.walked = job.walked /\ job'.failed = job.failed
      /\ job'.todo = job.todo /\ job'.file = f /\ job'.closed = job.closed
      /\ job'.pc = "next" \/ (job'.pc = "swap" /\ touched' = touched)
  <2>1. CASE job' = After(job)
    BY <1>1, <2>1 DEF After, Jobs
  <2>2. CASE job' = [job EXCEPT !.pc = "swap", !.text = buf[f].text] /\ touched' = touched
    BY <1>1, <1>3, <2>2 DEF Jobs
  <2> QED BY <1>2, <2>1, <2>2
<1>5. InHandOnce'
  BY <1>1, <1>4 DEF InHandOnce
<1>6. job'.pc = "next" => (f \in job'.failed \/ f \in touched' \/ ~Now(f).hits)
  <2>1. CASE buf[f].id # job.ids[f]
    BY <1>1, <1>2, <2>1 DEF OpenedIsTouched
  <2>2. CASE buf[f].id = job.ids[f] /\ ~buf[f].text.hits
    BY <1>1, <2>2 DEF Now, Doc
  <2>3. CASE job' = [job EXCEPT !.pc = "swap", !.text = buf[f].text]
    BY <1>1, <2>3 DEF Jobs
  <2> QED BY <1>2, <2>1, <2>2, <2>3
<1>7. ASSUME NEW g \in job.walked, Waiting(g) \/ Accounted(g) PROVE (Waiting(g) \/ Accounted(g))'
  <2>1. CASE g = f
    BY <1>1, <1>4, <1>6, <2>1 DEF Waiting, Accounted, Now, Doc
  <2>2. CASE g # f
    BY <1>1, <1>2, <1>4, <1>7, <2>2 DEF Waiting, Accounted, Now, Doc
  <2> QED BY <2>1, <2>2
<1> QED BY <1>1, <1>2, <1>4, <1>5, <1>7, TurnKeeps

LEMMA CloneTabKeeps == ASSUME ReplaceInv, CloneTab PROVE ReplaceInv'
<1> USE DEF ReplaceInv
<1>1. /\ job \in Jobs /\ job.pc = "swap" /\ buf[job.file].id = job.ids[job.file] /\ job' = [job EXCEPT !.pc = "cas"]
      /\ UNCHANGED <<onDisk, buf, edits, ids, owed, raced, touched>>
  BY DEF CloneTab, ReplaceTyped, Running, Continue
<1>2. /\ job' \in Jobs /\ job'.pc = "cas" /\ job'.ids = job.ids /\ job'.closed = job.closed /\ job'.file = job.file
      /\ job'.walked = job.walked /\ job'.todo = job.todo /\ job'.failed = job.failed
  BY <1>1 DEF Jobs
<1>3. InHandOnce'
  BY <1>1, <1>2 DEF InHandOnce
<1>4. ASSUME NEW g \in job.walked, Waiting(g) \/ Accounted(g) PROVE (Waiting(g) \/ Accounted(g))'
  BY <1>1, <1>2, <1>4 DEF Waiting, Accounted, Now, Doc
<1> QED BY <1>1, <1>2, <1>3, <1>4, TurnKeeps

LEMMA SwapAstrayKeeps == ASSUME ReplaceInv, SwapAstray PROVE ReplaceInv'
<1> USE DEF ReplaceInv
<1> DEFINE f == job.file
<1>1. /\ job \in Jobs /\ job.pc = "astray" /\ f \in touched
      /\ job' = [After(job) EXCEPT !.applied = @ \union {f}]
      /\ UNCHANGED <<onDisk, buf, edits, ids, owed, raced, touched>>
  BY DEF SwapAstray, ReplaceTyped, Running, InHandOnce, Continue
<1>2. /\ job' \in Jobs /\ job'.pc = "next" /\ job'.ids = job.ids /\ job'.closed = job.closed /\ job'.file = f
      /\ job'.walked = job.walked /\ job'.todo = job.todo /\ job'.failed = job.failed
  BY <1>1 DEF After, Jobs, ReplaceTyped
<1>3. InHandOnce'
  BY <1>1, <1>2 DEF InHandOnce
<1>4. ASSUME NEW g \in job.walked, Waiting(g) \/ Accounted(g) PROVE (Waiting(g) \/ Accounted(g))'
  <2>1. CASE g = f
    BY <1>1, <2>1 DEF Accounted
  <2>2. CASE g # f
    BY <1>1, <1>2, <1>4, <2>2 DEF Waiting, Accounted, Now, Doc
  <2> QED BY <2>1, <2>2
<1> QED BY <1>1, <1>2, <1>3, <1>4, TurnKeeps

LEMMA SwapTextKeeps == ASSUME ReplaceInv, SwapText PROVE ReplaceInv'
<1> USE DEF ReplaceInv
<1> DEFINE f == job.file
<1> DEFINE r == [buf[f] EXCEPT !.text = Computed(job.text), !.rev = job.rev + 1, !.dirty = TRUE]
<1>1. /\ job \in Jobs /\ job.pc = "cas" /\ f \in Files /\ job.ids[f] # 0 /\ buf[f].id = job.ids[f]
      /\ buf[f].text = job.text
      /\ job' = [After(job) EXCEPT !.applied = @ \union {f}] /\ touched' = touched \ {f}
      /\ UNCHANGED <<onDisk, edits, ids, owed, raced>>
  BY DEF SwapText, ReplaceTyped, Running, InHandOnce, Continue, Settled, Seen
<1>2. buf[f] \in Buffers /\ Computed(job.text) \in Text
      /\ Computed(job.text).edits = buf[f].text.edits /\ Computed(job.text).hits = FALSE
  BY <1>1 DEF ReplaceTyped, Jobs, Computed, Text
<1>3. r \in Buffers /\ r.id = buf[f].id /\ r.text = Computed(job.text) /\ r.base = buf[f].base /\ r.dirty = TRUE
  <2>1. job.rev + 1 \in Nat
    BY <1>1 DEF Jobs
  <2> QED BY <1>2, <2>1 DEF Buffers
<1>4. buf' = [buf EXCEPT ![f] = r]
  BY DEF SwapText
<1> HIDE DEF r
<1>5. buf' \in [Files -> Buffers] /\ buf'[f] = r /\ \A g \in Files \ {f} : buf'[g] = buf[g]
  BY <1>1, <1>3, <1>4 DEF ReplaceTyped
<1>6. /\ job' \in Jobs /\ job'.ids = job.ids /\ job'.walked = job.walked /\ job'.failed = job.failed
      /\ job'.todo = job.todo /\ job'.file = f /\ job'.closed = job.closed /\ job'.pc = "next"
  BY <1>1 DEF After, Jobs
<1>7. ReplaceTyped'
  BY <1>1, <1>5, <1>6 DEF ReplaceTyped
<1>8. BuffersKeepBase'
  BY <1>1, <1>2, <1>3, <1>5 DEF BuffersKeepBase, BufferKeepsBase, Doc
<1>9. InHandOnce'
  BY <1>1, <1>6 DEF InHandOnce
<1>10. OpenedIsTouched'
  BY <1>1, <1>3, <1>5, <1>6 DEF OpenedIsTouched
<1>11. ASSUME NEW g \in job.walked, Waiting(g) \/ Accounted(g) PROVE (Waiting(g) \/ Accounted(g))'
  <2>1. CASE g = f
    BY <1>1, <1>2, <1>3, <1>5, <2>1 DEF Accounted, Now, Doc
  <2>2. CASE g # f
    <3>1. Now(g)' = Now(g)
      BY <1>1, <1>5, <1>11, <2>2 DEF Now, Doc, Jobs
    <3> QED BY <1>1, <1>6, <1>11, <2>2, <3>1 DEF Waiting, Accounted
  <2> QED BY <2>1, <2>2
<1>12. AllAccounted'
  BY <1>1, <1>6, <1>11 DEF AllAccounted
<1>13. EditsSurviveReplace'
  BY <1>1, <1>2, <1>3, <1>5, GrownKeepsEdits DEF Now, Doc
<1> QED BY <1>7, <1>8, <1>9, <1>10, <1>12, <1>13

LEMMA SwapMissesKeeps == ASSUME ReplaceInv, SwapMisses PROVE ReplaceInv'
<1> USE DEF ReplaceInv
<1> DEFINE f == job.file
<1>1. /\ job \in Jobs /\ job.pc \in {"cas", "moved"} /\ f \in Files /\ job.ids[f] # 0
      /\ UNCHANGED <<onDisk, buf, edits, ids, owed, raced, touched>>
  BY DEF SwapMisses, ReplaceTyped, Running, InHandOnce
<1>2. \/ job' = [job EXCEPT !.pc = "again", !.tries = @ + 1]
      \/ job' = [After(job) EXCEPT !.failed = @ \union {f}]
  BY DEF SwapMisses, Continue
<1>3. /\ job' \in Jobs /\ job'.ids = job.ids /\ job'.walked = job.walked
      /\ job'.todo = job.todo /\ job'.file = f /\ job'.closed = job.closed
      /\ \/ job'.pc = "again" /\ job'.failed = job.failed
         \/ job'.pc = "next" /\ job'.failed = job.failed \union {f}
  <2>1. CASE job' = [job EXCEPT !.pc = "again", !.tries = @ + 1]
    <3>1. job.tries + 1 \in Nat
      BY <1>1 DEF Jobs
    <3> QED BY <1>1, <2>1, <3>1 DEF Jobs
  <2>2. CASE job' = [After(job) EXCEPT !.failed = @ \union {f}]
    BY <1>1, <2>2 DEF After, Jobs
  <2> QED BY <1>2, <2>1, <2>2
<1>4. InHandOnce'
  BY <1>1, <1>3 DEF InHandOnce
<1>5. ASSUME NEW g \in job.walked, Waiting(g) \/ Accounted(g) PROVE (Waiting(g) \/ Accounted(g))'
  <2>1. CASE g = f
    BY <1>3, <2>1 DEF Waiting, Accounted
  <2>2. CASE g # f
    BY <1>1, <1>2, <1>3, <1>5, <2>2 DEF Waiting, Accounted, Now, Doc
  <2> QED BY <2>1, <2>2
<1> QED BY <1>1, <1>2, <1>3, <1>4, <1>5, TurnKeeps

LEMMA ReadAgainKeeps == ASSUME ReplaceInv, ReadAgain PROVE ReplaceInv'
<1> USE DEF ReplaceInv
<1> DEFINE f == job.file
<1>1. /\ job \in Jobs /\ job.pc = "again" /\ f \in Files /\ job.ids[f] # 0
      /\ job' = IF buf[f].id # job.ids[f] THEN After(job) ELSE [job EXCEPT !.pc = "text", !.rev = buf[f].rev]
      /\ UNCHANGED <<onDisk, buf, edits, ids, owed, raced, touched>>
  BY DEF ReadAgain, ReplaceTyped, Running, InHandOnce, Continue
<1>2. buf[f].rev \in Nat
  BY <1>1 DEF ReplaceTyped, Buffers
<1>3. /\ job' \in Jobs /\ job'.ids = job.ids /\ job'.walked = job.walked /\ job'.failed = job.failed
      /\ job'.todo = job.todo /\ job'.file = f /\ job'.closed = job.closed
      /\ job'.pc = "text" \/ (job'.pc = "next" /\ buf[f].id # job.ids[f])
  BY <1>1, <1>2 DEF After, Jobs
<1>4. InHandOnce'
  BY <1>1, <1>3 DEF InHandOnce
<1>5. ASSUME NEW g \in job.walked, Waiting(g) \/ Accounted(g) PROVE (Waiting(g) \/ Accounted(g))'
  <2>1. CASE g = f
    BY <1>1, <1>3, <2>1 DEF Waiting, Accounted, OpenedIsTouched
  <2>2. CASE g # f
    BY <1>1, <1>3, <1>5, <2>2 DEF Waiting, Accounted, Now, Doc
  <2> QED BY <2>1, <2>2
<1> QED BY <1>1, <1>3, <1>4, <1>5, TurnKeeps

LEMMA SwapAbortsKeeps == ASSUME ReplaceInv, SwapAborts PROVE ReplaceInv'
<1> USE DEF ReplaceInv
<1>1. /\ job \in Jobs /\ job.pc = "swap" /\ job' = [job EXCEPT !.pc = "aborted"]
      /\ UNCHANGED <<onDisk, buf, edits, ids, owed, raced, touched>>
  BY DEF SwapAborts, ReplaceTyped, Running, Continue
<1>2. job' \in Jobs /\ job'.pc = "aborted" /\ job'.ids = job.ids /\ job'.closed = job.closed
  BY <1>1 DEF Jobs
<1>3. ReplaceTyped'
  BY <1>1, <1>2 DEF ReplaceTyped
<1>4. BuffersKeepBase' /\ EditsSurviveReplace'
  BY <1>1, QuietStep
<1>5. InHandOnce' /\ OpenedIsTouched' /\ AllAccounted'
  BY <1>1, <1>2 DEF InHandOnce, OpenedIsTouched, AllAccounted
<1> QED BY <1>3, <1>4, <1>5

LEMMA ReadClosedKeeps == ASSUME ReplaceInv, NEW f \in Files, ReadClosed(f) PROVE ReplaceInv'
<1> USE DEF ReplaceInv
<1> DEFINE j == [job EXCEPT !.closed = @ \ {f}, !.file = f]
<1>1. /\ job \in Jobs /\ job.pc = "next" /\ f \in job.closed /\ job.ids[f] = 0
      /\ UNCHANGED <<onDisk, buf, edits, ids, owed, raced, touched>>
  BY DEF ReadClosed, ReplaceTyped, Running, InHandOnce
<1>2. \/ job' = [j EXCEPT !.failed = @ \union {f}]
      \/ onDisk[f].hits /\ job' = [j EXCEPT !.pc = "write", !.text = onDisk[f]]
      \/ ~onDisk[f].hits /\ job' = j
  BY DEF ReadClosed, Continue
<1>3. /\ j \in Jobs /\ j.todo = job.todo /\ j.file = f /\ j.ids = job.ids /\ j.walked = job.walked
      /\ j.closed = job.closed \ {f} /\ j.failed = job.failed /\ j.pc = "next"
  BY <1>1 DEF Jobs
<1> HIDE DEF j
<1>4. onDisk[f] \in Text
  BY DEF ReplaceTyped
<1>5. /\ job' \in Jobs /\ job'.ids = job.ids /\ job'.walked = job.walked
      /\ job'.todo = job.todo /\ job'.file = f /\ job'.closed = job.closed \ {f} /\ job.failed \subseteq job'.failed
      /\ \/ job'.pc = "next" /\ f \in job'.failed
         \/ job'.pc = "write" /\ job'.text = onDisk[f]
         \/ job'.pc = "next" /\ ~onDisk[f].hits
  <2>1. CASE job' = [j EXCEPT !.failed = @ \union {f}]
    BY <1>3, <2>1 DEF Jobs
  <2>2. CASE job' = [j EXCEPT !.pc = "write", !.text = onDisk[f]]
    BY <1>3, <1>4, <2>2 DEF Jobs
  <2>3. CASE ~onDisk[f].hits /\ job' = j
    BY <1>3, <2>3
  <2> QED BY <1>2, <2>1, <2>2, <2>3
<1>6. InHandOnce'
  BY <1>1, <1>5 DEF InHandOnce
<1>7. f \in touched \/ Now(f) = onDisk[f]
  BY <1>1 DEF OpenedIsTouched, Now, Doc
<1>8. ASSUME NEW g \in job.walked, Waiting(g) \/ Accounted(g) PROVE (Waiting(g) \/ Accounted(g))'
  <2>1. Accounted(g) => Accounted(g)'
    BY <1>1, <1>5 DEF Accounted, Now, Doc
  <2>2. CASE g = f
    BY <1>1, <1>5, <1>7, <2>2 DEF Waiting, Accounted, Now, Doc
  <2>3. CASE g # f /\ Waiting(g)
    BY <1>1, <1>5, <2>3 DEF Waiting
  <2> QED BY <1>8, <2>1, <2>2, <2>3
<1> QED BY <1>1, <1>5, <1>6, <1>8, TurnKeeps

LEMMA WriteClosedKeeps == ASSUME ReplaceInv, WriteClosed PROVE ReplaceInv'
<1> USE DEF ReplaceInv
<1> DEFINE f == job.file
<1>1. /\ job \in Jobs /\ job.pc = "write" /\ f \in Files /\ job.ids[f] = 0
      /\ f \in raced \/ onDisk[f] = job.text
      /\ UNCHANGED <<buf, edits, ids, owed, raced, touched>>
  BY DEF WriteClosed, ReplaceTyped, Running, InHandOnce
<1>2. \/ onDisk' = [onDisk EXCEPT ![f] = Computed(job.text)] /\ job' = [job EXCEPT !.pc = "next"]
      \/ onDisk' = onDisk /\ job' = [job EXCEPT !.pc = "next", !.failed = @ \union {f}]
  BY DEF WriteClosed, Continue
<1>3. Computed(job.text) \in Text /\ Computed(job.text).edits = job.text.edits /\ Computed(job.text).hits = FALSE
  BY <1>1 DEF Jobs, Computed, Text
<1>4. /\ job' \in Jobs /\ job'.ids = job.ids /\ job'.walked = job.walked /\ job'.pc = "next"
      /\ job'.todo = job.todo /\ job'.closed = job.closed /\ job.failed \subseteq job'.failed
      /\ f \in job'.failed \/ onDisk' = [onDisk EXCEPT ![f] = Computed(job.text)]
  <2>1. CASE job' = [job EXCEPT !.pc = "next"]
    BY <1>1, <1>2, <2>1 DEF Jobs
  <2>2. CASE job' = [job EXCEPT !.pc = "next", !.failed = @ \union {f}]
    BY <1>1, <2>2 DEF Jobs
  <2> QED BY <1>2, <2>1, <2>2
<1>5. /\ onDisk' \in [Files -> Text] /\ \A g \in Files \ {f} : onDisk'[g] = onDisk[g]
      /\ f \in job'.failed \/ ~onDisk'[f].hits
      /\ f \in raced \/ onDisk'[f].edits = onDisk[f].edits
  BY <1>1, <1>2, <1>3, <1>4 DEF ReplaceTyped
<1>6. ReplaceTyped'
  BY <1>1, <1>4, <1>5 DEF ReplaceTyped
<1>7. \A g \in Files : g \in raced \/ onDisk'[g].edits = onDisk[g].edits
  BY <1>5
<1>8. BuffersKeepBase'
  BY <1>1, <1>7 DEF BuffersKeepBase, BufferKeepsBase, Doc
<1>9. InHandOnce' /\ OpenedIsTouched'
  BY <1>1, <1>4 DEF InHandOnce, OpenedIsTouched
<1>10. ASSUME NEW g \in job.walked, Waiting(g) \/ Accounted(g) PROVE (Waiting(g) \/ Accounted(g))'
  <2>1. CASE g = f
    BY <1>1, <1>5, <2>1 DEF Accounted, Now, Doc, OpenedIsTouched
  <2>2. CASE g # f
    <3>1. Now(g)' = Now(g)
      BY <1>1, <1>5, <1>10, <2>2 DEF Now, Doc, Jobs
    <3> QED BY <1>1, <1>4, <1>10, <2>2, <3>1 DEF Waiting, Accounted
  <2> QED BY <2>1, <2>2
<1>11. AllAccounted'
  BY <1>1, <1>4, <1>10 DEF AllAccounted
<1>12. \A g \in Files : g \in raced \/ Now(g)'.edits = Now(g).edits
  BY <1>1, <1>7 DEF Now, Doc
<1>13. EditsSurviveReplace'
  BY <1>1, <1>7, <1>12, GrownKeepsEdits
<1> QED BY <1>6, <1>8, <1>9, <1>11, <1>13

LEMMA AnswerKeeps == ASSUME ReplaceInv, Answer PROVE ReplaceInv'
<1> USE DEF ReplaceInv
<1>1. /\ job \in Jobs /\ job.pc = "next" /\ job.todo = {} /\ job.closed = {}
      /\ job' = [job EXCEPT !.pc = "done"]
      /\ UNCHANGED <<onDisk, buf, edits, ids, owed, raced, touched>>
  BY DEF Answer, ReplaceTyped, Running, Continue
<1>2. /\ job' \in Jobs /\ job'.pc = "done" /\ job'.ids = job.ids /\ job'.closed = job.closed
      /\ job'.walked = job.walked /\ job'.todo = job.todo /\ job'.failed = job.failed
  BY <1>1 DEF Jobs
<1>3. InHandOnce'
  BY <1>1, <1>2 DEF InHandOnce
<1>4. ASSUME NEW g \in job.walked, Waiting(g) \/ Accounted(g) PROVE (Waiting(g) \/ Accounted(g))'
  BY <1>1, <1>2, <1>4 DEF Waiting, Accounted, Now, Doc
<1> QED BY <1>1, <1>2, <1>3, <1>4, TurnKeeps

LEMMA ReplaceStarts == ReplaceInit => ReplaceInv
<1> SUFFICES ASSUME ReplaceInit PROVE ReplaceInv
  OBVIOUS
<1>1. PICK loaded \in SUBSET Files :
          buf = [f \in Files |-> IF f \in loaded THEN [NoDoc(onDisk[f]) EXCEPT !.id = f] ELSE NoDoc(Blank)]
  BY DEF ReplaceInit
<1>2. /\ onDisk \in [Files -> {[edits |-> {}, hits |-> h] : h \in BOOLEAN}]
      /\ job = NoJob /\ edits = 0 /\ ids = Cardinality(Files) /\ owed = {} /\ raced = {} /\ touched = {}
  BY DEF ReplaceInit
<1>3. Blank \in Text /\ \A f \in Files : onDisk[f] \in Text
  BY <1>2 DEF Blank, Text
<1>4. onDisk \in [Files -> Text] /\ ids \in Nat
  BY <1>2, <1>3, ReplaceAssumption, FS_CardinalityType
<1>5. \A f \in Files : /\ buf[f] \in Buffers /\ buf[f].base = buf[f].text
                       /\ buf[f].id # 0 => buf[f].base = onDisk[f]
  <2> SUFFICES ASSUME NEW f \in Files
               PROVE  /\ buf[f] \in Buffers /\ buf[f].base = buf[f].text
                      /\ buf[f].id # 0 => buf[f].base = onDisk[f]
    OBVIOUS
  <2>1. CASE f \in loaded
    <3>1. buf[f] = [id |-> f, text |-> onDisk[f], rev |-> 0, dirty |-> FALSE, base |-> onDisk[f]]
      BY <1>1, <2>1 DEF NoDoc
    <3>2. f \in Nat
      BY ReplaceAssumption
    <3> QED BY <1>3, <3>1, <3>2 DEF Buffers
  <2>2. CASE f \notin loaded
    BY <1>1, <1>3, <2>2 DEF NoDoc, Buffers
  <2> QED BY <2>1, <2>2
<1>6. NoJob \in Jobs
  BY <1>3 DEF NoJob, Jobs
<1>7. ReplaceTyped
  BY <1>1, <1>2, <1>4, <1>5, <1>6 DEF ReplaceTyped
<1>8. BuffersKeepBase
  BY <1>5 DEF BuffersKeepBase, BufferKeepsBase, Doc
<1>9. InHandOnce /\ OpenedIsTouched /\ AllAccounted
  BY <1>2 DEF NoJob, InHandOnce, OpenedIsTouched, AllAccounted
<1> QED BY <1>2, <1>7, <1>8, <1>9 DEF ReplaceInv, EditsSurviveReplace

LEMMA ReplaceKept == ReplaceInv /\ [ReplaceNext]_replaceVars => ReplaceInv'
<1> SUFFICES ASSUME ReplaceInv, [ReplaceNext]_replaceVars PROVE ReplaceInv'
  OBVIOUS
<1>1. CASE UNCHANGED replaceVars
  <2>1. ReplaceTyped' /\ InHandOnce' /\ OpenedIsTouched'
    BY <1>1 DEF replaceVars, ReplaceInv, ReplaceTyped, InHandOnce, OpenedIsTouched
  <2>2. AllAccounted'
    BY <1>1 DEF replaceVars, ReplaceInv, AllAccounted, Waiting, Accounted, Now, Doc
  <2>3. BuffersKeepBase' /\ EditsSurviveReplace'
    BY <1>1, QuietStep DEF replaceVars
  <2> QED BY <2>1, <2>2, <2>3 DEF ReplaceInv
<1>2. ASSUME NEW f \in Files, NEW hits \in BOOLEAN,
             External(f, hits) \/ \E bump \in 0 .. 1 : Type(f, bump, hits)
      PROVE  ReplaceInv'
  BY <1>2, ExternalKeeps, TypeKeeps
<1>3. ASSUME NEW f \in Files, SaveDoc(f) \/ OpenDoc(f) \/ CloseDoc(f) \/ ReloadDoc(f) \/ SwapTab(f) PROVE ReplaceInv'
  BY <1>3, SaveDocKeeps, OpenDocKeeps, CloseDocKeeps, ReloadDocKeeps, SwapTabKeeps
<1>4. ASSUME NEW f \in Files, ReadRevision(f) \/ ReadClosed(f) PROVE ReplaceInv'
  BY <1>4, ReadRevisionKeeps, ReadClosedKeeps
<1>5. ASSUME NEW pin \in Files \union {0}, StartReplace(pin) PROVE ReplaceInv'
  BY <1>5, StartReplaceKeeps
<1>6. CASE ReadText \/ CloneTab \/ SwapText \/ SwapAstray \/ SwapMisses \/ ReadAgain \/ SwapAborts
  BY <1>6, ReadTextKeeps, CloneTabKeeps, SwapTextKeeps, SwapAstrayKeeps, SwapMissesKeeps, ReadAgainKeeps, SwapAbortsKeeps
<1>7. CASE WriteClosed \/ Answer
  BY <1>7, WriteClosedKeeps, AnswerKeeps
<1> QED BY <1>1, <1>2, <1>3, <1>4, <1>5, <1>6, <1>7 DEF ReplaceNext

\* A replace over the workspace loses no edit that somebody made meanwhile,
\* and leaves no match that it does not tell of (replace_in_files).
THEOREM ReplaceLosesNothing == ReplaceSpec => []ReplaceIsSafe
<1>1. ReplaceInv => ReplaceIsSafe
  <2>1. ASSUME ReplaceInv, job.pc = "done", NEW f \in job.walked, Now(f).hits PROVE f \in job.failed \union touched
    <3>1. Waiting(f) \/ Accounted(f)
      BY <2>1 DEF ReplaceInv, AllAccounted
    <3> QED BY <2>1, <3>1 DEF ReplaceInv, InHandOnce, Waiting, Accounted
  <2> QED BY <2>1 DEF ReplaceInv, ReplaceIsSafe, MatchesAreAccounted
<1> QED BY <1>1, ReplaceStarts, ReplaceKept, PTL DEF ReplaceSpec

-----------------------------------------------------------------------------
(* The open workspace: what a thread still has to do, and for whom it       *)
(* counts.                                                                  *)

Then(step, steps) == <<step>> \o steps

\* A thread's steps from the end of its command backwards; the replacement of
\* the config is followed by nothing, by the end of an open, or of a close.
SwapLast    == Then("swap", <<>>)
CloseEnd    == Then("reclassify", SwapLast)
OpenEnd     == Then("health", CloseEnd)
Ends        == {<<>>, CloseEnd, OpenEnd}
EmitOn(r)   == Then("emit", r)
SwapOn(r)   == Then("swap", EmitOn(r))
BuildOn(r)  == Then("rebuild", SwapOn(r))
AnchorOn(r) == Then("anchor", EmitOn(r))
RootOn(r)   == Then("root of", AnchorOn(r))
StoreOn(r)  == Then("store", RootOn(r))
WriteFirst  == Then("write", StoreOn(<<>>))
ReadOn(r)   == Then("read", StoreOn(r))
WatchOn     == Then("watch", ReadOn(OpenEnd))
UnwatchOn   == Then("unwatch", WatchOn)
IdOn        == Then("set id", UnwatchOn)
ResolverOn  == Then("set resolver", IdOn)
OpenFirst   == Then("set root", ResolverOn)
UnidOn      == Then("unid", StoreOn(CloseEnd))
UnrootOn    == Then("unroot", UnidOn)
UnresolveOn == Then("unresolve", UnrootOn)
CloseFirst  == Then("unwatch", UnresolveOn)

Plans ==
    {<<>>, SwapLast, CloseEnd, OpenEnd, WriteFirst, ReadOn(<<>>), ReadOn(OpenEnd), WatchOn, UnwatchOn, IdOn, ResolverOn,
     OpenFirst, UnidOn, UnrootOn, UnresolveOn, CloseFirst}
    \union {EmitOn(r) : r \in Ends} \union {SwapOn(r) : r \in Ends} \union {BuildOn(r) : r \in Ends}
    \union {AnchorOn(r) : r \in Ends} \union {RootOn(r) : r \in Ends} \union {StoreOn(r) : r \in Ends}

\* What thread t still has to do.
Left(t) == Range(thread[t].todo)

Texts   == [main : Mains \union {"none", "corrupt"}, dir : Dirs \union {"top"}]
Anchors == (Roots \union {""}) \X {"sub", "top"}
Spaces  == [root : Roots \union {""}, resolver : Nat, id : Nat, watcher : Nat, watched : Roots \union {""}]
Worlds  == [owner : Nat, resolver : Nat, at : Anchors]
Works   == [todo : Plans, root : Roots \union {""}, config : Texts, built : Worlds, guard : Nat]

\* Worlds of no workspace are all alike, and those of one have its number.
Numbers(w) == w.owner <= Len(anchor) /\ (w.owner = 0 => w = Loose)

PlacesTyped ==
    /\ ws \in Spaces
    /\ anchor \in Seq(Anchors) /\ ws.resolver <= Len(anchor) /\ ws.id <= Len(anchor)
    /\ disk \in [Roots -> Texts] /\ cache \in Texts /\ shown \in Texts
    /\ changed \in BOOLEAN /\ flag \in BOOLEAN /\ crossed \in BOOLEAN /\ smeared \in BOOLEAN
    /\ world \in Worlds /\ Numbers(world)

WorkspaceTyped ==
    PlacesTyped /\ thread \in [Threads -> Works] /\ \A t \in Threads : Numbers(thread[t].built)

\* Commands that open or close, that wait to write, that carry what they wrote,
\* and a watcher's reading.
OpenKind(t)  == "health" \in Left(t)
CloseKind(t) == {"reclassify", "emit"} \subseteq Left(t) /\ ~OpenKind(t)
Switching(t) == "reclassify" \in Left(t) \/ Left(t) = {"swap"}
ToWrite(t)   == "write" \in Left(t)
Flushing(t)  == Busy(t) /\ thread[t].guard # 0
Setting(t)   == Busy(t) /\ ~Switching(t) /\ ~ToWrite(t) /\ ~Flushing(t)

\* Who may be at work together.
Together ==
    \A t, u \in Threads : t # u /\ Busy(t) /\ Busy(u) =>
        /\ Switching(t) => Left(t) = {"swap"} /\ ToWrite(u)
        /\ ~(Flushing(t) /\ Flushing(u)) /\ ~(Setting(t) /\ Setting(u))

Current == Parsed(disk[ws.root])

\* What a thread carries is what the file has, unless the watcher is to read it again.
Carries(t) ==
    /\ Flushing(t) =>
          /\ ~Switching(t) /\ ~ToWrite(t) /\ thread[t].guard = ws.watcher /\ thread[t].root = ws.root
          /\ "read" \in Left(t) \/ thread[t].config = Current \/ changed
    /\ ToWrite(t) => ws.root # "" /\ thread[t].root = ws.root /\ Parsed(thread[t].config) = thread[t].config
    /\ Setting(t) => ws.root # "" /\ thread[t].root = ws.root /\ thread[t].config = Current /\ "read" \notin Left(t)

\* How far an open is ...
Opens(t) ==
    LET c == thread[t].config  left == Left(t) IN
    OpenKind(t) =>
        /\ ~At(t, "swap")
        /\ thread[t].root \in Roots /\ c = Parsed(disk[thread[t].root])
        /\ {"rebuild", "unresolve", "unroot", "unid"} \intersect left = {}
        /\ "set root" \notin left => ws.root = thread[t].root
        /\ "set resolver" \notin left =>
              /\ ws.resolver = Len(anchor) /\ Len(anchor) > 0 /\ anchor[ws.resolver] = Effective(ws.root, c)
              /\ world.owner < Len(anchor)
        /\ "set id" \notin left => ws.id = Len(anchor)
        /\ "unwatch" \notin left /\ ws.watcher # 0 => ws.watched = ws.root
        /\ "store" \notin left => cache = c
        /\ "emit" \notin left => shown = c

\* ... and a close.
Closes(t) ==
    LET left == Left(t) IN
    CloseKind(t) =>
        /\ ~At(t, "swap")
        /\ thread[t].config = None
        /\ {"set root", "set resolver", "set id", "watch", "rebuild"} \intersect left = {}
        /\ "unwatch" \notin left => ws.watcher = 0
        /\ "unresolve" \notin left => ws.resolver = 0
        /\ "unroot" \notin left => ws.root = ""
        /\ "root of" \notin left => thread[t].root = ""
        /\ "unid" \notin left => ws.id = 0
        /\ "store" \notin left => cache = None

\* A place that is told of the config has it, or a thread is to tell it, or the
\* watcher is to read the file again.
Told(now, step) == now \/ changed \/ \E t \in Threads : step \in Left(t) /\ ~ToWrite(t)

Steady ==
    /\ ws.root = "" => ws.resolver = 0 /\ ws.id = 0 /\ ws.watcher = 0 /\ cache = None /\ shown = None
    /\ ws.root # "" =>
          /\ ws.resolver = Len(anchor) /\ ws.id = Len(anchor) /\ Len(anchor) > 0
          /\ flag <=> ws.watcher = 0
          /\ ws.watcher # 0 =>
                /\ ws.watched = ws.root
                /\ Told(cache = Current, "store") /\ Told(shown = Current, "emit")
                /\ Told(anchor[ws.resolver] = Effective(ws.root, Current), "anchor")

\* The world the document should have, and how far it may be from it.
Target == IF ws.root # Home THEN Loose ELSE [owner |-> ws.id, resolver |-> ws.resolver, at |-> anchor[ws.resolver]]
Near   == IF ws.root # Home THEN world = Loose ELSE world.owner = ws.id /\ world.resolver = ws.resolver
Builds(t) == "rebuild" \in Left(t) \/ (At(t, "swap") /\ ~Switching(t))

WorldFollows ==
    /\ \A t \in Threads :
          At(t, "swap") => thread[t].built = Target /\ (~Switching(t) => ws.root = Home)
    /\ (\A t \in Threads : ~Switching(t)) =>
          /\ Near
          /\ world = Target \/ \E t \in Threads : Builds(t)
          /\ \A t, u \in Threads : Builds(t) /\ Builds(u) => t = u

SettlesInv ==
    /\ Together
    /\ \A t \in Threads : Carries(t) /\ Opens(t) /\ Closes(t)
    /\ \A t \in Threads : Switching(t) /\ "unwatch" \notin Left(t) => ~changed
    /\ \A t \in Threads : Left(t) = {"reclassify", "swap"} /\ ws.root # "" => world.owner < ws.id
    /\ Steady \/ \E t \in Threads : OpenKind(t) \/ CloseKind(t)
    /\ smeared \/ WorldFollows

WorkspaceInv == WorkspaceTyped /\ (crossed \/ SettlesInv)

-----------------------------------------------------------------------------
(* Lists of work.                                                          *)

\* A step put before a list is its head, and the list its tail.
LEMMA FirstThen ==
    ASSUME NEW S, NEW x \in S, NEW r \in Seq(S)
    PROVE  /\ Then(x, r) \in Seq(S) /\ Then(x, r) # <<>>
           /\ Head(Then(x, r)) = x /\ Tail(Then(x, r)) = r
           /\ Range(Then(x, r)) = {x} \union Range(r)
<1> PICK one, s : one = <<x>> /\ s = Then(x, r)
  OBVIOUS
<1>1. one \in Seq(S) /\ Len(one) = 1 /\ one[1] = x /\ s = one \o r
  BY DEF Then
<1>2. /\ s \in Seq(S) /\ Len(s) = 1 + Len(r) /\ Len(r) \in Nat
      /\ \A i \in 1..Len(s) : s[i] = IF i <= Len(one) THEN one[i] ELSE r[i - Len(one)]
  BY <1>1, ConcatProperties, LenProperties
<1>3. s # <<>> /\ s[1] = x /\ \A n \in 1..Len(r) : s[n + 1] = r[n]
  <2>1. s # <<>>
    BY <1>2, EmptySeq
  <2>2. s[1] = x
    BY <1>1, <1>2
  <2>3. ASSUME NEW n \in 1..Len(r) PROVE s[n + 1] = r[n]
    <3>1. n + 1 \in 1..Len(s) /\ ~(n + 1 <= Len(one)) /\ (n + 1) - Len(one) = n
      BY <1>1, <1>2
    <3> QED BY <1>2, <3>1
  <2> QED BY <2>1, <2>2, <2>3
<1>4. Head(s) = x /\ Tail(s) \in Seq(S) /\ Len(Tail(s)) = Len(r) /\ \A n \in 1..Len(Tail(s)) : Tail(s)[n] = s[n + 1]
  BY <1>2, <1>3, HeadTailProperties
<1>5. Tail(s) = r
  BY <1>3, <1>4, SeqEqual
<1>6. Range(s) = {x} \union Range(r)
  <2>1. Range(one) = {x}
    <3>1. DOMAIN one = {1}
      BY <1>1, LenProperties
    <3> QED BY <1>1, <3>1 DEF Range
  <2>2. Range(s) = Range(one) \union Range(r)
    BY <1>1, RangeConcatenation
  <2> QED BY <2>1, <2>2
<1> QED BY <1>2, <1>3, <1>4, <1>5, <1>6

\* When a list is one step put before another.
LEMMA IsThen ==
    ASSUME NEW S, NEW x \in S, NEW r \in Seq(S), NEW s \in Seq(S), Len(s) = Len(r) + 1, s[1] = x,
           \A i \in 1..Len(r) : s[i + 1] = r[i]
    PROVE  s = Then(x, r)
<1> PICK p : p = Then(x, r)
  OBVIOUS
<1>1. p \in Seq(S) /\ p # <<>> /\ Head(p) = x /\ Tail(p) = r
  BY FirstThen
<1>2. Len(p) \in Nat /\ Len(r) \in Nat /\ p[1] = x
  BY <1>1, LenProperties
<1>3. Len(r) = Len(p) - 1 /\ \A i \in 1..Len(r) : r[i] = p[i + 1]
  BY <1>1, HeadTailProperties
<1>4. ASSUME NEW i \in 1..Len(s) PROVE s[i] = p[i]
  <2>1. CASE i = 1
    BY <1>2, <2>1
  <2>2. CASE i # 1
    <3>1. i - 1 \in 1..Len(r) /\ (i - 1) + 1 = i
      BY <1>2, <2>2
    <3>2. s[(i - 1) + 1] = r[i - 1] /\ r[i - 1] = p[(i - 1) + 1]
      BY <1>3, <3>1
    <3> QED BY <3>1, <3>2
  <2> QED BY <2>1, <2>2
<1>5. s = p
  <2>1. Len(s) = Len(p)
    BY <1>2, <1>3
  <2> QED BY <1>1, <1>4, <2>1, SeqEqual
<1> QED BY <1>5

\* Lists written out.
LEMMA ListOfOne ==
    ASSUME NEW a
    PROVE  <<a>> = Then(a, <<>>)
<1>1. PICK S, s, r : S = {a} /\ s = <<a>> /\ r = <<>>
  OBVIOUS
<1>2. a \in S /\ s \in Seq(S) /\ r \in Seq(S) /\ Len(s) = Len(r) + 1 /\ s[1] = a /\ \A i \in 1..Len(r) : s[i + 1] = r[i]
  BY <1>1
<1>3. s = Then(a, r)
  BY <1>2, IsThen
<1> QED BY <1>1, <1>3

LEMMA ListOfTwo ==
    ASSUME NEW a, NEW b
    PROVE  <<a, b>> = Then(a, <<b>>)
<1>1. PICK S, s, r : S = {a, b} /\ s = <<a, b>> /\ r = <<b>>
  OBVIOUS
<1>2. a \in S /\ s \in Seq(S) /\ r \in Seq(S) /\ Len(s) = Len(r) + 1 /\ s[1] = a /\ \A i \in 1..Len(r) : s[i + 1] = r[i]
  BY <1>1
<1>3. s = Then(a, r)
  BY <1>2, IsThen
<1> QED BY <1>1, <1>3

LEMMA ListOfThree ==
    ASSUME NEW a, NEW b, NEW c
    PROVE  <<a, b, c>> = Then(a, <<b, c>>)
<1>1. PICK S, s, r : S = {a, b, c} /\ s = <<a, b, c>> /\ r = <<b, c>>
  OBVIOUS
<1>2. a \in S /\ s \in Seq(S) /\ r \in Seq(S) /\ Len(s) = Len(r) + 1 /\ s[1] = a /\ \A i \in 1..Len(r) : s[i + 1] = r[i]
  BY <1>1
<1>3. s = Then(a, r)
  BY <1>2, IsThen
<1> QED BY <1>1, <1>3

LEMMA ListOfFour ==
    ASSUME NEW a, NEW b, NEW c, NEW d
    PROVE  <<a, b, c, d>> = Then(a, <<b, c, d>>)
<1>1. PICK S, s, r : S = {a, b, c, d} /\ s = <<a, b, c, d>> /\ r = <<b, c, d>>
  OBVIOUS
<1>2. a \in S /\ s \in Seq(S) /\ r \in Seq(S) /\ Len(s) = Len(r) + 1 /\ s[1] = a /\ \A i \in 1..Len(r) : s[i + 1] = r[i]
  BY <1>1
<1>3. s = Then(a, r)
  BY <1>2, IsThen
<1> QED BY <1>1, <1>3

LEMMA ListOfFive ==
    ASSUME NEW a, NEW b, NEW c, NEW d, NEW e
    PROVE  <<a, b, c, d, e>> = Then(a, <<b, c, d, e>>)
<1>1. PICK S, s, r : S = {a, b, c, d, e} /\ s = <<a, b, c, d, e>> /\ r = <<b, c, d, e>>
  OBVIOUS
<1>2. a \in S /\ s \in Seq(S) /\ r \in Seq(S) /\ Len(s) = Len(r) + 1 /\ s[1] = a /\ \A i \in 1..Len(r) : s[i + 1] = r[i]
  BY <1>1
<1>3. s = Then(a, r)
  BY <1>2, IsThen
<1> QED BY <1>1, <1>3

LEMMA ListOfSix ==
    ASSUME NEW a, NEW b, NEW c, NEW d, NEW e, NEW f
    PROVE  <<a, b, c, d, e, f>> = Then(a, <<b, c, d, e, f>>)
<1>1. PICK S, s, r : S = {a, b, c, d, e, f} /\ s = <<a, b, c, d, e, f>> /\ r = <<b, c, d, e, f>>
  OBVIOUS
<1>2. a \in S /\ s \in Seq(S) /\ r \in Seq(S) /\ Len(s) = Len(r) + 1 /\ s[1] = a /\ \A i \in 1..Len(r) : s[i + 1] = r[i]
  BY <1>1
<1>3. s = Then(a, r)
  BY <1>2, IsThen
<1> QED BY <1>1, <1>3

Chain(r, s) == r \o s

LEMMA ThenChain ==
    ASSUME NEW S, NEW x \in S, NEW r \in Seq(S), NEW s \in Seq(S)
    PROVE  /\ Chain(Then(x, r), s) = Then(x, Chain(r, s))
           /\ Chain(r, s) \in Seq(S)
<1>1. <<x>> \in Seq(S)
  OBVIOUS
<1>2. r \o s \in Seq(S) /\ (<<x>> \o r) \o s = <<x>> \o (r \o s)
  BY <1>1, ConcatProperties, ConcatAssociative
<1> QED BY <1>2 DEF Then, Chain

LEMMA ChainOfThree ==
    ASSUME NEW S, NEW p \in Seq(S), NEW q \in Seq(S), NEW r \in Seq(S)
    PROVE  Chain(Chain(p, q), r) = Chain(p, Chain(q, r))
BY ConcatAssociative DEF Chain

LEMMA ChainNothing ==
    ASSUME NEW S, NEW s \in Seq(S), NEW e, e = <<>>
    PROVE  Chain(e, s) = s
BY ConcatEmptySeq DEF Chain

StepNames == {"set root", "set resolver", "set id", "unwatch", "watch", "read", "store", "root of", "anchor", "rebuild", "swap",
              "emit", "health", "reclassify", "unresolve", "unroot", "unid", "write"}

IsList(p, x, r, left) ==
    p \in Seq(StepNames) /\ p # <<>> /\ Head(p) = x /\ Tail(p) = r /\ Range(p) = left

\* What is left at the end of a command.
EndSets == {{}, {"reclassify", "swap"}, {"health", "reclassify", "swap"}}

LEMMA FirstOfPlan ==
    ASSUME NEW x \in StepNames, NEW r \in Seq(StepNames), NEW left, Range(r) = left
    PROVE  IsList(Then(x, r), x, r, {x} \union left)
BY FirstThen DEF IsList

LEMMA NextOfPlan ==
    ASSUME NEW x \in StepNames, NEW p, NEW y, NEW r, NEW left, IsList(p, y, r, left)
    PROVE  IsList(Then(x, p), x, p, {x} \union left)
<1>1. p \in Seq(StepNames) /\ Range(p) = left
  BY DEF IsList
<1> QED BY <1>1, FirstOfPlan

LEMMA NothingLeft == <<>> \in Seq(StepNames) /\ Range(<<>>) = {}
BY DEF Range

\* The lists at the end of a command.
LEMMA EndLists ==
    /\ IsList(SwapLast, "swap", <<>>, {"swap"})
    /\ IsList(CloseEnd, "reclassify", SwapLast, {"reclassify", "swap"})
    /\ IsList(OpenEnd, "health", CloseEnd, {"health", "reclassify", "swap"})
    /\ \A r \in Ends : r \in Seq(StepNames) /\ Range(r) \in EndSets
<1>1. IsList(SwapLast, "swap", <<>>, {"swap"})
  BY NothingLeft, FirstOfPlan DEF SwapLast, StepNames
<1>2. IsList(CloseEnd, "reclassify", SwapLast, {"reclassify"} \union {"swap"})
  BY <1>1, NextOfPlan DEF CloseEnd, StepNames
<1>3. IsList(OpenEnd, "health", CloseEnd, {"health"} \union ({"reclassify"} \union {"swap"}))
  BY <1>2, NextOfPlan DEF OpenEnd, StepNames
<1>4. /\ {"reclassify"} \union {"swap"} = {"reclassify", "swap"}
      /\ {"health"} \union ({"reclassify"} \union {"swap"}) = {"health", "reclassify", "swap"}
  OBVIOUS
<1>5. \A r \in Ends : r \in Seq(StepNames) /\ Range(r) \in EndSets
  BY <1>1, <1>2, <1>3, <1>4, NothingLeft DEF Ends, EndSets, IsList
<1> QED BY <1>1, <1>2, <1>3, <1>4, <1>5

\* The replacement of the config, before each of these ends.
LEMMA ReplaceLists ==
    ASSUME NEW r \in Ends
    PROVE  /\ IsList(EmitOn(r), "emit", r, {"emit"} \union Range(r))
           /\ IsList(SwapOn(r), "swap", EmitOn(r), {"swap", "emit"} \union Range(r))
           /\ IsList(BuildOn(r), "rebuild", SwapOn(r), {"rebuild", "swap", "emit"} \union Range(r))
           /\ IsList(AnchorOn(r), "anchor", EmitOn(r), {"anchor", "emit"} \union Range(r))
           /\ IsList(RootOn(r), "root of", AnchorOn(r), {"root of", "anchor", "emit"} \union Range(r))
           /\ IsList(StoreOn(r), "store", RootOn(r), {"store", "root of", "anchor", "emit"} \union Range(r))
           /\ IsList(ReadOn(r), "read", StoreOn(r), {"read", "store", "root of", "anchor", "emit"} \union Range(r))
<1> PICK e : e = Range(r)
  OBVIOUS
<1>1. r \in Seq(StepNames)
  BY EndLists
<1>2. IsList(EmitOn(r), "emit", r, {"emit"} \union e)
  BY <1>1, FirstOfPlan DEF EmitOn, StepNames
<1>3. IsList(SwapOn(r), "swap", EmitOn(r), {"swap"} \union ({"emit"} \union e))
  BY <1>2, NextOfPlan DEF SwapOn, StepNames
<1>4. IsList(BuildOn(r), "rebuild", SwapOn(r), {"rebuild"} \union ({"swap"} \union ({"emit"} \union e)))
  BY <1>3, NextOfPlan DEF BuildOn, StepNames
<1>5. IsList(AnchorOn(r), "anchor", EmitOn(r), {"anchor"} \union ({"emit"} \union e))
  BY <1>2, NextOfPlan DEF AnchorOn, StepNames
<1>6. IsList(RootOn(r), "root of", AnchorOn(r), {"root of"} \union ({"anchor"} \union ({"emit"} \union e)))
  BY <1>5, NextOfPlan DEF RootOn, StepNames
<1>7. IsList(StoreOn(r), "store", RootOn(r), {"store"} \union ({"root of"} \union ({"anchor"} \union ({"emit"} \union e))))
  BY <1>6, NextOfPlan DEF StoreOn, StepNames
<1>8. IsList(ReadOn(r), "read", StoreOn(r), {"read"} \union ({"store"} \union ({"root of"} \union ({"anchor"} \union ({"emit"} \union e)))))
  BY <1>7, NextOfPlan DEF ReadOn, StepNames
<1>9. /\ {"swap"} \union ({"emit"} \union e) = {"swap", "emit"} \union e
      /\ {"rebuild"} \union ({"swap"} \union ({"emit"} \union e)) = {"rebuild", "swap", "emit"} \union e
      /\ {"anchor"} \union ({"emit"} \union e) = {"anchor", "emit"} \union e
      /\ {"root of"} \union ({"anchor"} \union ({"emit"} \union e)) = {"root of", "anchor", "emit"} \union e
      /\ {"store"} \union ({"root of"} \union ({"anchor"} \union ({"emit"} \union e))) = {"store", "root of", "anchor", "emit"} \union e
      /\ {"read"} \union ({"store"} \union ({"root of"} \union ({"anchor"} \union ({"emit"} \union e)))) =
            {"read", "store", "root of", "anchor", "emit"} \union e
  OBVIOUS
<1> QED BY <1>2, <1>3, <1>4, <1>5, <1>6, <1>7, <1>8, <1>9

ReplaceLeft == {"store", "root of", "anchor", "emit"}
OpenLeft    == {"read"} \union ReplaceLeft \union {"health", "reclassify", "swap"}
CloseLeft   == ReplaceLeft \union {"reclassify", "swap"}

\* The beginnings of the commands.
LEMMA FirstLists ==
    /\ IsList(WriteFirst, "write", StoreOn(<<>>), {"write"} \union ReplaceLeft)
    /\ IsList(WatchOn, "watch", ReadOn(OpenEnd), {"watch"} \union OpenLeft)
    /\ IsList(UnwatchOn, "unwatch", WatchOn, {"unwatch", "watch"} \union OpenLeft)
    /\ IsList(IdOn, "set id", UnwatchOn, {"set id", "unwatch", "watch"} \union OpenLeft)
    /\ IsList(ResolverOn, "set resolver", IdOn, {"set resolver", "set id", "unwatch", "watch"} \union OpenLeft)
    /\ IsList(OpenFirst, "set root", ResolverOn, {"set root", "set resolver", "set id", "unwatch", "watch"} \union OpenLeft)
    /\ IsList(UnidOn, "unid", StoreOn(CloseEnd), {"unid"} \union CloseLeft)
    /\ IsList(UnrootOn, "unroot", UnidOn, {"unroot", "unid"} \union CloseLeft)
    /\ IsList(UnresolveOn, "unresolve", UnrootOn, {"unresolve", "unroot", "unid"} \union CloseLeft)
    /\ IsList(CloseFirst, "unwatch", UnresolveOn, {"unwatch", "unresolve", "unroot", "unid"} \union CloseLeft)
<1>1. /\ <<>> \in Ends /\ OpenEnd \in Ends /\ CloseEnd \in Ends
      /\ Range(<<>>) = {} /\ Range(OpenEnd) = {"health", "reclassify", "swap"} /\ Range(CloseEnd) = {"reclassify", "swap"}
  BY EndLists, NothingLeft DEF Ends, IsList
<1>2. /\ StoreOn(<<>>) \in Seq(StepNames) /\ Range(StoreOn(<<>>)) = ReplaceLeft
      /\ ReadOn(OpenEnd) \in Seq(StepNames) /\ Range(ReadOn(OpenEnd)) = OpenLeft
      /\ StoreOn(CloseEnd) \in Seq(StepNames) /\ Range(StoreOn(CloseEnd)) = CloseLeft
  BY <1>1, ReplaceLists DEF IsList, ReplaceLeft, OpenLeft, CloseLeft
<1> HIDE DEF ReplaceLeft, OpenLeft, CloseLeft
<1>3. IsList(WriteFirst, "write", StoreOn(<<>>), {"write"} \union ReplaceLeft)
  BY <1>2, FirstOfPlan DEF WriteFirst, StepNames
<1>4. IsList(WatchOn, "watch", ReadOn(OpenEnd), {"watch"} \union OpenLeft)
  BY <1>2, FirstOfPlan DEF WatchOn, StepNames
<1>5. IsList(UnwatchOn, "unwatch", WatchOn, {"unwatch"} \union ({"watch"} \union OpenLeft))
  BY <1>4, NextOfPlan DEF UnwatchOn, StepNames
<1>6. IsList(IdOn, "set id", UnwatchOn, {"set id"} \union ({"unwatch"} \union ({"watch"} \union OpenLeft)))
  BY <1>5, NextOfPlan DEF IdOn, StepNames
<1>7. IsList(ResolverOn, "set resolver", IdOn, {"set resolver"} \union ({"set id"} \union ({"unwatch"} \union ({"watch"} \union OpenLeft))))
  BY <1>6, NextOfPlan DEF ResolverOn, StepNames
<1>8. IsList(OpenFirst, "set root", ResolverOn,
             {"set root"} \union ({"set resolver"} \union ({"set id"} \union ({"unwatch"} \union ({"watch"} \union OpenLeft)))))
  BY <1>7, NextOfPlan DEF OpenFirst, StepNames
<1>9. IsList(UnidOn, "unid", StoreOn(CloseEnd), {"unid"} \union CloseLeft)
  BY <1>2, FirstOfPlan DEF UnidOn, StepNames
<1>10. IsList(UnrootOn, "unroot", UnidOn, {"unroot"} \union ({"unid"} \union CloseLeft))
  BY <1>9, NextOfPlan DEF UnrootOn, StepNames
<1>11. IsList(UnresolveOn, "unresolve", UnrootOn, {"unresolve"} \union ({"unroot"} \union ({"unid"} \union CloseLeft)))
  BY <1>10, NextOfPlan DEF UnresolveOn, StepNames
<1>12. IsList(CloseFirst, "unwatch", UnresolveOn, {"unwatch"} \union ({"unresolve"} \union ({"unroot"} \union ({"unid"} \union CloseLeft))))
  BY <1>11, NextOfPlan DEF CloseFirst, StepNames
<1>13. /\ {"unwatch"} \union ({"watch"} \union OpenLeft) = {"unwatch", "watch"} \union OpenLeft
       /\ {"set id"} \union ({"unwatch"} \union ({"watch"} \union OpenLeft)) = {"set id", "unwatch", "watch"} \union OpenLeft
       /\ {"set resolver"} \union ({"set id"} \union ({"unwatch"} \union ({"watch"} \union OpenLeft))) =
             {"set resolver", "set id", "unwatch", "watch"} \union OpenLeft
       /\ {"set root"} \union ({"set resolver"} \union ({"set id"} \union ({"unwatch"} \union ({"watch"} \union OpenLeft)))) =
             {"set root", "set resolver", "set id", "unwatch", "watch"} \union OpenLeft
  OBVIOUS
<1>14. /\ {"unroot"} \union ({"unid"} \union CloseLeft) = {"unroot", "unid"} \union CloseLeft
       /\ {"unresolve"} \union ({"unroot"} \union ({"unid"} \union CloseLeft)) = {"unresolve", "unroot", "unid"} \union CloseLeft
       /\ {"unwatch"} \union ({"unresolve"} \union ({"unroot"} \union ({"unid"} \union CloseLeft))) =
             {"unwatch", "unresolve", "unroot", "unid"} \union CloseLeft
  OBVIOUS
<1>15. /\ IsList(UnwatchOn, "unwatch", WatchOn, {"unwatch", "watch"} \union OpenLeft)
       /\ IsList(IdOn, "set id", UnwatchOn, {"set id", "unwatch", "watch"} \union OpenLeft)
       /\ IsList(ResolverOn, "set resolver", IdOn, {"set resolver", "set id", "unwatch", "watch"} \union OpenLeft)
       /\ IsList(OpenFirst, "set root", ResolverOn, {"set root", "set resolver", "set id", "unwatch", "watch"} \union OpenLeft)
  BY <1>5, <1>6, <1>7, <1>8, <1>13
<1>16. /\ IsList(UnrootOn, "unroot", UnidOn, {"unroot", "unid"} \union CloseLeft)
       /\ IsList(UnresolveOn, "unresolve", UnrootOn, {"unresolve", "unroot", "unid"} \union CloseLeft)
       /\ IsList(CloseFirst, "unwatch", UnresolveOn, {"unwatch", "unresolve", "unroot", "unid"} \union CloseLeft)
  BY <1>10, <1>11, <1>12, <1>14
<1> QED BY <1>3, <1>4, <1>9, <1>15, <1>16

\* List s put after list p is list q.
Joins(p, s, q) == p \in Seq(StepNames) /\ s \in Seq(StepNames) /\ Chain(p, s) = q

LEMMA ThenJoins ==
    ASSUME NEW x \in StepNames, NEW p, NEW s, NEW q, Joins(p, s, q)
    PROVE  Joins(Then(x, p), s, Then(x, q))
<1>1. p \in Seq(StepNames) /\ s \in Seq(StepNames) /\ Chain(p, s) = q
  BY DEF Joins
<1>2. Chain(Then(x, p), s) = Then(x, Chain(p, s))
  BY <1>1, ThenChain
<1>3. Then(x, p) \in Seq(StepNames)
  BY <1>1, FirstThen
<1> QED BY <1>1, <1>2, <1>3 DEF Joins

LEMMA AreStepNames ==
    /\ "set root" \in StepNames /\ "set resolver" \in StepNames /\ "set id" \in StepNames /\ "unwatch" \in StepNames
    /\ "watch" \in StepNames /\ "read" \in StepNames /\ "store" \in StepNames /\ "root of" \in StepNames
    /\ "anchor" \in StepNames /\ "rebuild" \in StepNames /\ "swap" \in StepNames /\ "emit" \in StepNames
    /\ "health" \in StepNames /\ "reclassify" \in StepNames /\ "unresolve" \in StepNames /\ "unroot" \in StepNames
    /\ "unid" \in StepNames /\ "write" \in StepNames
BY DEF StepNames

\* The steps of an open before the replacement ...
LEMMA BeforeReplace ==
    ASSUME NEW e, NEW s, Joins(e, s, s)
    PROVE  Joins(Then("set root", Then("set resolver", Then("set id", Then("unwatch", Then("watch", Then("read", e)))))), s,
                 Then("set root", Then("set resolver", Then("set id", Then("unwatch", Then("watch", Then("read", s)))))))
<1>1. Joins(Then("read", e), s, Then("read", s))
  BY AreStepNames, ThenJoins
<1>2. Joins(Then("watch", Then("read", e)), s, Then("watch", Then("read", s)))
  BY <1>1, AreStepNames, ThenJoins
<1>3. Joins(Then("unwatch", Then("watch", Then("read", e))), s, Then("unwatch", Then("watch", Then("read", s))))
  BY <1>2, AreStepNames, ThenJoins
<1>4. Joins(Then("set id", Then("unwatch", Then("watch", Then("read", e)))), s, Then("set id", Then("unwatch", Then("watch", Then("read", s)))))
  BY <1>3, AreStepNames, ThenJoins
<1>5. Joins(Then("set resolver", Then("set id", Then("unwatch", Then("watch", Then("read", e))))), s, Then("set resolver", Then("set id", Then("unwatch", Then("watch", Then("read", s))))))
  BY <1>4, AreStepNames, ThenJoins
<1>6. Joins(Then("set root", Then("set resolver", Then("set id", Then("unwatch", Then("watch", Then("read", e)))))), s, Then("set root", Then("set resolver", Then("set id", Then("unwatch", Then("watch", Then("read", s)))))))
  BY <1>5, AreStepNames, ThenJoins
<1> QED BY <1>6

\* ... those of a close ...
LEMMA BeforeClosing ==
    ASSUME NEW e, NEW s, Joins(e, s, s)
    PROVE  Joins(Then("unwatch", Then("unresolve", Then("unroot", Then("unid", e)))), s,
                 Then("unwatch", Then("unresolve", Then("unroot", Then("unid", s)))))
<1>1. Joins(Then("unid", e), s, Then("unid", s))
  BY AreStepNames, ThenJoins
<1>2. Joins(Then("unroot", Then("unid", e)), s, Then("unroot", Then("unid", s)))
  BY <1>1, AreStepNames, ThenJoins
<1>3. Joins(Then("unresolve", Then("unroot", Then("unid", e))), s, Then("unresolve", Then("unroot", Then("unid", s))))
  BY <1>2, AreStepNames, ThenJoins
<1>4. Joins(Then("unwatch", Then("unresolve", Then("unroot", Then("unid", e)))), s, Then("unwatch", Then("unresolve", Then("unroot", Then("unid", s)))))
  BY <1>3, AreStepNames, ThenJoins
<1> QED BY <1>4

\* ... and the replacement itself.
LEMMA AroundReplace ==
    ASSUME NEW e, NEW s, Joins(e, s, s)
    PROVE  Joins(Then("store", Then("root of", Then("anchor", Then("emit", e)))), s,
                 Then("store", Then("root of", Then("anchor", Then("emit", s)))))
<1>1. Joins(Then("emit", e), s, Then("emit", s))
  BY AreStepNames, ThenJoins
<1>2. Joins(Then("anchor", Then("emit", e)), s, Then("anchor", Then("emit", s)))
  BY <1>1, AreStepNames, ThenJoins
<1>3. Joins(Then("root of", Then("anchor", Then("emit", e))), s, Then("root of", Then("anchor", Then("emit", s))))
  BY <1>2, AreStepNames, ThenJoins
<1>4. Joins(Then("store", Then("root of", Then("anchor", Then("emit", e)))), s, Then("store", Then("root of", Then("anchor", Then("emit", s)))))
  BY <1>3, AreStepNames, ThenJoins
<1> QED BY <1>4

\* The worlds are built again before the frontend is told.
LEMMA BeforeEmit ==
    ASSUME NEW e, NEW s, Joins(e, s, s)
    PROVE  Joins(Then("rebuild", Then("swap", e)), s,
                 Then("rebuild", Then("swap", s)))
<1>1. Joins(Then("swap", e), s, Then("swap", s))
  BY AreStepNames, ThenJoins
<1>2. Joins(Then("rebuild", Then("swap", e)), s, Then("rebuild", Then("swap", s)))
  BY <1>1, AreStepNames, ThenJoins
<1> QED BY <1>2

\* The replacement of the config, and what it is before an end.
LEMMA WholeReplace ==
    /\ Replace = StoreOn(<<>>) /\ Replace \in Seq(StepNames)
    /\ \A r \in Ends : Chain(Replace, r) = StoreOn(r)
<1>1. Replace = StoreOn(<<>>)
  <2>1. Replace = Then("store", <<"root of", "anchor", "emit">>)
    BY ListOfFour DEF Replace
  <2>2. <<"root of", "anchor", "emit">> = Then("root of", <<"anchor", "emit">>)
    BY ListOfThree
  <2>3. <<"anchor", "emit">> = Then("anchor", <<"emit">>)
    BY ListOfTwo
  <2>4. <<"emit">> = Then("emit", <<>>)
    BY ListOfOne
  <2> QED BY <2>1, <2>2, <2>3, <2>4 DEF StoreOn, RootOn, AnchorOn, EmitOn
<1>2. <<>> \in Ends
  BY DEF Ends
<1>3. ASSUME NEW r \in Ends PROVE Chain(StoreOn(<<>>), r) = StoreOn(r)
  <2>1. r \in Seq(StepNames) /\ <<>> \in Seq(StepNames)
    BY <1>2, EndLists
  <2>2. Chain(<<>>, r) = r
    BY <2>1, ChainNothing
  <2> QED BY <2>1, <2>2, AroundReplace DEF Joins, StoreOn, RootOn, AnchorOn, EmitOn
<1>4. StoreOn(<<>>) \in Seq(StepNames)
  BY <1>2, ReplaceLists DEF IsList
<1> QED BY <1>1, <1>3, <1>4

\* The open, the close, a set and a reading.
LEMMA WholeOpen == Opening = OpenFirst /\ <<"health", "reclassify", "swap">> = OpenEnd
<1> DEFINE six == <<"set root", "set resolver", "set id", "unwatch", "watch", "read">>
           end == <<"health", "reclassify", "swap">>
<1>1. six = Then("set root", Then("set resolver", Then("set id", Then("unwatch", Then("watch", Then("read", <<>>))))))
  <2>1. six = Then("set root", <<"set resolver", "set id", "unwatch", "watch", "read">>)
    BY ListOfSix
  <2>2. <<"set resolver", "set id", "unwatch", "watch", "read">> = Then("set resolver", <<"set id", "unwatch", "watch", "read">>)
    BY ListOfFive
  <2>3. <<"set id", "unwatch", "watch", "read">> = Then("set id", <<"unwatch", "watch", "read">>)
    BY ListOfFour
  <2>4. <<"unwatch", "watch", "read">> = Then("unwatch", <<"watch", "read">>)
    BY ListOfThree
  <2>5. <<"watch", "read">> = Then("watch", <<"read">>)
    BY ListOfTwo
  <2>6. <<"read">> = Then("read", <<>>)
    BY ListOfOne
  <2> QED BY <2>1, <2>2, <2>3, <2>4, <2>5, <2>6
<1>2. end = OpenEnd
  <2>1. end = Then("health", <<"reclassify", "swap">>)
    BY ListOfThree
  <2>2. <<"reclassify", "swap">> = Then("reclassify", <<"swap">>)
    BY ListOfTwo
  <2>3. <<"swap">> = Then("swap", <<>>)
    BY ListOfOne
  <2> QED BY <2>1, <2>2, <2>3 DEF OpenEnd, CloseEnd, SwapLast
<1>3. OpenEnd \in Ends /\ OpenEnd \in Seq(StepNames) /\ <<>> \in Seq(StepNames) /\ StoreOn(OpenEnd) \in Seq(StepNames)
  BY EndLists, NothingLeft, ReplaceLists DEF Ends, IsList
<1>4. Chain(<<>>, StoreOn(OpenEnd)) = StoreOn(OpenEnd)
  BY <1>3, ChainNothing
<1>5. Opening = Chain(Chain(six, Replace), end)
  BY DEF Opening, Chain
<1> HIDE DEF six, end
<1>6. Chain(six, StoreOn(OpenEnd)) = OpenFirst /\ six \in Seq(StepNames)
  BY <1>1, <1>3, <1>4, BeforeReplace DEF Joins, OpenFirst, ResolverOn, IdOn, UnwatchOn, WatchOn, ReadOn
<1>7. Replace \in Seq(StepNames) /\ Chain(Replace, OpenEnd) = StoreOn(OpenEnd)
  BY <1>3, WholeReplace
<1>8. Chain(Chain(six, Replace), OpenEnd) = Chain(six, Chain(Replace, OpenEnd))
  BY <1>3, <1>6, <1>7, ChainOfThree
<1>9. Opening = OpenFirst
  BY <1>2, <1>5, <1>6, <1>7, <1>8
<1> QED BY <1>2, <1>9 DEF end

LEMMA WholeClose == Closing = CloseFirst
<1> DEFINE four == <<"unwatch", "unresolve", "unroot", "unid">>
           end == <<"reclassify", "swap">>
<1>1. four = Then("unwatch", Then("unresolve", Then("unroot", Then("unid", <<>>))))
  <2>1. four = Then("unwatch", <<"unresolve", "unroot", "unid">>)
    BY ListOfFour
  <2>2. <<"unresolve", "unroot", "unid">> = Then("unresolve", <<"unroot", "unid">>)
    BY ListOfThree
  <2>3. <<"unroot", "unid">> = Then("unroot", <<"unid">>)
    BY ListOfTwo
  <2>4. <<"unid">> = Then("unid", <<>>)
    BY ListOfOne
  <2> QED BY <2>1, <2>2, <2>3, <2>4
<1>2. end = CloseEnd
  <2>1. end = Then("reclassify", <<"swap">>)
    BY ListOfTwo
  <2>2. <<"swap">> = Then("swap", <<>>)
    BY ListOfOne
  <2> QED BY <2>1, <2>2 DEF CloseEnd, SwapLast
<1>3. CloseEnd \in Ends /\ CloseEnd \in Seq(StepNames) /\ <<>> \in Seq(StepNames) /\ StoreOn(CloseEnd) \in Seq(StepNames)
  BY EndLists, NothingLeft, ReplaceLists DEF Ends, IsList
<1>4. Chain(<<>>, StoreOn(CloseEnd)) = StoreOn(CloseEnd)
  BY <1>3, ChainNothing
<1>5. Closing = Chain(Chain(four, Replace), end)
  BY DEF Closing, Chain
<1> HIDE DEF four, end
<1>6. Chain(four, StoreOn(CloseEnd)) = CloseFirst /\ four \in Seq(StepNames)
  BY <1>1, <1>3, <1>4, BeforeClosing DEF Joins, CloseFirst, UnresolveOn, UnrootOn, UnidOn
<1>7. Replace \in Seq(StepNames) /\ Chain(Replace, CloseEnd) = StoreOn(CloseEnd)
  BY <1>3, WholeReplace
<1>8. Chain(Chain(four, Replace), CloseEnd) = Chain(four, Chain(Replace, CloseEnd))
  BY <1>3, <1>6, <1>7, ChainOfThree
<1> QED BY <1>2, <1>5, <1>6, <1>7, <1>8

LEMMA WholeLists ==
    /\ Opening = OpenFirst /\ Closing = CloseFirst
    /\ <<"write">> \o Replace = WriteFirst /\ <<"read">> \o Replace = ReadOn(<<>>)
    /\ <<"health", "reclassify", "swap">> = OpenEnd
    /\ \A r \in Ends : <<"rebuild", "swap">> \o EmitOn(r) = BuildOn(r)
<1>1. ASSUME NEW r \in Ends PROVE <<"rebuild", "swap">> \o EmitOn(r) = BuildOn(r)
  <2>1. <<>> \in Seq(StepNames) /\ EmitOn(r) \in Seq(StepNames)
    BY ReplaceLists, NothingLeft DEF IsList
  <2>2. Chain(<<>>, EmitOn(r)) = EmitOn(r)
    BY <2>1, ChainNothing
  <2>3. <<"rebuild", "swap">> = Then("rebuild", <<"swap">>)
    BY ListOfTwo
  <2>4. <<"swap">> = Then("swap", <<>>)
    BY ListOfOne
  <2>5. Chain(Then("rebuild", Then("swap", <<>>)), EmitOn(r)) = BuildOn(r)
    BY <2>1, <2>2, BeforeEmit DEF Joins, BuildOn, SwapOn
  <2>6. Chain(<<"rebuild", "swap">>, EmitOn(r)) = BuildOn(r)
    BY <2>3, <2>4, <2>5
  <2> QED BY <2>6 DEF Chain
<1>2. <<"write">> \o Replace = WriteFirst /\ <<"read">> \o Replace = ReadOn(<<>>)
  BY WholeReplace DEF WriteFirst, ReadOn, Then
<1> QED BY <1>1, <1>2, WholeOpen, WholeClose

-----------------------------------------------------------------------------
(* What the next step of a command can be, and what is left after it.       *)

LEMMA PlanHeads ==
    /\ <<>> \in Plans
    /\ \A p \in Plans : p # <<>> =>
          \/ p = SwapLast \/ p = CloseEnd \/ p = OpenEnd \/ p = WriteFirst \/ p = ReadOn(<<>>) \/ p = ReadOn(OpenEnd)
          \/ p = WatchOn \/ p = UnwatchOn \/ p = IdOn \/ p = ResolverOn \/ p = OpenFirst
          \/ p = UnidOn \/ p = UnrootOn \/ p = UnresolveOn \/ p = CloseFirst
          \/ \E r \in Ends :
                p = EmitOn(r) \/ p = SwapOn(r) \/ p = BuildOn(r) \/ p = AnchorOn(r) \/ p = RootOn(r) \/ p = StoreOn(r)
    /\ \A r \in Ends : {EmitOn(r), SwapOn(r), BuildOn(r), AnchorOn(r), RootOn(r), StoreOn(r)} \subseteq Plans
    /\ Ends \subseteq Plans
    /\ {SwapLast, WriteFirst, ReadOn(<<>>), ReadOn(OpenEnd), WatchOn, UnwatchOn, IdOn, ResolverOn, OpenFirst, UnidOn, UnrootOn,
        UnresolveOn, CloseFirst} \subseteq Plans
BY DEF Plans, Ends

\* The heads of all lists of work.
LEMMA AllHeads ==
    /\ Head(SwapLast) = "swap" /\ Head(CloseEnd) = "reclassify" /\ Head(OpenEnd) = "health" /\ Head(WriteFirst) = "write"
    /\ Head(ReadOn(<<>>)) = "read" /\ Head(ReadOn(OpenEnd)) = "read" /\ Head(WatchOn) = "watch" /\ Head(UnwatchOn) = "unwatch"
    /\ Head(IdOn) = "set id" /\ Head(ResolverOn) = "set resolver" /\ Head(OpenFirst) = "set root" /\ Head(UnidOn) = "unid"
    /\ Head(UnrootOn) = "unroot" /\ Head(UnresolveOn) = "unresolve" /\ Head(CloseFirst) = "unwatch"
    /\ \A r \in Ends :
          /\ Head(EmitOn(r)) = "emit" /\ Head(SwapOn(r)) = "swap" /\ Head(BuildOn(r)) = "rebuild"
          /\ Head(AnchorOn(r)) = "anchor" /\ Head(RootOn(r)) = "root of" /\ Head(StoreOn(r)) = "store"
<1>1. <<>> \in Ends /\ OpenEnd \in Ends
  BY DEF Ends
<1>2. Head(ReadOn(<<>>)) = "read" /\ Head(ReadOn(OpenEnd)) = "read"
  BY <1>1, ReplaceLists DEF IsList
<1>3. \A r \in Ends :
          /\ Head(EmitOn(r)) = "emit" /\ Head(SwapOn(r)) = "swap" /\ Head(BuildOn(r)) = "rebuild"
          /\ Head(AnchorOn(r)) = "anchor" /\ Head(RootOn(r)) = "root of" /\ Head(StoreOn(r)) = "store"
  BY ReplaceLists DEF IsList
<1>4. Head(SwapLast) = "swap" /\ Head(CloseEnd) = "reclassify" /\ Head(OpenEnd) = "health"
  BY EndLists DEF IsList
<1>5. /\ Head(WriteFirst) = "write" /\ Head(WatchOn) = "watch" /\ Head(UnwatchOn) = "unwatch"
      /\ Head(IdOn) = "set id" /\ Head(ResolverOn) = "set resolver" /\ Head(OpenFirst) = "set root" /\ Head(UnidOn) = "unid"
      /\ Head(UnrootOn) = "unroot" /\ Head(UnresolveOn) = "unresolve" /\ Head(CloseFirst) = "unwatch"
  BY FirstLists DEF IsList
<1> QED BY <1>2, <1>3, <1>4, <1>5

\* The next step says which list it is.
LEMMA WhichPlan ==
    ASSUME NEW p \in Plans, p # <<>>
    PROVE  /\ Head(p) = "set root" => p = OpenFirst
           /\ Head(p) = "set resolver" => p = ResolverOn
           /\ Head(p) = "set id" => p = IdOn
           /\ Head(p) = "unwatch" => p = UnwatchOn \/ p = CloseFirst
           /\ Head(p) = "watch" => p = WatchOn
           /\ Head(p) = "read" => p = ReadOn(<<>>) \/ p = ReadOn(OpenEnd)
           /\ Head(p) = "health" => p = OpenEnd
           /\ Head(p) = "reclassify" => p = CloseEnd
           /\ Head(p) = "unresolve" => p = UnresolveOn
           /\ Head(p) = "unroot" => p = UnrootOn
           /\ Head(p) = "unid" => p = UnidOn
           /\ Head(p) = "write" => p = WriteFirst
           /\ Head(p) = "swap" => p = SwapLast \/ \E r \in Ends : p = SwapOn(r)
           /\ Head(p) = "store" => \E r \in Ends : p = StoreOn(r)
           /\ Head(p) = "root of" => \E r \in Ends : p = RootOn(r)
           /\ Head(p) = "anchor" => \E r \in Ends : p = AnchorOn(r)
           /\ Head(p) = "rebuild" => \E r \in Ends : p = BuildOn(r)
           /\ Head(p) = "emit" => \E r \in Ends : p = EmitOn(r)
<1>1. CASE \E r \in Ends :
                p = EmitOn(r) \/ p = SwapOn(r) \/ p = BuildOn(r) \/ p = AnchorOn(r) \/ p = RootOn(r) \/ p = StoreOn(r)
  <2> PICK r \in Ends : p = EmitOn(r) \/ p = SwapOn(r) \/ p = BuildOn(r) \/ p = AnchorOn(r) \/ p = RootOn(r) \/ p = StoreOn(r)
    BY <1>1
  <2>1. /\ Head(EmitOn(r)) = "emit" /\ Head(SwapOn(r)) = "swap" /\ Head(BuildOn(r)) = "rebuild"
        /\ Head(AnchorOn(r)) = "anchor" /\ Head(RootOn(r)) = "root of" /\ Head(StoreOn(r)) = "store"
    BY AllHeads
  <2> QED BY <2>1
<1>2. CASE ~ \E r \in Ends :
                p = EmitOn(r) \/ p = SwapOn(r) \/ p = BuildOn(r) \/ p = AnchorOn(r) \/ p = RootOn(r) \/ p = StoreOn(r)
  <2>1. \/ p = SwapLast \/ p = CloseEnd \/ p = OpenEnd \/ p = WriteFirst \/ p = ReadOn(<<>>) \/ p = ReadOn(OpenEnd)
        \/ p = WatchOn \/ p = UnwatchOn \/ p = IdOn \/ p = ResolverOn \/ p = OpenFirst
        \/ p = UnidOn \/ p = UnrootOn \/ p = UnresolveOn \/ p = CloseFirst
    BY <1>2, PlanHeads
  <2>2. /\ Head(SwapLast) = "swap" /\ Head(CloseEnd) = "reclassify" /\ Head(OpenEnd) = "health" /\ Head(WriteFirst) = "write"
        /\ Head(ReadOn(<<>>)) = "read" /\ Head(ReadOn(OpenEnd)) = "read" /\ Head(WatchOn) = "watch" /\ Head(UnwatchOn) = "unwatch"
        /\ Head(IdOn) = "set id" /\ Head(ResolverOn) = "set resolver" /\ Head(OpenFirst) = "set root" /\ Head(UnidOn) = "unid"
        /\ Head(UnrootOn) = "unroot" /\ Head(UnresolveOn) = "unresolve" /\ Head(CloseFirst) = "unwatch"
    BY AllHeads
  <2> QED BY <2>1, <2>2
<1> QED BY <1>1, <1>2

\* List p has these steps; after the first come those, of which x is the next.
StepsAfter(p, steps, x, next) ==
    Range(p) = steps /\ Tail(p) \in Plans /\ Tail(p) # <<>> /\ Head(Tail(p)) = x /\ Range(Tail(p)) = next

\* List q is a list of work that begins with x.
Begins(q, x, steps) == q \in Plans /\ q # <<>> /\ Head(q) = x /\ Range(q) = steps

LEMMA TwoLists ==
    ASSUME NEW p, NEW x, NEW q, NEW steps, NEW y, NEW r, NEW next,
           IsList(p, x, q, steps), IsList(q, y, r, next), q \in Plans
    PROVE  StepsAfter(p, steps, y, next)
BY DEF StepsAfter, IsList

LEMMA OpenSteps ==
    ASSUME NEW p \in Plans, p # <<>>
    PROVE  /\ Head(p) = "set root" =>
                 StepsAfter(p, {"set root", "set resolver", "set id", "unwatch", "watch"} \union OpenLeft,
                       "set resolver", {"set resolver", "set id", "unwatch", "watch"} \union OpenLeft)
           /\ Head(p) = "set resolver" =>
                 StepsAfter(p, {"set resolver", "set id", "unwatch", "watch"} \union OpenLeft,
                       "set id", {"set id", "unwatch", "watch"} \union OpenLeft)
           /\ Head(p) = "set id" =>
                 StepsAfter(p, {"set id", "unwatch", "watch"} \union OpenLeft, "unwatch", {"unwatch", "watch"} \union OpenLeft)
           /\ Head(p) = "watch" => StepsAfter(p, {"watch"} \union OpenLeft, "read", OpenLeft)
           /\ Head(p) = "health" => StepsAfter(p, {"health", "reclassify", "swap"}, "reclassify", {"reclassify", "swap"})
           /\ Head(p) = "reclassify" => StepsAfter(p, {"reclassify", "swap"}, "swap", {"swap"})
<1>1. OpenEnd \in Ends /\ Range(OpenEnd) = {"health", "reclassify", "swap"}
  BY EndLists DEF Ends, IsList
<1>2. IsList(ReadOn(OpenEnd), "read", StoreOn(OpenEnd), OpenLeft)
  <2>1. IsList(ReadOn(OpenEnd), "read", StoreOn(OpenEnd),
               {"read", "store", "root of", "anchor", "emit"} \union {"health", "reclassify", "swap"})
    BY <1>1, ReplaceLists
  <2>2. {"read", "store", "root of", "anchor", "emit"} \union {"health", "reclassify", "swap"} = OpenLeft
    BY DEF OpenLeft, ReplaceLeft
  <2> QED BY <2>1, <2>2
<1>3. /\ ReadOn(OpenEnd) \in Plans /\ WatchOn \in Plans /\ UnwatchOn \in Plans /\ IdOn \in Plans /\ ResolverOn \in Plans
      /\ CloseEnd \in Plans /\ SwapLast \in Plans
  BY PlanHeads DEF Ends
<1>4. CASE Head(p) = "set root" \/ Head(p) = "set resolver" \/ Head(p) = "set id" \/ Head(p) = "watch"
  <2>1. /\ Head(p) = "set root" => p = OpenFirst
        /\ Head(p) = "set resolver" => p = ResolverOn
        /\ Head(p) = "set id" => p = IdOn
        /\ Head(p) = "watch" => p = WatchOn
    BY WhichPlan
  <2>2. StepsAfter(OpenFirst, {"set root", "set resolver", "set id", "unwatch", "watch"} \union OpenLeft,
              "set resolver", {"set resolver", "set id", "unwatch", "watch"} \union OpenLeft)
    BY <1>3, FirstLists, TwoLists
  <2>3. StepsAfter(ResolverOn, {"set resolver", "set id", "unwatch", "watch"} \union OpenLeft,
              "set id", {"set id", "unwatch", "watch"} \union OpenLeft)
    BY <1>3, FirstLists, TwoLists
  <2>4. StepsAfter(IdOn, {"set id", "unwatch", "watch"} \union OpenLeft, "unwatch", {"unwatch", "watch"} \union OpenLeft)
    BY <1>3, FirstLists, TwoLists
  <2>5. StepsAfter(WatchOn, {"watch"} \union OpenLeft, "read", OpenLeft)
    BY <1>2, <1>3, FirstLists, TwoLists
  <2> QED BY <1>4, <2>1, <2>2, <2>3, <2>4, <2>5
<1>5. CASE Head(p) = "health" \/ Head(p) = "reclassify"
  <2>1. (Head(p) = "health" => p = OpenEnd) /\ (Head(p) = "reclassify" => p = CloseEnd)
    BY WhichPlan
  <2>2. StepsAfter(OpenEnd, {"health", "reclassify", "swap"}, "reclassify", {"reclassify", "swap"})
    BY <1>3, EndLists, TwoLists
  <2>3. StepsAfter(CloseEnd, {"reclassify", "swap"}, "swap", {"swap"})
    BY <1>3, EndLists, TwoLists
  <2> QED BY <1>5, <2>1, <2>2, <2>3
<1> QED BY <1>4, <1>5

LEMMA CloseSteps ==
    ASSUME NEW p \in Plans, p # <<>>
    PROVE  /\ Head(p) = "unwatch" =>
                 \/ StepsAfter(p, {"unwatch", "watch"} \union OpenLeft, "watch", {"watch"} \union OpenLeft)
                 \/ StepsAfter(p, {"unwatch", "unresolve", "unroot", "unid"} \union CloseLeft,
                          "unresolve", {"unresolve", "unroot", "unid"} \union CloseLeft)
           /\ Head(p) = "unresolve" =>
                 StepsAfter(p, {"unresolve", "unroot", "unid"} \union CloseLeft, "unroot", {"unroot", "unid"} \union CloseLeft)
           /\ Head(p) = "unroot" => StepsAfter(p, {"unroot", "unid"} \union CloseLeft, "unid", {"unid"} \union CloseLeft)
           /\ Head(p) = "unid" => StepsAfter(p, {"unid"} \union CloseLeft, "store", CloseLeft)
<1>1. CloseEnd \in Ends /\ Range(CloseEnd) = {"reclassify", "swap"}
  BY EndLists DEF Ends, IsList
<1>2. IsList(StoreOn(CloseEnd), "store", RootOn(CloseEnd), CloseLeft)
  <2>1. IsList(StoreOn(CloseEnd), "store", RootOn(CloseEnd), {"store", "root of", "anchor", "emit"} \union {"reclassify", "swap"})
    BY <1>1, ReplaceLists
  <2>2. {"store", "root of", "anchor", "emit"} \union {"reclassify", "swap"} = CloseLeft
    BY DEF CloseLeft, ReplaceLeft
  <2> QED BY <2>1, <2>2
<1>3. StoreOn(CloseEnd) \in Plans /\ UnidOn \in Plans /\ UnrootOn \in Plans /\ UnresolveOn \in Plans /\ WatchOn \in Plans
  BY <1>1, PlanHeads
<1>4. /\ Head(p) = "unwatch" => p = UnwatchOn \/ p = CloseFirst
      /\ Head(p) = "unresolve" => p = UnresolveOn
      /\ Head(p) = "unroot" => p = UnrootOn
      /\ Head(p) = "unid" => p = UnidOn
  BY WhichPlan
<1>5. StepsAfter(UnwatchOn, {"unwatch", "watch"} \union OpenLeft, "watch", {"watch"} \union OpenLeft)
  BY <1>3, FirstLists, TwoLists
<1>6. StepsAfter(CloseFirst, {"unwatch", "unresolve", "unroot", "unid"} \union CloseLeft,
            "unresolve", {"unresolve", "unroot", "unid"} \union CloseLeft)
  BY <1>3, FirstLists, TwoLists
<1>7. StepsAfter(UnresolveOn, {"unresolve", "unroot", "unid"} \union CloseLeft, "unroot", {"unroot", "unid"} \union CloseLeft)
  BY <1>3, FirstLists, TwoLists
<1>8. StepsAfter(UnrootOn, {"unroot", "unid"} \union CloseLeft, "unid", {"unid"} \union CloseLeft)
  BY <1>3, FirstLists, TwoLists
<1>9. StepsAfter(UnidOn, {"unid"} \union CloseLeft, "store", CloseLeft)
  BY <1>2, <1>3, FirstLists, TwoLists
<1> QED BY <1>4, <1>5, <1>6, <1>7, <1>8, <1>9

\* The steps of a replacement, whatever comes after it.
LEMMA ReplaceSteps ==
    ASSUME NEW p \in Plans, p # <<>>
    PROVE  /\ Head(p) = "write" => StepsAfter(p, {"write"} \union ReplaceLeft, "store", ReplaceLeft)
           /\ Head(p) = "read" =>
                 \/ StepsAfter(p, {"read"} \union ReplaceLeft, "store", ReplaceLeft)
                 \/ StepsAfter(p, OpenLeft, "store", ReplaceLeft \union {"health", "reclassify", "swap"})
           /\ Head(p) = "store" =>
                 \E e \in EndSets : StepsAfter(p, ReplaceLeft \union e, "root of", {"root of", "anchor", "emit"} \union e)
           /\ Head(p) = "root of" =>
                 \E e \in EndSets : StepsAfter(p, {"root of", "anchor", "emit"} \union e, "anchor", {"anchor", "emit"} \union e)
           /\ Head(p) = "anchor" =>
                 \E e \in EndSets :
                    /\ StepsAfter(p, {"anchor", "emit"} \union e, "emit", {"emit"} \union e)
                    /\ Begins(<<"rebuild", "swap">> \o Tail(p), "rebuild", {"rebuild", "swap", "emit"} \union e)
           /\ Head(p) = "rebuild" =>
                 \E e \in EndSets :
                    /\ StepsAfter(p, {"rebuild", "swap", "emit"} \union e, "swap", {"swap", "emit"} \union e)
                    /\ Begins(Tail(Tail(p)), "emit", {"emit"} \union e)
           /\ Head(p) = "swap" =>
                 \/ Range(p) = {"swap"} /\ Tail(p) = <<>>
                 \/ \E e \in EndSets : StepsAfter(p, {"swap", "emit"} \union e, "emit", {"emit"} \union e)
           /\ Head(p) = "emit" =>
                 \/ Range(p) = {"emit"} /\ Tail(p) = <<>>
                 \/ StepsAfter(p, {"emit", "reclassify", "swap"}, "reclassify", {"reclassify", "swap"})
                 \/ StepsAfter(p, {"emit", "health", "reclassify", "swap"}, "health", {"health", "reclassify", "swap"})
<1>1. \A r \in Ends : Range(r) \in EndSets
  BY EndLists
<1>2. \A r \in Ends : {EmitOn(r), SwapOn(r), BuildOn(r), AnchorOn(r), RootOn(r), StoreOn(r)} \subseteq Plans
  BY PlanHeads
<1>3. CASE Head(p) = "write"
  <2>1. p = WriteFirst /\ <<>> \in Ends /\ Range(<<>>) = {}
    BY <1>3, WhichPlan, NothingLeft DEF Ends
  <2>2. IsList(StoreOn(<<>>), "store", RootOn(<<>>), ReplaceLeft) /\ StoreOn(<<>>) \in Plans
    BY <1>2, <2>1, ReplaceLists DEF ReplaceLeft
  <2> QED BY <1>3, <2>1, <2>2, FirstLists, TwoLists
<1>4. CASE Head(p) = "read"
  <2>1. p = ReadOn(<<>>) \/ p = ReadOn(OpenEnd)
    BY <1>4, WhichPlan
  <2>2. /\ <<>> \in Ends /\ OpenEnd \in Ends /\ StoreOn(<<>>) \in Plans /\ StoreOn(OpenEnd) \in Plans
        /\ Range(<<>>) = {} /\ Range(OpenEnd) = {"health", "reclassify", "swap"}
    BY <1>2, NothingLeft, EndLists DEF Ends, IsList
  <2>3. StepsAfter(ReadOn(<<>>), {"read", "store", "root of", "anchor", "emit"} \union Range(<<>>),
              "store", {"store", "root of", "anchor", "emit"} \union Range(<<>>))
    BY <2>2, ReplaceLists, TwoLists
  <2>4. StepsAfter(ReadOn(OpenEnd), {"read", "store", "root of", "anchor", "emit"} \union Range(OpenEnd),
              "store", {"store", "root of", "anchor", "emit"} \union Range(OpenEnd))
    BY <2>2, ReplaceLists, TwoLists
  <2>5. /\ {"read", "store", "root of", "anchor", "emit"} \union {} = {"read"} \union ReplaceLeft
        /\ {"store", "root of", "anchor", "emit"} \union {} = ReplaceLeft
        /\ {"read", "store", "root of", "anchor", "emit"} \union {"health", "reclassify", "swap"} = OpenLeft
        /\ {"store", "root of", "anchor", "emit"} \union {"health", "reclassify", "swap"} =
              ReplaceLeft \union {"health", "reclassify", "swap"}
    BY DEF ReplaceLeft, OpenLeft
  <2>6. StepsAfter(ReadOn(<<>>), {"read"} \union ReplaceLeft, "store", ReplaceLeft)
    BY <2>2, <2>3, <2>5
  <2>7. StepsAfter(ReadOn(OpenEnd), OpenLeft, "store", ReplaceLeft \union {"health", "reclassify", "swap"})
    BY <2>2, <2>4, <2>5
  <2> QED BY <1>4, <2>1, <2>6, <2>7
<1>5. CASE Head(p) = "store"
  <2>1. PICK r \in Ends : p = StoreOn(r)
    BY <1>5, WhichPlan
  <2>2. StepsAfter(p, {"store", "root of", "anchor", "emit"} \union Range(r), "root of", {"root of", "anchor", "emit"} \union Range(r))
    BY <1>2, <2>1, ReplaceLists, TwoLists
  <2> QED BY <1>1, <1>5, <2>2 DEF ReplaceLeft
<1>6. CASE Head(p) = "root of"
  <2>1. PICK r \in Ends : p = RootOn(r)
    BY <1>6, WhichPlan
  <2>2. StepsAfter(p, {"root of", "anchor", "emit"} \union Range(r), "anchor", {"anchor", "emit"} \union Range(r))
    BY <1>2, <2>1, ReplaceLists, TwoLists
  <2> QED BY <1>1, <1>6, <2>2
<1>7. CASE Head(p) = "anchor"
  <2>1. PICK r \in Ends : p = AnchorOn(r)
    BY <1>7, WhichPlan
  <2>2. IsList(EmitOn(r), "emit", r, {"emit"} \union Range(r)) /\ EmitOn(r) \in Plans
    BY <1>2, ReplaceLists
  <2>3. StepsAfter(p, {"anchor", "emit"} \union Range(r), "emit", {"emit"} \union Range(r))
    BY <2>1, <2>2, ReplaceLists, TwoLists
  <2>4. Tail(p) = EmitOn(r)
    BY <2>1, ReplaceLists DEF IsList
  <2>5. Begins(BuildOn(r), "rebuild", {"rebuild", "swap", "emit"} \union Range(r))
    BY <1>2, ReplaceLists DEF Begins, IsList
  <2>6. Begins(<<"rebuild", "swap">> \o Tail(p), "rebuild", {"rebuild", "swap", "emit"} \union Range(r))
    BY <2>4, <2>5, WholeLists
  <2> QED BY <1>1, <1>7, <2>3, <2>6
<1>8. CASE Head(p) = "rebuild"
  <2>1. PICK r \in Ends : p = BuildOn(r)
    BY <1>8, WhichPlan
  <2>2. StepsAfter(p, {"rebuild", "swap", "emit"} \union Range(r), "swap", {"swap", "emit"} \union Range(r))
    BY <1>2, <2>1, ReplaceLists, TwoLists
  <2>3. Tail(p) = SwapOn(r) /\ Tail(SwapOn(r)) = EmitOn(r)
    BY <2>1, ReplaceLists DEF IsList
  <2>4. Begins(EmitOn(r), "emit", {"emit"} \union Range(r))
    BY <1>2, ReplaceLists DEF Begins, IsList
  <2> QED BY <1>1, <1>8, <2>2, <2>3, <2>4
<1>9. CASE Head(p) = "swap"
  <2>1. CASE p = SwapLast
    BY <1>9, <2>1, EndLists DEF IsList
  <2>2. CASE \E r \in Ends : p = SwapOn(r)
    <3>1. PICK r \in Ends : p = SwapOn(r)
      BY <2>2
    <3>2. StepsAfter(p, {"swap", "emit"} \union Range(r), "emit", {"emit"} \union Range(r))
      BY <1>2, <3>1, ReplaceLists, TwoLists
    <3> QED BY <1>1, <1>9, <3>2
  <2> QED BY <1>9, <2>1, <2>2, WhichPlan
<1>10. CASE Head(p) = "emit"
  <2>1. PICK r \in Ends : p = EmitOn(r)
    BY <1>10, WhichPlan
  <2>2. IsList(p, "emit", r, {"emit"} \union Range(r))
    BY <2>1, ReplaceLists
  <2>3. r = <<>> \/ r = CloseEnd \/ r = OpenEnd
    BY DEF Ends
  <2>4. CASE r = <<>>
    <3>1. Range(p) = {"emit"} \union {} /\ Tail(p) = <<>>
      BY <2>2, <2>4, NothingLeft DEF IsList
    <3>2. {"emit"} \union {} = {"emit"}
      OBVIOUS
    <3> QED BY <1>10, <3>1, <3>2
  <2>5. CASE r = CloseEnd
    <3>1. StepsAfter(p, {"emit"} \union {"reclassify", "swap"}, "reclassify", {"reclassify", "swap"})
      <4>1. IsList(p, "emit", CloseEnd, {"emit"} \union {"reclassify", "swap"})
        BY <2>2, <2>5, EndLists DEF IsList
      <4>2. CloseEnd \in Plans
        BY PlanHeads DEF Ends
      <4> QED BY <4>1, <4>2, EndLists, TwoLists
    <3>2. {"emit"} \union {"reclassify", "swap"} = {"emit", "reclassify", "swap"}
      OBVIOUS
    <3> QED BY <1>10, <3>1, <3>2
  <2>6. CASE r = OpenEnd
    <3>1. StepsAfter(p, {"emit"} \union {"health", "reclassify", "swap"}, "health", {"health", "reclassify", "swap"})
      <4>1. IsList(p, "emit", OpenEnd, {"emit"} \union {"health", "reclassify", "swap"})
        BY <2>2, <2>6, EndLists DEF IsList
      <4>2. OpenEnd \in Plans
        BY PlanHeads DEF Ends
      <4> QED BY <4>1, <4>2, EndLists, TwoLists
    <3>2. {"emit"} \union {"health", "reclassify", "swap"} = {"emit", "health", "reclassify", "swap"}
      OBVIOUS
    <3> QED BY <1>10, <3>1, <3>2
  <2> QED BY <2>3, <2>4, <2>5, <2>6
<1> QED BY <1>3, <1>4, <1>5, <1>6, <1>7, <1>8, <1>9, <1>10

\* Every list of work has a first step, and is one of these without it.
LEMMA PlanKinds ==
    ASSUME NEW p \in Plans, p # <<>>
    PROVE  /\ Head(p) \in StepNames /\ Head(p) \in Range(p) /\ Tail(p) \in Plans
           /\ "health" \in Range(p) => "reclassify" \in Range(p) /\ Range(p) # {"swap"}
           /\ "rebuild" \in Range(p) => Head(p) = "rebuild"
<1>1. Head(p) \in StepNames
  <2>1. CASE \E r \in Ends :
                p = EmitOn(r) \/ p = SwapOn(r) \/ p = BuildOn(r) \/ p = AnchorOn(r) \/ p = RootOn(r) \/ p = StoreOn(r)
    <3> PICK r \in Ends : p = EmitOn(r) \/ p = SwapOn(r) \/ p = BuildOn(r) \/ p = AnchorOn(r) \/ p = RootOn(r) \/ p = StoreOn(r)
      BY <2>1
    <3>1. /\ Head(EmitOn(r)) = "emit" /\ Head(SwapOn(r)) = "swap" /\ Head(BuildOn(r)) = "rebuild"
          /\ Head(AnchorOn(r)) = "anchor" /\ Head(RootOn(r)) = "root of" /\ Head(StoreOn(r)) = "store"
      BY AllHeads
    <3> QED BY <3>1, AreStepNames
  <2>2. CASE ~ \E r \in Ends :
                p = EmitOn(r) \/ p = SwapOn(r) \/ p = BuildOn(r) \/ p = AnchorOn(r) \/ p = RootOn(r) \/ p = StoreOn(r)
    <3>1. \/ p = SwapLast \/ p = CloseEnd \/ p = OpenEnd \/ p = WriteFirst \/ p = ReadOn(<<>>) \/ p = ReadOn(OpenEnd)
          \/ p = WatchOn \/ p = UnwatchOn \/ p = IdOn \/ p = ResolverOn \/ p = OpenFirst
          \/ p = UnidOn \/ p = UnrootOn \/ p = UnresolveOn \/ p = CloseFirst
      BY <2>2, PlanHeads
    <3> QED BY <3>1, AllHeads, AreStepNames
  <2> QED BY <2>1, <2>2
<1> DEFINE Fine == /\ Head(p) \in Range(p) /\ Tail(p) \in Plans
                   /\ "health" \in Range(p) => "reclassify" \in Range(p) /\ Range(p) # {"swap"}
                   /\ "rebuild" \in Range(p) => Head(p) = "rebuild"
<1>2. CASE Head(p) \in {"set root", "set resolver", "set id", "watch", "health", "reclassify"}
  <2>1. Tail(p) \in Plans
    BY <1>2, OpenSteps DEF StepsAfter
  <2>2. \/ Head(p) = "set root" /\ Range(p) = {"set root", "set resolver", "set id", "unwatch", "watch"} \union OpenLeft
        \/ Head(p) = "set resolver" /\ Range(p) = {"set resolver", "set id", "unwatch", "watch"} \union OpenLeft
        \/ Head(p) = "set id" /\ Range(p) = {"set id", "unwatch", "watch"} \union OpenLeft
        \/ Head(p) = "watch" /\ Range(p) = {"watch"} \union OpenLeft
        \/ Head(p) = "health" /\ Range(p) = {"health", "reclassify", "swap"}
        \/ Head(p) = "reclassify" /\ Range(p) = {"reclassify", "swap"}
    BY <1>2, OpenSteps DEF StepsAfter
  <2>3. "health" \in Range(p) => "reclassify" \in Range(p)
    BY <2>2 DEF OpenLeft
  <2>4. Head(p) \in Range(p) /\ Range(p) # {"swap"}
    <3>1. Head(p) \in Range(p) /\ Head(p) # "swap"
      BY <2>2
    <3> QED BY <3>1
  <2>5. "rebuild" \notin Range(p)
    <3>1. "rebuild" \notin OpenLeft
      BY DEF OpenLeft, ReplaceLeft
    <3>2. \E o \in {OpenLeft, {"health", "reclassify", "swap"}, {"reclassify", "swap"}}, s \in SUBSET (StepNames \ {"rebuild"}) :
             Range(p) = s \union o
      <4>1. /\ {"set root", "set resolver", "set id", "unwatch", "watch"} \in SUBSET (StepNames \ {"rebuild"})
            /\ {"set resolver", "set id", "unwatch", "watch"} \in SUBSET (StepNames \ {"rebuild"})
            /\ {"set id", "unwatch", "watch"} \in SUBSET (StepNames \ {"rebuild"})
            /\ {"watch"} \in SUBSET (StepNames \ {"rebuild"}) /\ {} \in SUBSET (StepNames \ {"rebuild"})
        BY AreStepNames
      <4>2. \A s : s = {} \union s
        OBVIOUS
      <4> HIDE DEF OpenLeft
      <4> QED BY <2>2, <4>1, <4>2
    <3> QED BY <3>1, <3>2
  <2> QED BY <1>1, <2>1, <2>3, <2>4, <2>5
<1>3. CASE Head(p) \in {"unwatch", "unresolve", "unroot", "unid"}
  <2>1. Tail(p) \in Plans
    BY <1>3, CloseSteps DEF StepsAfter
  <2>2. CASE Head(p) = "unwatch"
    <3>1. \/ Range(p) = {"unwatch", "watch"} \union OpenLeft
          \/ Range(p) = {"unwatch", "unresolve", "unroot", "unid"} \union CloseLeft
      BY <2>2, CloseSteps DEF StepsAfter
    <3>2. CASE Range(p) = {"unwatch", "watch"} \union OpenLeft
      BY <2>1, <2>2, <1>1, <3>2 DEF OpenLeft, ReplaceLeft
    <3>3. CASE Range(p) = {"unwatch", "unresolve", "unroot", "unid"} \union CloseLeft
      BY <2>1, <2>2, <1>1, <3>3 DEF CloseLeft, ReplaceLeft
    <3> QED BY <3>1, <3>2, <3>3
  <2>3. CASE Head(p) # "unwatch"
    <3>1. \/ Head(p) = "unresolve" /\ Range(p) = {"unresolve", "unroot", "unid"} \union CloseLeft
          \/ Head(p) = "unroot" /\ Range(p) = {"unroot", "unid"} \union CloseLeft
          \/ Head(p) = "unid" /\ Range(p) = {"unid"} \union CloseLeft
      BY <1>3, <2>3, CloseSteps DEF StepsAfter
    <3> QED BY <2>1, <1>1, <3>1 DEF CloseLeft, ReplaceLeft
  <2> QED BY <2>2, <2>3
<1>4. CASE Head(p) \in {"write", "read"}
  <2>1. Tail(p) \in Plans
    BY <1>4, ReplaceSteps DEF StepsAfter
  <2>2. \/ Head(p) = "write" /\ Range(p) = {"write"} \union ReplaceLeft
        \/ Head(p) = "read" /\ Range(p) = {"read"} \union ReplaceLeft
        \/ Head(p) = "read" /\ Range(p) = OpenLeft
    BY <1>4, ReplaceSteps DEF StepsAfter
  <2> QED BY <2>1, <1>1, <2>2 DEF OpenLeft, ReplaceLeft
<1>5. CASE Head(p) \in {"store", "root of", "anchor", "rebuild"}
  <2>1. PICK e \in EndSets : Tail(p) \in Plans /\
           \/ Head(p) = "store" /\ Range(p) = ReplaceLeft \union e
           \/ Head(p) = "root of" /\ Range(p) = {"root of", "anchor", "emit"} \union e
           \/ Head(p) = "anchor" /\ Range(p) = {"anchor", "emit"} \union e
           \/ Head(p) = "rebuild" /\ Range(p) = {"rebuild", "swap", "emit"} \union e
    BY <1>5, ReplaceSteps DEF StepsAfter
  <2> QED BY <2>1, <1>1 DEF EndSets, ReplaceLeft
<1>6. CASE Head(p) = "swap"
  <2>1. \/ Range(p) = {"swap"} /\ Tail(p) = <<>>
        \/ \E e \in EndSets : Range(p) = {"swap", "emit"} \union e /\ Tail(p) \in Plans
    BY <1>6, ReplaceSteps DEF StepsAfter
  <2>2. CASE Range(p) = {"swap"} /\ Tail(p) = <<>>
    BY <1>1, <1>6, <2>2, PlanHeads
  <2>3. CASE \E e \in EndSets : Range(p) = {"swap", "emit"} \union e /\ Tail(p) \in Plans
    <3>1. PICK e \in EndSets : Range(p) = {"swap", "emit"} \union e /\ Tail(p) \in Plans
      BY <2>3
    <3>2. ("health" \in e => "reclassify" \in e) /\ "rebuild" \notin e
      BY DEF EndSets
    <3> QED BY <1>1, <1>6, <3>1, <3>2
  <2> QED BY <2>1, <2>2, <2>3
<1>7. CASE Head(p) = "emit"
  <2>1. \/ Range(p) = {"emit"} /\ Tail(p) = <<>>
        \/ Range(p) = {"emit", "reclassify", "swap"} /\ Tail(p) \in Plans
        \/ Range(p) = {"emit", "health", "reclassify", "swap"} /\ Tail(p) \in Plans
    BY <1>7, ReplaceSteps DEF StepsAfter
  <2> QED BY <2>1, <1>1, <1>7, PlanHeads
<1> QED BY <1>1, <1>2, <1>3, <1>4, <1>5, <1>6, <1>7 DEF StepNames

-----------------------------------------------------------------------------
(* Types.                                                                  *)

LEMMA TextTypes ==
    /\ None \in Texts /\ Corrupt \in Texts /\ Configs \subseteq Texts
    /\ \A text \in Texts : Parsed(text) \in Texts
    /\ \A root \in Roots \union {""}, text \in Texts : Effective(root, text) \in Anchors
    /\ Loose \in Worlds /\ Home \in Roots /\ Home # ""
<1>1. None \in Texts /\ Corrupt \in Texts
  BY DEF None, Corrupt, Texts
<1>2. Configs \subseteq Texts
  BY DEF Configs, Texts
<1>3. ASSUME NEW text \in Texts PROVE Parsed(text) \in Texts
  BY <1>1 DEF Parsed, Texts
<1>4. ASSUME NEW root \in Roots \union {""}, NEW text \in Texts PROVE Effective(root, text) \in Anchors
  BY DEF Effective, Anchors
<1>5. Loose \in Worlds /\ Home \in Roots /\ Home # ""
  BY WorkspaceAssumption DEF Loose, Worlds, Anchors
<1> QED BY <1>1, <1>2, <1>3, <1>4, <1>5

\* What the idle thread holds, and one that goes on with a list of work.
LEMMA WorkTypes ==
    /\ Idle \in Works /\ Idle.built = Loose /\ Idle.todo = <<>> /\ Idle.guard = 0
    /\ \A work \in Works, p \in Plans : [work EXCEPT !.todo = p] \in Works /\ [work EXCEPT !.todo = p].built = work.built
<1>1. Idle \in Works /\ Idle.built = Loose /\ Idle.todo = <<>> /\ Idle.guard = 0
  BY TextTypes, PlanHeads DEF Idle, Works
<1>2. ASSUME NEW work \in Works, NEW p \in Plans
      PROVE [work EXCEPT !.todo = p] \in Works /\ [work EXCEPT !.todo = p].built = work.built
  BY DEF Works
<1> QED BY <1>1, <1>2

\* A thread that goes on with what is left of its work.
LEMMA RestTypes ==
    ASSUME WorkspaceTyped, NEW t \in Threads, NEW p \in Plans
    PROVE  /\ Rest(t, p) \in Works
           /\ Rest(t, p).built = thread[t].built \/ Rest(t, p).built = Loose
           /\ p = <<>> => Rest(t, p) = Idle
           /\ p # <<>> =>
                 /\ Rest(t, p) = [thread[t] EXCEPT !.todo = p]
                 /\ Rest(t, p).todo = p /\ Rest(t, p).root = thread[t].root /\ Rest(t, p).config = thread[t].config
                 /\ Rest(t, p).built = thread[t].built /\ Rest(t, p).guard = thread[t].guard
<1>1. thread[t] \in Works
  BY DEF WorkspaceTyped
<1> PICK work : work = thread[t]
  OBVIOUS
<1>2. CASE p = <<>>
  BY <1>2, WorkTypes DEF Rest
<1>3. CASE p # <<>>
  <2>1. Rest(t, p) = [work EXCEPT !.todo = p]
    BY <1>3 DEF Rest
  <2>2. [work EXCEPT !.todo = p] \in Works /\ [work EXCEPT !.todo = p].built = work.built
    BY <1>1, WorkTypes
  <2>3. /\ [work EXCEPT !.todo = p].todo = p /\ [work EXCEPT !.todo = p].root = work.root
        /\ [work EXCEPT !.todo = p].config = work.config /\ [work EXCEPT !.todo = p].guard = work.guard
    BY <1>1 DEF Works
  <2> QED BY <1>3, <2>1, <2>2, <2>3
<1> QED BY <1>2, <1>3

LEMMA NoMore == \A o, n, m \in Nat : (o <= n /\ n <= m) => o <= m
OBVIOUS

\* What a step of thread t leaves of the types.
LEMMA TypesAfter ==
    ASSUME WorkspaceTyped, NEW t \in Threads, NEW w \in Works, thread' = [thread EXCEPT ![t] = w],
           PlacesTyped', Len(anchor) <= Len(anchor'), w.built.owner <= Len(anchor'), w.built.owner = 0 => w.built = Loose
    PROVE  WorkspaceTyped'
<1>1. thread' \in [Threads -> Works] /\ thread'[t] = w /\ \A u \in Threads : u # t => thread'[u] = thread[u]
  BY DEF WorkspaceTyped
<1>2. Len(anchor) \in Nat /\ Len(anchor') \in Nat
  BY LenProperties DEF WorkspaceTyped, PlacesTyped
<1>3. ASSUME NEW u \in Threads PROVE Numbers(thread[u].built)'
  <2>1. CASE u = t
    BY <1>1, <2>1 DEF Numbers
  <2>2. CASE u # t
    <3>1. thread'[u] = thread[u] /\ thread[u].built.owner <= Len(anchor) /\ (thread[u].built.owner = 0 => thread[u].built = Loose)
      BY <1>1, <2>2 DEF WorkspaceTyped, Numbers
    <3>2. thread[u].built.owner \in Nat
      BY DEF WorkspaceTyped, Works, Worlds
    <3>3. PICK b : b = thread[u].built
      OBVIOUS
    <3>4. b.owner <= Len(anchor) /\ b.owner \in Nat /\ (b.owner = 0 => b = Loose) /\ thread'[u].built = b
      BY <3>1, <3>2, <3>3
    <3>5. b.owner <= Len(anchor')
      <4>1. b.owner \in Nat /\ Len(anchor) \in Nat /\ Len(anchor') \in Nat /\ b.owner <= Len(anchor) /\ Len(anchor) <= Len(anchor')
        BY <1>2, <3>4
      <4> QED BY <4>1, NoMore
    <3> QED BY <3>4, <3>5 DEF Numbers
  <2> QED BY <2>1, <2>2
<1> QED BY <1>1, <1>3 DEF WorkspaceTyped

\* A thread that goes on with the next step.
LEMMA NextTyped ==
    ASSUME WorkspaceTyped, NEW t \in Threads, Busy(t), Does(t, Next(t)), PlacesTyped', Len(anchor) <= Len(anchor')
    PROVE  WorkspaceTyped'
<1>1. thread[t].todo \in Plans /\ thread[t].todo # <<>> /\ Numbers(thread[t].built)
  BY DEF WorkspaceTyped, Works, Busy
<1>2. Tail(thread[t].todo) \in Plans
  BY <1>1, PlanKinds
<1>3. PICK w : w = Next(t)
  OBVIOUS
<1>4. w \in Works /\ (w.built = thread[t].built \/ w.built = Loose)
  BY <1>2, <1>3, RestTypes DEF Next
<1>5. thread' = [thread EXCEPT ![t] = w]
  BY <1>3 DEF Does
<1>6. w.built.owner <= Len(anchor) /\ (w.built.owner = 0 => w.built = Loose)
  <2>1. Loose.owner = 0 /\ Len(anchor) \in Nat
    BY LenProperties DEF Loose, WorkspaceTyped, PlacesTyped
  <2>2. 0 <= Len(anchor)
    BY <2>1
  <2> QED BY <1>1, <1>4, <2>1, <2>2 DEF Numbers
<1>7. w.built.owner <= Len(anchor')
  <2>1. w.built.owner \in Nat /\ Len(anchor) \in Nat /\ Len(anchor') \in Nat
    BY <1>4, LenProperties DEF WorkspaceTyped, PlacesTyped, Works, Worlds
  <2> QED BY <1>6, <2>1, NoMore
<1> QED BY <1>4, <1>5, <1>6, <1>7, TypesAfter

\* A thread that gets other work, of a world of before or of none.
LEMMA WorkTyped ==
    ASSUME WorkspaceTyped, NEW t \in Threads, NEW w \in Works, Does(t, w), PlacesTyped', Len(anchor') = Len(anchor), Numbers(w.built)
    PROVE  WorkspaceTyped'
<1>1. thread' = [thread EXCEPT ![t] = w]
  BY DEF Does
<1>2. w.built.owner <= Len(anchor') /\ (w.built.owner = 0 => w.built = Loose)
  BY DEF Numbers
<1>3. Len(anchor) \in Nat
  BY LenProperties DEF WorkspaceTyped, PlacesTyped
<1>4. Len(anchor) <= Len(anchor')
  BY <1>3
<1> QED BY <1>1, <1>2, <1>4, TypesAfter

LEMMA LooseNumbers == ASSUME WorkspaceTyped PROVE Numbers(Loose) /\ 0 <= Len(anchor) /\ Len(anchor) \in Nat
<1>1. Loose.owner = 0 /\ Len(anchor) \in Nat
  BY LenProperties DEF Loose, WorkspaceTyped, PlacesTyped
<1> QED BY <1>1 DEF Numbers

LEMMA NatOrder == \A n \in Nat : 0 <= n /\ n <= n
OBVIOUS

\* The parts of the workspace that a step sets.
LEMMA SpaceTypes ==
    ASSUME NEW v \in Spaces, NEW u, NEW n \in Nat, NEW r \in Roots \union {""},
           \/ u = v \/ u = [v EXCEPT !.root = r] \/ u = [v EXCEPT !.id = n]
           \/ u = [v EXCEPT !.watcher = 0, !.watched = ""] \/ u = [v EXCEPT !.watcher = n, !.watched = v.root]
           \/ u = [v EXCEPT !.resolver = 0] \/ u = [v EXCEPT !.root = ""] \/ u = [v EXCEPT !.id = 0],
           v.resolver <= n, v.id <= n
    PROVE  u \in Spaces /\ u.resolver <= n /\ u.id <= n
<1>1. CASE u = v
  BY <1>1
<1>2. CASE u = [v EXCEPT !.root = r]
  BY <1>2 DEF Spaces
<1>3. CASE u = [v EXCEPT !.id = n]
  <2>1. u \in Spaces /\ u.id = n /\ u.resolver = v.resolver
    BY <1>3 DEF Spaces
  <2>2. 0 <= n /\ n <= n
    BY NatOrder
  <2> QED BY <2>1, <2>2
<1>4. CASE u = [v EXCEPT !.watcher = 0, !.watched = ""]
  BY <1>4 DEF Spaces
<1>5. CASE u = [v EXCEPT !.watcher = n, !.watched = v.root]
  BY <1>5 DEF Spaces
<1>6. CASE u = [v EXCEPT !.resolver = 0]
  <2>1. u \in Spaces /\ u.resolver = 0 /\ u.id = v.id
    BY <1>6 DEF Spaces
  <2>2. 0 <= n /\ n <= n
    BY NatOrder
  <2> QED BY <2>1, <2>2
<1>7. CASE u = [v EXCEPT !.root = ""]
  BY <1>7 DEF Spaces
<1>8. CASE u = [v EXCEPT !.id = 0]
  <2>1. u \in Spaces /\ u.id = 0 /\ u.resolver = v.resolver
    BY <1>8 DEF Spaces
  <2>2. 0 <= n /\ n <= n
    BY NatOrder
  <2> QED BY <2>1, <2>2
<1> QED BY <1>1, <1>2, <1>3, <1>4, <1>5, <1>6, <1>7, <1>8

LEMMA OpeningTypes ==
    ASSUME WorkspaceTyped, NEW t \in Threads,
           SetRoot(t) \/ SetResolver(t) \/ SetId(t) \/ Unwatch(t) \/ Watch(t) \/ Health(t) \/ Clear(t)
    PROVE  WorkspaceTyped'
<1>1. Busy(t) /\ Does(t, Next(t))
  BY DEF SetRoot, SetResolver, SetId, Unwatch, Watch, Health, Clear, At
<1>2. /\ thread[t] \in Works /\ thread[t].root \in Roots \union {""} /\ thread[t].config \in Texts
  BY DEF WorkspaceTyped, Works
<1>3. Len(anchor) \in Nat /\ PlacesTyped
  BY LooseNumbers DEF WorkspaceTyped
<1>4. CASE SetResolver(t)
  <2>1. PICK a \in Anchors : a = Effective(thread[t].root, thread[t].config)
    BY <1>2, TextTypes
  <2>2. anchor' = Append(anchor, a) /\ ws' = [ws EXCEPT !.resolver = Len(anchor) + 1]
        /\ UNCHANGED <<disk, cache, shown, flag, world, changed, crossed, smeared>>
    BY <1>4, <2>1 DEF SetResolver
  <2>3. anchor' \in Seq(Anchors) /\ Len(anchor') = Len(anchor) + 1
    BY <1>3, <2>2, AppendProperties DEF PlacesTyped
  <2>4. /\ ws' \in Spaces /\ ws'.resolver = Len(anchor) + 1 /\ ws'.id = ws.id
        /\ ws.id <= Len(anchor) /\ ws.id \in Nat
    <3>1. Len(anchor) + 1 \in Nat
      BY <1>3
    <3> PICK n \in Nat : n = Len(anchor) + 1
      BY <3>1
    <3>2. ws \in Spaces /\ "" \in Roots \union {""} /\ ws' = [ws EXCEPT !.resolver = n]
      BY <1>3, <2>2 DEF PlacesTyped
    <3>3. ws' \in Spaces /\ ws'.resolver = n /\ ws'.id = ws.id
      BY <3>2 DEF Spaces
    <3>4. ws.id <= Len(anchor) /\ ws.id \in Nat
      BY <1>3 DEF PlacesTyped, Spaces
    <3> QED BY <3>3, <3>4
  <2>5. world' = world /\ world.owner \in Nat /\ world.owner <= Len(anchor) /\ (world.owner = 0 => world = Loose)
    BY <1>3, <2>2 DEF PlacesTyped, Worlds, Numbers
  <2>6. ws'.resolver <= Len(anchor') /\ ws'.id <= Len(anchor') /\ world.owner <= Len(anchor') /\ Len(anchor) <= Len(anchor')
    <3>1. \A i, n \in Nat : i <= n => i <= n + 1 /\ n + 1 <= n + 1 /\ n <= n + 1
      OBVIOUS
    <3> QED BY <1>3, <2>3, <2>4, <2>5, <3>1
  <2>7. PlacesTyped'
    BY <1>3, <2>2, <2>3, <2>4, <2>5, <2>6 DEF PlacesTyped, Numbers
  <2> QED BY <1>1, <2>6, <2>7, NextTyped
<1>5. CASE ~SetResolver(t)
  <2>1. /\ anchor' = anchor /\ disk' = disk /\ cache' = cache /\ shown' = shown /\ world' = world
        /\ crossed' = crossed /\ smeared' = smeared /\ changed' \in {changed, FALSE} /\ flag' \in {flag, TRUE, FALSE}
    BY <1>5 DEF SetRoot, SetId, Unwatch, Watch, Health, Clear
  <2>2. \/ ws' = ws \/ ws' = [ws EXCEPT !.root = thread[t].root] \/ ws' = [ws EXCEPT !.id = Len(anchor)]
        \/ ws' = [ws EXCEPT !.watcher = 0, !.watched = ""] \/ ws' = [ws EXCEPT !.watcher = Len(anchor), !.watched = ws.root]
        \/ ws' = [ws EXCEPT !.resolver = 0] \/ ws' = [ws EXCEPT !.root = ""] \/ ws' = [ws EXCEPT !.id = 0]
    BY <1>5 DEF SetRoot, SetId, Unwatch, Watch, Health, Clear
  <2>3. ws' \in Spaces /\ ws'.resolver <= Len(anchor) /\ ws'.id <= Len(anchor)
    <3>1. ws \in Spaces /\ ws.resolver <= Len(anchor) /\ ws.id <= Len(anchor)
      BY <1>3 DEF PlacesTyped
    <3> PICK n \in Nat : n = Len(anchor)
      BY <1>3
    <3> PICK r \in Roots \union {""} : r = thread[t].root
      BY <1>2
    <3>2. \/ ws' = ws \/ ws' = [ws EXCEPT !.root = r] \/ ws' = [ws EXCEPT !.id = n]
          \/ ws' = [ws EXCEPT !.watcher = 0, !.watched = ""] \/ ws' = [ws EXCEPT !.watcher = n, !.watched = ws.root]
          \/ ws' = [ws EXCEPT !.resolver = 0] \/ ws' = [ws EXCEPT !.root = ""] \/ ws' = [ws EXCEPT !.id = 0]
      BY <2>2
    <3>3. ws' \in Spaces /\ ws'.resolver <= n /\ ws'.id <= n
      BY <3>1, <3>2, SpaceTypes
    <3> QED BY <3>3
  <2>4. PlacesTyped'
    BY <1>3, <2>1, <2>3 DEF PlacesTyped, Numbers
  <2>5. Len(anchor) <= Len(anchor')
    BY <1>3, <2>1
  <2> QED BY <1>1, <2>4, <2>5, NextTyped
<1> QED BY <1>4, <1>5

\* Thread t becomes w, whose next step is x, and which has those steps left.
CarriesOn(t, w, x, next) == w \in Works /\ thread' = [thread EXCEPT ![t] = w] /\ Begins(w.todo, x, next)

\* The thread holds what it held.
Keeps(t, w) ==
    w.root = thread[t].root /\ w.config = thread[t].config /\ w.built = thread[t].built /\ w.guard = thread[t].guard

LEMMA NextGoes ==
    ASSUME WorkspaceTyped, NEW t \in Threads, Busy(t), NEW steps, NEW x, NEW next, StepsAfter(thread[t].todo, steps, x, next)
    PROVE  /\ Left(t) = steps
           /\ \E w \in Works : w = Next(t) /\ Keeps(t, w) /\ Begins(w.todo, x, next)
<1>1. thread[t].todo \in Plans /\ Tail(thread[t].todo) \in Plans /\ Tail(thread[t].todo) # <<>>
  BY DEF WorkspaceTyped, Works, StepsAfter
<1>2. PICK w : w = Next(t)
  OBVIOUS
<1>3. w \in Works /\ w.todo = Tail(thread[t].todo) /\ Keeps(t, w)
  BY <1>1, <1>2, RestTypes DEF Next, Keeps
<1> QED BY <1>2, <1>3 DEF StepsAfter, Begins, Left

\* A thread at a step of these goes on with the next.
LEMMA AtGoes ==
    ASSUME WorkspaceTyped, NEW t \in Threads, Busy(t), Does(t, Next(t)), NEW steps, NEW x, NEW next,
           StepsAfter(thread[t].todo, steps, x, next)
    PROVE  Left(t) = steps /\ \E w \in Works : CarriesOn(t, w, x, next) /\ Keeps(t, w)
<1>1. PICK w \in Works : w = Next(t) /\ Keeps(t, w) /\ Begins(w.todo, x, next) /\ Left(t) = steps
  BY NextGoes
<1>2. thread' = [thread EXCEPT ![t] = w]
  BY <1>1 DEF Does
<1> QED BY <1>1, <1>2 DEF CarriesOn

LEMMA AtPlans ==
    ASSUME WorkspaceTyped, NEW t \in Threads, NEW x, At(t, x)
    PROVE  Busy(t) /\ thread[t].todo \in Plans /\ thread[t].todo # <<>> /\ Head(thread[t].todo) = x
BY DEF At, Busy, WorkspaceTyped, Works

\* The steps that do more than go on.
LEMMA RootOfGoes ==
    ASSUME WorkspaceTyped, NEW t \in Threads, RootOf(t)
    PROVE  \E e \in EndSets, w \in Works :
              /\ Left(t) = {"root of", "anchor", "emit"} \union e /\ CarriesOn(t, w, "anchor", {"anchor", "emit"} \union e)
              /\ w.root = ws.root /\ w.config = thread[t].config /\ w.built = thread[t].built /\ w.guard = thread[t].guard
<1>1. At(t, "root of") /\ Does(t, [Next(t) EXCEPT !.root = ws.root])
  BY DEF RootOf
<1>2. PICK e \in EndSets : StepsAfter(thread[t].todo, {"root of", "anchor", "emit"} \union e, "anchor", {"anchor", "emit"} \union e)
  BY <1>1, AtPlans, ReplaceSteps
<1>3. PICK v \in Works : v = Next(t) /\ Keeps(t, v) /\ Begins(v.todo, "anchor", {"anchor", "emit"} \union e)
        /\ Left(t) = {"root of", "anchor", "emit"} \union e
  BY <1>1, <1>2, AtPlans, NextGoes
<1>4. ws.root \in Roots \union {""}
  BY DEF WorkspaceTyped, PlacesTyped, Spaces
<1>5. PICK w : w = [v EXCEPT !.root = ws.root]
  OBVIOUS
<1>6. w \in Works /\ w.todo = v.todo /\ w.root = ws.root /\ w.config = v.config /\ w.built = v.built /\ w.guard = v.guard
  BY <1>4, <1>5 DEF Works
<1>7. thread' = [thread EXCEPT ![t] = w]
  BY <1>1, <1>3, <1>5 DEF Does
<1> QED BY <1>3, <1>6, <1>7 DEF CarriesOn, Keeps

LEMMA ReadGoes ==
    ASSUME WorkspaceTyped, NEW t \in Threads, Read(t), thread[t].guard = 0 => ws.root # "", thread[t].guard # 0 => thread[t].root # ""
    PROVE  \E root \in Roots, w \in Works :
              /\ root = IF thread[t].guard = 0 THEN ws.root ELSE thread[t].root
              /\ \/ Left(t) = {"read"} \union ReplaceLeft /\ CarriesOn(t, w, "store", ReplaceLeft)
                 \/ Left(t) = OpenLeft /\ CarriesOn(t, w, "store", ReplaceLeft \union {"health", "reclassify", "swap"})
              /\ w.root = thread[t].root /\ w.config = Parsed(disk[root]) /\ w.built = thread[t].built /\ w.guard = thread[t].guard
<1>1. thread[t] \in Works /\ ws.root \in Roots \union {""} /\ thread[t].root \in Roots \union {""} /\ disk \in [Roots -> Texts]
  BY DEF WorkspaceTyped, PlacesTyped, Spaces, Works
<1>2. PICK root \in Roots : root = IF thread[t].guard = 0 THEN ws.root ELSE thread[t].root
  BY <1>1
<1>3. root # ""
  BY WorkspaceAssumption
<1>4. At(t, "read") /\ Does(t, [Next(t) EXCEPT !.config = Parsed(disk[root])])
  BY <1>2, <1>3 DEF Read
<1>5. PICK left, next :
        /\ StepsAfter(thread[t].todo, left, "store", next)
        /\ \/ left = {"read"} \union ReplaceLeft /\ next = ReplaceLeft
           \/ left = OpenLeft /\ next = ReplaceLeft \union {"health", "reclassify", "swap"}
  BY <1>4, AtPlans, ReplaceSteps
<1>6. PICK v \in Works : v = Next(t) /\ Keeps(t, v) /\ Begins(v.todo, "store", next) /\ Left(t) = left
  BY <1>4, <1>5, AtPlans, NextGoes
<1>7. Parsed(disk[root]) \in Texts
  BY <1>1, TextTypes
<1>8. PICK w : w = [v EXCEPT !.config = Parsed(disk[root])]
  OBVIOUS
<1>9. w \in Works /\ w.todo = v.todo /\ w.root = v.root /\ w.config = Parsed(disk[root]) /\ w.built = v.built /\ w.guard = v.guard
  BY <1>7, <1>8 DEF Works
<1>10. CarriesOn(t, w, "store", next)
  BY <1>4, <1>6, <1>8, <1>9 DEF Does, CarriesOn
<1> QED BY <1>2, <1>5, <1>6, <1>9, <1>10 DEF Keeps

\* The effective root that a thread brings is not the resolver's.
Moves(t) ==
    thread[t].root # "" /\ ws.resolver # 0 /\ anchor[ws.resolver] # Effective(thread[t].root, thread[t].config)

LEMMA AnchorGoes ==
    ASSUME WorkspaceTyped, NEW t \in Threads, Anchor(t)
    PROVE  \E e \in EndSets, w \in Works :
              /\ Left(t) = {"anchor", "emit"} \union e /\ Keeps(t, w)
              /\ Moves(t) =>
                    /\ CarriesOn(t, w, "rebuild", {"rebuild", "swap", "emit"} \union e)
                    /\ anchor' = [anchor EXCEPT ![ws.resolver] = Effective(thread[t].root, thread[t].config)]
              /\ ~Moves(t) => CarriesOn(t, w, "emit", {"emit"} \union e) /\ anchor' = anchor
<1>1. /\ At(t, "anchor")
      /\ Moves(t) => /\ Does(t, [Next(t) EXCEPT !.todo = <<"rebuild", "swap">> \o @])
                     /\ anchor' = [anchor EXCEPT ![ws.resolver] = Effective(thread[t].root, thread[t].config)]
      /\ ~Moves(t) => Does(t, Next(t)) /\ anchor' = anchor
  BY DEF Anchor, Moves
<1>2. PICK e \in EndSets : /\ StepsAfter(thread[t].todo, {"anchor", "emit"} \union e, "emit", {"emit"} \union e)
                           /\ Begins(<<"rebuild", "swap">> \o Tail(thread[t].todo), "rebuild", {"rebuild", "swap", "emit"} \union e)
  BY <1>1, AtPlans, ReplaceSteps
<1>3. PICK v \in Works : v = Next(t) /\ Keeps(t, v) /\ Begins(v.todo, "emit", {"emit"} \union e) /\ Left(t) = {"anchor", "emit"} \union e
  BY <1>1, <1>2, AtPlans, NextGoes
<1>4. v.todo = Tail(thread[t].todo)
  <2>1. Tail(thread[t].todo) \in Plans /\ Tail(thread[t].todo) # <<>>
    BY <1>2 DEF StepsAfter
  <2> QED BY <1>3, <2>1, RestTypes DEF Next
<1>5. CASE Moves(t)
  <2>1. PICK p : p = <<"rebuild", "swap">> \o Tail(thread[t].todo)
    OBVIOUS
  <2>2. p \in Plans /\ Begins(p, "rebuild", {"rebuild", "swap", "emit"} \union e)
    BY <1>2, <2>1 DEF Begins
  <2>3. PICK w : w = [v EXCEPT !.todo = p]
    OBVIOUS
  <2>4. w \in Works /\ w.todo = p /\ w.root = v.root /\ w.config = v.config /\ w.built = v.built /\ w.guard = v.guard
    BY <2>2, <2>3 DEF Works
  <2>5. [v EXCEPT !.todo = <<"rebuild", "swap">> \o @] = [v EXCEPT !.todo = <<"rebuild", "swap">> \o v.todo]
    BY DEF Works
  <2>6. Does(t, w)
    BY <1>1, <1>3, <1>4, <1>5, <2>1, <2>3, <2>5
  <2> QED BY <1>1, <1>3, <1>5, <2>2, <2>4, <2>6 DEF CarriesOn, Keeps, Does
<1>6. CASE ~Moves(t)
  BY <1>1, <1>3, <1>6 DEF CarriesOn, Does
<1> QED BY <1>5, <1>6

LEMMA RebuildGoes ==
    ASSUME WorkspaceTyped, NEW t \in Threads, Rebuild(t)
    PROVE  \E e \in EndSets, w \in Works :
              /\ Left(t) = {"rebuild", "swap", "emit"} \union e
              /\ w.root = thread[t].root /\ w.config = thread[t].config /\ w.guard = thread[t].guard
              /\ world.owner = 0 \/ ws.resolver = 0 => CarriesOn(t, w, "emit", {"emit"} \union e) /\ w.built = thread[t].built
              /\ ~(world.owner = 0 \/ ws.resolver = 0) =>
                    /\ CarriesOn(t, w, "swap", {"swap", "emit"} \union e)
                    /\ w.built = [owner |-> world.owner, resolver |-> ws.resolver, at |-> anchor[ws.resolver]]
<1>1. At(t, "rebuild")
  BY DEF Rebuild
<1>2. PICK e \in EndSets : /\ StepsAfter(thread[t].todo, {"rebuild", "swap", "emit"} \union e, "swap", {"swap", "emit"} \union e)
                           /\ Begins(Tail(Tail(thread[t].todo)), "emit", {"emit"} \union e)
  BY <1>1, AtPlans, ReplaceSteps
<1>3. PICK v \in Works : v = Next(t) /\ Keeps(t, v) /\ Begins(v.todo, "swap", {"swap", "emit"} \union e)
        /\ Left(t) = {"rebuild", "swap", "emit"} \union e
  BY <1>1, <1>2, AtPlans, NextGoes
<1>4. CASE world.owner = 0 \/ ws.resolver = 0
  <2>1. PICK p : p = Tail(Tail(thread[t].todo))
    OBVIOUS
  <2>2. p \in Plans /\ p # <<>> /\ Begins(p, "emit", {"emit"} \union e)
    BY <1>2, <2>1 DEF Begins
  <2>3. PICK w : w = Rest(t, p)
    OBVIOUS
  <2>4. w \in Works /\ w.todo = p /\ Keeps(t, w)
    BY <2>2, <2>3, RestTypes DEF Keeps
  <2>5. Does(t, w)
    BY <1>4, <2>1, <2>3 DEF Rebuild
  <2> QED BY <1>3, <1>4, <2>2, <2>4, <2>5 DEF CarriesOn, Keeps, Does
<1>5. CASE ~(world.owner = 0 \/ ws.resolver = 0)
  <2>1. /\ world \in Worlds /\ ws.resolver \in Nat /\ ws.resolver \in 1..Len(anchor) /\ anchor \in Seq(Anchors)
    <3>1. world \in Worlds /\ ws.resolver \in Nat /\ ws.resolver <= Len(anchor) /\ anchor \in Seq(Anchors) /\ ws.resolver # 0
      BY <1>5 DEF WorkspaceTyped, PlacesTyped, Spaces
    <3>2. Len(anchor) \in Nat
      BY <3>1, LenProperties
    <3> PICK i \in Nat : i = ws.resolver
      BY <3>1
    <3>3. i \in 1..Len(anchor)
      BY <3>1, <3>2
    <3> QED BY <3>1, <3>3
  <2>2. PICK a \in Anchors : a = anchor[ws.resolver]
    BY <2>1, ElementOfSeq
  <2>3. PICK i \in Nat : i = ws.resolver
    BY <2>1
  <2>4. PICK b : b = [world EXCEPT !.resolver = i, !.at = a]
    OBVIOUS
  <2>5. b = [owner |-> world.owner, resolver |-> i, at |-> a] /\ b \in Worlds
    BY <2>1, <2>4 DEF Worlds
  <2>6. PICK w : w = [v EXCEPT !.built = b]
    OBVIOUS
  <2>7. w \in Works /\ w.todo = v.todo /\ w.root = v.root /\ w.config = v.config /\ w.built = b /\ w.guard = v.guard
    BY <2>5, <2>6 DEF Works
  <2>8. Does(t, w)
    BY <1>3, <1>5, <2>2, <2>3, <2>4, <2>6 DEF Rebuild
  <2> QED BY <1>3, <1>5, <2>2, <2>3, <2>5, <2>7, <2>8 DEF CarriesOn, Keeps, Does
<1> QED BY <1>4, <1>5

LEMMA ReclassifyGoes ==
    ASSUME WorkspaceTyped, NEW t \in Threads, Reclassify(t), NEW owner, owner = IF ws.root = Home THEN ws.id ELSE 0
    PROVE  /\ Left(t) = {"reclassify", "swap"}
           /\ owner = world.owner => thread' = [thread EXCEPT ![t] = Idle]
           /\ owner # world.owner =>
                 \E w \in Works :
                    /\ CarriesOn(t, w, "swap", {"swap"})
                    /\ w.root = thread[t].root /\ w.config = thread[t].config /\ w.guard = thread[t].guard
                    /\ owner = 0 \/ ws.resolver = 0 => w.built = Loose
                    /\ ~(owner = 0 \/ ws.resolver = 0) =>
                          w.built = [owner |-> owner, resolver |-> ws.resolver, at |-> anchor[ws.resolver]]
<1>1. At(t, "reclassify")
  BY DEF Reclassify
<1>2. StepsAfter(thread[t].todo, {"reclassify", "swap"}, "swap", {"swap"})
  BY <1>1, AtPlans, OpenSteps
<1>3. PICK v \in Works : v = Next(t) /\ Keeps(t, v) /\ Begins(v.todo, "swap", {"swap"}) /\ Left(t) = {"reclassify", "swap"}
  BY <1>1, <1>2, AtPlans, NextGoes
<1>4. CASE owner = world.owner
  BY <1>3, <1>4 DEF Reclassify, Does
<1>5. CASE owner # world.owner
  <2>1. PICK b : b = IF owner = 0 \/ ws.resolver = 0 THEN Loose
                     ELSE [owner |-> owner, resolver |-> ws.resolver, at |-> anchor[ws.resolver]]
    OBVIOUS
  <2>2. b \in Worlds
    <3>1. CASE owner = 0 \/ ws.resolver = 0
      BY <2>1, <3>1, TextTypes
    <3>2. CASE ~(owner = 0 \/ ws.resolver = 0)
      <4>1. /\ ws.resolver \in Nat /\ ws.resolver <= Len(anchor) /\ anchor \in Seq(Anchors) /\ ws.resolver # 0
            /\ owner \in Nat
        BY <3>2 DEF WorkspaceTyped, PlacesTyped, Spaces
      <4>2. Len(anchor) \in Nat
        BY <4>1, LenProperties
      <4> PICK i \in Nat : i = ws.resolver
        BY <4>1
      <4>3. i \in 1..Len(anchor)
        BY <4>1, <4>2
      <4>4. anchor[i] \in Anchors
        BY <4>1, <4>3, ElementOfSeq
      <4>5. b = [owner |-> owner, resolver |-> i, at |-> anchor[i]]
        BY <2>1, <3>2
      <4> QED BY <4>1, <4>4, <4>5 DEF Worlds
    <3> QED BY <3>1, <3>2
  <2>3. PICK w : w = [v EXCEPT !.built = b]
    OBVIOUS
  <2>4. w \in Works /\ w.todo = v.todo /\ w.root = v.root /\ w.config = v.config /\ w.built = b /\ w.guard = v.guard
    BY <2>2, <2>3 DEF Works
  <2>5. Does(t, w)
    BY <1>3, <1>5, <2>1, <2>3 DEF Reclassify
  <2> QED BY <1>3, <1>5, <2>1, <2>4, <2>5 DEF CarriesOn, Keeps, Does
<1> QED BY <1>3, <1>4, <1>5

LEMMA SpreadTypes ==
    ASSUME WorkspaceTyped, NEW t \in Threads, Swap(t) \/ Store(t) \/ Emit(t) \/ RootOf(t)
    PROVE  WorkspaceTyped'
<1>1. PlacesTyped /\ thread[t] \in Works /\ thread[t].config \in Texts /\ thread[t].built \in Worlds /\ Numbers(thread[t].built)
  BY DEF WorkspaceTyped, Works
<1>2. /\ ws' = ws /\ anchor' = anchor /\ disk' = disk /\ flag' = flag /\ changed' = changed /\ crossed' = crossed /\ smeared' = smeared
      /\ cache' \in {cache, thread[t].config} /\ shown' \in {shown, thread[t].config} /\ world' \in {world, thread[t].built}
  BY DEF Swap, Store, Emit, RootOf
<1>3. Numbers(world)' /\ world' \in Worlds
  BY <1>1, <1>2 DEF Numbers, PlacesTyped
<1>4. PlacesTyped'
  BY <1>1, <1>2, <1>3 DEF PlacesTyped
<1>5. Len(anchor') = Len(anchor) /\ Len(anchor) <= Len(anchor')
  BY <1>2, LooseNumbers, NatOrder
<1>6. CASE Swap(t) \/ Store(t) \/ Emit(t)
  <2>1. Busy(t) /\ Does(t, Next(t))
    BY <1>6 DEF Swap, Store, Emit, At
  <2> QED BY <1>4, <1>5, <2>1, NextTyped
<1>7. CASE RootOf(t)
  <2>1. PICK w \in Works : thread' = [thread EXCEPT ![t] = w] /\ w.built = thread[t].built
    BY <1>7, RootOfGoes DEF CarriesOn
  <2>2. Does(t, w) /\ Numbers(w.built)
    BY <1>1, <2>1 DEF Does
  <2> QED BY <1>4, <1>5, <2>2, WorkTyped
<1> QED BY <1>6, <1>7

LEMMA ReadTypes ==
    ASSUME WorkspaceTyped, NEW t \in Threads, Read(t)
    PROVE  WorkspaceTyped'
<1>1. /\ PlacesTyped /\ thread[t] \in Works /\ Numbers(thread[t].built) /\ Numbers(Loose)
  BY LooseNumbers DEF WorkspaceTyped, Works
<1>2. /\ ws' = ws /\ anchor' = anchor /\ disk' = disk /\ cache' = cache /\ shown' = shown /\ flag' = flag /\ world' = world
      /\ changed' = changed /\ crossed' = crossed /\ smeared' = smeared
  BY DEF Read
<1>3. PlacesTyped'
  BY <1>1, <1>2 DEF PlacesTyped, Numbers
<1>4. Len(anchor') = Len(anchor)
  BY <1>2
<1>5. \E w \in Works : Does(t, w) /\ Numbers(w.built)
  <2>1. CASE (thread[t].guard = 0 => ws.root # "") /\ (thread[t].guard # 0 => thread[t].root # "")
    <3>1. PICK w \in Works : thread' = [thread EXCEPT ![t] = w] /\ w.built = thread[t].built
      BY <2>1, ReadGoes DEF CarriesOn
    <3> QED BY <1>1, <3>1 DEF Does
  <2>2. CASE ~((thread[t].guard = 0 => ws.root # "") /\ (thread[t].guard # 0 => thread[t].root # ""))
    <3>1. Does(t, Rest(t, <<"health", "reclassify", "swap">>))
      BY <2>2 DEF Read
    <3>2. PICK w : w = Rest(t, OpenEnd)
      OBVIOUS
    <3>3. OpenEnd \in Plans
      BY PlanHeads DEF Ends
    <3>4. w \in Works /\ (w.built = thread[t].built \/ w.built = Loose)
      BY <3>2, <3>3, RestTypes
    <3>5. Does(t, w)
      BY <3>1, <3>2, WholeLists
    <3> QED BY <1>1, <3>4, <3>5
  <2> QED BY <2>1, <2>2
<1> QED BY <1>3, <1>4, <1>5, WorkTyped

LEMMA BuildTypes ==
    ASSUME WorkspaceTyped, NEW t \in Threads, Anchor(t) \/ Rebuild(t) \/ Reclassify(t)
    PROVE  WorkspaceTyped'
<1>1. /\ PlacesTyped /\ thread[t] \in Works /\ Numbers(thread[t].built) /\ Numbers(Loose) /\ Len(anchor) \in Nat
      /\ thread[t].root \in Roots \union {""} /\ thread[t].config \in Texts
      /\ world.owner \in Nat /\ world.owner <= Len(anchor) /\ ws.id <= Len(anchor) /\ 0 <= Len(anchor)
  BY LooseNumbers DEF WorkspaceTyped, Works, PlacesTyped, Numbers, Worlds
<1>2. /\ ws' = ws /\ disk' = disk /\ cache' = cache /\ shown' = shown /\ flag' = flag /\ world' = world
      /\ changed' = changed /\ crossed' = crossed /\ smeared' \in BOOLEAN
  BY <1>1 DEF Anchor, Rebuild, Reclassify, PlacesTyped
<1>3. anchor' \in Seq(Anchors) /\ Len(anchor') = Len(anchor) /\ \E w \in Works : Does(t, w) /\ Numbers(w.built)
  <2>1. CASE Anchor(t)
    <3>1. PICK w \in Works :
             /\ Keeps(t, w) /\ thread' = [thread EXCEPT ![t] = w]
             /\ \/ ws.resolver # 0 /\ anchor' = [anchor EXCEPT ![ws.resolver] = Effective(thread[t].root, thread[t].config)]
                \/ anchor' = anchor
      BY <2>1, AnchorGoes DEF CarriesOn, Moves
    <3>2. Does(t, w) /\ Numbers(w.built)
      BY <1>1, <3>1 DEF Does, Keeps
    <3>3. PICK a \in Anchors : a = Effective(thread[t].root, thread[t].config)
      BY <1>1, TextTypes
    <3>4. anchor \in Seq(Anchors)
      BY <1>1 DEF PlacesTyped
    <3>5. anchor' \in Seq(Anchors) /\ Len(anchor') = Len(anchor)
      <4>1. CASE anchor' = anchor
        BY <3>4, <4>1
      <4>2. CASE ws.resolver # 0 /\ anchor' = [anchor EXCEPT ![ws.resolver] = a]
        <5> PICK i : i = ws.resolver
          OBVIOUS
        <5>1. anchor' = [anchor EXCEPT ![i] = a]
          BY <4>2
        <5>2. i \in Nat /\ i <= Len(anchor) /\ i # 0 /\ Len(anchor) \in Nat
          BY <1>1, <4>2 DEF PlacesTyped, Spaces
        <5>3. i \in 1..Len(anchor)
          BY <5>2
        <5> QED BY <3>4, <5>1, <5>3, ExceptSeq
      <4> QED BY <3>1, <3>3, <4>1, <4>2
    <3> QED BY <3>2, <3>5
  <2>2. CASE Rebuild(t)
    <3>1. anchor' = anchor
      BY <2>2 DEF Rebuild
    <3>2. PICK w \in Works :
             /\ thread' = [thread EXCEPT ![t] = w]
             /\ \/ w.built = thread[t].built
                \/ /\ world.owner # 0
                   /\ w.built = [owner |-> world.owner, resolver |-> ws.resolver, at |-> anchor[ws.resolver]]
      BY <2>2, RebuildGoes DEF CarriesOn
    <3>3. Does(t, w) /\ Numbers(w.built)
      <4>1. w.built = thread[t].built \/ (w.built.owner = world.owner /\ world.owner # 0)
        <5> PICK i, a : i = ws.resolver /\ a = anchor[ws.resolver]
          OBVIOUS
        <5>1. w.built = thread[t].built \/ (world.owner # 0 /\ w.built = [owner |-> world.owner, resolver |-> i, at |-> a])
          BY <3>2
        <5> QED BY <5>1
      <4>2. Does(t, w)
        BY <3>2 DEF Does
      <4> QED BY <1>1, <4>1, <4>2 DEF Numbers
    <3>4. anchor' \in Seq(Anchors) /\ Len(anchor') = Len(anchor)
      BY <1>1, <3>1 DEF PlacesTyped
    <3> QED BY <3>3, <3>4
  <2>3. CASE Reclassify(t)
    <3>1. anchor' = anchor
      BY <2>3 DEF Reclassify
    <3>2. PICK owner : owner = IF ws.root = Home THEN ws.id ELSE 0
      OBVIOUS
    <3>3. PICK w \in Works :
             /\ thread' = [thread EXCEPT ![t] = w]
             /\ \/ w.built = Loose
                \/ owner # 0 /\ w.built = [owner |-> owner, resolver |-> ws.resolver, at |-> anchor[ws.resolver]]
      <4>1. CASE owner = world.owner
        BY <2>3, <3>2, <4>1, ReclassifyGoes, WorkTypes
      <4>2. CASE owner # world.owner
        BY <2>3, <3>2, <4>2, ReclassifyGoes DEF CarriesOn
      <4> QED BY <4>1, <4>2
    <3>4. owner <= Len(anchor)
      BY <1>1, <3>2
    <3>5. Does(t, w) /\ Numbers(w.built)
      <4>1. w.built = Loose \/ (w.built.owner = owner /\ owner # 0)
        <5> PICK i, a : i = ws.resolver /\ a = anchor[ws.resolver]
          OBVIOUS
        <5>1. w.built = Loose \/ (owner # 0 /\ w.built = [owner |-> owner, resolver |-> i, at |-> a])
          BY <3>3
        <5> QED BY <5>1
      <4>2. Does(t, w)
        BY <3>3 DEF Does
      <4> QED BY <1>1, <3>4, <4>1, <4>2 DEF Numbers
    <3>6. anchor' \in Seq(Anchors) /\ Len(anchor') = Len(anchor)
      BY <1>1, <3>1 DEF PlacesTyped
    <3> QED BY <3>5, <3>6
  <2> QED BY <2>1, <2>2, <2>3
<1>4. PlacesTyped'
  <2>1. Numbers(world)'
    BY <1>1, <1>2, <1>3 DEF PlacesTyped, Numbers
  <2>2. ws'.resolver <= Len(anchor') /\ ws'.id <= Len(anchor')
    BY <1>1, <1>2, <1>3 DEF PlacesTyped
  <2> QED BY <1>1, <1>2, <1>3, <2>1, <2>2 DEF PlacesTyped
<1> QED BY <1>3, <1>4, WorkTyped

LEMMA BeginLists ==
    /\ Begins(Opening, "set root", {"set root", "set resolver", "set id", "unwatch", "watch"} \union OpenLeft)
    /\ Begins(Closing, "unwatch", {"unwatch", "unresolve", "unroot", "unid"} \union CloseLeft)
    /\ Begins(<<"write">> \o Replace, "write", {"write"} \union ReplaceLeft)
    /\ Begins(<<"read">> \o Replace, "read", {"read"} \union ReplaceLeft)
<1>1. OpenFirst \in Plans /\ CloseFirst \in Plans /\ WriteFirst \in Plans /\ ReadOn(<<>>) \in Plans
  BY PlanHeads
<1>2. Begins(OpenFirst, "set root", {"set root", "set resolver", "set id", "unwatch", "watch"} \union OpenLeft)
  BY <1>1, FirstLists DEF Begins, IsList
<1>3. Begins(CloseFirst, "unwatch", {"unwatch", "unresolve", "unroot", "unid"} \union CloseLeft)
  BY <1>1, FirstLists DEF Begins, IsList
<1>4. Begins(WriteFirst, "write", {"write"} \union ReplaceLeft)
  BY <1>1, FirstLists DEF Begins, IsList
<1>5. Begins(ReadOn(<<>>), "read", {"read"} \union ReplaceLeft)
  <2>1. <<>> \in Ends /\ Range(<<>>) = {}
    BY NothingLeft DEF Ends
  <2>2. IsList(ReadOn(<<>>), "read", StoreOn(<<>>), {"read", "store", "root of", "anchor", "emit"} \union {})
    BY <2>1, ReplaceLists
  <2>3. {"read", "store", "root of", "anchor", "emit"} \union {} = {"read"} \union ReplaceLeft
    BY DEF ReplaceLeft
  <2> QED BY <1>1, <2>2, <2>3 DEF Begins, IsList
<1>6. Opening = OpenFirst /\ Closing = CloseFirst /\ <<"write">> \o Replace = WriteFirst /\ <<"read">> \o Replace = ReadOn(<<>>)
  BY WholeLists
<1>7. Begins(<<"write">> \o Replace, "write", {"write"} \union ReplaceLeft)
  BY <1>4, <1>6
<1>8. Begins(<<"read">> \o Replace, "read", {"read"} \union ReplaceLeft)
  BY <1>5, <1>6
<1> QED BY <1>2, <1>3, <1>6, <1>7, <1>8

LEMMA OpenGoes ==
    ASSUME WorkspaceTyped, NEW t \in Threads, NEW root \in Roots, Open(t, root)
    PROVE  \E w \in Works :
              /\ CarriesOn(t, w, "set root", {"set root", "set resolver", "set id", "unwatch", "watch"} \union OpenLeft)
              /\ w.root = root /\ w.config = Parsed(disk[root]) /\ w.built = Loose /\ w.guard = 0
<1>1. PICK c \in Texts, r \in Roots \union {""} : c = Parsed(disk[root]) /\ r = root
  BY TextTypes DEF WorkspaceTyped, PlacesTyped
<1>2. PICK p \in Plans : p = Opening /\ Begins(p, "set root", {"set root", "set resolver", "set id", "unwatch", "watch"} \union OpenLeft)
  BY BeginLists DEF Begins
<1>3. PICK i \in Works : i = Idle /\ i.root = "" /\ i.config = None /\ i.built = Loose /\ i.guard = 0
  BY WorkTypes DEF Idle
<1>4. PICK w : w = [i EXCEPT !.todo = p, !.root = r, !.config = c]
  OBVIOUS
<1>5. w \in Works /\ w.todo = p /\ w.root = r /\ w.config = c /\ w.built = i.built /\ w.guard = i.guard
  BY <1>4 DEF Works
<1>6. Does(t, w)
  BY <1>1, <1>2, <1>3, <1>4 DEF Open, Begin
<1>7. CarriesOn(t, w, "set root", {"set root", "set resolver", "set id", "unwatch", "watch"} \union OpenLeft)
  BY <1>2, <1>5, <1>6 DEF CarriesOn, Does
<1> QED BY <1>1, <1>3, <1>5, <1>7 DEF CarriesOn

LEMMA CloseGoes ==
    ASSUME WorkspaceTyped, NEW t \in Threads, Close(t)
    PROVE  \E w \in Works :
              /\ CarriesOn(t, w, "unwatch", {"unwatch", "unresolve", "unroot", "unid"} \union CloseLeft)
              /\ w.root = "" /\ w.config = None /\ w.built = Loose /\ w.guard = 0
<1>2. PICK p \in Plans : p = Closing /\ Begins(p, "unwatch", {"unwatch", "unresolve", "unroot", "unid"} \union CloseLeft)
  BY BeginLists DEF Begins
<1>3. PICK i \in Works : i = Idle /\ i.root = "" /\ i.config = None /\ i.built = Loose /\ i.guard = 0
  BY WorkTypes DEF Idle
<1>4. PICK w : w = [i EXCEPT !.todo = p]
  OBVIOUS
<1>5. w \in Works /\ w.todo = p /\ w.root = i.root /\ w.config = i.config /\ w.built = i.built /\ w.guard = i.guard
  BY <1>4 DEF Works
<1>6. Does(t, w)
  BY <1>2, <1>3, <1>4 DEF Close, Begin
<1>7. CarriesOn(t, w, "unwatch", {"unwatch", "unresolve", "unroot", "unid"} \union CloseLeft)
  BY <1>2, <1>5, <1>6 DEF CarriesOn, Does
<1> QED BY <1>3, <1>5, <1>7 DEF CarriesOn

LEMMA SetGoes ==
    ASSUME WorkspaceTyped, NEW t \in Threads, NEW config \in Texts, Set(t, config)
    PROVE  \E w \in Works :
              /\ CarriesOn(t, w, "write", {"write"} \union ReplaceLeft)
              /\ w.root = ws.root /\ w.config = config /\ w.built = Loose /\ w.guard = 0
<1>1. PICK r \in Roots \union {""} : r = ws.root
  BY DEF WorkspaceTyped, PlacesTyped, Spaces
<1>2. PICK p \in Plans : p = <<"write">> \o Replace /\ Begins(p, "write", {"write"} \union ReplaceLeft)
  BY BeginLists DEF Begins
<1>3. PICK i \in Works : i = Idle /\ i.root = "" /\ i.config = None /\ i.built = Loose /\ i.guard = 0
  BY WorkTypes DEF Idle
<1>4. PICK w : w = [i EXCEPT !.todo = p, !.root = r, !.config = config]
  OBVIOUS
<1>5. w \in Works /\ w.todo = p /\ w.root = r /\ w.config = config /\ w.built = i.built /\ w.guard = i.guard
  BY <1>4 DEF Works
<1>6. Does(t, w)
  BY <1>1, <1>2, <1>3, <1>4 DEF Set, Begin
<1>7. CarriesOn(t, w, "write", {"write"} \union ReplaceLeft)
  BY <1>2, <1>5, <1>6 DEF CarriesOn, Does
<1> QED BY <1>1, <1>3, <1>5, <1>7 DEF CarriesOn

LEMMA FlushGoes ==
    ASSUME WorkspaceTyped, NEW t \in Threads, Flush(t), ws.root = ws.watched
    PROVE  \E w \in Works :
              /\ CarriesOn(t, w, "read", {"read"} \union ReplaceLeft)
              /\ w.root = ws.root /\ w.config = None /\ w.built = Loose /\ w.guard = ws.watcher
<1>1. PICK r \in Roots \union {""}, g \in Nat : r = ws.root /\ g = ws.watcher
  BY DEF WorkspaceTyped, PlacesTyped, Spaces
<1>2. PICK p \in Plans : p = <<"read">> \o Replace /\ Begins(p, "read", {"read"} \union ReplaceLeft)
  BY BeginLists DEF Begins
<1>3. PICK i \in Works : i = Idle /\ i.root = "" /\ i.config = None /\ i.built = Loose /\ i.guard = 0
  BY WorkTypes DEF Idle
<1>4. PICK w : w = [i EXCEPT !.todo = p, !.root = r, !.guard = g]
  OBVIOUS
<1>5. w \in Works /\ w.todo = p /\ w.root = r /\ w.config = i.config /\ w.built = i.built /\ w.guard = g
  BY <1>4 DEF Works
<1>6. Does(t, w)
  BY <1>1, <1>2, <1>3, <1>4 DEF Flush, Begin
<1>7. CarriesOn(t, w, "read", {"read"} \union ReplaceLeft)
  BY <1>2, <1>5, <1>6 DEF CarriesOn, Does
<1> QED BY <1>1, <1>3, <1>5, <1>7 DEF CarriesOn

\* A config that is set is one that can be read back as it is.
LEMMA SetTexts ==
    ASSUME WorkspaceTyped, NEW t \in Threads
    PROVE  /\ \A config \in Configs \union {None} : Set(t, config) => config \in Texts /\ Parsed(config) = config
           /\ \A main \in Mains : SetMain(t, main) =>
                 \E config \in Texts : Set(t, config) /\ Parsed(config) = config
<1>1. ASSUME NEW config \in Texts, config.main # "corrupt", Accepted(config) PROVE Parsed(config) = config
  <2>1. config # Corrupt
    BY <1>1 DEF Corrupt
  <2> QED BY <1>1, <2>1 DEF Parsed, Accepted
<1>2. ASSUME NEW config \in Configs \union {None}, Set(t, config) PROVE config \in Texts /\ Parsed(config) = config
  <2>1. config \in Texts
    BY TextTypes
  <2>2. config.main # "corrupt"
    <3>1. None.main = "none"
      BY DEF None
    <3>2. config \in Configs => config.main \in Mains
      BY DEF Configs
    <3> QED BY <3>1, <3>2, WorkspaceAssumption
  <2> QED BY <1>1, <1>2, <2>1, <2>2 DEF Set
<1>3. ASSUME NEW main \in Mains, SetMain(t, main) PROVE \E config \in Texts : Set(t, config) /\ Parsed(config) = config
  <2>1. PICK config : config = IF cache = None THEN [main |-> main, dir |-> "top"] ELSE [cache EXCEPT !.main = main]
    OBVIOUS
  <2>2. cache \in Texts
    BY DEF WorkspaceTyped, PlacesTyped
  <2>3. config \in Texts /\ config.main = main
    <3>1. CASE cache = None
      BY <2>1, <3>1 DEF Texts
    <3>2. CASE cache # None
      BY <2>1, <2>2, <3>2 DEF Texts
    <3> QED BY <3>1, <3>2
  <2>4. Set(t, config)
    BY <1>3, <2>1 DEF SetMain
  <2>5. config.main # "corrupt"
    BY <2>3, WorkspaceAssumption
  <2> QED BY <1>1, <2>3, <2>4, <2>5 DEF Set
<1> QED BY <1>2, <1>3

LEMMA WriteGoes ==
    ASSUME WorkspaceTyped, NEW t \in Threads, Write(t)
    PROVE  /\ Left(t) = {"write"} \union ReplaceLeft
           /\ \/ /\ Writes({t}, thread[t].root, thread[t].config)
                 /\ \E w \in Works : CarriesOn(t, w, "store", ReplaceLeft) /\ Keeps(t, w)
              \/ thread' = [thread EXCEPT ![t] = Idle] /\ UNCHANGED <<disk, changed, changes, crossed>>
<1>1. At(t, "write")
  BY DEF Write
<1>2. StepsAfter(thread[t].todo, {"write"} \union ReplaceLeft, "store", ReplaceLeft)
  BY <1>1, AtPlans, ReplaceSteps
<1>3. PICK w \in Works : w = Next(t) /\ Keeps(t, w) /\ Begins(w.todo, "store", ReplaceLeft) /\ Left(t) = {"write"} \union ReplaceLeft
  BY <1>1, <1>2, AtPlans, NextGoes
<1>4. CASE Writes({t}, thread[t].root, thread[t].config) /\ Does(t, Next(t))
  BY <1>3, <1>4 DEF CarriesOn, Does
<1>5. CASE Does(t, Idle) /\ UNCHANGED <<disk, changed, changes, crossed>>
  BY <1>3, <1>5 DEF Does
<1> QED BY <1>4, <1>5 DEF Write

LEMMA WritesTypes ==
    ASSUME PlacesTyped, NEW but, NEW root, NEW text \in Texts, Writes(but, root, text),
           UNCHANGED <<ws, anchor, cache, shown, flag, world, smeared>>
    PROVE  PlacesTyped'
<1>1. disk' \in [Roots -> Texts]
  BY DEF Writes, PlacesTyped
<1>2. changed' \in BOOLEAN /\ crossed' \in BOOLEAN
  BY DEF Writes
<1>3. Numbers(world)'
  BY DEF PlacesTyped, Numbers
<1> QED BY <1>1, <1>2, <1>3 DEF PlacesTyped

LEMMA StartTypes ==
    ASSUME WorkspaceTyped, NEW t \in Threads,
           \/ \E root \in Roots : Open(t, root)
           \/ Close(t) \/ Flush(t) \/ Write(t)
           \/ \E config \in Configs \union {None} : Set(t, config)
           \/ \E main \in Mains : SetMain(t, main)
    PROVE  WorkspaceTyped'
<1>1. PlacesTyped /\ Numbers(Loose) /\ Numbers(thread[t].built) /\ thread[t].config \in Texts /\ Idle \in Works /\ Idle.built = Loose
  BY LooseNumbers, WorkTypes DEF WorkspaceTyped, Works
<1>2. CASE \E root \in Roots : Open(t, root)
  <2>1. PICK root \in Roots : Open(t, root)
    BY <1>2
  <2>2. PICK w \in Works : Does(t, w) /\ w.built = Loose
    BY <2>1, OpenGoes DEF CarriesOn, Does
  <2>3. crossed' \in BOOLEAN /\ smeared' \in BOOLEAN
    BY <2>1 DEF Open, Switches
  <2>4. PlacesTyped' /\ Len(anchor') = Len(anchor)
    BY <1>1, <2>1, <2>3 DEF Open, PlacesTyped, Numbers
  <2> QED BY <1>1, <2>2, <2>4, WorkTyped
<1>3. CASE Close(t)
  <2>1. PICK w \in Works : Does(t, w) /\ w.built = Loose
    BY <1>3, CloseGoes DEF CarriesOn, Does
  <2>2. crossed' \in BOOLEAN /\ smeared' \in BOOLEAN
    BY <1>3 DEF Close, Switches
  <2>3. PlacesTyped' /\ Len(anchor') = Len(anchor)
    BY <1>1, <1>3, <2>2 DEF Close, PlacesTyped, Numbers
  <2> QED BY <1>1, <2>1, <2>3, WorkTyped
<1>4. CASE Flush(t)
  <2>1. PICK w \in Works : Does(t, w) /\ w.built = Loose
    <3>1. CASE ws.root = ws.watched
      BY <1>4, <3>1, FlushGoes DEF CarriesOn, Does
    <3>2. CASE ws.root # ws.watched
      BY <1>1, <1>4, <3>2 DEF Flush, Begin
    <3> QED BY <3>1, <3>2
  <2>2. crossed' \in BOOLEAN /\ changed' \in BOOLEAN
    BY <1>4 DEF Flush
  <2>3. PlacesTyped' /\ Len(anchor') = Len(anchor)
    BY <1>1, <1>4, <2>2 DEF Flush, PlacesTyped, Numbers
  <2> QED BY <1>1, <2>1, <2>3, WorkTyped
<1>5. CASE Write(t)
  <2>1. UNCHANGED <<ws, anchor, cache, shown, flag, world, smeared>>
    BY <1>5 DEF Write
  <2>2. Len(anchor') = Len(anchor)
    BY <2>1
  <2>3. CASE Writes({t}, thread[t].root, thread[t].config)
    <3>1. PlacesTyped'
      BY <1>1, <2>1, <2>3, WritesTypes
    <3>2. \E w \in Works : Does(t, w) /\ Numbers(w.built)
      BY <1>1, <1>5, WriteGoes DEF CarriesOn, Keeps, Does
    <3> QED BY <2>2, <3>1, <3>2, WorkTyped
  <2>4. CASE thread' = [thread EXCEPT ![t] = Idle] /\ UNCHANGED <<disk, changed, changes, crossed>>
    <3>1. PlacesTyped'
      BY <1>1, <2>1, <2>4 DEF PlacesTyped, Numbers
    <3> QED BY <1>1, <2>2, <2>4, <3>1, WorkTyped DEF Does
  <2> QED BY <1>5, <2>3, <2>4, WriteGoes
<1>6. CASE \E config \in Texts : Set(t, config)
  <2>1. PICK config \in Texts : Set(t, config)
    BY <1>6
  <2>2. PICK w \in Works : Does(t, w) /\ w.built = Loose
    BY <2>1, SetGoes DEF CarriesOn, Does
  <2>3. crossed' \in BOOLEAN
    BY <2>1 DEF Set
  <2>4. PlacesTyped' /\ Len(anchor') = Len(anchor)
    BY <1>1, <2>1, <2>3 DEF Set, PlacesTyped, Numbers
  <2> QED BY <1>1, <2>2, <2>4, WorkTyped
<1>7. CASE \E config \in Configs \union {None} : Set(t, config)
  BY <1>6, <1>7, SetTexts
<1>8. CASE \E main \in Mains : SetMain(t, main)
  BY <1>6, <1>8, SetTexts
<1> QED BY <1>2, <1>3, <1>4, <1>5, <1>7, <1>8

LEMMA TypesKept ==
    ASSUME WorkspaceTyped, [WorkspaceNext]_workspaceVars
    PROVE  WorkspaceTyped'
<1>1. CASE UNCHANGED workspaceVars
  BY <1>1 DEF workspaceVars, WorkspaceTyped, PlacesTyped, Numbers
<1>2. CASE \E root \in Roots, text \in Configs \union {None, Corrupt} : Edit(root, text)
  <2>1. PICK root \in Roots, text \in Configs \union {None, Corrupt} : Edit(root, text)
    BY <1>2
  <2>2. text \in Texts
    BY TextTypes
  <2>3. thread' = thread /\ UNCHANGED <<ws, anchor, cache, shown, flag, world, smeared>> /\ Writes({}, root, text)
    BY <2>1 DEF Edit
  <2>4. PlacesTyped'
    BY <2>2, <2>3, WritesTypes DEF WorkspaceTyped
  <2>5. \A u \in Threads : Numbers(thread[u].built)'
    BY <2>3 DEF WorkspaceTyped, Numbers
  <2> QED BY <2>3, <2>4, <2>5 DEF WorkspaceTyped
<1>3. CASE \E t \in Threads :
          \/ \E root \in Roots : Open(t, root)
          \/ SetRoot(t) \/ SetResolver(t) \/ SetId(t) \/ Unwatch(t) \/ Watch(t) \/ Health(t)
          \/ Close(t) \/ Clear(t) \/ Reclassify(t) \/ Swap(t)
          \/ Read(t) \/ Store(t) \/ RootOf(t) \/ Anchor(t) \/ Rebuild(t) \/ Emit(t)
          \/ \E config \in Configs \union {None} : Set(t, config)
          \/ \E main \in Mains : SetMain(t, main)
          \/ Write(t) \/ Flush(t)
  BY <1>3, OpeningTypes, SpreadTypes, ReadTypes, BuildTypes, StartTypes
<1> QED BY <1>1, <1>2, <1>3 DEF WorkspaceNext

LEMMA TypesAtFirst == ASSUME WorkspaceInit PROVE WorkspaceTyped
<1>1. Idle \in Works /\ Idle.built = Loose /\ Loose \in Worlds /\ None \in Texts
  BY WorkTypes, TextTypes
<1>2. anchor = <<>> /\ anchor \in Seq(Anchors) /\ Len(anchor) = 0
  <2>1. anchor = <<>>
    BY DEF WorkspaceInit
  <2> QED BY <2>1, EmptySeq
<1>3. Numbers(Loose)
  BY <1>2 DEF Numbers, Loose
<1>4. ws \in Spaces /\ ws.resolver = 0 /\ ws.id = 0
  BY DEF WorkspaceInit, Spaces
<1>5. PlacesTyped
  <2>1. /\ cache = None /\ shown = None /\ flag = FALSE /\ world = Loose /\ changed = FALSE /\ crossed = FALSE /\ smeared = FALSE
        /\ disk = [r \in Roots |-> None]
    BY DEF WorkspaceInit
  <2>2. disk \in [Roots -> Texts]
    BY <1>1, <2>1
  <2>3. ws.resolver <= Len(anchor) /\ ws.id <= Len(anchor)
    BY <1>2, <1>4
  <2>4. Numbers(world)
    BY <1>3, <2>1
  <2> QED BY <1>1, <1>2, <1>4, <2>1, <2>2, <2>3, <2>4 DEF PlacesTyped
<1>6. thread = [t \in Threads |-> Idle]
  BY DEF WorkspaceInit
<1>7. thread \in [Threads -> Works] /\ \A t \in Threads : Numbers(thread[t].built)
  BY <1>1, <1>3, <1>6
<1> QED BY <1>5, <1>7 DEF WorkspaceTyped

-----------------------------------------------------------------------------
(* One thread's step and the others.                                       *)

LEMMA ThreadIs ==
    ASSUME WorkspaceTyped, NEW t \in Threads, NEW w, thread' = [thread EXCEPT ![t] = w]
    PROVE  thread'[t] = w /\ \A u \in Threads : u # t => thread'[u] = thread[u]
BY DEF WorkspaceTyped

\* What the others do stays what it was.
LEMMA OthersStay ==
    ASSUME WorkspaceTyped, NEW t \in Threads, NEW w, thread' = [thread EXCEPT ![t] = w]
    PROVE  \A u \in Threads : u # t =>
              /\ thread'[u] = thread[u] /\ Left(u)' = Left(u) /\ (Busy(u)' <=> Busy(u))
              /\ (OpenKind(u)' <=> OpenKind(u)) /\ (CloseKind(u)' <=> CloseKind(u)) /\ (Switching(u)' <=> Switching(u))
              /\ (ToWrite(u)' <=> ToWrite(u)) /\ (Flushing(u)' <=> Flushing(u)) /\ (Setting(u)' <=> Setting(u))
              /\ (Builds(u)' <=> Builds(u)) /\ \A x : At(u, x)' <=> At(u, x)
<1> SUFFICES ASSUME NEW u \in Threads, u # t
             PROVE  /\ thread'[u] = thread[u] /\ Left(u)' = Left(u) /\ (Busy(u)' <=> Busy(u))
                    /\ (OpenKind(u)' <=> OpenKind(u)) /\ (CloseKind(u)' <=> CloseKind(u)) /\ (Switching(u)' <=> Switching(u))
                    /\ (ToWrite(u)' <=> ToWrite(u)) /\ (Flushing(u)' <=> Flushing(u)) /\ (Setting(u)' <=> Setting(u))
                    /\ (Builds(u)' <=> Builds(u)) /\ \A x : At(u, x)' <=> At(u, x)
  OBVIOUS
<1>1. thread'[u] = thread[u]
  BY ThreadIs
<1>2. Left(u)' = Left(u) /\ (Busy(u)' <=> Busy(u)) /\ \A x : At(u, x)' <=> At(u, x)
  BY <1>1 DEF Left, Busy, At
<1>3. /\ OpenKind(u)' <=> OpenKind(u)
      /\ ToWrite(u)' <=> ToWrite(u)
      /\ Switching(u)' <=> Switching(u)
      /\ Flushing(u)' <=> Flushing(u)
  BY <1>1, <1>2 DEF OpenKind, ToWrite, Switching, Flushing
<1>4. /\ CloseKind(u)' <=> CloseKind(u)
      /\ Setting(u)' <=> Setting(u)
      /\ Builds(u)' <=> Builds(u)
  BY <1>2, <1>3 DEF CloseKind, Setting, Builds
<1> QED BY <1>1, <1>2, <1>3, <1>4

LEMMA GoneOn ==
    ASSUME WorkspaceTyped, NEW t \in Threads, NEW w, NEW x, NEW next, CarriesOn(t, w, x, next)
    PROVE  thread'[t] = w /\ Left(t)' = next /\ Busy(t)' /\ \A y : At(t, y)' <=> y = x
<1>1. thread'[t] = w
  BY ThreadIs DEF CarriesOn
<1>2. w.todo # <<>> /\ Head(w.todo) = x /\ Range(w.todo) = next
  BY DEF CarriesOn, Begins
<1> QED BY <1>1, <1>2 DEF Left, Busy, At

\* A thread at rest is of no kind.
LEMMA RestsNow ==
    ASSUME NEW u, ~Busy(u)
    PROVE  /\ Left(u) = {} /\ ~OpenKind(u) /\ ~CloseKind(u) /\ ~Switching(u) /\ ~ToWrite(u) /\ ~Flushing(u) /\ ~Setting(u)
           /\ ~Builds(u) /\ \A x : ~At(u, x)
<1>1. Left(u) = {} /\ \A x : ~At(u, x)
  BY NothingLeft DEF Busy, Left, At
<1> QED BY <1>1 DEF OpenKind, CloseKind, Switching, ToWrite, Flushing, Setting, Builds

LEMMA RestsThen ==
    ASSUME NEW u, ~Busy(u)'
    PROVE  /\ Left(u)' = {} /\ ~OpenKind(u)' /\ ~CloseKind(u)' /\ ~Switching(u)' /\ ~ToWrite(u)' /\ ~Flushing(u)' /\ ~Setting(u)'
           /\ ~Builds(u)' /\ \A x : ~At(u, x)'
<1>1. Left(u)' = {} /\ \A x : ~At(u, x)'
  BY NothingLeft DEF Busy, Left, At
<1> QED BY <1>1 DEF OpenKind, CloseKind, Switching, ToWrite, Flushing, Setting, Builds

\* A step of a thread that is alone.
LEMMA AloneStep ==
    ASSUME WorkspaceTyped, NEW t \in Threads, NEW w, thread' = [thread EXCEPT ![t] = w],
           \A u \in Threads : u # t => ~Busy(u),
           Carries(t)', Opens(t)', Closes(t)',
           (Switching(t) /\ "unwatch" \notin Left(t) => ~changed)',
           (Left(t) = {"reclassify", "swap"} /\ ws.root # "" => world.owner < ws.id)',
           Steady' \/ OpenKind(t)' \/ CloseKind(t)',
           \/ smeared'
           \/ Switching(t)' /\ (At(t, "swap") => thread[t].built = Target)'
           \/ ~At(t, "swap")' /\ Near' /\ (world = Target)'
    PROVE  SettlesInv'
<1>1. ASSUME NEW u \in Threads, u # t
      PROVE  ~Busy(u)' /\ Left(u)' = {} /\ ~OpenKind(u)' /\ ~CloseKind(u)' /\ ~Switching(u)' /\ ~ToWrite(u)' /\ ~Flushing(u)'
             /\ ~Setting(u)' /\ ~Builds(u)' /\ ~At(u, "swap")'
  <2>1. ~Busy(u)'
    BY <1>1, OthersStay
  <2> QED BY <2>1, RestsThen
<1>2. Together'
  BY <1>1 DEF Together
<1>3. ASSUME NEW u \in Threads PROVE (Carries(u) /\ Opens(u) /\ Closes(u))'
  <2>1. CASE u = t
    BY <2>1
  <2>2. CASE u # t
    BY <1>1, <2>2 DEF Carries, Opens, Closes
  <2> QED BY <2>1, <2>2
<1>4. ASSUME NEW u \in Threads
      PROVE  /\ (Switching(u) /\ "unwatch" \notin Left(u) => ~changed)'
             /\ (Left(u) = {"reclassify", "swap"} /\ ws.root # "" => world.owner < ws.id)'
  <2>1. CASE u = t
    BY <2>1
  <2>2. CASE u # t
    BY <1>1, <2>2
  <2> QED BY <2>1, <2>2
<1>5. (Steady \/ \E u \in Threads : OpenKind(u) \/ CloseKind(u))'
  OBVIOUS
<1>6. smeared' \/ WorldFollows'
  <2>1. CASE Switching(t)' /\ (At(t, "swap") => thread[t].built = Target)'
    BY <1>1, <2>1 DEF WorldFollows
  <2>2. CASE ~At(t, "swap")' /\ Near' /\ (world = Target)'
    BY <1>1, <2>2 DEF WorldFollows
  <2> QED BY <2>1, <2>2
<1> QED BY <1>2, <1>3, <1>4, <1>5, <1>6 DEF SettlesInv

-----------------------------------------------------------------------------
(* Who is alone.                                                           *)

\* An open or a close has the document to reclassify.
LEMMA KindsSwitch ==
    ASSUME WorkspaceTyped, NEW t \in Threads
    PROVE  /\ OpenKind(t) \/ CloseKind(t) => Switching(t) /\ Left(t) # {"swap"}
           /\ Switching(t) => Busy(t)
           /\ "rebuild" \in Left(t) => At(t, "rebuild")
<1>1. Busy(t) => thread[t].todo \in Plans /\ thread[t].todo # <<>>
  BY DEF Busy, WorkspaceTyped, Works
<1>2. Switching(t) => Busy(t)
  BY RestsNow
<1>3. OpenKind(t) => Busy(t)
  BY RestsNow
<1>4. OpenKind(t) => "reclassify" \in Left(t)
  BY <1>1, <1>3, PlanKinds DEF OpenKind, Left
<1>5. "rebuild" \in Left(t) => At(t, "rebuild")
  <2>1. "rebuild" \in Left(t) => Busy(t)
    BY RestsNow
  <2> QED BY <1>1, <2>1, PlanKinds DEF Left, At
<1> QED BY <1>2, <1>4, <1>5 DEF CloseKind, Switching

\* Who switches, but for the last step, is alone and no watcher.
LEMMA SwitchAlone ==
    ASSUME WorkspaceTyped, SettlesInv, NEW t \in Threads, Switching(t), Left(t) # {"swap"}
    PROVE  (\A u \in Threads : u # t => ~Busy(u)) /\ thread[t].guard = 0
<1>1. Busy(t)
  BY KindsSwitch
<1>2. \A u \in Threads : u # t => ~Busy(u)
  BY <1>1 DEF SettlesInv, Together
<1>3. ~Flushing(t)
  BY DEF SettlesInv, Carries
<1> QED BY <1>1, <1>2, <1>3 DEF Flushing

\* While one sets the config or reads it for a watcher, nobody switches.
LEMMA NobodySwitches ==
    ASSUME WorkspaceTyped, SettlesInv, NEW t \in Threads, Busy(t), ~Switching(t), ~ToWrite(t)
    PROVE  Steady /\ \A u \in Threads : ~Switching(u) /\ ~OpenKind(u) /\ ~CloseKind(u)
<1>1. ASSUME NEW u \in Threads PROVE ~Switching(u)
  <2>1. CASE u = t
    BY <2>1
  <2>2. CASE u # t
    <3>1. Switching(u) => Busy(u)
      BY KindsSwitch
    <3> QED BY <2>2, <3>1 DEF SettlesInv, Together
  <2> QED BY <2>1, <2>2
<1>2. \A u \in Threads : ~OpenKind(u) /\ ~CloseKind(u)
  BY <1>1, KindsSwitch
<1> QED BY <1>1, <1>2 DEF SettlesInv

\* A step of an open that is not its last one.
LEMMA OpenStep ==
    ASSUME WorkspaceTyped, NEW t \in Threads, NEW w, NEW x, NEW next, CarriesOn(t, w, x, next), \A u \in Threads : u # t => ~Busy(u),
           "health" \in next, "reclassify" \in next, "write" \notin next, w.guard = 0, x # "swap",
           Opens(t)', "unwatch" \in next \/ ~changed'
    PROVE  SettlesInv'
<1>1. thread'[t] = w /\ Left(t)' = next /\ Busy(t)' /\ \A y : At(t, y)' <=> y = x
  BY GoneOn
<1>2. OpenKind(t)' /\ ~CloseKind(t)' /\ Switching(t)' /\ ~ToWrite(t)' /\ ~Flushing(t)' /\ ~Setting(t)' /\ ~At(t, "swap")'
  BY <1>1 DEF OpenKind, CloseKind, Switching, ToWrite, Flushing, Setting
<1>3. Carries(t)' /\ Closes(t)'
  BY <1>2 DEF Carries, Closes
<1>4. (Switching(t) /\ "unwatch" \notin Left(t) => ~changed)'
  BY <1>1
<1>5. (Left(t) = {"reclassify", "swap"} /\ ws.root # "" => world.owner < ws.id)'
  <2>1. Left(t)' # {"reclassify", "swap"}
    BY <1>1
  <2> QED BY <2>1
<1>6. thread' = [thread EXCEPT ![t] = w]
  BY DEF CarriesOn
<1> QED BY <1>2, <1>3, <1>4, <1>5, <1>6, AloneStep

\* A step of a close that is not its last one.
LEMMA CloseStep ==
    ASSUME WorkspaceTyped, NEW t \in Threads, NEW w, NEW x, NEW next, CarriesOn(t, w, x, next), \A u \in Threads : u # t => ~Busy(u),
           "health" \notin next, "reclassify" \in next, "emit" \in next, "write" \notin next, w.guard = 0, x # "swap",
           Closes(t)', "unwatch" \in next \/ ~changed'
    PROVE  SettlesInv'
<1>1. thread'[t] = w /\ Left(t)' = next /\ Busy(t)' /\ \A y : At(t, y)' <=> y = x
  BY GoneOn
<1>2. ~OpenKind(t)' /\ CloseKind(t)' /\ Switching(t)' /\ ~ToWrite(t)' /\ ~Flushing(t)' /\ ~Setting(t)' /\ ~At(t, "swap")'
  BY <1>1 DEF OpenKind, CloseKind, Switching, ToWrite, Flushing, Setting
<1>3. Carries(t)' /\ Opens(t)'
  BY <1>2 DEF Carries, Opens
<1>4. (Switching(t) /\ "unwatch" \notin Left(t) => ~changed)'
  BY <1>1
<1>5. (Left(t) = {"reclassify", "swap"} /\ ws.root # "" => world.owner < ws.id)'
  <2>1. Left(t)' # {"reclassify", "swap"}
    BY <1>1
  <2> QED BY <2>1
<1>6. thread' = [thread EXCEPT ![t] = w]
  BY DEF CarriesOn
<1> QED BY <1>2, <1>3, <1>4, <1>5, <1>6, AloneStep

\* The first step of an open and of a close.
LEMMA SwitchBegins ==
    ASSUME WorkspaceTyped, NEW t \in Threads, Close(t) \/ \E root \in Roots : Open(t, root), ~crossed'
    PROVE  SettlesInv'
<1>1. \A u \in Threads : u # t => ~Busy(u)
  BY DEF Close, Open, Switches, Others
<1>2. CASE Close(t)
  <2>0. PICK next : next = {"unwatch", "unresolve", "unroot", "unid"} \union CloseLeft
    OBVIOUS
  <2>1. PICK w \in Works : CarriesOn(t, w, "unwatch", next) /\ w.root = "" /\ w.config = None /\ w.guard = 0
    BY <1>2, <2>0, CloseGoes
  <2>2. /\ "health" \notin next /\ "reclassify" \in next /\ "emit" \in next /\ "write" \notin next /\ "unwatch" \in next
        /\ {"set root", "set resolver", "set id", "watch", "rebuild"} \intersect next = {}
        /\ "unresolve" \in next /\ "unroot" \in next /\ "unid" \in next /\ "root of" \in next /\ "store" \in next
    BY <2>0 DEF CloseLeft, ReplaceLeft
  <2>3. thread'[t] = w /\ Left(t)' = next /\ \A y : At(t, y)' <=> y = "unwatch"
    BY <2>1, GoneOn
  <2>4. Closes(t)'
    BY <2>1, <2>2, <2>3 DEF Closes
  <2> QED BY <1>1, <2>1, <2>2, <2>4, CloseStep
<1>3. ASSUME NEW root \in Roots, Open(t, root) PROVE SettlesInv'
  <2>0. PICK next : next = {"set root", "set resolver", "set id", "unwatch", "watch"} \union OpenLeft
    OBVIOUS
  <2>1. PICK w \in Works : CarriesOn(t, w, "set root", next) /\ w.root = root /\ w.config = Parsed(disk[root]) /\ w.guard = 0
    BY <1>3, <2>0, OpenGoes
  <2>2. /\ "health" \in next /\ "reclassify" \in next /\ "emit" \in next /\ "write" \notin next /\ "unwatch" \in next
        /\ {"rebuild", "unresolve", "unroot", "unid"} \intersect next = {}
        /\ "set root" \in next /\ "set resolver" \in next /\ "set id" \in next /\ "store" \in next
    BY <2>0 DEF OpenLeft, ReplaceLeft
  <2>3. thread'[t] = w /\ Left(t)' = next /\ \A y : At(t, y)' <=> y = "set root"
    BY <2>1, GoneOn
  <2>4. disk' = disk
    BY <1>3 DEF Open
  <2>5. Opens(t)'
    BY <2>1, <2>2, <2>3, <2>4 DEF Opens
  <2> QED BY <1>1, <2>1, <2>2, <2>5, OpenStep
<1> QED BY <1>2, <1>3

-----------------------------------------------------------------------------
(* The steps of an open.                                                   *)

LEMMA OpenAlone ==
    ASSUME WorkspaceTyped, SettlesInv, NEW t \in Threads, OpenKind(t)
    PROVE  (\A u \in Threads : u # t => ~Busy(u)) /\ thread[t].guard = 0 /\ Switching(t) /\ ~At(t, "swap")
<1>1. Switching(t) /\ Left(t) # {"swap"}
  BY KindsSwitch
<1>2. Opens(t)
  BY DEF SettlesInv
<1> QED BY <1>1, <1>2, SwitchAlone DEF Opens

LEMMA CloseAlone ==
    ASSUME WorkspaceTyped, SettlesInv, NEW t \in Threads, CloseKind(t)
    PROVE  (\A u \in Threads : u # t => ~Busy(u)) /\ thread[t].guard = 0 /\ Switching(t) /\ ~At(t, "swap")
<1>1. Switching(t) /\ Left(t) # {"swap"}
  BY KindsSwitch
<1>2. Closes(t)
  BY DEF SettlesInv
<1> QED BY <1>1, <1>2, SwitchAlone DEF Closes

LEMMA SetRootKeeps ==
    ASSUME WorkspaceTyped, SettlesInv, NEW t \in Threads, SetRoot(t)
    PROVE  SettlesInv'
<1>0. PICK left, next :
        /\ left = {"set root", "set resolver", "set id", "unwatch", "watch"} \union OpenLeft
        /\ next = {"set resolver", "set id", "unwatch", "watch"} \union OpenLeft
  OBVIOUS
<1>1. PICK w \in Works : CarriesOn(t, w, "set resolver", next) /\ Keeps(t, w) /\ Left(t) = left
  BY <1>0, AtPlans, OpenSteps, AtGoes DEF SetRoot
<1>2. /\ "health" \in left /\ "health" \in next /\ "reclassify" \in next /\ "emit" \in next /\ "store" \in next /\ "write" \notin next
      /\ "unwatch" \in next /\ "set resolver" \in next /\ "set id" \in next
      /\ {"rebuild", "unresolve", "unroot", "unid"} \intersect next = {}
  BY <1>0 DEF OpenLeft, ReplaceLeft
<1>3. OpenKind(t) /\ Opens(t)
  BY <1>1, <1>2 DEF OpenKind, SettlesInv
<1>4. thread'[t] = w /\ Left(t)' = next /\ \A y : At(t, y)' <=> y = "set resolver"
  BY <1>1, GoneOn
<1>5. ws'.root = thread[t].root /\ disk' = disk
  BY DEF SetRoot, WorkspaceTyped, PlacesTyped, Spaces
<1>6. Opens(t)'
  BY <1>1, <1>2, <1>3, <1>4, <1>5 DEF Opens, Keeps
<1> QED BY <1>1, <1>2, <1>3, <1>6, OpenAlone, OpenStep DEF Keeps

LEMMA SetResolverKeeps ==
    ASSUME WorkspaceTyped, SettlesInv, NEW t \in Threads, SetResolver(t)
    PROVE  SettlesInv'
<1>0. PICK left, next :
        /\ left = {"set resolver", "set id", "unwatch", "watch"} \union OpenLeft
        /\ next = {"set id", "unwatch", "watch"} \union OpenLeft
  OBVIOUS
<1>1. PICK w \in Works : CarriesOn(t, w, "set id", next) /\ Keeps(t, w) /\ Left(t) = left
  BY <1>0, AtPlans, OpenSteps, AtGoes DEF SetResolver
<1>2. /\ "health" \in left /\ "set root" \notin left /\ "health" \in next /\ "reclassify" \in next /\ "emit" \in next
      /\ "store" \in next /\ "write" \notin next /\ "unwatch" \in next /\ "set id" \in next
      /\ {"rebuild", "unresolve", "unroot", "unid"} \intersect next = {}
  BY <1>0 DEF OpenLeft, ReplaceLeft
<1>3. OpenKind(t) /\ Opens(t)
  BY <1>1, <1>2 DEF OpenKind, SettlesInv
<1>4. thread'[t] = w /\ Left(t)' = next /\ \A y : At(t, y)' <=> y = "set id"
  BY <1>1, GoneOn
<1>5. thread[t].root \in Roots /\ ws.root = thread[t].root /\ thread[t].config = Parsed(disk[thread[t].root])
  BY <1>1, <1>2, <1>3 DEF Opens
<1>6. PICK a \in Anchors, n \in Nat : a = Effective(thread[t].root, thread[t].config) /\ n = Len(anchor)
  BY <1>5, TextTypes, LooseNumbers DEF WorkspaceTyped, Works
<1>7. anchor' = Append(anchor, a) /\ ws' = [ws EXCEPT !.resolver = n + 1] /\ disk' = disk /\ world' = world
  BY <1>6 DEF SetResolver
<1>8. ws'.root = ws.root /\ ws'.resolver = n + 1
  BY <1>7 DEF WorkspaceTyped, PlacesTyped, Spaces
<1>9. Len(anchor') = n + 1 /\ anchor'[n + 1] = a
  BY <1>6, <1>7, AppendProperties DEF WorkspaceTyped, PlacesTyped
<1>10. n + 1 > 0 /\ world.owner < n + 1
  <2>1. world.owner \in Nat /\ world.owner <= n
    BY <1>6 DEF WorkspaceTyped, PlacesTyped, Numbers, Worlds
  <2> QED BY <1>6, <2>1
<1>11. /\ ws'.resolver = Len(anchor') /\ Len(anchor') > 0 /\ anchor'[ws'.resolver] = Effective(ws'.root, w.config)
       /\ world'.owner < Len(anchor')
  BY <1>1, <1>5, <1>6, <1>7, <1>8, <1>9, <1>10 DEF Keeps
<1>12. w.root \in Roots /\ w.config = Parsed(disk'[w.root]) /\ ws'.root = w.root
  BY <1>1, <1>5, <1>7, <1>8 DEF Keeps
<1>13. Opens(t)'
  BY <1>2, <1>4, <1>11, <1>12 DEF Opens
<1> QED BY <1>1, <1>2, <1>3, <1>13, OpenAlone, OpenStep DEF Keeps

LEMMA SetIdKeeps ==
    ASSUME WorkspaceTyped, SettlesInv, NEW t \in Threads, SetId(t)
    PROVE  SettlesInv'
<1>0. PICK left, next : left = {"set id", "unwatch", "watch"} \union OpenLeft /\ next = {"unwatch", "watch"} \union OpenLeft
  OBVIOUS
<1>1. PICK w \in Works : CarriesOn(t, w, "unwatch", next) /\ Keeps(t, w) /\ Left(t) = left
  BY <1>0, AtPlans, OpenSteps, AtGoes DEF SetId
<1>2. /\ "health" \in left /\ "set root" \notin left /\ "set resolver" \notin left /\ "health" \in next /\ "reclassify" \in next
      /\ "emit" \in next /\ "store" \in next /\ "write" \notin next /\ "unwatch" \in next
      /\ {"rebuild", "unresolve", "unroot", "unid"} \intersect next = {}
  BY <1>0 DEF OpenLeft, ReplaceLeft
<1>3. OpenKind(t) /\ Opens(t)
  BY <1>1, <1>2 DEF OpenKind, SettlesInv
<1>4. thread'[t] = w /\ Left(t)' = next /\ \A y : At(t, y)' <=> y = "unwatch"
  BY <1>1, GoneOn
<1>5. ws'.root = ws.root /\ ws'.resolver = ws.resolver /\ ws'.id = Len(anchor) /\ disk' = disk /\ anchor' = anchor /\ world' = world
  BY DEF SetId, WorkspaceTyped, PlacesTyped, Spaces
<1>6. Opens(t)'
  BY <1>1, <1>2, <1>3, <1>4, <1>5 DEF Opens, Keeps
<1> QED BY <1>1, <1>2, <1>3, <1>6, OpenAlone, OpenStep DEF Keeps

LEMMA WatchKeeps ==
    ASSUME WorkspaceTyped, SettlesInv, NEW t \in Threads, Watch(t)
    PROVE  SettlesInv'
<1>0. PICK left, next : left = {"watch"} \union OpenLeft /\ next = OpenLeft
  OBVIOUS
<1>1. PICK w \in Works : CarriesOn(t, w, "read", next) /\ Keeps(t, w) /\ Left(t) = left
  BY <1>0, AtPlans, OpenSteps, AtGoes DEF Watch
<1>2. /\ "health" \in left /\ "set root" \notin left /\ "set resolver" \notin left /\ "set id" \notin left /\ "unwatch" \notin left
      /\ "health" \in next /\ "reclassify" \in next /\ "emit" \in next /\ "store" \in next /\ "write" \notin next
      /\ {"rebuild", "unresolve", "unroot", "unid"} \intersect next = {}
  BY <1>0 DEF OpenLeft, ReplaceLeft
<1>3. OpenKind(t) /\ Opens(t)
  BY <1>1, <1>2 DEF OpenKind, SettlesInv
<1>4. thread'[t] = w /\ Left(t)' = next /\ \A y : At(t, y)' <=> y = "read"
  BY <1>1, GoneOn
<1>5. /\ ws'.root = ws.root /\ ws'.resolver = ws.resolver /\ ws'.id = ws.id
      /\ ws'.watched = ws.root \/ (ws'.watched = ws.watched /\ ws'.watcher = ws.watcher)
      /\ disk' = disk /\ anchor' = anchor /\ world' = world
  BY DEF Watch, WorkspaceTyped, PlacesTyped, Spaces
<1>6. Opens(t)'
  <2>1. ws.watcher # 0 => ws.watched = ws.root
    BY <1>1, <1>2, <1>3 DEF Opens
  <2> QED BY <1>1, <1>2, <1>3, <1>4, <1>5, <2>1 DEF Opens, Keeps
<1>7. ~changed'
  <2>1. ~changed
    BY <1>1, <1>2, <1>3, OpenAlone DEF SettlesInv
  <2> QED BY <2>1 DEF Watch
<1> QED BY <1>1, <1>2, <1>3, <1>6, <1>7, OpenAlone, OpenStep DEF Keeps

LEMMA UnwatchKeeps ==
    ASSUME WorkspaceTyped, SettlesInv, NEW t \in Threads, Unwatch(t)
    PROVE  SettlesInv'
<1>1. /\ ws'.root = ws.root /\ ws'.resolver = ws.resolver /\ ws'.id = ws.id /\ ws'.watcher = 0
      /\ disk' = disk /\ anchor' = anchor /\ world' = world /\ ~changed'
  BY DEF Unwatch, WorkspaceTyped, PlacesTyped, Spaces
<1>2. Busy(t) /\ Does(t, Next(t)) /\ thread[t].todo \in Plans /\ thread[t].todo # <<>> /\ Head(thread[t].todo) = "unwatch"
  BY AtPlans DEF Unwatch
<1>3. ASSUME NEW left, left = {"unwatch", "watch"} \union OpenLeft, NEW next, next = {"watch"} \union OpenLeft,
             StepsAfter(thread[t].todo, left, "watch", next)
      PROVE  SettlesInv'
  <2>1. PICK w \in Works : CarriesOn(t, w, "watch", next) /\ Keeps(t, w) /\ Left(t) = left
    BY <1>2, <1>3, AtGoes
  <2>2. /\ "health" \in left /\ "set root" \notin left /\ "set resolver" \notin left /\ "set id" \notin left
        /\ "health" \in next /\ "reclassify" \in next /\ "emit" \in next /\ "store" \in next /\ "write" \notin next
        /\ {"rebuild", "unresolve", "unroot", "unid"} \intersect next = {}
    BY <1>3 DEF OpenLeft, ReplaceLeft
  <2>3. OpenKind(t) /\ Opens(t)
    BY <2>1, <2>2 DEF OpenKind, SettlesInv
  <2>4. thread'[t] = w /\ Left(t)' = next /\ \A y : At(t, y)' <=> y = "watch"
    BY <2>1, GoneOn
  <2>5. Opens(t)'
    BY <1>1, <2>1, <2>2, <2>3, <2>4 DEF Opens, Keeps
  <2> QED BY <1>1, <2>1, <2>2, <2>3, <2>5, OpenAlone, OpenStep DEF Keeps
<1>4. ASSUME NEW left, left = {"unwatch", "unresolve", "unroot", "unid"} \union CloseLeft,
             NEW next, next = {"unresolve", "unroot", "unid"} \union CloseLeft, StepsAfter(thread[t].todo, left, "unresolve", next)
      PROVE  SettlesInv'
  <2>1. PICK w \in Works : CarriesOn(t, w, "unresolve", next) /\ Keeps(t, w) /\ Left(t) = left
    BY <1>2, <1>4, AtGoes
  <2>2. /\ "health" \notin left /\ "reclassify" \in left /\ "emit" \in left
        /\ "health" \notin next /\ "reclassify" \in next /\ "emit" \in next /\ "write" \notin next /\ "store" \in next
        /\ "unresolve" \in next /\ "unroot" \in next /\ "unid" \in next /\ "root of" \in next
        /\ {"set root", "set resolver", "set id", "watch", "rebuild"} \intersect next = {}
    BY <1>4 DEF CloseLeft, ReplaceLeft
  <2>3. CloseKind(t) /\ Closes(t)
    BY <2>1, <2>2 DEF CloseKind, OpenKind, SettlesInv
  <2>4. thread'[t] = w /\ Left(t)' = next /\ \A y : At(t, y)' <=> y = "unresolve"
    BY <2>1, GoneOn
  <2>5. Closes(t)'
    BY <1>1, <2>1, <2>2, <2>3, <2>4 DEF Closes, Keeps
  <2> QED BY <1>1, <2>1, <2>2, <2>3, <2>5, CloseAlone, CloseStep DEF Keeps
<1> QED BY <1>2, <1>3, <1>4, CloseSteps

LEMMA ClearKeeps ==
    ASSUME WorkspaceTyped, SettlesInv, NEW t \in Threads, Clear(t)
    PROVE  SettlesInv'
<1>0. PICK r, n, i, l :
        /\ r = {"unresolve", "unroot", "unid"} \union CloseLeft /\ n = {"unroot", "unid"} \union CloseLeft
        /\ i = {"unid"} \union CloseLeft /\ l = CloseLeft
  OBVIOUS
<1>1. PICK x, left, next, w :
        /\ x \in {"unroot", "unid", "store"} /\ w \in Works
        /\ CarriesOn(t, w, x, next) /\ Keeps(t, w) /\ Left(t) = left
        /\ \/ x = "unroot" /\ left = r /\ next = n /\ ws' = [ws EXCEPT !.resolver = 0]
           \/ x = "unid" /\ left = n /\ next = i /\ ws' = [ws EXCEPT !.root = ""]
           \/ x = "store" /\ left = i /\ next = l /\ ws' = [ws EXCEPT !.id = 0]
  <2>1. CASE At(t, "unresolve") /\ ws' = [ws EXCEPT !.resolver = 0]
    <3>1. PICK w \in Works : CarriesOn(t, w, "unroot", n) /\ Keeps(t, w) /\ Left(t) = r
      BY <1>0, <2>1, AtPlans, CloseSteps, AtGoes DEF Clear
    <3> WITNESS "unroot", r, n, w
    <3> QED BY <2>1, <3>1
  <2>2. CASE At(t, "unroot") /\ ws' = [ws EXCEPT !.root = ""]
    <3>1. PICK w \in Works : CarriesOn(t, w, "unid", i) /\ Keeps(t, w) /\ Left(t) = n
      BY <1>0, <2>2, AtPlans, CloseSteps, AtGoes DEF Clear
    <3> WITNESS "unid", n, i, w
    <3> QED BY <2>2, <3>1
  <2>3. CASE At(t, "unid") /\ ws' = [ws EXCEPT !.id = 0]
    <3>1. PICK w \in Works : CarriesOn(t, w, "store", l) /\ Keeps(t, w) /\ Left(t) = i
      BY <1>0, <2>3, AtPlans, CloseSteps, AtGoes DEF Clear
    <3> WITNESS "store", i, l, w
    <3> QED BY <2>3, <3>1
  <2> QED BY <2>1, <2>2, <2>3 DEF Clear
<1>2. /\ "health" \notin left /\ "reclassify" \in left /\ "emit" \in left /\ "unwatch" \notin left
      /\ "health" \notin next /\ "reclassify" \in next /\ "emit" \in next /\ "write" \notin next /\ "store" \in next
      /\ "root of" \in next
      /\ {"set root", "set resolver", "set id", "watch", "rebuild"} \intersect next = {}
  BY <1>0, <1>1 DEF CloseLeft, ReplaceLeft
<1>3. CloseKind(t) /\ Closes(t)
  BY <1>1, <1>2 DEF CloseKind, OpenKind, SettlesInv
<1>4. thread'[t] = w /\ Left(t)' = next /\ \A y : At(t, y)' <=> y = x
  BY <1>1, GoneOn
<1>5. /\ ws'.watcher = ws.watcher
      /\ "unresolve" \notin next => ws'.resolver = 0
      /\ "unroot" \notin next => ws'.root = ""
      /\ "unid" \notin next => ws'.id = 0
  <2>1. /\ "unresolve" \notin left => ws.resolver = 0
        /\ "unroot" \notin left => ws.root = ""
    BY <1>1, <1>3 DEF Closes
  <2>2. ws \in Spaces
    BY DEF WorkspaceTyped, PlacesTyped
  <2>3. CASE x = "unroot"
    <3>1. left = r /\ next = n /\ ws' = [ws EXCEPT !.resolver = 0]
      BY <1>1, <2>3
    <3>2. "unroot" \in n /\ "unid" \in n
      BY <1>0
    <3> QED BY <2>2, <3>1, <3>2 DEF Spaces
  <2>4. CASE x = "unid"
    <3>1. left = n /\ next = i /\ ws' = [ws EXCEPT !.root = ""]
      BY <1>1, <2>4
    <3>2. "unid" \in i /\ "unresolve" \notin n
      BY <1>0 DEF CloseLeft, ReplaceLeft
    <3> QED BY <2>1, <2>2, <3>1, <3>2 DEF Spaces
  <2>5. CASE x = "store"
    <3>1. left = i /\ next = l /\ ws' = [ws EXCEPT !.id = 0]
      BY <1>1, <2>5
    <3>2. "unresolve" \notin i /\ "unroot" \notin i
      BY <1>0 DEF CloseLeft, ReplaceLeft
    <3> QED BY <2>1, <2>2, <3>1, <3>2 DEF Spaces
  <2> QED BY <1>1, <2>3, <2>4, <2>5
<1>6. Closes(t)'
  <2>1. thread[t].config = None /\ ws.watcher = 0
    BY <1>1, <1>2, <1>3 DEF Closes
  <2> QED BY <1>1, <1>2, <1>4, <1>5, <2>1 DEF Closes, Keeps
<1>7. ~changed' /\ x # "swap"
  <2>1. ~changed
    BY <1>1, <1>2, <1>3, CloseAlone DEF SettlesInv
  <2> QED BY <1>1, <2>1 DEF Clear
<1> QED BY <1>1, <1>2, <1>3, <1>6, <1>7, CloseAlone, CloseStep DEF Keeps

\* An open or a close that replaces the config still has its end to do.
LEMMA EndKinds ==
    ASSUME WorkspaceTyped, SettlesInv, NEW t \in Threads, Switching(t), NEW e \in EndSets, NEW left, Left(t) = left \union e,
           left \subseteq ReplaceLeft, "emit" \in left
    PROVE  /\ "reclassify" \in e /\ (\A u \in Threads : u # t => ~Busy(u)) /\ thread[t].guard = 0
           /\ e \subseteq {"health", "reclassify", "swap"}
           /\ \/ OpenKind(t) /\ Opens(t) /\ "health" \in e
              \/ CloseKind(t) /\ Closes(t) /\ "health" \notin e
<1>1. "reclassify" \notin left /\ "swap" \notin left /\ "health" \notin left
  BY DEF ReplaceLeft
<1>2. "reclassify" \in e
  BY <1>1 DEF Switching
<1>3. OpenKind(t) \/ CloseKind(t)
  BY <1>2 DEF OpenKind, CloseKind
<1>4. Opens(t) /\ Closes(t)
  BY DEF SettlesInv
<1>5. OpenKind(t) <=> "health" \in e
  BY <1>1 DEF OpenKind
<1>6. CloseKind(t) => ~OpenKind(t)
  BY DEF CloseKind
<1>7. (\A u \in Threads : u # t => ~Busy(u)) /\ thread[t].guard = 0
  BY <1>3, OpenAlone, CloseAlone
<1>8. e \subseteq {"health", "reclassify", "swap"}
  BY DEF EndSets
<1> QED BY <1>2, <1>3, <1>4, <1>5, <1>6, <1>7, <1>8

LEMMA OpenReadKeeps ==
    ASSUME WorkspaceTyped, SettlesInv, NEW t \in Threads, Read(t), OpenKind(t)
    PROVE  SettlesInv'
<1>1. Opens(t) /\ thread[t].guard = 0
  BY OpenAlone DEF SettlesInv
<1>2. At(t, "read")
  BY DEF Read
<1>3. {"set root", "set resolver", "set id", "unwatch"} \intersect Left(t) = {}
  <2>1. \/ Left(t) = {"read"} \union ReplaceLeft \/ Left(t) = OpenLeft
    BY <1>2, AtPlans, ReplaceSteps DEF StepsAfter, Left
  <2> QED BY <2>1 DEF OpenLeft, ReplaceLeft
<1>4. ws.root = thread[t].root /\ ws.root \in Roots /\ ws.root # ""
  BY <1>1, <1>3, WorkspaceAssumption DEF Opens
<1>5. PICK next : next = ReplaceLeft \union {"health", "reclassify", "swap"}
  OBVIOUS
<1>6. PICK w \in Works : /\ CarriesOn(t, w, "store", next) /\ w.root = thread[t].root /\ w.config = Parsed(disk[ws.root])
                         /\ w.guard = thread[t].guard
  <2>1. Left(t) # {"read"} \union ReplaceLeft
    <3>1. "health" \notin {"read"} \union ReplaceLeft
      BY DEF ReplaceLeft
    <3>2. "health" \in Left(t)
      BY DEF OpenKind
    <3> QED BY <3>1, <3>2
  <2> QED BY <1>1, <1>4, <1>5, <2>1, ReadGoes
<1>7. /\ "health" \in next /\ "reclassify" \in next /\ "emit" \in next /\ "store" \in next /\ "write" \notin next
      /\ {"rebuild", "unresolve", "unroot", "unid"} \intersect next = {}
  BY <1>5 DEF ReplaceLeft
<1>8. thread'[t] = w /\ Left(t)' = next /\ \A y : At(t, y)' <=> y = "store"
  BY <1>6, GoneOn
<1>9. ws' = ws /\ anchor' = anchor /\ disk' = disk /\ world' = world /\ changed' = changed
  BY DEF Read
<1>10. Opens(t)'
  BY <1>1, <1>3, <1>4, <1>6, <1>7, <1>8, <1>9 DEF Opens
<1>11. ~changed'
  <2>1. Switching(t)
    BY KindsSwitch
  <2> QED BY <1>3, <1>9, <2>1 DEF SettlesInv
<1> QED BY <1>1, <1>6, <1>7, <1>10, <1>11, OpenAlone, OpenStep

LEMMA StoreGoes ==
    ASSUME WorkspaceTyped, NEW t \in Threads, Store(t)
    PROVE  \E e \in EndSets, w \in Works :
              Left(t) = ReplaceLeft \union e /\ CarriesOn(t, w, "root of", {"root of", "anchor", "emit"} \union e) /\ Keeps(t, w)
<1>1. At(t, "store") /\ Does(t, Next(t))
  BY DEF Store
<1>2. PICK e \in EndSets : StepsAfter(thread[t].todo, ReplaceLeft \union e, "root of", {"root of", "anchor", "emit"} \union e)
  BY <1>1, AtPlans, ReplaceSteps
<1> QED BY <1>1, <1>2, AtPlans, AtGoes

LEMMA StoreSwitching ==
    ASSUME WorkspaceTyped, SettlesInv, NEW t \in Threads, Store(t), Switching(t)
    PROVE  SettlesInv'
<1>1. PICK e \in EndSets, w \in Works :
        Left(t) = ReplaceLeft \union e /\ CarriesOn(t, w, "root of", {"root of", "anchor", "emit"} \union e) /\ Keeps(t, w)
  BY StoreGoes
<1>0. PICK left, next : left = ReplaceLeft /\ next = {"root of", "anchor", "emit"} \union e
  OBVIOUS
<1>11. Left(t) = left \union e /\ CarriesOn(t, w, "root of", next)
  BY <1>0, <1>1
<1>2. "emit" \in left /\ left \subseteq ReplaceLeft
  BY <1>0 DEF ReplaceLeft
<1>3. /\ "reclassify" \in e /\ (\A u \in Threads : u # t => ~Busy(u)) /\ thread[t].guard = 0
      /\ e \subseteq {"health", "reclassify", "swap"}
      /\ \/ OpenKind(t) /\ Opens(t) /\ "health" \in e
         \/ CloseKind(t) /\ Closes(t) /\ "health" \notin e
  BY <1>2, <1>11, EndKinds
<1>4. /\ "reclassify" \in next /\ "emit" \in next /\ "root of" \in next /\ "write" \notin next /\ ("health" \in next <=> "health" \in e)
      /\ {"set root", "set resolver", "set id", "unwatch", "watch", "rebuild", "unresolve", "unroot", "unid"}
            \intersect (Left(t) \union next) = {}
  BY <1>0, <1>3, <1>11 DEF ReplaceLeft
<1>5. thread'[t] = w /\ Left(t)' = next /\ \A y : At(t, y)' <=> y = "root of"
  BY <1>11, GoneOn
<1>6. ws' = ws /\ anchor' = anchor /\ disk' = disk /\ world' = world /\ changed' = changed /\ cache' = thread[t].config
  BY DEF Store
<1>7. ~changed'
  BY <1>4, <1>6 DEF SettlesInv
<1>8. CASE OpenKind(t) /\ Opens(t) /\ "health" \in e
  <2>1. Opens(t)'
    BY <1>1, <1>4, <1>5, <1>6, <1>8 DEF Opens, Keeps
  <2> QED BY <1>1, <1>11, <1>3, <1>4, <1>7, <1>8, <2>1, OpenStep DEF Keeps
<1>9. CASE CloseKind(t) /\ Closes(t) /\ "health" \notin e
  <2>1. Closes(t)'
    BY <1>1, <1>4, <1>5, <1>6, <1>9 DEF Closes, Keeps
  <2> QED BY <1>1, <1>11, <1>3, <1>4, <1>7, <1>9, <2>1, CloseStep DEF Keeps
<1> QED BY <1>3, <1>8, <1>9

LEMMA RootOfSwitching ==
    ASSUME WorkspaceTyped, SettlesInv, NEW t \in Threads, RootOf(t), Switching(t)
    PROVE  SettlesInv'
<1>1. PICK e \in EndSets, w \in Works :
        /\ Left(t) = {"root of", "anchor", "emit"} \union e /\ CarriesOn(t, w, "anchor", {"anchor", "emit"} \union e)
        /\ w.root = ws.root /\ w.config = thread[t].config /\ w.guard = thread[t].guard
  BY RootOfGoes
<1>0. PICK left, next : left = {"root of", "anchor", "emit"} /\ next = {"anchor", "emit"} \union e
  OBVIOUS
<1>11. Left(t) = left \union e /\ CarriesOn(t, w, "anchor", next)
  BY <1>0, <1>1
<1>2. "emit" \in left /\ left \subseteq ReplaceLeft
  BY <1>0 DEF ReplaceLeft
<1>3. /\ "reclassify" \in e /\ (\A u \in Threads : u # t => ~Busy(u)) /\ thread[t].guard = 0
      /\ e \subseteq {"health", "reclassify", "swap"}
      /\ \/ OpenKind(t) /\ Opens(t) /\ "health" \in e
         \/ CloseKind(t) /\ Closes(t) /\ "health" \notin e
  BY <1>2, <1>11, EndKinds
<1>4. /\ "reclassify" \in next /\ "emit" \in next /\ "write" \notin next /\ ("health" \in next <=> "health" \in e)
      /\ {"set root", "set resolver", "set id", "unwatch", "watch", "rebuild", "unresolve", "unroot", "unid", "store"}
            \intersect (Left(t) \union next) = {}
  BY <1>0, <1>3, <1>11
<1>5. thread'[t] = w /\ Left(t)' = next /\ \A y : At(t, y)' <=> y = "anchor"
  BY <1>11, GoneOn
<1>6. ws' = ws /\ anchor' = anchor /\ disk' = disk /\ world' = world /\ changed' = changed /\ cache' = cache
  BY DEF RootOf
<1>7. ~changed'
  BY <1>4, <1>6 DEF SettlesInv
<1>8. CASE OpenKind(t) /\ Opens(t) /\ "health" \in e
  <2>1. Opens(t)'
    BY <1>1, <1>4, <1>5, <1>6, <1>8 DEF Opens
  <2> QED BY <1>1, <1>11, <1>3, <1>4, <1>7, <1>8, <2>1, OpenStep
<1>9. CASE CloseKind(t) /\ Closes(t) /\ "health" \notin e
  <2>1. Closes(t)'
    BY <1>1, <1>4, <1>5, <1>6, <1>9 DEF Closes
  <2> QED BY <1>1, <1>11, <1>3, <1>4, <1>7, <1>9, <2>1, CloseStep
<1> QED BY <1>3, <1>8, <1>9

LEMMA AnchorSwitching ==
    ASSUME WorkspaceTyped, SettlesInv, NEW t \in Threads, Anchor(t), Switching(t)
    PROVE  SettlesInv'
<1>1. PICK e \in EndSets, w \in Works :
        /\ Left(t) = {"anchor", "emit"} \union e /\ Keeps(t, w)
        /\ ~Moves(t) => CarriesOn(t, w, "emit", {"emit"} \union e) /\ anchor' = anchor
  BY AnchorGoes
<1>0. PICK left, next : left = {"anchor", "emit"} /\ next = {"emit"} \union e
  OBVIOUS
<1>2. "emit" \in left /\ left \subseteq ReplaceLeft /\ Left(t) = left \union e
  BY <1>0, <1>1 DEF ReplaceLeft
<1>3. /\ "reclassify" \in e /\ (\A u \in Threads : u # t => ~Busy(u)) /\ thread[t].guard = 0
      /\ e \subseteq {"health", "reclassify", "swap"}
      /\ \/ OpenKind(t) /\ Opens(t) /\ "health" \in e
         \/ CloseKind(t) /\ Closes(t) /\ "health" \notin e
  BY <1>2, EndKinds
<1>4. /\ "reclassify" \in next /\ "emit" \in next /\ "write" \notin next /\ ("health" \in next <=> "health" \in e)
      /\ {"set root", "set resolver", "set id", "unwatch", "watch", "rebuild", "unresolve", "unroot", "unid", "store", "root of"}
            \intersect (Left(t) \union next) = {}
  BY <1>0, <1>2, <1>3
<1>5. ~Moves(t)
  <2>1. CASE OpenKind(t) /\ Opens(t)
    BY <1>4, <2>1 DEF Opens, Moves
  <2>2. CASE CloseKind(t) /\ Closes(t)
    BY <1>4, <2>2 DEF Closes, Moves
  <2> QED BY <1>3, <2>1, <2>2
<1>6. CarriesOn(t, w, "emit", next) /\ w.root = thread[t].root /\ w.config = thread[t].config /\ w.guard = 0
  BY <1>0, <1>1, <1>3, <1>5 DEF Keeps
<1>7. thread'[t] = w /\ Left(t)' = next /\ \A y : At(t, y)' <=> y = "emit"
  BY <1>6, GoneOn
<1>8. ws' = ws /\ anchor' = anchor /\ disk' = disk /\ world' = world /\ changed' = changed /\ cache' = cache
  BY <1>1, <1>5 DEF Anchor
<1>9. ~changed'
  BY <1>4, <1>8 DEF SettlesInv
<1>10. CASE OpenKind(t) /\ Opens(t) /\ "health" \in e
  <2>1. Opens(t)'
    BY <1>4, <1>6, <1>7, <1>8, <1>10 DEF Opens
  <2> QED BY <1>3, <1>4, <1>6, <1>9, <1>10, <2>1, OpenStep
<1>11. CASE CloseKind(t) /\ Closes(t) /\ "health" \notin e
  <2>1. Closes(t)'
    BY <1>4, <1>6, <1>7, <1>8, <1>11 DEF Closes
  <2> QED BY <1>3, <1>4, <1>6, <1>9, <1>11, <2>1, CloseStep
<1> QED BY <1>3, <1>10, <1>11

LEMMA EmitGoes ==
    ASSUME WorkspaceTyped, NEW t \in Threads, Emit(t)
    PROVE  \/ Left(t) = {"emit"} /\ thread' = [thread EXCEPT ![t] = Idle]
           \/ /\ Left(t) = {"emit", "reclassify", "swap"}
              /\ \E w \in Works : CarriesOn(t, w, "reclassify", {"reclassify", "swap"}) /\ Keeps(t, w)
           \/ /\ Left(t) = {"emit", "health", "reclassify", "swap"}
              /\ \E w \in Works : CarriesOn(t, w, "health", {"health", "reclassify", "swap"}) /\ Keeps(t, w)
<1>1. At(t, "emit") /\ Does(t, Next(t))
  BY DEF Emit
<1>2. CASE Range(thread[t].todo) = {"emit"} /\ Tail(thread[t].todo) = <<>>
  <2>1. Next(t) = Idle
    BY <1>2 DEF Next, Rest
  <2> QED BY <1>1, <1>2, <2>1 DEF Does, Left
<1>3. CASE StepsAfter(thread[t].todo, {"emit", "reclassify", "swap"}, "reclassify", {"reclassify", "swap"})
  BY <1>1, <1>3, AtPlans, AtGoes
<1>4. CASE StepsAfter(thread[t].todo, {"emit", "health", "reclassify", "swap"}, "health", {"health", "reclassify", "swap"})
  BY <1>1, <1>4, AtPlans, AtGoes
<1> QED BY <1>1, <1>2, <1>3, <1>4, AtPlans, ReplaceSteps

\* What a thread with the end of its command ahead is.
LEMMA EndStep ==
    ASSUME WorkspaceTyped, NEW t \in Threads, NEW w, CarriesOn(t, w, "reclassify", {"reclassify", "swap"}),
           \A u \in Threads : u # t => ~Busy(u), w.guard = 0, ~changed', (ws.root # "" => world.owner < ws.id)', Steady'
    PROVE  SettlesInv'
<1>0. PICK x, next : x = "reclassify" /\ next = {"reclassify", "swap"} /\ CarriesOn(t, w, x, next)
  OBVIOUS
<1>1. thread'[t] = w /\ Left(t)' = next /\ Busy(t)' /\ \A y : At(t, y)' <=> y = x
  BY <1>0, GoneOn
<1>7. x # "swap" /\ "health" \notin next /\ "emit" \notin next /\ "reclassify" \in next /\ "write" \notin next
  BY <1>0
<1>2. ~OpenKind(t)' /\ ~CloseKind(t)' /\ Switching(t)' /\ ~ToWrite(t)' /\ ~Flushing(t)' /\ ~Setting(t)' /\ ~At(t, "swap")'
  BY <1>1, <1>7 DEF OpenKind, CloseKind, Switching, ToWrite, Flushing, Setting
<1>3. Carries(t)' /\ Opens(t)' /\ Closes(t)'
  BY <1>2 DEF Carries, Opens, Closes
<1>4. thread' = [thread EXCEPT ![t] = w]
  BY DEF CarriesOn
<1>5. (Switching(t) /\ "unwatch" \notin Left(t) => ~changed)'
  OBVIOUS
<1>6. (Left(t) = {"reclassify", "swap"} /\ ws.root # "" => world.owner < ws.id)'
  OBVIOUS
<1> QED BY <1>2, <1>3, <1>4, <1>5, <1>6, AloneStep

LEMMA EmitSwitching ==
    ASSUME WorkspaceTyped, SettlesInv, NEW t \in Threads, Emit(t), Switching(t)
    PROVE  SettlesInv'
<1>1. ws' = ws /\ anchor' = anchor /\ disk' = disk /\ world' = world /\ changed' = changed /\ cache' = cache /\ shown' = thread[t].config
  BY DEF Emit
<1>2. {"set root", "set resolver", "set id", "unwatch", "watch", "rebuild", "unresolve", "unroot", "unid", "store", "root of"}
            \intersect Left(t) = {}
  BY EmitGoes
<1>3. ~changed'
  BY <1>1, <1>2 DEF SettlesInv
<1>4. CASE Left(t) = {"emit"}
  BY <1>4 DEF Switching
<1>5. ASSUME Left(t) = {"emit", "reclassify", "swap"},
             NEW w \in Works, CarriesOn(t, w, "reclassify", {"reclassify", "swap"}), Keeps(t, w)
      PROVE  SettlesInv'
  <2>1. CloseKind(t) /\ Closes(t)
    BY <1>5 DEF CloseKind, OpenKind, SettlesInv
  <2>2. (\A u \in Threads : u # t => ~Busy(u)) /\ thread[t].guard = 0
    BY <2>1, CloseAlone
  <2>3. ws.root = "" /\ ws.resolver = 0 /\ ws.id = 0 /\ ws.watcher = 0 /\ cache = None /\ thread[t].config = None
    BY <1>2, <2>1 DEF Closes
  <2>4. Steady' /\ ws'.root = ""
    BY <1>1, <2>3 DEF Steady
  <2> QED BY <1>3, <1>5, <2>2, <2>4, EndStep DEF Keeps
<1>6. ASSUME Left(t) = {"emit", "health", "reclassify", "swap"},
             NEW w \in Works, CarriesOn(t, w, "health", {"health", "reclassify", "swap"}), Keeps(t, w)
      PROVE  SettlesInv'
  <2>0. PICK next : next = {"health", "reclassify", "swap"}
    OBVIOUS
  <2>1. OpenKind(t) /\ Opens(t)
    BY <1>6 DEF OpenKind, SettlesInv
  <2>2. (\A u \in Threads : u # t => ~Busy(u)) /\ thread[t].guard = 0
    BY <2>1, OpenAlone
  <2>3. CarriesOn(t, w, "health", next) /\ w.guard = 0 /\ w.root = thread[t].root /\ w.config = thread[t].config
    BY <1>6, <2>0, <2>2 DEF Keeps
  <2>4. thread'[t] = w /\ Left(t)' = next /\ \A y : At(t, y)' <=> y = "health"
    BY <2>3, GoneOn
  <2>5. "health" \in next /\ "reclassify" \in next /\ "write" \notin next /\ {"rebuild", "unresolve", "unroot", "unid"} \intersect next = {}
    BY <2>0
  <2>6. Opens(t)'
    BY <1>1, <1>2, <2>1, <2>3, <2>4, <2>5 DEF Opens
  <2> QED BY <1>3, <2>2, <2>3, <2>5, <2>6, OpenStep
<1> QED BY <1>4, <1>5, <1>6, EmitGoes

LEMMA HealthKeeps ==
    ASSUME WorkspaceTyped, SettlesInv, NEW t \in Threads, Health(t)
    PROVE  SettlesInv'
<1>1. /\ ws' = ws /\ anchor' = anchor /\ disk' = disk /\ world' = world /\ changed' = changed /\ cache' = cache /\ shown' = shown
      /\ flag' = (ws.watcher = 0)
  BY DEF Health
<1>2. PICK w \in Works : /\ CarriesOn(t, w, "reclassify", {"reclassify", "swap"}) /\ Keeps(t, w)
                         /\ Left(t) = {"health", "reclassify", "swap"}
  <2>1. At(t, "health") /\ Does(t, Next(t))
    BY DEF Health
  <2>2. StepsAfter(thread[t].todo, {"health", "reclassify", "swap"}, "reclassify", {"reclassify", "swap"})
    BY <2>1, AtPlans, OpenSteps
  <2> QED BY <2>1, <2>2, AtPlans, AtGoes
<1>3. OpenKind(t) /\ Opens(t)
  BY <1>2 DEF OpenKind, SettlesInv
<1>4. (\A u \in Threads : u # t => ~Busy(u)) /\ thread[t].guard = 0 /\ Switching(t)
  BY <1>3, OpenAlone
<1>5. /\ ws.root \in Roots /\ ws.root # "" /\ thread[t].config = Current
      /\ ws.resolver = Len(anchor) /\ ws.id = Len(anchor) /\ Len(anchor) > 0 /\ world.owner < Len(anchor)
      /\ anchor[ws.resolver] = Effective(ws.root, thread[t].config) /\ cache = thread[t].config /\ shown = thread[t].config
      /\ ws.watcher # 0 => ws.watched = ws.root
  BY <1>2, <1>3, WorkspaceAssumption DEF Opens, Current
<1>6. ~changed'
  BY <1>1, <1>2, <1>4 DEF SettlesInv
<1>7. Current' = Current
  BY <1>1 DEF Current
<1>8. Told(cache = Current, "store")' /\ Told(shown = Current, "emit")' /\ Told(anchor[ws.resolver] = Effective(ws.root, Current), "anchor")'
  BY <1>1, <1>5, <1>7 DEF Told
<1>9. Steady'
  BY <1>1, <1>5, <1>8 DEF Steady
<1>10. (ws.root # "" => world.owner < ws.id)'
  BY <1>1, <1>5
<1> QED BY <1>2, <1>4, <1>6, <1>9, <1>10, EndStep DEF Keeps

-----------------------------------------------------------------------------
(* Steps beside others.                                                    *)

\* What holds at a step of thread t, when its place among the others does.
LEMMA PlainStep ==
    ASSUME WorkspaceTyped, SettlesInv, NEW t \in Threads, NEW w, thread' = [thread EXCEPT ![t] = w],
           ~Switching(t)', ~OpenKind(t)', ~CloseKind(t)',
           \A u \in Threads : u # t /\ Switching(u) => Left(u) = {"swap"} /\ (Busy(t)' => ToWrite(t)') /\ ~changed',
           \A u \in Threads : u # t => ~(Flushing(t)' /\ Flushing(u)) /\ ~(Setting(t)' /\ Setting(u)),
           \A u \in Threads : Carries(u)',
           Steady', smeared' \/ WorldFollows'
    PROVE  SettlesInv'
<1>1. ASSUME NEW u \in Threads, u # t
      PROVE  /\ Left(u)' = Left(u) /\ (Busy(u)' <=> Busy(u)) /\ (Switching(u)' <=> Switching(u)) /\ (ToWrite(u)' <=> ToWrite(u))
             /\ (Flushing(u)' <=> Flushing(u)) /\ (Setting(u)' <=> Setting(u))
  BY <1>1, OthersStay
<1>2. ASSUME NEW u \in Threads PROVE ~OpenKind(u)' /\ ~CloseKind(u)'
  <2>1. CASE u = t
    BY <2>1
  <2>2. CASE u # t
    <3>1. (OpenKind(u)' <=> OpenKind(u)) /\ (CloseKind(u)' <=> CloseKind(u))
      BY <2>2, OthersStay
    <3>2. ~OpenKind(u) /\ ~CloseKind(u)
      BY <2>2, KindsSwitch
    <3> QED BY <3>1, <3>2
  <2> QED BY <2>1, <2>2
<1>3. Together'
  <2> SUFFICES ASSUME NEW u \in Threads, NEW v \in Threads, u # v, Busy(u)', Busy(v)'
               PROVE  /\ Switching(u)' => (Left(u) = {"swap"})' /\ ToWrite(v)'
                      /\ ~(Flushing(u)' /\ Flushing(v)') /\ ~(Setting(u)' /\ Setting(v)')
    BY DEF Together
  <2>1. CASE u = t
    BY <1>1, <2>1
  <2>2. CASE v = t
    BY <1>1, <2>2
  <2>3. CASE u # t /\ v # t
    BY <1>1, <2>3 DEF SettlesInv, Together
  <2> QED BY <2>1, <2>2, <2>3
<1>4. \A u \in Threads : (Carries(u) /\ Opens(u) /\ Closes(u))'
  BY <1>2 DEF Opens, Closes
<1>5. ASSUME NEW u \in Threads
      PROVE  /\ (Switching(u) /\ "unwatch" \notin Left(u) => ~changed)'
             /\ (Left(u) = {"reclassify", "swap"} /\ ws.root # "" => world.owner < ws.id)'
  <2>1. (Left(u) = {"reclassify", "swap"})' => Switching(u)'
    BY DEF Switching
  <2>2. CASE u = t
    BY <2>1, <2>2
  <2>3. CASE u # t
    <3>1. Left(u)' = Left(u) /\ (Switching(u)' <=> Switching(u))
      BY <1>1, <2>3
    <3>2. Switching(u) => Left(u) = {"swap"} /\ ~changed'
      BY <2>3
    <3>3. {"swap"} # {"reclassify", "swap"}
      OBVIOUS
    <3> QED BY <2>1, <3>1, <3>2, <3>3
  <2> QED BY <2>2, <2>3
<1> QED BY <1>3, <1>4, <1>5 DEF SettlesInv

\* What the others carry is still so when neither the workspace nor the disk changes.
LEMMA CarriesStay ==
    ASSUME WorkspaceTyped, SettlesInv, NEW t \in Threads, NEW w, thread' = [thread EXCEPT ![t] = w],
           ws' = ws, disk' = disk, \A u \in Threads : u # t /\ Flushing(u) /\ changed => changed'
    PROVE  \A u \in Threads : u # t => Carries(u)'
<1> SUFFICES ASSUME NEW u \in Threads, u # t PROVE Carries(u)'
  OBVIOUS
<1>1. /\ thread'[u] = thread[u] /\ Left(u)' = Left(u) /\ (Switching(u)' <=> Switching(u)) /\ (ToWrite(u)' <=> ToWrite(u))
      /\ (Flushing(u)' <=> Flushing(u)) /\ (Setting(u)' <=> Setting(u))
  BY OthersStay
<1>2. Carries(u) /\ Current' = Current
  BY DEF SettlesInv, Current
<1> QED BY <1>1, <1>2 DEF Carries

\* Nothing that was to be told is forgotten.
LEMMA SteadyStays ==
    ASSUME Steady, ws' = ws, anchor' = anchor, disk' = disk, cache' = cache, shown' = shown, flag' = flag, changed => changed',
           \A u \in Threads, step \in {"store", "emit", "anchor"} :
              step \in Left(u) /\ ~ToWrite(u) => \E v \in Threads : step \in Left(v)' /\ ~ToWrite(v)'
    PROVE  Steady'
<1>1. Current' = Current
  BY DEF Current
<1>2. Told(cache = Current, "store") => Told(cache = Current, "store")'
  BY <1>1 DEF Told
<1>3. Told(shown = Current, "emit") => Told(shown = Current, "emit")'
  BY <1>1 DEF Told
<1>4. Told(anchor[ws.resolver] = Effective(ws.root, Current), "anchor") => Told(anchor[ws.resolver] = Effective(ws.root, Current), "anchor")'
  BY <1>1 DEF Told
<1> QED BY <1>2, <1>3, <1>4 DEF Steady

LEMMA NatLess == \A n \in Nat : ~(n < n) /\ (n > 0 => n # 0)
OBVIOUS

LEMMA ReclassifyKeeps ==
    ASSUME WorkspaceTyped, SettlesInv, NEW t \in Threads, Reclassify(t)
    PROVE  SettlesInv'
<1>1. PICK owner : owner = IF ws.root = Home THEN ws.id ELSE 0
  OBVIOUS
<1>2. /\ Left(t) = {"reclassify", "swap"}
      /\ owner = world.owner => thread' = [thread EXCEPT ![t] = Idle]
  BY <1>1, ReclassifyGoes
<1>3. Switching(t) /\ Left(t) # {"swap"} /\ ~OpenKind(t) /\ ~CloseKind(t) /\ ~ToWrite(t)
  BY <1>2 DEF Switching, OpenKind, CloseKind, ToWrite
<1>4. (\A u \in Threads : u # t => ~Busy(u)) /\ thread[t].guard = 0
  BY <1>3, SwitchAlone
<1>5. UNCHANGED <<ws, anchor, disk, cache, shown, flag, world, changed, smeared>>
  BY DEF Reclassify
<1>6. ~changed' /\ (ws.root # "" => world.owner < ws.id)
  BY <1>2, <1>3, <1>5 DEF SettlesInv
<1>7. Steady
  <2>1. \A u \in Threads : ~OpenKind(u) /\ ~CloseKind(u)
    BY <1>3, <1>4, RestsNow
  <2> QED BY <2>1 DEF SettlesInv
<1>8. Steady'
  <2>1. \A u \in Threads, step \in {"store", "emit", "anchor"} : step \notin Left(u)
    BY <1>2, <1>4, RestsNow
  <2> QED BY <1>5, <1>7, <2>1, SteadyStays
<1>9. Target' = Target
  BY <1>5 DEF Target
<1>10. world \in Worlds /\ world.owner \in Nat /\ (world.owner = 0 => world = Loose) /\ ws.id \in Nat /\ Home # ""
  BY TextTypes DEF WorkspaceTyped, PlacesTyped, Numbers, Worlds, Spaces
<1>11. CASE owner = world.owner
  <2>1. ws.root # Home
    <3>1. CASE ws.root = Home
      <4>1. world.owner < ws.id /\ world.owner = ws.id
        BY <1>1, <1>6, <1>10, <1>11, <3>1
      <4> QED BY <1>10, <4>1, NatLess
    <3> QED BY <3>1
  <2>2. world = Loose
    BY <1>1, <1>10, <1>11, <2>1
  <2>3. Near' /\ (world = Target)'
    BY <1>5, <2>1, <2>2 DEF Near, Target
  <2>4. thread' = [thread EXCEPT ![t] = Idle] /\ ~Busy(t)'
    <3>1. thread' = [thread EXCEPT ![t] = Idle]
      BY <1>2, <1>11
    <3>2. thread'[t].todo = <<>>
      BY <3>1, ThreadIs, WorkTypes
    <3> QED BY <3>1, <3>2 DEF Busy
  <2>5. /\ Left(t)' = {} /\ ~OpenKind(t)' /\ ~CloseKind(t)' /\ ~Switching(t)' /\ ~ToWrite(t)' /\ ~Flushing(t)' /\ ~Setting(t)'
        /\ ~At(t, "swap")'
    BY <2>4, RestsThen
  <2>6. Carries(t)' /\ Opens(t)' /\ Closes(t)'
    BY <2>5 DEF Carries, Opens, Closes
  <2>7. (Left(t) = {"reclassify", "swap"} /\ ws.root # "" => world.owner < ws.id)'
    BY <2>5
  <2> QED BY <1>4, <1>6, <1>8, <2>3, <2>4, <2>5, <2>6, <2>7, AloneStep
<1>12. CASE owner # world.owner
  <2>0. PICK x, next : x = "swap" /\ next = {"swap"}
    OBVIOUS
  <2>1. PICK w \in Works :
          /\ CarriesOn(t, w, x, next) /\ w.guard = 0
          /\ owner = 0 \/ ws.resolver = 0 => w.built = Loose
          /\ ~(owner = 0 \/ ws.resolver = 0) => w.built = [owner |-> owner, resolver |-> ws.resolver, at |-> anchor[ws.resolver]]
    BY <1>1, <1>4, <1>12, <2>0, ReclassifyGoes
  <2>2. w.built = Target
    <3>1. CASE ws.root = Home
      <4>1. ws.resolver = ws.id /\ ws.resolver # 0
        <5>1. ws.resolver = Len(anchor) /\ ws.id = Len(anchor) /\ Len(anchor) > 0
          BY <1>7, <1>10, <3>1 DEF Steady
        <5> QED BY <1>10, <5>1, NatLess
      <4> QED BY <1>1, <2>1, <3>1, <4>1 DEF Target
    <3>2. CASE ws.root # Home
      BY <1>1, <2>1, <3>2 DEF Target
    <3> QED BY <3>1, <3>2
  <2>3. thread'[t] = w /\ Left(t)' = next /\ Busy(t)' /\ \A y : At(t, y)' <=> y = x
    BY <2>1, GoneOn
  <2>4. "health" \notin next /\ "reclassify" \notin next /\ "write" \notin next
    BY <2>0
  <2>5. ~OpenKind(t)' /\ ~CloseKind(t)' /\ Switching(t)' /\ ~ToWrite(t)' /\ ~Flushing(t)' /\ ~Setting(t)'
    BY <2>0, <2>1, <2>3, <2>4 DEF OpenKind, CloseKind, Switching, ToWrite, Flushing, Setting
  <2>6. Carries(t)' /\ Opens(t)' /\ Closes(t)'
    BY <2>5 DEF Carries, Opens, Closes
  <2>7. (Left(t) = {"reclassify", "swap"} /\ ws.root # "" => world.owner < ws.id)'
    <3>1. (Left(t) # {"reclassify", "swap"})'
      BY <2>3, <2>4
    <3> QED BY <3>1
  <2>8. thread[t].built' = Target'
    BY <1>9, <2>2, <2>3
  <2>9. thread' = [thread EXCEPT ![t] = w]
    BY <2>1 DEF CarriesOn
  <2> QED BY <1>4, <1>6, <1>8, <2>5, <2>6, <2>7, <2>8, <2>9, AloneStep
<1> QED BY <1>11, <1>12

\* What a thread that sets the config, or reads it for the watcher, may rely on.
LEMMA PlainNow ==
    ASSUME WorkspaceTyped, SettlesInv, NEW t \in Threads, Busy(t), ~Switching(t), ~ToWrite(t)
    PROVE  /\ Steady /\ \A u \in Threads : ~Switching(u) /\ ~OpenKind(u) /\ ~CloseKind(u)
           /\ ws.root # "" /\ ws.root \in Roots /\ ws.resolver \in 1..Len(anchor) /\ ws.id # 0 /\ ws.resolver # 0
           /\ thread[t].root = ws.root
           /\ "read" \notin Left(t) => thread[t].config = Current \/ changed
           /\ thread[t].guard # 0 \/ "read" \notin Left(t)
           /\ Setting(t) <=> ~Flushing(t)
<1>1. Steady /\ \A u \in Threads : ~Switching(u) /\ ~OpenKind(u) /\ ~CloseKind(u)
  BY NobodySwitches
<1>2. Carries(t) /\ (Setting(t) <=> ~Flushing(t))
  BY DEF SettlesInv, Setting
<1>3. ws.root # ""
  <2>1. CASE Setting(t)
    BY <1>2, <2>1 DEF Carries
  <2>2. CASE Flushing(t)
    <3>1. ws.watcher # 0
      BY <1>2, <2>2 DEF Carries, Flushing
    <3> QED BY <1>1, <3>1 DEF Steady
  <2> QED BY <1>2, <2>1, <2>2
<1>4. ws.resolver = Len(anchor) /\ ws.id = Len(anchor) /\ Len(anchor) > 0 /\ Len(anchor) \in Nat /\ ws.root \in Roots
  BY <1>1, <1>3, LooseNumbers DEF Steady, WorkspaceTyped, PlacesTyped, Spaces
<1>5. ws.resolver \in 1..Len(anchor) /\ ws.id # 0 /\ ws.resolver # 0
  <2> PICK n \in Nat : n = Len(anchor) /\ n > 0
    BY <1>4
  <2>1. n \in 1..n /\ n # 0
    OBVIOUS
  <2> QED BY <1>4, <2>1
<1>6. /\ thread[t].root = ws.root
      /\ "read" \notin Left(t) => thread[t].config = Current \/ changed
      /\ thread[t].guard # 0 \/ "read" \notin Left(t)
  BY <1>2 DEF Carries, Flushing
<1> QED BY <1>1, <1>2, <1>3, <1>4, <1>5, <1>6

\* Such a thread goes on.
LEMMA PlainOn ==
    ASSUME WorkspaceTyped, SettlesInv, NEW t \in Threads, Busy(t), ~Switching(t), ~ToWrite(t),
           NEW w, NEW x, NEW next, CarriesOn(t, w, x, next), w.root = thread[t].root, w.guard = thread[t].guard,
           w.config = Current \/ ("read" \notin Left(t) /\ w.config = thread[t].config),
           {"read", "reclassify", "health", "write"} \intersect next = {}, next # {"swap"},
           ws' = ws, disk' = disk, changed' = changed, Steady', smeared' \/ WorldFollows'
    PROVE  SettlesInv'
<1>1. thread'[t] = w /\ Left(t)' = next /\ Busy(t)'
  BY GoneOn
<1>2. ~Switching(t)' /\ ~OpenKind(t)' /\ ~CloseKind(t)' /\ ~ToWrite(t)' /\ (Flushing(t)' <=> Flushing(t)) /\ (Setting(t)' <=> Setting(t))
  BY <1>1 DEF Switching, OpenKind, CloseKind, ToWrite, Flushing, Setting
<1>3. Carries(t) /\ Current' = Current
  BY DEF SettlesInv, Current
<1>4. Carries(t)'
  <2>1. "read" \notin Left(t)'
    BY <1>1
  <2>2. Flushing(t) => w.config = Current \/ changed
    BY <1>3 DEF Carries
  <2>3. Setting(t) => w.config = Current
    BY <1>3 DEF Carries
  <2> QED BY <1>1, <1>2, <1>3, <2>1, <2>2, <2>3 DEF Carries
<1>5. thread' = [thread EXCEPT ![t] = w]
  BY DEF CarriesOn
<1>6. \A u \in Threads : Carries(u)'
  BY <1>4, <1>5, CarriesStay
<1>7. \A u \in Threads : ~Switching(u)
  BY PlainNow
<1>8. \A u \in Threads : u # t => ~(Flushing(t)' /\ Flushing(u)) /\ ~(Setting(t)' /\ Setting(u))
  <2>1. \A u \in Threads : (Flushing(u) => Busy(u)) /\ (Setting(u) => Busy(u))
    BY RestsNow
  <2> QED BY <1>2, <2>1 DEF SettlesInv, Together
<1> QED BY <1>2, <1>5, <1>6, <1>7, <1>8, PlainStep

\* A thread comes to its end.
LEMMA PlainEnds ==
    ASSUME WorkspaceTyped, SettlesInv, NEW t \in Threads, Busy(t), thread' = [thread EXCEPT ![t] = Idle],
           ws' = ws, disk' = disk, changed' = changed, Steady', smeared' \/ WorldFollows'
    PROVE  SettlesInv'
<1>1. ~Busy(t)'
  <2>1. thread'[t] = Idle
    BY ThreadIs
  <2> QED BY <2>1, WorkTypes DEF Busy
<1>2. ~Switching(t)' /\ ~OpenKind(t)' /\ ~CloseKind(t)' /\ ~ToWrite(t)' /\ ~Flushing(t)' /\ ~Setting(t)'
  BY <1>1, RestsThen
<1>3. Carries(t)'
  BY <1>2 DEF Carries
<1>4. \A u \in Threads : Carries(u)'
  BY <1>3, CarriesStay
<1>5. ASSUME NEW u \in Threads, u # t, Switching(u) PROVE Left(u) = {"swap"} /\ (Busy(t)' => ToWrite(t)') /\ ~changed'
  <2>1. Busy(u)
    BY <1>5, KindsSwitch
  <2>2. Left(u) = {"swap"}
    BY <1>5, <2>1 DEF SettlesInv, Together
  <2>3. "unwatch" \notin Left(u)
    BY <2>2
  <2> QED BY <1>1, <1>5, <2>2, <2>3 DEF SettlesInv
<1> QED BY <1>2, <1>4, <1>5, PlainStep

\* The document's world follows as it did.
LEMMA WorldStays ==
    ASSUME WorkspaceTyped, smeared \/ WorldFollows, NEW t \in Threads, NEW w, thread' = [thread EXCEPT ![t] = w],
           ws' = ws, anchor' = anchor, world' = world, smeared' = smeared,
           Switching(t)' <=> Switching(t), Builds(t)' <=> Builds(t), ~At(t, "swap")'
    PROVE  smeared' \/ WorldFollows'
<1>1. Target' = Target /\ (Near' <=> Near)
  BY DEF Target, Near
<1>2. \A u \in Threads : (Switching(u)' <=> Switching(u)) /\ (Builds(u)' <=> Builds(u))
  BY OthersStay
<1>3. \A u \in Threads : u # t => (At(u, "swap")' <=> At(u, "swap")) /\ thread'[u] = thread[u]
  BY OthersStay
<1>4. WorldFollows => WorldFollows'
  BY <1>1, <1>2, <1>3 DEF WorldFollows
<1> QED BY <1>4

-----------------------------------------------------------------------------
(* The replacement of the config by one that sets it or a watcher.         *)

\* Without an end of an open or a close there is nothing after it.
LEMMA NoEnd ==
    ASSUME NEW t \in Threads, ~Switching(t), NEW e \in EndSets, NEW left, Left(t) = left \union e
    PROVE  e = {}
<1>1. "reclassify" \notin e
  BY DEF Switching
<1> QED BY <1>1 DEF EndSets

\* Only a thread with the step before it has "rebuild" or "swap" ahead.
LEMMA NoBuilds ==
    ASSUME WorkspaceTyped, NEW t \in Threads, NEW w, NEW x, NEW next, CarriesOn(t, w, x, next), x # "swap", "rebuild" \notin next
    PROVE  ~Builds(t)' /\ ~At(t, "swap")'
BY GoneOn DEF Builds

LEMMA NoBuildsNow ==
    ASSUME WorkspaceTyped, NEW t \in Threads, NEW x, At(t, x), x # "swap", "rebuild" \notin Left(t)
    PROVE  ~Builds(t)
BY DEF Builds, At

LEMMA StorePlain ==
    ASSUME WorkspaceTyped, SettlesInv, NEW t \in Threads, Store(t), ~Switching(t)
    PROVE  SettlesInv'
<1>1. PICK w \in Works : Left(t) = ReplaceLeft /\ CarriesOn(t, w, "root of", {"root of", "anchor", "emit"}) /\ Keeps(t, w)
  <2>1. PICK e \in EndSets, w \in Works :
          Left(t) = ReplaceLeft \union e /\ CarriesOn(t, w, "root of", {"root of", "anchor", "emit"} \union e) /\ Keeps(t, w)
    BY StoreGoes
  <2>2. e = {}
    BY <2>1, NoEnd
  <2>3. ReplaceLeft \union e = ReplaceLeft /\ {"root of", "anchor", "emit"} \union e = {"root of", "anchor", "emit"}
    BY <2>2
  <2> QED BY <2>1, <2>3
<1>2. PICK x, next : x = "root of" /\ next = {"root of", "anchor", "emit"}
  OBVIOUS
<1>3. /\ CarriesOn(t, w, x, next) /\ {"read", "reclassify", "health", "write"} \intersect next = {} /\ next # {"swap"}
      /\ x # "swap" /\ "rebuild" \notin next /\ "anchor" \in next /\ "emit" \in next
      /\ "write" \notin Left(t) /\ "read" \notin Left(t) /\ "rebuild" \notin Left(t)
  BY <1>1, <1>2 DEF ReplaceLeft
<1>4. ~ToWrite(t) /\ At(t, "store") /\ Busy(t)
  BY <1>3 DEF ToWrite, Store, At
<1>5. ws' = ws /\ anchor' = anchor /\ disk' = disk /\ world' = world /\ changed' = changed /\ smeared' = smeared
      /\ cache' = thread[t].config /\ shown' = shown /\ flag' = flag
  BY DEF Store
<1>6. thread'[t] = w /\ Left(t)' = next
  BY <1>3, GoneOn
<1>7. ~ToWrite(t)' /\ ~Switching(t)'
  BY <1>3, <1>6 DEF ToWrite, Switching
<1>8. Steady /\ ws.root # "" /\ (thread[t].config = Current \/ changed)
  BY <1>3, <1>4, PlainNow
<1>9. Current' = Current
  BY <1>5 DEF Current
<1>10. Steady'
  <2>1. Told(cache = Current, "store")'
    BY <1>5, <1>8, <1>9 DEF Told
  <2>2. Told(shown = Current, "emit")' /\ Told(anchor[ws.resolver] = Effective(ws.root, Current), "anchor")'
    BY <1>3, <1>6, <1>7 DEF Told
  <2> QED BY <1>5, <1>8, <2>1, <2>2 DEF Steady
<1>11. smeared' \/ WorldFollows'
  <2>1. thread' = [thread EXCEPT ![t] = w]
    BY <1>3 DEF CarriesOn
  <2>2. ~Builds(t)' /\ ~At(t, "swap")' /\ ~Builds(t)
    BY <1>3, <1>4, NoBuilds, NoBuildsNow
  <2>3. smeared \/ WorldFollows
    BY DEF SettlesInv
  <2> QED BY <1>5, <1>7, <2>1, <2>2, <2>3, WorldStays
<1> QED BY <1>1, <1>3, <1>4, <1>5, <1>10, <1>11, PlainOn DEF Keeps

LEMMA RootOfPlain ==
    ASSUME WorkspaceTyped, SettlesInv, NEW t \in Threads, RootOf(t), ~Switching(t)
    PROVE  SettlesInv'
<1>1. PICK w \in Works : /\ Left(t) = {"root of", "anchor", "emit"} /\ CarriesOn(t, w, "anchor", {"anchor", "emit"})
                         /\ w.root = ws.root /\ w.config = thread[t].config /\ w.guard = thread[t].guard
  <2>1. PICK e \in EndSets, w \in Works :
          /\ Left(t) = {"root of", "anchor", "emit"} \union e /\ CarriesOn(t, w, "anchor", {"anchor", "emit"} \union e)
          /\ w.root = ws.root /\ w.config = thread[t].config /\ w.guard = thread[t].guard
    BY RootOfGoes
  <2>2. e = {}
    BY <2>1, NoEnd
  <2>3. {"anchor", "emit"} \union e = {"anchor", "emit"} /\ {"root of", "anchor", "emit"} \union e = {"root of", "anchor", "emit"}
    BY <2>2
  <2> QED BY <2>1, <2>3
<1>2. PICK x, next : x = "anchor" /\ next = {"anchor", "emit"}
  OBVIOUS
<1>3. /\ CarriesOn(t, w, x, next) /\ {"read", "reclassify", "health", "write"} \intersect next = {} /\ next # {"swap"}
      /\ x # "swap" /\ "rebuild" \notin next /\ "anchor" \in next /\ "emit" \in next
      /\ "write" \notin Left(t) /\ "read" \notin Left(t) /\ "rebuild" \notin Left(t) /\ "store" \notin Left(t)
  BY <1>1, <1>2
<1>4. ~ToWrite(t) /\ At(t, "root of") /\ Busy(t)
  BY <1>3 DEF ToWrite, RootOf, At
<1>5. ws' = ws /\ anchor' = anchor /\ disk' = disk /\ world' = world /\ changed' = changed /\ smeared' = smeared
      /\ cache' = cache /\ shown' = shown /\ flag' = flag
  BY DEF RootOf
<1>6. thread'[t] = w /\ Left(t)' = next
  BY <1>3, GoneOn
<1>7. ~ToWrite(t)' /\ ~Switching(t)'
  BY <1>3, <1>6 DEF ToWrite, Switching
<1>8. Steady /\ thread[t].root = ws.root
  BY <1>3, <1>4, PlainNow
<1>9. thread' = [thread EXCEPT ![t] = w]
  BY <1>3 DEF CarriesOn
<1>10. Steady'
  <2>1. ASSUME NEW u \in Threads, NEW step \in {"store", "emit", "anchor"}, step \in Left(u), ~ToWrite(u)
        PROVE  \E v \in Threads : step \in Left(v)' /\ ~ToWrite(v)'
    <3>1. CASE u = t
      BY <1>3, <1>6, <1>7, <2>1, <3>1
    <3>2. CASE u # t
      BY <1>9, <2>1, <3>2, OthersStay
    <3> QED BY <3>1, <3>2
  <2> QED BY <1>5, <1>8, <2>1, SteadyStays
<1>11. smeared' \/ WorldFollows'
  <2>1. ~Builds(t)' /\ ~At(t, "swap")' /\ ~Builds(t)
    BY <1>3, <1>4, NoBuilds, NoBuildsNow
  <2>2. smeared \/ WorldFollows
    BY DEF SettlesInv
  <2> QED BY <1>5, <1>7, <1>9, <2>1, <2>2, WorldStays
<1> QED BY <1>1, <1>3, <1>4, <1>5, <1>8, <1>10, <1>11, PlainOn

LEMMA AnchorPlain ==
    ASSUME WorkspaceTyped, SettlesInv, NEW t \in Threads, Anchor(t), ~Switching(t)
    PROVE  SettlesInv'
<1>1. PICK w \in Works :
        /\ Left(t) = {"anchor", "emit"} /\ Keeps(t, w)
        /\ Moves(t) =>
              /\ CarriesOn(t, w, "rebuild", {"rebuild", "swap", "emit"})
              /\ anchor' = [anchor EXCEPT ![ws.resolver] = Effective(thread[t].root, thread[t].config)]
        /\ ~Moves(t) => CarriesOn(t, w, "emit", {"emit"}) /\ anchor' = anchor
  <2>1. PICK e \in EndSets, w \in Works :
          /\ Left(t) = {"anchor", "emit"} \union e /\ Keeps(t, w)
          /\ Moves(t) =>
                /\ CarriesOn(t, w, "rebuild", {"rebuild", "swap", "emit"} \union e)
                /\ anchor' = [anchor EXCEPT ![ws.resolver] = Effective(thread[t].root, thread[t].config)]
          /\ ~Moves(t) => CarriesOn(t, w, "emit", {"emit"} \union e) /\ anchor' = anchor
    BY AnchorGoes
  <2>2. e = {}
    BY <2>1, NoEnd
  <2>3. /\ {"anchor", "emit"} \union e = {"anchor", "emit"} /\ {"rebuild", "swap", "emit"} \union e = {"rebuild", "swap", "emit"}
        /\ {"emit"} \union e = {"emit"}
    BY <2>2
  <2> QED BY <2>1, <2>3
<1>2. PICK x, next :
        \/ Moves(t) /\ x = "rebuild" /\ next = {"rebuild", "swap", "emit"}
        \/ ~Moves(t) /\ x = "emit" /\ next = {"emit"}
  <2>1. CASE Moves(t)
    <3> WITNESS "rebuild", {"rebuild", "swap", "emit"}
    <3> QED BY <2>1
  <2>2. CASE ~Moves(t)
    <3> WITNESS "emit", {"emit"}
    <3> QED BY <2>2
  <2> QED BY <2>1, <2>2
<1>3. /\ CarriesOn(t, w, x, next) /\ {"read", "reclassify", "health", "write"} \intersect next = {} /\ next # {"swap"}
      /\ x # "swap" /\ "emit" \in next /\ ("rebuild" \in next <=> Moves(t))
      /\ "write" \notin Left(t) /\ "read" \notin Left(t) /\ "rebuild" \notin Left(t) /\ "store" \notin Left(t)
  BY <1>1, <1>2
<1>4. ~ToWrite(t) /\ At(t, "anchor") /\ Busy(t)
  BY <1>3 DEF ToWrite, Anchor, At
<1>5. ws' = ws /\ disk' = disk /\ world' = world /\ changed' = changed /\ cache' = cache /\ shown' = shown /\ flag' = flag
  BY DEF Anchor
<1>6. thread'[t] = w /\ Left(t)' = next /\ \A y : At(t, y)' <=> y = x
  BY <1>3, GoneOn
<1>7. ~ToWrite(t)' /\ ~Switching(t)'
  BY <1>3, <1>6 DEF ToWrite, Switching
<1>8. /\ Steady /\ ws.root # "" /\ ws.resolver # 0 /\ ws.resolver \in 1..Len(anchor) /\ thread[t].root = ws.root
      /\ thread[t].config = Current \/ changed
      /\ \A u \in Threads : ~Switching(u)
  BY <1>3, <1>4, PlainNow
<1>9. thread' = [thread EXCEPT ![t] = w]
  BY <1>3 DEF CarriesOn
<1>10. Len(anchor') = Len(anchor) /\ anchor'[ws.resolver] = Effective(ws.root, thread[t].config)
  <2>1. CASE Moves(t)
    <3>1. PICK a : a = Effective(ws.root, thread[t].config)
      OBVIOUS
    <3>2. a \in Anchors
      BY <1>8, <3>1, TextTypes DEF WorkspaceTyped, Works
    <3>3. anchor' = [anchor EXCEPT ![ws.resolver] = a]
      BY <1>1, <1>8, <2>1, <3>1
    <3>4. anchor \in Seq(Anchors)
      BY DEF WorkspaceTyped, PlacesTyped
    <3>5. PICK i : i = ws.resolver
      OBVIOUS
    <3>6. i \in 1..Len(anchor) /\ anchor' = [anchor EXCEPT ![i] = a]
      BY <1>8, <3>3, <3>5
    <3>7. Len(anchor') = Len(anchor) /\ anchor'[i] = a
      BY <3>2, <3>4, <3>6, ExceptSeq
    <3> QED BY <3>1, <3>5, <3>7
  <2>2. CASE ~Moves(t)
    BY <1>1, <1>8, <2>2 DEF Moves
  <2> QED BY <2>1, <2>2
<1>11. Current' = Current
  BY <1>5 DEF Current
<1>12. Steady'
  <2>1. Told(cache = Current, "store") => Told(cache = Current, "store")'
    <3>1. ASSUME NEW u \in Threads, "store" \in Left(u), ~ToWrite(u) PROVE "store" \in Left(u)' /\ ~ToWrite(u)'
      <4>1. u # t
        BY <1>3, <3>1
      <4> QED BY <1>9, <3>1, <4>1, OthersStay
    <3> QED BY <1>5, <1>11, <3>1 DEF Told
  <2>2. Told(shown = Current, "emit")'
    BY <1>3, <1>6, <1>7 DEF Told
  <2>3. Told(anchor[ws.resolver] = Effective(ws.root, Current), "anchor")'
    BY <1>5, <1>8, <1>10, <1>11 DEF Told
  <2> QED BY <1>5, <1>8, <1>10, <2>1, <2>2, <2>3 DEF Steady
<1>13. smeared' \/ WorldFollows'
  <2>1. ~At(t, "swap")' /\ ~Builds(t)
    BY <1>3, <1>4, <1>6, NoBuildsNow
  <2>2. smeared \/ WorldFollows
    BY DEF SettlesInv
  <2>3. CASE Moves(t)
    <3>1. ASSUME ~smeared' PROVE WorldFollows'
      <4>1. WorldFollows /\ \A u \in Threads : u # t /\ Busy(u) => ~At(u, "rebuild") /\ ~At(u, "swap")
        BY <1>8, <2>2, <2>3, <3>1 DEF Anchor, Others, Moves
      <4>2. \A u \in Threads : u # t => ~At(u, "swap") /\ ~Builds(u)
        BY <4>1, KindsSwitch DEF Builds, At
      <4>3. \A u \in Threads : u # t => ~At(u, "swap")' /\ ~Builds(u)'
        BY <1>9, <4>2, OthersStay
      <4>4. Builds(t)'
        BY <1>3, <1>6, <2>3 DEF Builds
      <4>5. Near'
        <5>1. Near
          BY <1>8, <4>1 DEF WorldFollows
        <5> QED BY <1>5, <5>1 DEF Near
      <4> QED BY <2>1, <4>3, <4>4, <4>5 DEF WorldFollows
    <3> QED BY <3>1
  <2>4. CASE ~Moves(t)
    <3>1. smeared' = smeared /\ anchor' = anchor
      BY <1>1, <1>8, <2>4 DEF Anchor, Moves, WorkspaceTyped, PlacesTyped
    <3>2. ~Builds(t)'
      BY <1>3, <2>4, NoBuilds
    <3> QED BY <1>5, <1>7, <1>9, <2>1, <2>2, <3>1, <3>2, WorldStays
  <2> QED BY <2>3, <2>4
<1> QED BY <1>1, <1>3, <1>4, <1>5, <1>12, <1>13, PlainOn DEF Keeps

LEMMA EmitPlain ==
    ASSUME WorkspaceTyped, SettlesInv, NEW t \in Threads, Emit(t), ~Switching(t)
    PROVE  SettlesInv'
<1>1. Left(t) = {"emit"} /\ thread' = [thread EXCEPT ![t] = Idle]
  <2>1. "reclassify" \notin Left(t)
    BY DEF Switching
  <2> QED BY <2>1, EmitGoes
<1>2. ~ToWrite(t) /\ Busy(t) /\ At(t, "emit")
  BY <1>1 DEF ToWrite, Emit, At
<1>3. ws' = ws /\ anchor' = anchor /\ disk' = disk /\ world' = world /\ changed' = changed /\ smeared' = smeared
      /\ cache' = cache /\ shown' = thread[t].config /\ flag' = flag
  BY DEF Emit
<1>4. /\ Steady /\ ws.root # "" /\ (thread[t].config = Current \/ changed)
  <2>1. "read" \notin Left(t)
    BY <1>1
  <2> QED BY <1>2, <2>1, PlainNow
<1>5. Current' = Current
  BY <1>3 DEF Current
<1>6. Steady'
  <2>1. ASSUME NEW u \in Threads, NEW step \in {"store", "anchor"}, step \in Left(u), ~ToWrite(u)
        PROVE  step \in Left(u)' /\ ~ToWrite(u)'
    <3>1. u # t
      BY <1>1, <2>1
    <3> QED BY <1>1, <2>1, <3>1, OthersStay
  <2>2. Told(cache = Current, "store") => Told(cache = Current, "store")'
    BY <1>3, <1>5, <2>1 DEF Told
  <2>3. Told(anchor[ws.resolver] = Effective(ws.root, Current), "anchor") => Told(anchor[ws.resolver] = Effective(ws.root, Current), "anchor")'
    BY <1>3, <1>5, <2>1 DEF Told
  <2>4. Told(shown = Current, "emit")'
    BY <1>3, <1>4, <1>5 DEF Told
  <2> QED BY <1>3, <1>4, <2>2, <2>3, <2>4 DEF Steady
<1>7. smeared' \/ WorldFollows'
  <2>1. ~Busy(t)'
    BY <1>1, ThreadIs, WorkTypes DEF Busy
  <2>2. ~Builds(t)' /\ ~At(t, "swap")' /\ ~Switching(t)'
    BY <2>1, RestsThen
  <2>3. ~Builds(t)
    <3>1. "rebuild" \notin Left(t)
      BY <1>1
    <3> QED BY <1>2, <3>1, NoBuildsNow
  <2>4. smeared \/ WorldFollows
    BY DEF SettlesInv
  <2> QED BY <1>1, <1>3, <2>2, <2>3, <2>4, WorldStays
<1> QED BY <1>1, <1>2, <1>3, <1>6, <1>7, PlainEnds

LEMMA ReadPlain ==
    ASSUME WorkspaceTyped, SettlesInv, NEW t \in Threads, Read(t), ~Switching(t)
    PROVE  SettlesInv'
<1>1. At(t, "read") /\ Busy(t)
  BY DEF Read, At
<1>2. Left(t) = {"read"} \union ReplaceLeft
  <2>1. Left(t) = {"read"} \union ReplaceLeft \/ Left(t) = OpenLeft
    BY <1>1, AtPlans, ReplaceSteps DEF StepsAfter, Left
  <2>2. "reclassify" \in OpenLeft
    BY DEF OpenLeft
  <2> QED BY <2>1, <2>2 DEF Switching
<1>3. "read" \in Left(t) /\ "write" \notin Left(t) /\ "rebuild" \notin Left(t)
  BY <1>2 DEF ReplaceLeft
<1>4. ~ToWrite(t)
  BY <1>3 DEF ToWrite
<1>5. Steady /\ ws.root # "" /\ thread[t].root = ws.root /\ thread[t].guard # 0
  BY <1>1, <1>3, <1>4, PlainNow
<1>6. PICK next : next = ReplaceLeft
  OBVIOUS
<1>7. PICK w \in Works : /\ CarriesOn(t, w, "store", next)
                         /\ w.root = thread[t].root /\ w.config = Parsed(disk[ws.root]) /\ w.guard = thread[t].guard
  <2>1. Left(t) # OpenLeft
    <3>1. "reclassify" \in OpenLeft
      BY DEF OpenLeft
    <3> QED BY <3>1 DEF Switching
  <2> QED BY <1>5, <1>6, <2>1, ReadGoes
<1>8. /\ {"read", "reclassify", "health", "write"} \intersect next = {} /\ next # {"swap"} /\ "rebuild" \notin next
      /\ {"store", "emit", "anchor"} \subseteq next
  BY <1>6 DEF ReplaceLeft
<1>9. ws' = ws /\ anchor' = anchor /\ disk' = disk /\ world' = world /\ changed' = changed /\ smeared' = smeared
      /\ cache' = cache /\ shown' = shown /\ flag' = flag
  BY DEF Read
<1>10. thread'[t] = w /\ Left(t)' = next
  BY <1>7, GoneOn
<1>11. ~ToWrite(t)' /\ ~Switching(t)'
  BY <1>8, <1>10 DEF ToWrite, Switching
<1>12. Steady'
  BY <1>5, <1>8, <1>9, <1>10, <1>11, SteadyStays
<1>13. smeared' \/ WorldFollows'
  <2>1. PICK x : x = "store"
    OBVIOUS
  <2>2. CarriesOn(t, w, x, next) /\ x # "swap"
    BY <1>7, <2>1
  <2>3. ~Builds(t)' /\ ~At(t, "swap")' /\ ~Builds(t)
    BY <1>1, <1>3, <1>8, <2>2, NoBuilds, NoBuildsNow
  <2>4. smeared \/ WorldFollows
    BY DEF SettlesInv
  <2>5. thread' = [thread EXCEPT ![t] = w]
    BY <1>7 DEF CarriesOn
  <2> QED BY <1>9, <1>11, <2>3, <2>4, <2>5, WorldStays
<1> QED BY <1>1, <1>4, <1>7, <1>8, <1>9, <1>12, <1>13, PlainOn DEF Current

\* Who builds the worlds anew is neither an open nor a close.
LEMMA BuildsPlain ==
    ASSUME WorkspaceTyped, SettlesInv, NEW t \in Threads, At(t, "rebuild") \/ (At(t, "swap") /\ Left(t) # {"swap"}), "emit" \in Left(t)
    PROVE  ~Switching(t)
<1> SUFFICES ASSUME Switching(t) PROVE FALSE
  OBVIOUS
<1>1. Left(t) # {"swap"}
  <2>1. "emit" \notin {"swap"}
    OBVIOUS
  <2> QED BY <2>1
<1>2. OpenKind(t) \/ CloseKind(t)
  BY <1>1 DEF Switching, CloseKind
<1>3. ~At(t, "swap") /\ "rebuild" \notin Left(t)
  BY <1>2 DEF SettlesInv, Opens, Closes
<1>4. At(t, "rebuild") => "rebuild" \in Left(t)
  BY AtPlans, PlanKinds DEF Left
<1> QED BY <1>3, <1>4

LEMMA RebuildKeeps ==
    ASSUME WorkspaceTyped, SettlesInv, NEW t \in Threads, Rebuild(t)
    PROVE  SettlesInv'
<1>1. PICK e \in EndSets, w \in Works :
        /\ Left(t) = {"rebuild", "swap", "emit"} \union e
        /\ w.root = thread[t].root /\ w.config = thread[t].config /\ w.guard = thread[t].guard
        /\ world.owner = 0 \/ ws.resolver = 0 => CarriesOn(t, w, "emit", {"emit"} \union e)
        /\ ~(world.owner = 0 \/ ws.resolver = 0) =>
              /\ CarriesOn(t, w, "swap", {"swap", "emit"} \union e)
              /\ w.built = [owner |-> world.owner, resolver |-> ws.resolver, at |-> anchor[ws.resolver]]
  BY RebuildGoes
<1>2. At(t, "rebuild") /\ Busy(t) /\ ~Switching(t)
  <2>1. At(t, "rebuild") /\ "emit" \in Left(t)
    BY <1>1 DEF Rebuild
  <2> QED BY <2>1, BuildsPlain DEF At
<1>3. e = {}
  BY <1>1, <1>2, NoEnd
<1>4. /\ Left(t) = {"rebuild", "swap", "emit"} /\ {"emit"} \union e = {"emit"} /\ {"swap", "emit"} \union e = {"swap", "emit"}
      /\ "write" \notin Left(t) /\ "read" \notin Left(t) /\ "rebuild" \in Left(t) /\ "store" \notin Left(t) /\ "anchor" \notin Left(t)
  BY <1>1, <1>3
<1>5. ~ToWrite(t) /\ Builds(t)
  BY <1>4 DEF ToWrite, Builds
<1>6. Steady /\ ws.root # "" /\ ws.resolver # 0 /\ ws.id # 0 /\ \A u \in Threads : ~Switching(u)
  BY <1>2, <1>5, PlainNow
<1>7. ws' = ws /\ anchor' = anchor /\ disk' = disk /\ world' = world /\ changed' = changed /\ smeared' = smeared
      /\ cache' = cache /\ shown' = shown /\ flag' = flag
  BY DEF Rebuild
<1>8. PICK x, next :
        \/ world.owner = 0 /\ x = "emit" /\ next = {"emit"}
        \/ world.owner # 0 /\ x = "swap" /\ next = {"swap", "emit"}
  <2>1. CASE world.owner = 0
    <3> WITNESS "emit", {"emit"}
    <3> QED BY <2>1
  <2>2. CASE world.owner # 0
    <3> WITNESS "swap", {"swap", "emit"}
    <3> QED BY <2>2
  <2> QED BY <2>1, <2>2
<1>9. /\ CarriesOn(t, w, x, next) /\ {"read", "reclassify", "health", "write"} \intersect next = {} /\ next # {"swap"}
      /\ "rebuild" \notin next /\ "emit" \in next
  BY <1>1, <1>4, <1>6, <1>8
<1>10. thread'[t] = w /\ Left(t)' = next /\ thread' = [thread EXCEPT ![t] = w] /\ \A y : At(t, y)' <=> y = x
  BY <1>9, GoneOn DEF CarriesOn
<1>11. ~ToWrite(t)' /\ ~Switching(t)'
  BY <1>9, <1>10 DEF ToWrite, Switching
<1>12. Steady'
  <2>1. ASSUME NEW u \in Threads, NEW step \in {"store", "emit", "anchor"}, step \in Left(u), ~ToWrite(u)
        PROVE  \E v \in Threads : step \in Left(v)' /\ ~ToWrite(v)'
    <3>1. CASE u = t
      BY <1>4, <1>9, <1>10, <1>11, <2>1, <3>1
    <3>2. CASE u # t
      BY <1>10, <2>1, <3>2, OthersStay
    <3> QED BY <3>1, <3>2
  <2> QED BY <1>6, <1>7, <2>1, SteadyStays
<1>13. ASSUME WorldFollows PROVE WorldFollows'
  <2>1. Near
    BY <1>6, <1>13 DEF WorldFollows
  <2>2. Target' = Target /\ (Near' <=> Near)
    BY <1>7 DEF Target, Near
  <2>3. \A u \in Threads : u # t => ~Builds(u)
    BY <1>5, <1>6, <1>13 DEF WorldFollows
  <2>4. \A u \in Threads : u # t => ~Builds(u)' /\ ~Switching(u)' /\ ~At(u, "swap")'
    <3>1. \A u \in Threads : u # t => ~Builds(u)' /\ ~Switching(u)'
      BY <1>6, <1>10, <2>3, OthersStay
    <3> QED BY <3>1 DEF Builds
  <2>5. CASE world.owner = 0
    <3>1. ws.root # Home
      BY <1>6, <2>1, <2>5 DEF Near
    <3>2. world = Target
      BY <2>1, <3>1 DEF Near, Target
    <3>3. ~At(t, "swap")' /\ ~Builds(t)'
      BY <1>8, <1>9, <1>10, <2>5 DEF Builds
    <3> QED BY <1>7, <2>1, <2>2, <2>4, <3>2, <3>3 DEF WorldFollows
  <2>6. CASE world.owner # 0
    <3>1. ws.root = Home
      <4>1. Loose.owner = 0
        BY DEF Loose
      <4> QED BY <2>1, <2>6, <4>1 DEF Near
    <3>2. world.owner = ws.id
      BY <2>1, <3>1 DEF Near
    <3>3. w.built = Target
      BY <1>1, <1>6, <2>6, <3>1, <3>2 DEF Target
    <3>4. At(t, "swap")' /\ Builds(t)'
      BY <1>8, <1>10, <1>11, <2>6 DEF Builds
    <3> QED BY <1>7, <1>10, <2>1, <2>2, <2>4, <3>1, <3>3, <3>4 DEF WorldFollows
  <2> QED BY <2>5, <2>6
<1>14. smeared' \/ WorldFollows'
  BY <1>7, <1>13 DEF SettlesInv
<1> QED BY <1>1, <1>2, <1>4, <1>5, <1>7, <1>9, <1>12, <1>14, PlainOn

\* Who waits to write has no world to build or to put in place.
LEMMA WaitsFirst ==
    ASSUME WorkspaceTyped, NEW t \in Threads, ToWrite(t)
    PROVE  ~Builds(t) /\ ~At(t, "swap")
<1>1. ~At(t, "swap")
  <2>1. ASSUME At(t, "swap") PROVE FALSE
    <3>1. Left(t) = {"swap"} \/ \E e \in EndSets : Left(t) = {"swap", "emit"} \union e
      BY <2>1, AtPlans, ReplaceSteps DEF StepsAfter, Left
    <3> QED BY <3>1 DEF ToWrite, EndSets
  <2> QED BY <2>1
<1>2. ~At(t, "rebuild")
  <2>1. ASSUME At(t, "rebuild") PROVE FALSE
    <3>1. \E e \in EndSets : Left(t) = {"rebuild", "swap", "emit"} \union e
      BY <2>1, AtPlans, ReplaceSteps DEF StepsAfter, Left
    <3> QED BY <3>1 DEF ToWrite, EndSets
  <2> QED BY <2>1
<1> QED BY <1>1, <1>2, KindsSwitch DEF Builds

LEMMA SwapKeeps ==
    ASSUME WorkspaceTyped, SettlesInv, NEW t \in Threads, Swap(t)
    PROVE  SettlesInv'
<1>1. At(t, "swap") /\ Busy(t) /\ Does(t, Next(t))
  BY DEF Swap, At
<1>2. ws' = ws /\ anchor' = anchor /\ disk' = disk /\ world' = thread[t].built /\ changed' = changed /\ smeared' = smeared
      /\ cache' = cache /\ shown' = shown /\ flag' = flag
  BY DEF Swap
<1>3. Target' = Target
  BY <1>2 DEF Target
<1>4. WorldFollows => Near' /\ (world = Target)'
  <2>1. ASSUME WorldFollows PROVE thread[t].built = Target
    BY <1>1, <2>1 DEF WorldFollows
  <2>2. ASSUME world' = Target PROVE Near'
    BY <1>2, <2>2 DEF Near, Target
  <2> QED BY <1>2, <1>3, <2>1, <2>2
<1>5. CASE Left(t) = {"swap"}
  <2>1. thread' = [thread EXCEPT ![t] = Idle]
    <3>1. Tail(thread[t].todo) = <<>>
      <4>1. "emit" \notin Range(thread[t].todo)
        BY <1>5 DEF Left
      <4> QED BY <1>1, <4>1, AtPlans, ReplaceSteps DEF StepsAfter
    <3> QED BY <1>1, <3>1 DEF Next, Rest, Does
  <2>2. Switching(t) /\ ~ToWrite(t) /\ ~OpenKind(t) /\ ~CloseKind(t)
    BY <1>5, KindsSwitch DEF Switching, ToWrite
  <2>3. ASSUME NEW u \in Threads, u # t PROVE ~Switching(u) /\ ~OpenKind(u) /\ ~CloseKind(u) /\ ~Builds(u) /\ ~At(u, "swap")
    <3>1. Busy(u) => ToWrite(u) /\ ~Switching(u)
      BY <1>1, <2>2, <2>3 DEF SettlesInv, Together
    <3>2. ~Switching(u)
      BY <3>1, RestsNow
    <3>3. ~Builds(u) /\ ~At(u, "swap")
      BY <3>1, RestsNow, WaitsFirst
    <3> QED BY <3>2, <3>3, KindsSwitch
  <2>4. Steady
    BY <2>2, <2>3 DEF SettlesInv
  <2>5. Steady'
    <3>1. ASSUME NEW u \in Threads, NEW step \in {"store", "emit", "anchor"}, step \in Left(u), ~ToWrite(u)
          PROVE  \E v \in Threads : step \in Left(v)' /\ ~ToWrite(v)'
      <4>1. u # t
        BY <1>5, <3>1
      <4> QED BY <2>1, <3>1, <4>1, OthersStay
    <3> QED BY <1>2, <2>4, <3>1, SteadyStays
  <2>6. WorldFollows => WorldFollows'
    <3>1. ~Busy(t)'
      BY <2>1, ThreadIs, WorkTypes DEF Busy
    <3>2. \A u \in Threads : ~At(u, "swap")' /\ ~Builds(u)'
      <4>1. ~At(t, "swap")' /\ ~Builds(t)'
        BY <3>1, RestsThen
      <4>2. \A u \in Threads : u # t => ~At(u, "swap")' /\ ~Builds(u)'
        BY <2>1, <2>3, OthersStay
      <4> QED BY <4>1, <4>2
    <3> QED BY <1>4, <3>2 DEF WorldFollows
  <2>7. smeared' \/ WorldFollows'
    BY <1>2, <2>6 DEF SettlesInv
  <2> QED BY <1>1, <1>2, <2>1, <2>5, <2>7, PlainEnds
<1>6. CASE Left(t) # {"swap"}
  <2>1. PICK e \in EndSets : StepsAfter(thread[t].todo, {"swap", "emit"} \union e, "emit", {"emit"} \union e)
    <3>1. Range(thread[t].todo) # {"swap"}
      BY <1>6 DEF Left
    <3> QED BY <1>1, <3>1, AtPlans, ReplaceSteps
  <2>2. Left(t) = {"swap", "emit"} \union e
    BY <2>1 DEF StepsAfter, Left
  <2>3. ~Switching(t)
    <3>1. "emit" \in Left(t)
      BY <2>2
    <3> QED BY <1>1, <1>6, <3>1, BuildsPlain
  <2>4. e = {}
    BY <2>2, <2>3, NoEnd
  <2>5. PICK x, next : x = "emit" /\ next = {"emit"}
    OBVIOUS
  <2>6. PICK w \in Works : CarriesOn(t, w, x, next) /\ Keeps(t, w)
    <3>1. next = {"emit"} \union e
      BY <2>4, <2>5
    <3>2. StepsAfter(thread[t].todo, {"swap", "emit"} \union e, x, next)
      BY <2>1, <2>5, <3>1
    <3> QED BY <1>1, <3>2, AtGoes
  <2>7. /\ {"read", "reclassify", "health", "write"} \intersect next = {} /\ next # {"swap"} /\ x # "swap"
        /\ "rebuild" \notin next /\ "emit" \in next
        /\ "write" \notin Left(t) /\ "read" \notin Left(t) /\ "store" \notin Left(t) /\ "anchor" \notin Left(t)
    BY <2>2, <2>4, <2>5
  <2>8. ~ToWrite(t) /\ Builds(t)
    BY <1>1, <2>3, <2>7 DEF ToWrite, Builds
  <2>9. Steady /\ \A u \in Threads : ~Switching(u)
    BY <1>1, <2>3, <2>8, PlainNow
  <2>10. thread'[t] = w /\ Left(t)' = next /\ thread' = [thread EXCEPT ![t] = w]
    BY <2>6, GoneOn DEF CarriesOn
  <2>11. ~ToWrite(t)'
    BY <2>7, <2>10 DEF ToWrite
  <2>12. Steady'
    <3>1. ASSUME NEW u \in Threads, NEW step \in {"store", "emit", "anchor"}, step \in Left(u), ~ToWrite(u)
          PROVE  \E v \in Threads : step \in Left(v)' /\ ~ToWrite(v)'
      <4>1. CASE u = t
        BY <2>7, <2>10, <2>11, <3>1, <4>1
      <4>2. CASE u # t
        BY <2>10, <3>1, <4>2, OthersStay
      <4> QED BY <4>1, <4>2
    <3> QED BY <1>2, <2>9, <3>1, SteadyStays
  <2>13. WorldFollows => WorldFollows'
    <3>1. ASSUME WorldFollows, NEW u \in Threads, u # t PROVE ~Builds(u)' /\ ~At(u, "swap")'
      <4>1. ~Builds(u) /\ ~Switching(u)
        BY <2>8, <2>9, <3>1 DEF WorldFollows
      <4>2. ~Builds(u)' /\ ~At(u, "swap")
        BY <2>10, <3>1, <4>1, OthersStay DEF Builds
      <4> QED BY <2>10, <3>1, <4>2, OthersStay
    <3>2. ~Builds(t)' /\ ~At(t, "swap")'
      BY <2>6, <2>7, NoBuilds
    <3> QED BY <1>4, <3>1, <3>2 DEF WorldFollows
  <2>14. smeared' \/ WorldFollows'
    BY <1>2, <2>13 DEF SettlesInv
  <2> QED BY <1>1, <1>2, <2>3, <2>6, <2>7, <2>8, <2>12, <2>14, PlainOn DEF Keeps
<1> QED BY <1>5, <1>6

-----------------------------------------------------------------------------
(* Commands and readings that begin, and changes of the file.              *)

LEMMA SetKeeps ==
    ASSUME WorkspaceTyped, SettlesInv, NEW t \in Threads, NEW config \in Texts, Set(t, config), Parsed(config) = config, ~crossed'
    PROVE  SettlesInv'
<1>1. PICK x, next : x = "write" /\ next = {"write"} \union ReplaceLeft
  OBVIOUS
<1>2. PICK w \in Works : CarriesOn(t, w, x, next) /\ w.root = ws.root /\ w.config = config /\ w.guard = 0
  BY <1>1, SetGoes
<1>3. /\ "write" \in next /\ {"reclassify", "health", "rebuild"} \intersect next = {} /\ next # {"swap"} /\ x # "swap"
  BY <1>1 DEF ReplaceLeft
<1>4. thread'[t] = w /\ Left(t)' = next /\ Busy(t)' /\ thread' = [thread EXCEPT ![t] = w]
  BY <1>2, GoneOn DEF CarriesOn
<1>5. /\ ToWrite(t)' /\ ~Switching(t)' /\ ~OpenKind(t)' /\ ~CloseKind(t)' /\ ~Flushing(t)' /\ ~Setting(t)'
  BY <1>2, <1>3, <1>4 DEF ToWrite, Switching, OpenKind, CloseKind, Flushing, Setting
<1>6. /\ ws' = ws /\ anchor' = anchor /\ disk' = disk /\ cache' = cache /\ shown' = shown /\ flag' = flag /\ world' = world
      /\ changed' = changed /\ smeared' = smeared /\ ws.root # "" /\ ~Busy(t) /\ ~Due("reclassify")
  BY DEF Set, Begin
<1>7. Carries(t)'
  BY <1>2, <1>4, <1>5, <1>6 DEF Carries
<1>8. \A u \in Threads : Carries(u)'
  BY <1>4, <1>6, <1>7, CarriesStay
<1>9. ASSUME NEW u \in Threads PROVE "reclassify" \notin Left(u)
  BY <1>6 DEF Due, Left
<1>10. ASSUME NEW u \in Threads, u # t, Switching(u) PROVE Left(u) = {"swap"} /\ (Busy(t)' => ToWrite(t)') /\ ~changed'
  <2>1. Left(u) = {"swap"}
    BY <1>9, <1>10 DEF Switching
  <2>2. "unwatch" \notin Left(u)
    BY <2>1
  <2> QED BY <1>5, <1>6, <1>10, <2>1, <2>2 DEF SettlesInv
<1>11. Steady
  <2>1. \A u \in Threads : ~OpenKind(u) /\ ~CloseKind(u)
    BY <1>9, KindsSwitch DEF Switching
  <2> QED BY <2>1 DEF SettlesInv
<1>12. Steady'
  <2>1. ASSUME NEW u \in Threads, NEW step \in {"store", "emit", "anchor"}, step \in Left(u), ~ToWrite(u)
        PROVE  \E v \in Threads : step \in Left(v)' /\ ~ToWrite(v)'
    <3>1. u # t
      <4>1. Left(t) = {}
        BY <1>6, RestsNow
      <4> QED BY <2>1, <4>1
    <3> QED BY <1>4, <2>1, <3>1, OthersStay
  <2> QED BY <1>6, <1>11, <2>1, SteadyStays
<1>13. smeared' \/ WorldFollows'
  <2>1. ~Switching(t) /\ ~Builds(t)
    BY <1>6, RestsNow
  <2>2. ~Builds(t)' /\ ~At(t, "swap")'
    BY <1>2, <1>3, NoBuilds
  <2>3. smeared \/ WorldFollows
    BY DEF SettlesInv
  <2> QED BY <1>4, <1>5, <1>6, <2>1, <2>2, <2>3, WorldStays
<1> QED BY <1>4, <1>5, <1>8, <1>10, <1>12, <1>13, PlainStep

LEMMA FlushKeeps ==
    ASSUME WorkspaceTyped, SettlesInv, NEW t \in Threads, Flush(t), ~crossed'
    PROVE  SettlesInv'
<1>1. /\ ws' = ws /\ anchor' = anchor /\ disk' = disk /\ cache' = cache /\ shown' = shown /\ flag' = flag /\ world' = world
      /\ smeared' = smeared /\ changed /\ ws.watcher # 0 /\ ~Busy(t) /\ ~Due("unwatch")
      /\ \A u \in Threads : thread[u].guard # ws.watcher
  BY DEF Flush, Begin
<1>2. \A u \in Threads : ~Switching(u) /\ ~Flushing(u)
  <2>1. ASSUME NEW u \in Threads PROVE ~Switching(u)
    <3>1. "unwatch" \notin Left(u)
      BY <1>1 DEF Due, Left
    <3> QED BY <1>1, <3>1 DEF SettlesInv
  <2>2. ASSUME NEW u \in Threads PROVE ~Flushing(u)
    BY <1>1 DEF SettlesInv, Carries
  <2> QED BY <2>1, <2>2
<1>3. Steady
  BY <1>2, KindsSwitch DEF SettlesInv
<1>4. ws.root # "" /\ ws.root = ws.watched
  BY <1>1, <1>3 DEF Steady
<1>5. PICK x, next : x = "read" /\ next = {"read"} \union ReplaceLeft
  OBVIOUS
<1>6. PICK w \in Works : CarriesOn(t, w, x, next) /\ w.root = ws.root /\ w.guard = ws.watcher
  BY <1>4, <1>5, FlushGoes
<1>7. /\ {"read", "store", "emit", "anchor"} \subseteq next /\ {"reclassify", "health", "rebuild", "write"} \intersect next = {}
      /\ next # {"swap"} /\ x # "swap"
  BY <1>5 DEF ReplaceLeft
<1>8. thread'[t] = w /\ Left(t)' = next /\ Busy(t)' /\ thread' = [thread EXCEPT ![t] = w]
  BY <1>6, GoneOn DEF CarriesOn
<1>9. ~ToWrite(t)' /\ ~Switching(t)' /\ ~OpenKind(t)' /\ ~CloseKind(t)' /\ Flushing(t)' /\ ~Setting(t)'
  BY <1>1, <1>6, <1>7, <1>8 DEF ToWrite, Switching, OpenKind, CloseKind, Flushing, Setting
<1>10. Carries(t)'
  BY <1>1, <1>6, <1>7, <1>8, <1>9 DEF Carries
<1>11. \A u \in Threads : Carries(u)'
  BY <1>1, <1>2, <1>8, <1>10, CarriesStay
<1>12. Steady'
  <2>1. \A step \in {"store", "emit", "anchor"} : step \in Left(t)' /\ ~ToWrite(t)'
    BY <1>7, <1>8, <1>9
  <2>2. Told(cache = Current, "store")' /\ Told(shown = Current, "emit")' /\ Told(anchor[ws.resolver] = Effective(ws.root, Current), "anchor")'
    BY <2>1 DEF Told
  <2> QED BY <1>1, <1>3, <2>2 DEF Steady
<1>13. smeared' \/ WorldFollows'
  <2>1. ~Switching(t) /\ ~Builds(t)
    BY <1>1, RestsNow
  <2>2. ~Builds(t)' /\ ~At(t, "swap")'
    BY <1>6, <1>7, NoBuilds
  <2>3. smeared \/ WorldFollows
    BY DEF SettlesInv
  <2> QED BY <1>1, <1>8, <1>9, <2>1, <2>2, <2>3, WorldStays
<1>14. \A u \in Threads : u # t => ~(Flushing(t)' /\ Flushing(u)) /\ ~(Setting(t)' /\ Setting(u))
  BY <1>2, <1>9
<1> QED BY <1>2, <1>8, <1>9, <1>11, <1>12, <1>13, <1>14, PlainStep

\* What a change of the file leaves of the others, when none of them holds what it read before.
LEMMA OthersRead ==
    ASSUME WorkspaceTyped, SettlesInv, Steady, NEW root \in Roots, NEW text, NEW but, Writes(but, root, text), ws' = ws,
           NEW u \in Threads, thread[u]' = thread[u], Busy(u) => Flushing(u)
    PROVE  Carries(u)'
<1>1. CASE ~Busy(u)
  <2>1. ~Busy(u)'
    BY <1>1 DEF Busy
  <2> QED BY <2>1, RestsThen DEF Carries
<1>2. CASE Busy(u)
  <2>1. Flushing(u) /\ Carries(u)
    BY <1>2 DEF SettlesInv
  <2>2. ws.watcher # 0 /\ ws.watched = ws.root
    <3>1. ws.watcher # 0
      BY <2>1 DEF Carries, Flushing
    <3> QED BY <3>1 DEF Steady
  <2>3. /\ Left(u)' = Left(u) /\ Flushing(u)' /\ (Switching(u)' <=> Switching(u)) /\ (ToWrite(u)' <=> ToWrite(u)) /\ ~Setting(u)'
    BY <2>1 DEF Left, Flushing, Busy, Switching, ToWrite, Setting
  <2>4. changed' \/ (Current' = Current /\ ~changed')
    <3>1. disk' = [disk EXCEPT ![root] = text] /\ changed' = (changed \/ (ws.watcher # 0 /\ root = ws.watched))
      BY DEF Writes
    <3>2. CASE root = ws.root
      BY <2>2, <3>1, <3>2
    <3>3. CASE root # ws.root
      <4>1. disk'[ws.root] = disk[ws.root]
        BY <3>1, <3>3 DEF WorkspaceTyped, PlacesTyped
      <4>2. Current' = Current
        BY <4>1 DEF Current
      <4>3. changed' \in BOOLEAN
        BY <3>1
      <4> QED BY <4>2, <4>3
    <3> QED BY <3>2, <3>3
  <2>5. changed => changed'
    BY DEF Writes
  <2>6. "read" \in Left(u) \/ thread[u].config = Current' \/ changed'
    BY <2>1, <2>4, <2>5 DEF Carries
  <2> QED BY <2>1, <2>3, <2>6 DEF Carries
<1> QED BY <1>1, <1>2

LEMMA WriteKeeps ==
    ASSUME WorkspaceTyped, SettlesInv, NEW t \in Threads, Write(t), ~crossed'
    PROVE  SettlesInv'
<1>1. At(t, "write") /\ Busy(t) /\ Left(t) = {"write"} \union ReplaceLeft
  BY WriteGoes DEF Write, At
<1>2. "write" \in Left(t) /\ {"reclassify", "health", "rebuild"} \intersect Left(t) = {} /\ Left(t) # {"swap"}
  BY <1>1 DEF ReplaceLeft
<1>3. ToWrite(t) /\ ~Switching(t) /\ ~OpenKind(t) /\ ~CloseKind(t) /\ ~Flushing(t) /\ ~Builds(t)
  <2>1. ToWrite(t) /\ ~Switching(t) /\ ~OpenKind(t) /\ ~CloseKind(t)
    BY <1>2 DEF ToWrite, Switching, OpenKind, CloseKind
  <2>2. ~Flushing(t)
    BY <2>1 DEF SettlesInv, Carries
  <2> QED BY <2>1, <2>2, WaitsFirst
<1>4. Carries(t) /\ thread[t].guard = 0
  BY <1>1, <1>3 DEF SettlesInv, Flushing
<1>5. ws.root # "" /\ thread[t].root = ws.root /\ Parsed(thread[t].config) = thread[t].config /\ ws.root \in Roots
  <2>1. ws.root \in Roots \union {""}
    BY DEF WorkspaceTyped, PlacesTyped, Spaces
  <2> QED BY <1>3, <1>4, <2>1 DEF Carries
<1>6. UNCHANGED <<ws, anchor, cache, shown, flag, world, smeared>>
  BY DEF Write
<1>7. smeared \/ WorldFollows
  BY DEF SettlesInv
<1>8. Steady
  <2>1. ASSUME NEW u \in Threads PROVE ~OpenKind(u) /\ ~CloseKind(u)
    <3>1. CASE u = t
      BY <1>3, <3>1
    <3>2. CASE u # t
      BY <1>1, <3>2, OpenAlone, CloseAlone
    <3> QED BY <3>1, <3>2
  <2> QED BY <2>1 DEF SettlesInv
<1>9. CASE thread' = [thread EXCEPT ![t] = Idle] /\ UNCHANGED <<disk, changed, changes, crossed>>
  <2>1. Steady'
    <3>1. ASSUME NEW u \in Threads, NEW step \in {"store", "emit", "anchor"}, step \in Left(u), ~ToWrite(u)
          PROVE  \E v \in Threads : step \in Left(v)' /\ ~ToWrite(v)'
      <4>1. u # t
        BY <1>3, <3>1
      <4> QED BY <1>9, <3>1, <4>1, OthersStay
    <3> QED BY <1>6, <1>8, <1>9, <3>1, SteadyStays
  <2>2. ~Busy(t)'
    BY <1>9, ThreadIs, WorkTypes DEF Busy
  <2>3. ~Builds(t)' /\ ~At(t, "swap")' /\ ~Switching(t)'
    BY <2>2, RestsThen
  <2>4. smeared' \/ WorldFollows'
    BY <1>3, <1>6, <1>7, <1>9, <2>3, WorldStays
  <2> QED BY <1>1, <1>6, <1>9, <2>1, <2>4, PlainEnds
<1>10. ASSUME Writes({t}, thread[t].root, thread[t].config), NEW w \in Works, CarriesOn(t, w, "store", ReplaceLeft), Keeps(t, w)
       PROVE  SettlesInv'
  <2>1. PICK x, next : x = "store" /\ next = ReplaceLeft
    OBVIOUS
  <2>2. CarriesOn(t, w, x, next) /\ w.root = ws.root /\ w.config = thread[t].config /\ w.guard = 0
    BY <1>4, <1>5, <1>10, <2>1 DEF Keeps
  <2>3. /\ {"store", "emit", "anchor"} \subseteq next /\ {"reclassify", "health", "rebuild", "write", "read"} \intersect next = {}
        /\ next # {"swap"} /\ x # "swap"
    BY <2>1 DEF ReplaceLeft
  <2>4. thread'[t] = w /\ Left(t)' = next /\ Busy(t)' /\ thread' = [thread EXCEPT ![t] = w]
    BY <2>2, GoneOn DEF CarriesOn
  <2>5. ~ToWrite(t)' /\ ~Switching(t)' /\ ~OpenKind(t)' /\ ~CloseKind(t)' /\ ~Flushing(t)'
    BY <2>2, <2>3, <2>4 DEF ToWrite, Switching, OpenKind, CloseKind, Flushing
  <2>6. ASSUME NEW u \in Threads, u # t, Busy(u) PROVE Flushing(u)
    <3>1. ~Held({t})
      BY <1>10 DEF Writes
    <3>2. thread[u].guard # 0
      BY <2>6, <3>1 DEF Held
    <3> QED BY <2>6, <3>2 DEF Flushing
  <2>7. \A u \in Threads : u # t => ~Switching(u) /\ ~Setting(u)
    <3>1. \A u \in Threads : Flushing(u) => ~Switching(u) /\ ~Setting(u)
      BY DEF SettlesInv, Carries, Setting
    <3> QED BY <2>6, <3>1, RestsNow
  <2>8. Carries(t)'
    <3>1. Current' = Parsed(thread[t].config)
      <4>1. disk' = [disk EXCEPT ![ws.root] = thread[t].config]
        BY <1>5, <1>10 DEF Writes
      <4>2. disk'[ws.root] = thread[t].config
        BY <1>5, <4>1 DEF WorkspaceTyped, PlacesTyped
      <4> QED BY <1>6, <4>2 DEF Current
    <3>2. "read" \notin Left(t)'
      BY <2>3, <2>4
    <3> QED BY <1>5, <1>6, <2>2, <2>4, <2>5, <3>1, <3>2 DEF Carries
  <2>9. \A u \in Threads : Carries(u)'
    <3>1. PICK root, text : root = ws.root /\ text = thread[t].config
      OBVIOUS
    <3>2. Writes({t}, root, text) /\ root \in Roots
      BY <1>5, <1>10, <3>1
    <3>3. ASSUME NEW u \in Threads, u # t PROVE Carries(u)'
      <4>1. thread[u]' = thread[u]
        BY <2>4, <3>3, OthersStay
      <4>2. Busy(u) => Flushing(u)
        BY <2>6, <3>3
      <4> QED BY <1>6, <1>8, <3>2, <4>1, <4>2, OthersRead
    <3> QED BY <2>8, <3>3
  <2>10. Steady'
    <3>1. \A step \in {"store", "emit", "anchor"} : step \in Left(t)' /\ ~ToWrite(t)'
      BY <2>3, <2>4, <2>5
    <3>2. Told(cache = Current, "store")' /\ Told(shown = Current, "emit")' /\ Told(anchor[ws.resolver] = Effective(ws.root, Current), "anchor")'
      BY <3>1 DEF Told
    <3> QED BY <1>6, <1>8, <3>2 DEF Steady
  <2>11. smeared' \/ WorldFollows'
    <3>1. ~Builds(t)' /\ ~At(t, "swap")'
      BY <2>2, <2>3, NoBuilds
    <3> QED BY <1>3, <1>6, <1>7, <2>4, <2>5, <3>1, WorldStays
  <2>12. \A u \in Threads : u # t => ~(Flushing(t)' /\ Flushing(u)) /\ ~(Setting(t)' /\ Setting(u))
    BY <2>5, <2>7
  <2> QED BY <2>4, <2>5, <2>7, <2>9, <2>10, <2>11, <2>12, PlainStep
<1> QED BY <1>9, <1>10, WriteGoes

\* What the threads are when none of them moves.
LEMMA AllStay ==
    ASSUME thread' = thread
    PROVE  \A u : /\ Left(u)' = Left(u) /\ (Busy(u)' <=> Busy(u)) /\ (Switching(u)' <=> Switching(u)) /\ (OpenKind(u)' <=> OpenKind(u))
                  /\ (CloseKind(u)' <=> CloseKind(u)) /\ (ToWrite(u)' <=> ToWrite(u)) /\ (Flushing(u)' <=> Flushing(u))
                  /\ (Setting(u)' <=> Setting(u)) /\ (Builds(u)' <=> Builds(u)) /\ (At(u, "swap")' <=> At(u, "swap"))
<1> TAKE u
<1>1. Left(u)' = Left(u) /\ (Busy(u)' <=> Busy(u)) /\ (\A y : At(u, y)' <=> At(u, y)) /\ (Flushing(u)' <=> Flushing(u))
  BY DEF Left, Busy, At, Flushing
<1>2. (Switching(u)' <=> Switching(u)) /\ (OpenKind(u)' <=> OpenKind(u)) /\ (ToWrite(u)' <=> ToWrite(u))
  BY <1>1 DEF Switching, OpenKind, ToWrite
<1>3. (CloseKind(u)' <=> CloseKind(u)) /\ (Setting(u)' <=> Setting(u)) /\ (Builds(u)' <=> Builds(u))
  BY <1>1, <1>2 DEF CloseKind, Setting, Builds
<1> QED BY <1>1, <1>2, <1>3

LEMMA EditKeeps ==
    ASSUME WorkspaceTyped, SettlesInv, NEW root \in Roots, NEW text, Edit(root, text), ~crossed'
    PROVE  SettlesInv'
<1>1. UNCHANGED <<ws, anchor, cache, shown, flag, world, thread, smeared>> /\ Writes({}, root, text)
  BY DEF Edit
<1>2. ASSUME NEW u \in Threads, Busy(u) PROVE Flushing(u)
  <2>1. ~Held({})
    BY <1>1 DEF Writes
  <2>2. thread[u].guard # 0
    BY <1>2, <2>1 DEF Held
  <2> QED BY <1>2, <2>2 DEF Flushing
<1>3. ASSUME NEW u \in Threads PROVE ~Switching(u) /\ ~OpenKind(u) /\ ~CloseKind(u) /\ ~ToWrite(u)
  <2>1. ~Switching(u) /\ ~ToWrite(u)
    <3>1. Flushing(u) => ~Switching(u) /\ ~ToWrite(u)
      BY DEF SettlesInv, Carries
    <3> QED BY <1>2, <3>1, RestsNow
  <2> QED BY <2>1, KindsSwitch
<1>4. Steady
  BY <1>3 DEF SettlesInv
<1>5. \A u \in Threads : Carries(u)'
  BY <1>1, <1>2, <1>4, OthersRead
<1>6. \A u \in Threads :
         /\ Left(u)' = Left(u) /\ ~Switching(u)' /\ ~OpenKind(u)' /\ ~CloseKind(u)' /\ ~ToWrite(u)' /\ (Busy(u)' <=> Busy(u))
         /\ (Flushing(u)' <=> Flushing(u)) /\ (Setting(u)' <=> Setting(u)) /\ (Builds(u)' <=> Builds(u)) /\ (At(u, "swap")' <=> At(u, "swap"))
  BY <1>1, <1>3, AllStay
<1>7. Together'
  BY <1>6 DEF SettlesInv, Together
<1>8. \A u \in Threads : Opens(u)' /\ Closes(u)'
  BY <1>6 DEF Opens, Closes
<1>9. ASSUME NEW u \in Threads
      PROVE  /\ (Switching(u) /\ "unwatch" \notin Left(u) => ~changed)'
             /\ (Left(u) = {"reclassify", "swap"} /\ ws.root # "" => world.owner < ws.id)'
  <2>1. "reclassify" \notin Left(u)'
    BY <1>6 DEF Switching
  <2>2. "reclassify" \in {"reclassify", "swap"}
    OBVIOUS
  <2> QED BY <1>6, <2>1, <2>2
<1>10. Steady'
  <2>1. changed' = (changed \/ (ws.watcher # 0 /\ root = ws.watched)) /\ disk' = [disk EXCEPT ![root] = text]
    BY <1>1 DEF Writes
  <2>2. CASE changed'
    <3>1. Told(cache = Current, "store")' /\ Told(shown = Current, "emit")' /\ Told(anchor[ws.resolver] = Effective(ws.root, Current), "anchor")'
      BY <2>2 DEF Told
    <3> QED BY <1>1, <1>4, <3>1 DEF Steady
  <2>3. CASE ~changed'
    <3>1. ws.root # "" /\ ws.watcher # 0 => Current' = Current
      <4>1. ASSUME ws.root # "", ws.watcher # 0 PROVE disk'[ws.root] = disk[ws.root]
        <5>1. root # ws.root
          BY <1>4, <2>1, <2>3, <4>1 DEF Steady
        <5> QED BY <2>1, <5>1 DEF WorkspaceTyped, PlacesTyped
      <4> QED BY <1>1, <4>1 DEF Current
    <3>2. ASSUME ws.root # "", ws.watcher # 0
          PROVE  Told(cache = Current, "store")' /\ Told(shown = Current, "emit")' /\ Told(anchor[ws.resolver] = Effective(ws.root, Current), "anchor")'
      <4>1. Told(cache = Current, "store") /\ Told(shown = Current, "emit") /\ Told(anchor[ws.resolver] = Effective(ws.root, Current), "anchor")
        BY <1>4, <3>2 DEF Steady
      <4>2. ~changed /\ Current' = Current
        BY <2>1, <2>3, <3>1, <3>2
      <4> QED BY <1>1, <1>3, <1>6, <4>1, <4>2 DEF Told
    <3> QED BY <1>1, <1>4, <3>2 DEF Steady
  <2> QED BY <2>2, <2>3
<1>11. smeared' \/ WorldFollows'
  <2>1. WorldFollows => WorldFollows'
    <3>1. Target' = Target /\ (Near' <=> Near)
      BY <1>1 DEF Target, Near
    <3> QED BY <1>1, <1>3, <1>6, <3>1 DEF WorldFollows
  <2> QED BY <1>1, <2>1 DEF SettlesInv
<1> QED BY <1>4, <1>5, <1>7, <1>8, <1>9, <1>10, <1>11 DEF SettlesInv

-----------------------------------------------------------------------------
(* The workspace settles.                                                  *)

LEMMA SettlesAtFirst == ASSUME WorkspaceInit PROVE WorkspaceInv
<1>1. WorkspaceTyped
  BY TypesAtFirst
<1>2. \A u \in Threads : ~Busy(u)
  BY WorkTypes DEF WorkspaceInit, Busy
<1>3. \A u \in Threads : /\ Left(u) = {} /\ ~OpenKind(u) /\ ~CloseKind(u) /\ ~Switching(u) /\ ~ToWrite(u) /\ ~Flushing(u) /\ ~Setting(u)
                         /\ ~Builds(u) /\ ~At(u, "swap")
  BY <1>2, RestsNow
<1>4. Together /\ \A u \in Threads : Carries(u) /\ Opens(u) /\ Closes(u)
  BY <1>2, <1>3 DEF Together, Carries, Opens, Closes
<1>5. Steady
  BY DEF WorkspaceInit, Steady
<1>6. WorldFollows
  <2>1. ws.root = "" /\ world = Loose /\ Home # ""
    BY TextTypes DEF WorkspaceInit
  <2> QED BY <1>3, <2>1 DEF WorldFollows, Near, Target
<1>7. \A u \in Threads : Left(u) = {"reclassify", "swap"} /\ ws.root # "" => world.owner < ws.id
  BY DEF WorkspaceInit
<1> QED BY <1>1, <1>3, <1>4, <1>5, <1>6, <1>7 DEF WorkspaceInv, SettlesInv

\* The steps of a command under way.
LEMMA GoesOnKeeps ==
    ASSUME WorkspaceTyped, SettlesInv, NEW t \in Threads, Read(t) \/ Store(t) \/ RootOf(t) \/ Anchor(t) \/ Emit(t)
    PROVE  SettlesInv'
<1>1. CASE Switching(t)
  <2>1. CASE Read(t)
    <3>1. At(t, "read")
      BY <2>1 DEF Read
    <3>2. "read" \in Left(t)
      BY <3>1, AtPlans, PlanKinds DEF Left
    <3>3. OpenKind(t)
      <4>1. Left(t) = {"read"} \union ReplaceLeft \/ Left(t) = OpenLeft
        BY <3>1, AtPlans, ReplaceSteps DEF StepsAfter, Left
      <4>2. "reclassify" \in Left(t)
        BY <1>1, <3>2 DEF Switching
      <4>3. "reclassify" \notin {"read"} \union ReplaceLeft /\ "health" \in OpenLeft
        BY DEF OpenLeft, ReplaceLeft
      <4> QED BY <4>1, <4>2, <4>3 DEF OpenKind
    <3> QED BY <2>1, <3>3, OpenReadKeeps
  <2> QED BY <1>1, <2>1, StoreSwitching, RootOfSwitching, AnchorSwitching, EmitSwitching
<1>2. CASE ~Switching(t)
  BY <1>2, ReadPlain, StorePlain, RootOfPlain, AnchorPlain, EmitPlain
<1> QED BY <1>1, <1>2

LEMMA SettlesKept ==
    ASSUME WorkspaceInv, [WorkspaceNext]_workspaceVars
    PROVE  WorkspaceInv'
<1>1. WorkspaceTyped /\ WorkspaceTyped'
  BY TypesKept DEF WorkspaceInv
<1> SUFFICES ASSUME ~crossed' PROVE SettlesInv'
  BY <1>1 DEF WorkspaceInv
<1>2. CASE UNCHANGED workspaceVars
  <2>1. crossed' = crossed /\ SettlesInv
    BY <1>2 DEF workspaceVars, WorkspaceInv
  <2>2. UNCHANGED <<ws, anchor, disk, cache, shown, flag, world, changed, thread, smeared>>
    BY <1>2 DEF workspaceVars
  <2>3. Current' = Current /\ Target' = Target /\ (Near' <=> Near)
    BY <2>2 DEF Current, Target, Near
  <2>4. \A u : /\ Left(u)' = Left(u) /\ (Busy(u)' <=> Busy(u)) /\ (Switching(u)' <=> Switching(u)) /\ (OpenKind(u)' <=> OpenKind(u))
               /\ (CloseKind(u)' <=> CloseKind(u)) /\ (ToWrite(u)' <=> ToWrite(u)) /\ (Flushing(u)' <=> Flushing(u))
               /\ (Setting(u)' <=> Setting(u)) /\ (Builds(u)' <=> Builds(u)) /\ (At(u, "swap")' <=> At(u, "swap"))
    BY <2>2, AllStay
  <2>5. Together' /\ \A u \in Threads : Carries(u)' /\ Opens(u)' /\ Closes(u)'
    BY <2>1, <2>2, <2>3, <2>4 DEF SettlesInv, Together, Carries, Opens, Closes
  <2>6. Steady => Steady'
    BY <2>2, <2>3, <2>4 DEF Steady, Told
  <2>7. WorldFollows => WorldFollows'
    BY <2>2, <2>3, <2>4 DEF WorldFollows
  <2>8. \A u \in Threads :
           /\ (Switching(u) /\ "unwatch" \notin Left(u) => ~changed)'
           /\ (Left(u) = {"reclassify", "swap"} /\ ws.root # "" => world.owner < ws.id)'
    BY <2>1, <2>2, <2>4 DEF SettlesInv
  <2> QED BY <2>1, <2>2, <2>4, <2>5, <2>6, <2>7, <2>8 DEF SettlesInv
<1>3. ASSUME NEW t \in Threads, Close(t) \/ \E root \in Roots : Open(t, root) PROVE SettlesInv'
  BY <1>1, <1>3, SwitchBegins
<1>4. ASSUME NEW t \in Threads,
             \/ SetRoot(t) \/ SetResolver(t) \/ SetId(t) \/ Unwatch(t) \/ Watch(t) \/ Health(t)
             \/ Clear(t) \/ Reclassify(t) \/ Swap(t)
             \/ Read(t) \/ Store(t) \/ RootOf(t) \/ Anchor(t) \/ Rebuild(t) \/ Emit(t)
      PROVE  SettlesInv'
  <2>1. crossed' = crossed
    BY <1>4 DEF SetRoot, SetResolver, SetId, Unwatch, Watch, Health, Clear, Reclassify, Swap, Read, Store, RootOf, Anchor, Rebuild, Emit
  <2>2. SettlesInv
    BY <2>1 DEF WorkspaceInv
  <2> QED BY <1>1, <1>4, <2>2, SetRootKeeps, SetResolverKeeps, SetIdKeeps, UnwatchKeeps, WatchKeeps, HealthKeeps, ClearKeeps,
             ReclassifyKeeps, SwapKeeps, RebuildKeeps, GoesOnKeeps
<1>5. ASSUME NEW t \in Threads,
             \/ \E config \in Configs \union {None} : Set(t, config)
             \/ \E main \in Mains : SetMain(t, main)
             \/ Write(t) \/ Flush(t)
      PROVE  SettlesInv'
  <2>1. CASE \E config \in Texts : Set(t, config) /\ Parsed(config) = config
    <3>1. PICK config \in Texts : Set(t, config) /\ Parsed(config) = config
      BY <2>1
    <3>2. SettlesInv
      BY <3>1 DEF Set, WorkspaceInv
    <3> QED BY <1>1, <3>1, <3>2, SetKeeps
  <2>2. CASE Write(t)
    <3>1. SettlesInv
      <4>1. crossed => crossed'
        BY <2>2 DEF Write, Writes
      <4> QED BY <4>1 DEF WorkspaceInv
    <3> QED BY <1>1, <2>2, <3>1, WriteKeeps
  <2>3. CASE Flush(t)
    <3>1. SettlesInv
      BY <2>3 DEF Flush, WorkspaceInv
    <3> QED BY <1>1, <2>3, <3>1, FlushKeeps
  <2> QED BY <1>1, <1>5, <2>1, <2>2, <2>3, SetTexts
<1>6. ASSUME NEW root \in Roots, NEW text \in Configs \union {None, Corrupt}, Edit(root, text) PROVE SettlesInv'
  <2>1. SettlesInv
    BY <1>6 DEF Edit, Writes, WorkspaceInv
  <2> QED BY <1>1, <1>6, <2>1, EditKeeps
<1> QED BY <1>2, <1>3, <1>4, <1>5, <1>6 DEF WorkspaceNext

LEMMA InvSettles == ASSUME WorkspaceInv PROVE WorkspaceSettles
<1> SUFFICES ASSUME AtRest, ~crossed PROVE WorkspaceSettles
  BY DEF WorkspaceSettles, ConfigSettles, WorldSettles
<1>1. SettlesInv /\ \A u \in Threads : ~Busy(u)
  BY DEF WorkspaceInv, AtRest
<1>2. \A u \in Threads : Left(u) = {} /\ ~OpenKind(u) /\ ~CloseKind(u) /\ ~Switching(u) /\ ~Builds(u)
  BY <1>1, RestsNow
<1>3. Steady
  BY <1>1, <1>2 DEF SettlesInv
<1>4. ConfigSettles
  <2>1. ASSUME ws.root # "", ~flag, ~changed
        PROVE  ws.watched = ws.root /\ cache = Current /\ shown = Current /\ anchor[ws.resolver] = Effective(ws.root, Current)
    <3>1. ws.watcher # 0
      BY <1>3, <2>1 DEF Steady
    <3>2. /\ ws.watched = ws.root
          /\ Told(cache = Current, "store") /\ Told(shown = Current, "emit")
          /\ Told(anchor[ws.resolver] = Effective(ws.root, Current), "anchor")
      BY <1>3, <2>1, <3>1 DEF Steady
    <3> QED BY <1>2, <2>1, <3>2 DEF Told
  <2>2. ws.root = "" => cache = None /\ shown = None
    BY <1>3 DEF Steady
  <2> QED BY <2>1, <2>2 DEF ConfigSettles, Current
<1>5. WorldSettles
  <2>1. ~smeared => world = Target
    BY <1>1, <1>2 DEF SettlesInv, WorldFollows
  <2> QED BY <2>1 DEF WorldSettles, Target
<1> QED BY <1>4, <1>5 DEF WorkspaceSettles

THEOREM WorkspaceDoesSettle == WorkspaceSpec => []WorkspaceSettles
<1>1. WorkspaceInit => WorkspaceInv
  BY SettlesAtFirst
<1>2. WorkspaceInv /\ [WorkspaceNext]_workspaceVars => WorkspaceInv'
  BY SettlesKept
<1>3. WorkspaceInv => WorkspaceSettles
  BY InvSettles
<1> QED BY <1>1, <1>2, <1>3, PTL DEF WorkspaceSpec
=============================================================================
