---------------------------- MODULE Stores_proofs ----------------------------
(***************************************************************************)
(* Theorems about what the core keeps: AtomicFile, for any writers and any *)
(* number of crashes and generations; SettingsStore and SessionStore, for  *)
(* any threads and values; TabLifecycle, for any documents and paths;      *)
(* Dependents, for any files, inclusions and edits.                        *)
(***************************************************************************)
EXTENDS AtomicFile, SettingsStore, SessionStore, TabLifecycle, Dependents, FiniteSetTheorems, TLAPS

Active(w) == afPc[w] # "idle"

\* The callers' locks: one writer at a time.
OneWriter == \A v, w \in Writers : Active(v) /\ Active(w) => v = w

\* What a writer is about to rename is whole, and its old bytes parse unless
\* the file was damaged; the backup is written only when there are old bytes.
InHand ==
    \A w \in Writers :
        /\ afPc[w] \in {"perms", "rename"} => temp[w] = New(w)
        /\ Active(w) => /\ gen[w] \in Gens
                        /\ gen[w] >= solid
                        /\ gen[w] < nextGen
                        /\ prev[w] = Torn => damaged
                        /\ target[w] = "bak" => prev[w] # Missing

\* After a rename the target holds the new bytes until damage.
Renamed ==
    \A w \in Writers :
        /\ afPc[w] = "sync" /\ target[w] = "main" /\ ~damaged => dir["main"] = gen[w]
        /\ afPc[w] = "sync" /\ target[w] = "bak" => dir["bak"] = prev[w]
        /\ Active(w) /\ (afPc[w] = "sync" \/ target[w] = "bak") /\ prev[w] = Torn => dir["main"] \in Gens

\* Whatever directory a crash leaves holds what was synced.
Kept ==
    /\ solid < nextGen
    /\ \A d \in past \union {dir} :
          /\ ~damaged => d["main"] >= solid
          /\ rotated => d["bak"] \in Gens \/ (damaged /\ d["main"] \in Gens)

FileInv == AtomicFileTypeOK /\ OneWriter /\ InHand /\ Renamed /\ Kept /\ NeverTorn

USE DEF Missing, Torn, Gens, Bytes, Names

\* It holds in the empty directory the program starts with.
THEOREM FileStarts == AtomicFileInit => FileInv
<1> SUFFICES ASSUME AtomicFileInit PROVE FileInv
  OBVIOUS
<1> USE AtomicFileAssumption DEF AtomicFileInit
<1>1. AtomicFileTypeOK
  <2>1. dir \in [Names -> Bytes] /\ past \subseteq [Names -> Bytes]
    OBVIOUS
  <2>2. /\ temp \in [Writers -> Bytes] /\ afPc \in [Writers -> {"idle", "create", "write", "perms", "rename", "sync"}]
        /\ target \in [Writers -> Names] /\ prev \in [Writers -> Bytes] /\ gen \in [Writers -> Bytes]
    OBVIOUS
  <2>3. \A w \in Writers : temp[w] = Missing
    OBVIOUS
  <2>4. /\ value \in Gens \union {Missing} /\ solid \in Gens \union {Missing}
        /\ nextGen \in 1 .. MaxGen + 1 /\ crashes \in 0 .. MaxCrashes
    OBVIOUS
  <2>5. /\ strays \in BOOLEAN /\ running \in BOOLEAN
        /\ damaged \in BOOLEAN /\ rotated \in BOOLEAN
    OBVIOUS
  <2> QED
    BY <2>1, <2>2, <2>3, <2>4, <2>5 DEF AtomicFileTypeOK
<1>2. OneWriter /\ InHand /\ Renamed
  BY DEF OneWriter, InHand, Renamed, Active
<1>3. Kept /\ NeverTorn
  BY DEF Kept, NeverTorn
<1> QED
  BY <1>1, <1>2, <1>3 DEF FileInv

\* Every step keeps it.
LEMMA FileKept == FileInv /\ [AtomicFileNext]_atomicFileVars => FileInv'
<1> SUFFICES ASSUME FileInv, [AtomicFileNext]_atomicFileVars PROVE FileInv'
  OBVIOUS
<1> USE AtomicFileAssumption DEF FileInv, AtomicFileTypeOK, afWriter, afHistory, WriterAt, WriterGo, Active
<1>0. CASE UNCHANGED atomicFileVars
  BY <1>0 DEF atomicFileVars, OneWriter, InHand, Renamed, Kept, NeverTorn, New
<1>1. ASSUME NEW w \in Writers, ReadPrevious(w) PROVE FileInv'
  <2> USE <1>1 DEF ReadPrevious
  <2>1. AtomicFileTypeOK'
    BY DEF New
  <2>2. OneWriter'
    BY DEF OneWriter
  <2>3. InHand'
    BY DEF OneWriter, InHand, New, Kept, NeverTorn
  <2>4. Renamed'
    BY DEF OneWriter, InHand, Renamed, New
  <2>5. Kept'
    BY DEF OneWriter, InHand, Renamed, Kept, NeverTorn, New
  <2>6. NeverTorn'
    BY DEF InHand, NeverTorn, New
  <2> QED
    BY <2>1, <2>2, <2>3, <2>4, <2>5, <2>6
<1>2. ASSUME NEW w \in Writers, CreateTemp(w) PROVE FileInv'
  <2> USE <1>2 DEF CreateTemp
  <2>1. AtomicFileTypeOK'
    BY DEF New
  <2>2. OneWriter'
    BY DEF OneWriter
  <2>3. InHand'
    BY DEF OneWriter, InHand, New, Kept, NeverTorn
  <2>4. Renamed'
    BY DEF OneWriter, InHand, Renamed, New
  <2>5. Kept'
    BY DEF OneWriter, InHand, Renamed, Kept, NeverTorn, New
  <2>6. NeverTorn'
    BY DEF InHand, NeverTorn, New
  <2> QED
    BY <2>1, <2>2, <2>3, <2>4, <2>5, <2>6
<1>3. ASSUME NEW w \in Writers, SyncTemp(w) PROVE FileInv'
  <2> USE <1>3 DEF SyncTemp
  <2>1. AtomicFileTypeOK'
    BY DEF InHand, New
  <2>2. OneWriter'
    BY DEF OneWriter
  <2>3. InHand'
    BY DEF OneWriter, InHand, New, Kept, NeverTorn
  <2>4. Renamed'
    BY DEF OneWriter, InHand, Renamed, New
  <2>5. Kept'
    BY DEF OneWriter, InHand, Renamed, Kept, NeverTorn, New
  <2>6. NeverTorn'
    BY DEF InHand, NeverTorn, New
  <2> QED
    BY <2>1, <2>2, <2>3, <2>4, <2>5, <2>6
<1>4. ASSUME NEW w \in Writers, CopyPermissions(w) PROVE FileInv'
  <2> USE <1>4 DEF CopyPermissions
  <2>1. AtomicFileTypeOK'
    BY DEF New
  <2>2. OneWriter'
    BY DEF OneWriter
  <2>3. InHand'
    BY DEF OneWriter, InHand, New, Kept, NeverTorn
  <2>4. Renamed'
    BY DEF OneWriter, InHand, Renamed, New
  <2>5. Kept'
    BY DEF OneWriter, InHand, Renamed, Kept, NeverTorn, New
  <2>6. NeverTorn'
    BY DEF InHand, NeverTorn, New
  <2> QED
    BY <2>1, <2>2, <2>3, <2>4, <2>5, <2>6
<1>5. ASSUME NEW w \in Writers, RenameTemp(w) PROVE FileInv'
  <2> USE <1>5 DEF RenameTemp
  <2>1. AtomicFileTypeOK'
    BY DEF InHand, New
  <2>2. OneWriter'
    BY DEF OneWriter
  <2>3. InHand'
    BY DEF OneWriter, InHand, New, Kept, NeverTorn
  <2>4. Renamed'
    BY DEF OneWriter, InHand, Renamed, New
  <2>5. Kept'
    BY DEF OneWriter, InHand, Renamed, Kept, NeverTorn, New
  <2>6. NeverTorn'
    BY DEF InHand, NeverTorn, New
  <2> QED
    BY <2>1, <2>2, <2>3, <2>4, <2>5, <2>6
<1>6. ASSUME NEW w \in Writers, SyncDirectory(w) PROVE FileInv'
  <2> USE <1>6 DEF SyncDirectory
  <2>1. AtomicFileTypeOK'
    BY DEF InHand, New
  <2>2. OneWriter'
    BY DEF OneWriter
  <2>3. InHand'
    BY DEF OneWriter, InHand, New, Kept, NeverTorn
  <2>4. Renamed'
    BY DEF OneWriter, InHand, Renamed, New
  <2>5. Kept'
    BY DEF OneWriter, InHand, Renamed, Kept, NeverTorn, New
  <2>6. NeverTorn'
    BY DEF InHand, NeverTorn, New
  <2> QED
    BY <2>1, <2>2, <2>3, <2>4, <2>5, <2>6
<1>7. ASSUME NEW w \in Writers, Fail(w) PROVE FileInv'
  <2> USE <1>7 DEF Fail
  <2>1. AtomicFileTypeOK'
    BY DEF New
  <2>2. OneWriter'
    BY DEF OneWriter
  <2>3. InHand'
    BY DEF OneWriter, InHand, New, Kept, NeverTorn
  <2>4. Renamed'
    BY DEF OneWriter, InHand, Renamed, New
  <2>5. Kept'
    BY DEF OneWriter, InHand, Renamed, Kept, NeverTorn, New
  <2>6. NeverTorn'
    BY DEF InHand, NeverTorn, New
  <2> QED
    BY <2>1, <2>2, <2>3, <2>4, <2>5, <2>6
<1>8. ASSUME PowerLoss PROVE FileInv'
  <2> USE <1>8 DEF PowerLoss
  <2>a. strays' \in BOOLEAN
    BY Zenon
  <2>b. dir' \in [Names -> Bytes] /\ past' \subseteq [Names -> Bytes]
    OBVIOUS
  <2>c. /\ temp' \in [Writers -> Bytes] /\ crashes' \in 0 .. MaxCrashes
        /\ afPc' \in [Writers -> {"idle", "create", "write", "perms", "rename", "sync"}]
        /\ \A w \in Writers : temp'[w] = Missing
    OBVIOUS
  <2>1. AtomicFileTypeOK'
    BY <2>a, <2>b, <2>c DEF New
  <2>2. OneWriter'
    BY DEF OneWriter
  <2>3. InHand'
    BY DEF OneWriter, InHand, New, Kept, NeverTorn
  <2>4. Renamed'
    BY DEF OneWriter, InHand, Renamed, New
  <2>5. Kept'
    BY DEF OneWriter, InHand, Renamed, Kept, NeverTorn, New
  <2>6. NeverTorn'
    BY DEF InHand, NeverTorn, New
  <2> QED
    BY <2>1, <2>2, <2>3, <2>4, <2>5, <2>6
<1>9. ASSUME Damage PROVE FileInv'
  <2> USE <1>9 DEF Damage
  <2>1. AtomicFileTypeOK'
    BY DEF New
  <2>2. OneWriter'
    BY DEF OneWriter
  <2>3. InHand'
    BY DEF OneWriter, InHand, New, Kept, NeverTorn
  <2>4. Renamed'
    BY DEF OneWriter, InHand, Renamed, New
  <2>5. Kept'
    BY DEF OneWriter, InHand, Renamed, Kept, NeverTorn, New
  <2>6. NeverTorn'
    BY DEF InHand, NeverTorn, New
  <2> QED
    BY <2>1, <2>2, <2>3, <2>4, <2>5, <2>6
<1>10. ASSUME Load PROVE FileInv'
  <2> USE <1>10 DEF Load, Quarantine, Parses, FromBackup
  <2>1. AtomicFileTypeOK'
    BY DEF New
  <2>2. OneWriter'
    BY DEF OneWriter
  <2>3. InHand'
    BY DEF OneWriter, InHand, New, Kept, NeverTorn
  <2>4. Renamed'
    BY DEF OneWriter, InHand, Renamed, New
  <2>5. Kept'
    BY DEF OneWriter, InHand, Renamed, Kept, NeverTorn, New
  <2>6. NeverTorn'
    BY DEF InHand, NeverTorn, New
  <2> QED
    BY <2>1, <2>2, <2>3, <2>4, <2>5, <2>6
<1>11. ASSUME CleanStaleTemps PROVE FileInv'
  <2> USE <1>11 DEF CleanStaleTemps
  <2>1. AtomicFileTypeOK'
    BY DEF New
  <2>2. OneWriter'
    BY DEF OneWriter
  <2>3. InHand'
    BY DEF OneWriter, InHand, New, Kept, NeverTorn
  <2>4. Renamed'
    BY DEF OneWriter, InHand, Renamed, New
  <2>5. Kept'
    BY DEF OneWriter, InHand, Renamed, Kept, NeverTorn, New
  <2>6. NeverTorn'
    BY DEF InHand, NeverTorn, New
  <2> QED
    BY <2>1, <2>2, <2>3, <2>4, <2>5, <2>6
<1> QED
  BY <1>0, <1>1, <1>2, <1>3, <1>4, <1>5, <1>6, <1>7, <1>8, <1>9, <1>10, <1>11 DEF AtomicFileNext

\* write_bytes: only damage from outside makes bytes that do not parse, whatever
\* step a crash or a failure falls on.
THEOREM FilesWhole == AtomicFileSpec => []NeverTorn
<1>1. FileInv => NeverTorn
  BY DEF FileInv
<1> QED
  BY <1>1, FileStarts, FileKept, PTL DEF AtomicFileSpec

\* What Load finds.
LEMMA LoadFinds ==
    ASSUME FileInv, Load
    PROVE  (~damaged => value' >= solid) /\ (rotated => value' # Missing)
<1> USE AtomicFileAssumption DEF FileInv, AtomicFileTypeOK, Kept
<1>1. value' = IF dir["main"] \in Gens THEN dir["main"] ELSE IF dir["bak"] \in Gens THEN dir["bak"] ELSE Missing
  BY DEF Load, Parses, FromBackup
<1>2. dir["main"] \in Bytes /\ dir["bak"] \in Bytes /\ solid \in Nat
  OBVIOUS
<1>3. ASSUME ~damaged PROVE value' >= solid
  BY <1>1, <1>2, <1>3 DEF NeverTorn
<1>4. ASSUME rotated PROVE value' # Missing
  BY <1>1, <1>2, <1>4
<1> QED
  BY <1>3, <1>4

\* write_with_backup: a start finds the last generation whose write went through,
\* or a younger one, and one damage from outside never costs everything.
THEOREM NothingAckedIsLost == AtomicFileSpec => NoAckedLoss
<1>1. FileInv /\ [AtomicFileNext]_atomicFileVars
        => [Load => /\ ~damaged => value' >= solid
                    /\ rotated => value' # Missing]_atomicFileVars
  <2> SUFFICES ASSUME FileInv, Load PROVE (~damaged => value' >= solid) /\ (rotated => value' # Missing)
    OBVIOUS
  <2> QED
    BY LoadFinds
<1> QED
  BY <1>1, FileStarts, FileKept, PTL DEF AtomicFileSpec, NoAckedLoss

-----------------------------------------------------------------------------
(* The settings.                                                            *)

SettingsValues == SettingValues \union HandValues \union {NoValue}
                    \union {SettingDefs[k].default : k \in SettingKeys}
ValueLists == [SettingKeys -> SettingsValues]
StDocs     == [ver : {SchemaCurrent, SchemaCurrent + 1}, vals : ValueLists]
Requests   == [key : SettingKeys \union {NoReq.key}, value : SettingsValues]

\* A value of k that may be stored; the mask is never a secret.
Fits(k, v)     == v = NoValue \/ SettingIsValid(SettingDefs[k], v)
Unmasked(vals) == \A k \in SettingKeys : SettingDefs[k].secret => vals[k] # SecretMask
Sound(doc)     == (\A k \in SettingKeys : Fits(k, doc.vals[k])) /\ Unmasked(doc.vals)

\* The document holds every value that was acknowledged.
Keeps(doc) == \A k \in SettingKeys : stAcked[k] # NoValue => doc.vals[k] = stAcked[k]

StTypes ==
    /\ stMem \in StDocs
    /\ stDisk \in [form : {"missing", "object", "other"}, ver : 0..SchemaCurrent + 1, vals : ValueLists]
    /\ stPc \in [Setters -> {"idle", "checked", "mutated", "saved"}]
    /\ stReq \in [Setters -> Requests]
    /\ stPrev \in [Setters -> StDocs] /\ stSnap \in [Setters -> StDocs]
    /\ stAcked \in ValueLists /\ stByHand \in BOOLEAN

\* What a request has passed before it waits for the lock.
Checked ==
    \A t \in Setters : stPc[t] # "idle" =>
        LET r == stReq[t] IN
        /\ r.key \in SettingKeys /\ SettingIsValid(SettingDefs[r.key], r.value)
        /\ SettingDefs[r.key].secret => r.value # SecretMask

\* One writer holds the lock, with the document from before and after its change.
OneSetter ==
    /\ stWriter = {t \in Setters : stPc[t] = "mutated"}
    /\ \A t, u \in stWriter : t = u
    /\ \A t \in stWriter :
          /\ Sound(stPrev[t]) /\ Keeps(stPrev[t])
          /\ stMem = SetPointer(stPrev[t], stReq[t]) /\ stSnap[t] = stMem

\* What was acknowledged is on disk until somebody edits the file.
OnDisk ==
    /\ Unmasked(stDisk.vals)
    /\ \A k \in SettingKeys : stAcked[k] # NoValue =>
          /\ SettingIsValid(SettingDefs[k], stAcked[k])
          /\ ~stByHand => stDisk.form = "object" /\ stDisk.vals[k] = stAcked[k]

SettingsInv ==
    /\ StTypes /\ Checked /\ OneSetter /\ OnDisk
    /\ Sound(stMem) /\ (stWriter = {} => Keeps(stMem))

\* No value is absent and valid.
LEMMA AbsentIsInvalid == \A k : ~SettingIsValid(SettingDefs[k], NoValue)
BY DEF SettingIsValid, NoValue

LEMMA MaskIsNoValue == SecretMask # NoValue
BY DEF SecretMask, Text, NoValue

\* set_pointer: one key of a sound document takes a checked value.
LEMMA PointerSets ==
    ASSUME NEW doc \in StDocs, NEW r \in Requests, r.key \in SettingKeys
    PROVE  LET new == SetPointer(doc, r) IN
           /\ new \in StDocs /\ new.ver = doc.ver /\ new.vals[r.key] = r.value
           /\ \A k \in SettingKeys : k # r.key => new.vals[k] = doc.vals[k]
           /\ Sound(doc) /\ SettingIsValid(SettingDefs[r.key], r.value)
                /\ (SettingDefs[r.key].secret => r.value # SecretMask) => Sound(new)
<1> DEFINE new == SetPointer(doc, r)
<1>1. new = [ver |-> doc.ver, vals |-> [doc.vals EXCEPT ![r.key] = r.value]]
  BY DEF SetPointer, StDocs
<1>2. doc.vals \in ValueLists /\ doc.ver \in {SchemaCurrent, SchemaCurrent + 1} /\ r.value \in SettingsValues
  BY DEF StDocs, Requests
<1> DEFINE vals == [doc.vals EXCEPT ![r.key] = r.value]
<1>3. /\ vals \in ValueLists /\ vals[r.key] = r.value
      /\ \A k \in SettingKeys : k # r.key => vals[k] = doc.vals[k]
  BY <1>2 DEF ValueLists
<1> HIDE DEF vals
<1>4. new \in StDocs /\ new.ver = doc.ver /\ new.vals = vals
  BY <1>1, <1>2, <1>3 DEF StDocs, vals
<1> HIDE DEF new
<1>5. ASSUME Sound(doc), SettingIsValid(SettingDefs[r.key], r.value),
             SettingDefs[r.key].secret => r.value # SecretMask
      PROVE  Sound(new)
  BY <1>3, <1>4, <1>5 DEF Sound, Fits, Unmasked
<1> QED
  BY <1>3, <1>4, <1>5 DEF new

\* SettingsService::new: whatever the file holds, memory is sound, and it holds
\* every valid value of an object.
LEMMA LoadIsSound ==
    ASSUME NEW file \in [form : {"missing", "object", "other"}, ver : 0..SchemaCurrent + 1, vals : ValueLists],
           Unmasked(file.vals)
    PROVE  /\ LoadSettings(file) \in StDocs /\ Sound(LoadSettings(file))
           /\ \A k \in SettingKeys :
                 file.form = "object" /\ SettingIsValid(SettingDefs[k], file.vals[k])
                    => LoadSettings(file).vals[k] = file.vals[k]
<1> DEFINE doc == LoadSettings(file)
<1>0. \A v \in 0..SchemaCurrent + 1 : MigrateSettings(v) \in {SchemaCurrent, SchemaCurrent + 1}
  BY DEF MigrateSettings, SchemaCurrent
<1>1. file.ver \in 0..SchemaCurrent + 1 /\ 0 \in 0..SchemaCurrent + 1 /\ file.vals \in ValueLists
  BY DEF SchemaCurrent
<1>2. CASE file.form = "object"
  <2> DEFINE vals == SanitizeLoaded(file.vals)
  <2>1. \A k \in SettingKeys :
           vals[k] = IF Fits(k, file.vals[k]) THEN file.vals[k] ELSE SettingDefs[k].default
    BY DEF SanitizeLoaded, Fits
  <2>2. vals \in ValueLists
    <3>1. vals = [k \in SettingKeys |-> vals[k]]
      BY DEF SanitizeLoaded
    <3>2. \A k \in SettingKeys : vals[k] \in SettingsValues
      BY <1>1, <2>1 DEF ValueLists, SettingsValues
    <3> HIDE DEF vals
    <3> QED
      BY <3>1, <3>2 DEF ValueLists
  <2> HIDE DEF vals
  <2>3. doc = [ver |-> MigrateSettings(file.ver), vals |-> vals]
    BY <1>2 DEF LoadSettings, vals
  <2>4. doc \in StDocs /\ doc.vals = vals
    BY <1>0, <1>1, <2>2, <2>3 DEF StDocs
  <2> HIDE DEF doc
  <2>5. Sound(doc)
    BY <2>1, <2>4, SettingsAssumption DEF Sound, Fits, Unmasked
  <2> QED
    BY <2>1, <2>4, <2>5 DEF Fits, doc
<1>3. CASE file.form # "object"
  <2> DEFINE vals == [k \in SettingKeys |-> NoValue]
  <2>1. vals \in ValueLists /\ \A k \in SettingKeys : vals[k] = NoValue
    BY DEF ValueLists, SettingsValues
  <2> HIDE DEF vals
  <2>2. doc = [ver |-> MigrateSettings(0), vals |-> vals]
    BY <1>3 DEF LoadSettings, vals
  <2>3. doc \in StDocs /\ doc.vals = vals
    BY <1>0, <1>1, <2>1, <2>2 DEF StDocs
  <2> HIDE DEF doc
  <2> QED
    BY <1>3, <2>1, <2>3, MaskIsNoValue DEF Sound, Fits, Unmasked, doc
<1> QED
  BY <1>2, <1>3

LEMMA NoFileTyped ==
    /\ NoFile \in [form : {"missing", "object", "other"}, ver : 0..SchemaCurrent + 1, vals : ValueLists]
    /\ NoVals \in ValueLists /\ Unmasked(NoVals) /\ NoFile.vals = NoVals /\ NoFile.form = "missing"
    /\ \A k \in SettingKeys : NoVals[k] = NoValue
BY MaskIsNoValue DEF NoFile, File, NoVals, ValueLists, SettingsValues, Unmasked, SchemaCurrent

\* A fresh install.
LEMMA SettingsStart == SettingsInit => SettingsInv
<1> SUFFICES ASSUME SettingsInit PROVE SettingsInv
  OBVIOUS
<1>1. stMem \in StDocs /\ Sound(stMem)
  BY NoFileTyped, LoadIsSound DEF SettingsInit
<1>2. NoReq \in Requests
  BY DEF NoReq, Requests, SettingsValues
<1>3. StTypes
  BY <1>1, <1>2, NoFileTyped DEF SettingsInit, StTypes
<1>4. Checked /\ OneSetter
  BY DEF SettingsInit, Checked, OneSetter
<1>5. OnDisk /\ Keeps(stMem)
  BY NoFileTyped DEF SettingsInit, OnDisk, Keeps
<1> QED
  BY <1>1, <1>3, <1>4, <1>5 DEF SettingsInv

\* A setter that holds the lock is alone.
LEMMA SoleSetter ==
    ASSUME OneSetter, NEW t \in Setters, stPc[t] = "mutated"
    PROVE  stWriter = {t}
BY DEF OneSetter

LEMMA SettingsKept == SettingsInv /\ [SettingsNext]_settingsVars => SettingsInv'
<1> SUFFICES ASSUME SettingsInv, [SettingsNext]_settingsVars PROVE SettingsInv'
  OBVIOUS
<1> USE DEF SettingsInv, settingsVars, stHistory, SetterAt, SetterGo
<1>1. ASSUME NEW t \in Setters, NEW k \in SettingKeys, NEW v \in SettingValues, Submit(t, k, v) PROVE SettingsInv'
  <2>1. [key |-> k, value |-> v] \in Requests
    BY DEF Requests, SettingsValues
  <2>2. StTypes'
    BY <1>1, <2>1 DEF Submit, StTypes
  <2>3. Checked'
    BY <1>1, <2>1 DEF Submit, Checked, StTypes
  <2>4. OneSetter'
    <3>1. stWriter' = stWriter /\ t \notin stWriter
      BY <1>1 DEF Submit, OneSetter
    <3>2. \A u \in Setters : u # t => stPc'[u] = stPc[u] /\ stReq'[u] = stReq[u]
      BY <1>1 DEF Submit, StTypes
    <3>3. stPc'[t] = "checked"
      BY <1>1 DEF Submit, StTypes
    <3> QED
      BY <1>1, <3>1, <3>2, <3>3 DEF Submit, OneSetter, Keeps
  <2>5. UNCHANGED <<stMem, stDisk, stWriter, stAcked, stByHand>>
    BY <1>1 DEF Submit
  <2> QED
    BY <2>2, <2>3, <2>4, <2>5 DEF OnDisk, Keeps
<1>2. ASSUME NEW t \in Setters, Mutate(t) PROVE SettingsInv'
  <2>1. /\ stMem' = SetPointer(stMem, stReq[t]) /\ stWriter = {} /\ stWriter' = {t} /\ stPc[t] = "checked"
        /\ stPrev' = [stPrev EXCEPT ![t] = stMem] /\ stSnap' = [stSnap EXCEPT ![t] = stMem']
        /\ stPc' = [stPc EXCEPT ![t] = "mutated"] /\ UNCHANGED <<stDisk, stReq, stAcked, stByHand>>
    BY <1>2 DEF Mutate
  <2>2. stMem' \in StDocs /\ Sound(stMem')
    BY <2>1, PointerSets DEF StTypes, Checked
  <2>3. StTypes'
    BY <2>1, <2>2 DEF StTypes
  <2>4. Checked'
    BY <2>1 DEF Checked, StTypes
  <2>5. OneSetter'
    <3>1. stPrev'[t] = stMem /\ stSnap'[t] = stMem' /\ stPc'[t] = "mutated"
          /\ \A u \in Setters \ {t} : stPc'[u] = stPc[u]
      BY <2>1 DEF StTypes
    <3>2. \A u \in Setters : stPc'[u] = "mutated" <=> u = t
      BY <2>1, <3>1 DEF OneSetter
    <3>3. Keeps(stMem)'  <=> \A k \in SettingKeys : stAcked[k] # NoValue => stMem'.vals[k] = stAcked[k]
      BY <2>1 DEF Keeps
    <3> QED
      BY <2>1, <3>1, <3>2 DEF OneSetter, Keeps
  <2> QED
    BY <2>1, <2>2, <2>3, <2>4, <2>5 DEF OnDisk
<1>3. ASSUME NEW t \in Setters, Save(t) PROVE SettingsInv'
  <2>1. /\ stPc[t] = "mutated" /\ stDisk' = File("object", stSnap[t].ver, stSnap[t].vals) /\ ~stByHand'
        /\ stAcked' = [stAcked EXCEPT ![stReq[t].key] = stReq[t].value]
        /\ stWriter' = stWriter \ {t} /\ stPc' = [stPc EXCEPT ![t] = "saved"]
        /\ UNCHANGED <<stMem, stReq, stPrev, stSnap>> /\ stByHand' \in BOOLEAN
    BY <1>3 DEF Save
  <2> DEFINE r == stReq[t]
  <2>2. /\ stWriter = {t} /\ stWriter' = {} /\ stSnap[t] = stMem /\ stMem = SetPointer(stPrev[t], r)
        /\ Keeps(stPrev[t])
    BY <2>1, SoleSetter DEF OneSetter
  <2>3. /\ r \in Requests /\ r.key \in SettingKeys /\ r.value \in SettingsValues /\ stPrev[t] \in StDocs
        /\ SettingIsValid(SettingDefs[r.key], r.value)
    BY <2>1 DEF StTypes, Checked, Requests
  <2>4. /\ stAcked'[r.key] = r.value /\ stAcked' \in ValueLists
        /\ \A k \in SettingKeys : k # r.key => stAcked'[k] = stAcked[k]
    BY <2>1, <2>3 DEF StTypes, ValueLists
  <2>5. \A k \in SettingKeys : stAcked'[k] # NoValue => stMem.vals[k] = stAcked'[k] /\ SettingIsValid(SettingDefs[k], stAcked'[k])
    BY <2>2, <2>3, <2>4, PointerSets DEF Keeps, OnDisk
  <2>6. /\ stDisk'.vals = stMem.vals /\ stDisk'.form = "object"
        /\ stDisk' \in [form : {"missing", "object", "other"}, ver : 0..SchemaCurrent + 1, vals : ValueLists]
    BY <2>1, <2>2 DEF StTypes, StDocs, File, SchemaCurrent
  <2>7. StTypes'
    BY <2>1, <2>4, <2>6 DEF StTypes
  <2>8. Checked'
    BY <2>1 DEF Checked, StTypes
  <2>9. OneSetter'
    <3>1. \A u \in Setters : stPc'[u] # "mutated"
      BY <2>1, <2>2 DEF StTypes, OneSetter
    <3> QED
      BY <2>2, <3>1 DEF OneSetter
  <2>10. OnDisk'
    BY <2>5, <2>6 DEF OnDisk, Sound
  <2>11. Keeps(stMem)'
    BY <2>1, <2>5 DEF Keeps
  <2> QED
    BY <2>1, <2>7, <2>8, <2>9, <2>10, <2>11
<1>4. ASSUME NEW t \in Setters, SaveFails(t) PROVE SettingsInv'
  <2>1. /\ stPc[t] = "mutated" /\ stMem' = stPrev[t] /\ stWriter' = stWriter \ {t}
        /\ stPc' = [stPc EXCEPT ![t] = "idle"]
        /\ UNCHANGED <<stDisk, stReq, stPrev, stSnap, stAcked, stByHand>>
    BY <1>4 DEF SaveFails
  <2>2. stWriter = {t} /\ stWriter' = {} /\ Keeps(stPrev[t]) /\ Sound(stPrev[t])
    BY <2>1, SoleSetter DEF OneSetter
  <2>3. StTypes'
    BY <2>1 DEF StTypes
  <2>4. Checked'
    BY <2>1 DEF Checked, StTypes
  <2>5. OneSetter'
    <3>1. \A u \in Setters : stPc'[u] # "mutated"
      BY <2>1, <2>2 DEF StTypes, OneSetter
    <3> QED
      BY <2>2, <3>1 DEF OneSetter
  <2> QED
    BY <2>1, <2>2, <2>3, <2>4, <2>5 DEF OnDisk, Keeps
<1>5. ASSUME NEW t \in Setters, Announce(t) PROVE SettingsInv'
  <2>1. /\ stPc[t] = "saved" /\ stPc' = [stPc EXCEPT ![t] = "idle"]
        /\ UNCHANGED <<stMem, stDisk, stWriter, stReq, stPrev, stSnap, stAcked, stByHand>>
    BY <1>5 DEF Announce
  <2>2. StTypes' /\ Checked'
    BY <2>1 DEF StTypes, Checked
  <2>3. OneSetter'
    <3>1. \A u \in Setters : stPc'[u] = "mutated" <=> stPc[u] = "mutated"
      BY <2>1 DEF StTypes
    <3> QED
      BY <2>1, <3>1 DEF OneSetter, Keeps
  <2> QED
    BY <2>1, <2>2, <2>3 DEF OnDisk, Keeps
<1>6. CASE HandEdit
  <2>1. UNCHANGED <<stMem, stWriter, stPc, stReq, stPrev, stSnap, stAcked>> /\ stByHand' /\ stByHand' \in BOOLEAN
    BY <1>6 DEF HandEdit
  <2>2. /\ stDisk' \in [form : {"missing", "object", "other"}, ver : 0..SchemaCurrent + 1, vals : ValueLists]
        /\ Unmasked(stDisk'.vals)
    <3>1. ASSUME NEW ver \in 0..SchemaCurrent + 1, NEW k \in SettingKeys, NEW v \in HandValues,
                 stDisk' = File("object", ver, [stDisk.vals EXCEPT ![k] = v])
          PROVE  <2>2!2 /\ <2>2!1
      <4>1. stDisk.vals \in ValueLists /\ v \in SettingsValues /\ v # SecretMask
        BY SettingsAssumption DEF StTypes, SettingsValues
      <4>2. [stDisk.vals EXCEPT ![k] = v] \in ValueLists /\ Unmasked([stDisk.vals EXCEPT ![k] = v])
        BY <4>1 DEF ValueLists, Unmasked, OnDisk
      <4> QED
        BY <3>1, <4>2 DEF File
    <3>2. CASE stDisk' = File("other", 0, NoVals)
      BY <3>2, NoFileTyped DEF File, SchemaCurrent
    <3> QED
      BY <1>6, <3>1, <3>2 DEF HandEdit
  <2>3. StTypes'
    BY <2>1, <2>2 DEF StTypes
  <2> QED
    BY <2>1, <2>2, <2>3 DEF Checked, OneSetter, OnDisk, Keeps
<1>7. CASE Relaunch
  <2>1. /\ stMem' = LoadSettings(stDisk) /\ stWriter' = {} /\ stPc' = [t \in Setters |-> "idle"]
        /\ stAcked' = IF stByHand THEN NoVals ELSE stAcked
        /\ UNCHANGED <<stDisk, stReq, stPrev, stSnap, stByHand>>
    BY <1>7 DEF Relaunch
  <2>2. stMem' \in StDocs /\ Sound(stMem')
    BY <2>1, LoadIsSound DEF StTypes, OnDisk
  <2>3. StTypes'
    BY <2>1, <2>2, NoFileTyped DEF StTypes
  <2>4. Checked' /\ OneSetter'
    BY <2>1 DEF Checked, OneSetter
  <2>5. OnDisk'
    BY <2>1, NoFileTyped DEF OnDisk
  <2>6. Keeps(stMem)'
    <3> SUFFICES ASSUME NEW k \in SettingKeys, stAcked'[k] # NoValue PROVE stMem'.vals[k] = stAcked'[k]
      BY DEF Keeps
    <3>1. ~stByHand /\ stAcked'[k] = stAcked[k]
      BY <2>1, NoFileTyped
    <3>2. stDisk.form = "object" /\ stDisk.vals[k] = stAcked[k] /\ SettingIsValid(SettingDefs[k], stDisk.vals[k])
      BY <3>1 DEF OnDisk
    <3> QED
      BY <2>1, <3>1, <3>2, LoadIsSound DEF StTypes, OnDisk
  <2> QED
    BY <2>1, <2>2, <2>3, <2>4, <2>5, <2>6
<1>8. CASE UNCHANGED settingsVars
  BY <1>8 DEF StTypes, Checked, OneSetter, OnDisk, Keeps
<1> QED
  BY <1>1, <1>2, <1>3, <1>4, <1>5, <1>6, <1>7, <1>8 DEF SettingsNext

\* No reader is handed a value its constraints refuse and no mask becomes a
\* secret, whatever the file is edited into; what was acknowledged stays,
\* through other writers' saves and rollbacks and any restart (set_setting).
THEOREM SettingsStand == SettingsSpec => []SettingsHold
<1>1. SettingsInv => SettingsHold
  <2> SUFFICES ASSUME SettingsInv PROVE MemoryIsValid /\ AckedIsKept
    BY DEF SettingsHold
  <2>1. MemoryIsValid
    BY SettingsAssumption, AbsentIsInvalid DEF SettingsInv, MemoryIsValid, GetSetting, Sound, Fits, Unmasked, OnDisk
  <2>2. AckedIsKept
    BY DEF SettingsInv, AckedIsKept, Keeps, OnDisk
  <2> QED
    BY <2>1, <2>2
<1> QED
  BY <1>1, SettingsStart, SettingsKept, PTL DEF SettingsSpec

-----------------------------------------------------------------------------
(* The session.                                                            *)

Persisting(t) == snPc[t] = "persist"

\* As long as no two persists overlapped and none failed, the one under way
\* carries what is in memory, and without one the file has it.
Alone ==
    snClean =>
        /\ \A t, u \in Updaters : Persisting(t) /\ Persisting(u) => t = u
        /\ \A t \in Updaters : Persisting(t) => snSnap[t] = snMem

SessionInv ==
    /\ snPc \in [Updaters -> {"idle", "persist"}]
    /\ DOMAIN snSnap = Updaters /\ snSnap = [t \in Updaters |-> snSnap[t]]
    /\ snUpdates \in Nat
    /\ Alone /\ LoneUpdatesAreDurable

\* Every operation is a change that one thread is to persist.
LEMMA ChangeKeeps ==
    ASSUME SessionInv, NEW t \in Updaters, NEW s, Change(t, s)
    PROVE  SessionInv'
<1> USE DEF SessionInv
<1>1. /\ snPc[t] = "idle" /\ snMem' = s
      /\ snPc' = [snPc EXCEPT ![t] = "persist"] /\ snSnap' = [snSnap EXCEPT ![t] = s]
      /\ snUpdates' = snUpdates + 1
      /\ snClean' = (snClean /\ \A u \in Updaters : snPc[u] = "idle")
  BY DEF Change
<1>2. snPc' \in [Updaters -> {"idle", "persist"}] /\ snUpdates' \in Nat /\ snPc'[t] = "persist"
  BY <1>1
<1>3. DOMAIN snSnap' = Updaters /\ snSnap' = [u \in Updaters |-> snSnap'[u]] /\ snSnap'[t] = s
  BY <1>1
<1>4. ASSUME snClean', NEW u \in Updaters, Persisting(u)' PROVE u = t
  BY <1>1, <1>4 DEF Persisting
<1>5. Alone'
  BY <1>1, <1>3, <1>4 DEF Alone
<1>6. LoneUpdatesAreDurable'
  BY <1>2 DEF LoneUpdatesAreDurable
<1> QED BY <1>2, <1>3, <1>5, <1>6

LEMMA PersistKeeps ==
    ASSUME SessionInv, NEW t \in Updaters, Persist(t)
    PROVE  SessionInv'
<1> USE DEF SessionInv, Persist
<1>1. snPc' = [snPc EXCEPT ![t] = "idle"] /\ UNCHANGED <<snMem, snSnap, snUpdates>> /\ Persisting(t)
  BY DEF Persisting
<1>2. (snDisk' = snSnap[t] /\ snClean' = snClean) \/ (snClean' = FALSE /\ snDisk' = snDisk)
  OBVIOUS
<1>3. snPc' \in [Updaters -> {"idle", "persist"}]
  BY <1>1
<1>4. Alone'
  BY <1>1, <1>2 DEF Alone, Persisting
<1>5. snClean' => snDisk' = snMem'
  BY <1>1, <1>2 DEF Alone
<1> QED BY <1>1, <1>3, <1>4, <1>5 DEF LoneUpdatesAreDurable

LEMMA SessionKept == SessionInv /\ [SessionNext]_sessionVars => SessionInv'
<1> SUFFICES ASSUME SessionInv, [SessionNext]_sessionVars PROVE SessionInv'
  OBVIOUS
<1>1. CASE UNCHANGED sessionVars
  BY <1>1 DEF sessionVars, SessionInv, Alone, Persisting, LoneUpdatesAreDurable
<1>2. CASE StartSession
  <2>1. snPc' = [t \in Updaters |-> "idle"] /\ (snClean' => snMem' = snDisk) /\ UNCHANGED <<snDisk, snSnap, snUpdates>>
    BY <1>2 DEF StartSession
  <2> QED BY <2>1 DEF SessionInv, Alone, Persisting, LoneUpdatesAreDurable
<1>3. ASSUME NEW t \in Updaters,
             \/ \E f \in Folders \union {NoFolder} : RecordWorkspace(t, f)
             \/ ClearRecent(t)
             \/ \E d \in DocLists : UpdateDocs(t, d)
             \/ \E l \in RecentLists : UpdateRecents(t, l)
      PROVE  SessionInv'
  <2>1. \E s : Change(t, s)
    BY <1>3 DEF RecordWorkspace, ClearRecent, UpdateDocs, UpdateRecents
  <2> QED BY <2>1, ChangeKeeps
<1>4. ASSUME NEW t \in Updaters, Persist(t) PROVE SessionInv'
  BY <1>4, PersistKeeps
<1> QED BY <1>1, <1>2, <1>3, <1>4 DEF SessionNext

\* A change of the session that no other overlaps and whose write succeeds is
\* in the file as soon as everybody is idle (update, persist).
THEOREM LoneUpdatesReachTheFile == SessionSpec => []LoneUpdatesAreDurable
<1>1. SessionInit => SessionInv
  BY DEF SessionInit, SessionInv, Alone, Persisting, LoneUpdatesAreDurable
<1>2. SessionInv => LoneUpdatesAreDurable
  BY DEF SessionInv
<1> QED BY <1>1, <1>2, SessionKept, PTL DEF SessionSpec

-----------------------------------------------------------------------------
(* The open documents.                                                     *)

Tasks == Ids \union (Ids \X (Paths \union {NoPath}))
TabRecords == [path : Paths \union {NoPath}, ws : BOOLEAN, text : Int, rev : Int, dirty : BOOLEAN,
               hidden : BOOLEAN, missing : BOOLEAN, known : BOOLEAN]
Works == [op : {"none", "open", "edit", "swap", "move", "reclassify", "rebuild", "close", "delete"},
          pc : {"idle", "register", "insert", "rotate", "publish", "set", "next", "bind", "compare", "rekey",
                "swap", "remove", "unregister", "teardown"},
          id : Ids \union {NoId}, path : Paths \union {NoPath}, old : Paths \union {NoPath}, obj : Nat,
          text : Int, rev : Int, todo : SUBSET Tasks, tries : Nat, saved : Int]

HeapTyped == (\E n \in Nat : Built = 1..n) /\ heap \in [Built -> TabRecords]
MapsTyped ==
    /\ tabs \in [Ids -> Built \union {0}]
    /\ byPath \in [Paths -> Ids \union {NoId}] /\ byId \in [Ids -> Paths \union {NoPath, NoId}]
    /\ used \subseteq Ids /\ tangled \subseteq used /\ Live \subseteq used
    /\ open \in BOOLEAN /\ texts \in Nat

\* A thread works for an id that was given out, from a TabState that was built,
\* and remembers the path that has.
Sane(t) ==
    /\ thr[t] \in Works
    /\ thr[t].id # NoId => thr[t].id \in used
    /\ thr[t].pc \notin {"idle", "next"} => thr[t].id \in Ids
    /\ thr[t].pc \in {"bind", "compare", "swap", "set"} => thr[t].obj \in Built
    /\ thr[t].op \in {"reclassify", "rebuild"} /\ thr[t].pc \in {"bind", "compare", "swap"} =>
           heap[thr[t].obj].path = thr[t].path

\* What the thread relies on between its steps, unless another one has got
\* hold of the same document.
Owns(t) ==
    LET i == thr[t].id IN
    i \in Ids \ tangled =>
        /\ At(t, "open", "register") \/ At(t, "open", "insert") => i \notin Live
        /\ At(t, "open", "insert") \/ At(t, "move", "compare") \/ At(t, "reclassify", "swap") => byId[i] = thr[t].path
        /\ At(t, "reclassify", "bind") \/ At(t, "reclassify", "swap") \/ At(t, "rebuild", "compare") =>
              i \in Live /\ Tab(i).path = thr[t].path
        /\ thr[t].op \in {"close", "delete"} /\ thr[t].pc \in {"teardown", "unregister"} => i \notin Live

\* Two structural commands on one document are known to have met.
Exclusive ==
    \A t, u \in Threads :
        t # u /\ thr[t].id = thr[u].id /\ thr[t].id \in Ids /\ thr[t].op \in Structural /\ thr[u].op \in Structural =>
            thr[t].id \in tangled

\* The registry is one to one.
OneToOne == \A i \in Ids, p \in Paths : byId[i] = p => byPath[p] = i

\* A document is registered at its path, or a move has it at the new one already.
Moving(t, i) ==
    /\ thr[t].op = "move" /\ thr[t].id = i /\ byId[i] = thr[t].path
    /\ thr[t].pc \in {"bind", "compare"} \/ (thr[t].pc = "next" /\ Retries(t))
Settled(i) == byId[i] = Tab(i).path \/ \E t \in Threads : Moving(t, i)
Registered == \A i \in Live \ tangled : Settled(i)

TabsInv ==
    /\ HeapTyped /\ MapsTyped
    /\ thr = [t \in Threads |-> thr[t]] /\ \A t \in Threads : Sane(t) /\ Owns(t)
    /\ Exclusive /\ OneToOne /\ Registered

-----------------------------------------------------------------------------

LEMMA IdleWork == Idle \in Works /\ Idle.id = NoId /\ Idle.op = "none" /\ Idle.pc = "idle" /\ Idle.todo = {}
BY DEF Idle, Works, NoVersion

LEMMA NoIdIsNone == NoId \notin Ids \union Paths /\ NoPath \notin Paths
BY TabsAssumption

LEMMA ReclassifyWork ==
    ASSUME TabsInv
    PROVE  Reclassify \in Works /\ Reclassify.id = NoId /\ Reclassify.pc \in {"idle", "next"}
<1>1. Live \in SUBSET Tasks
  BY DEF Live, Tasks
<1>2. CASE Live = {}
  BY <1>2, IdleWork DEF Reclassify
<1>3. CASE Live # {}
  <2>1. Reclassify = [op |-> "reclassify", pc |-> "next", id |-> NoId, path |-> NoPath, old |-> NoPath,
                      obj |-> 0, text |-> NoVersion, rev |-> 0, todo |-> Live, tries |-> 0, saved |-> NoVersion]
    BY <1>3 DEF Reclassify, Idle
  <2> QED BY <1>1, <2>1 DEF Works, NoVersion
<1> QED BY <1>2, <1>3

LEMMA NextOfWork ==
    ASSUME TabsInv, NEW t \in Threads, NEW rest \in SUBSET Tasks
    PROVE  NextOf(t, rest) \in Works /\ NextOf(t, rest).id = NoId /\ NextOf(t, rest).pc \in {"idle", "next"}
<1>1. CASE rest = {}
  BY <1>1, ReclassifyWork, IdleWork DEF NextOf
<1>2. CASE rest # {}
  <2>1. thr[t].op \in {"none", "open", "edit", "swap", "move", "reclassify", "rebuild", "close", "delete"}
        /\ thr[t].saved \in Int
    BY DEF TabsInv, Sane, Works
  <2>2. NextOf(t, rest) =
          [op |-> thr[t].op, pc |-> "next", id |-> NoId, path |-> NoPath, old |-> NoPath,
           obj |-> 0, text |-> NoVersion, rev |-> 0, todo |-> rest, tries |-> 0, saved |-> thr[t].saved]
    BY <1>2 DEF NextOf, Idle
  <2> QED BY <2>1, <2>2 DEF Works, NoVersion
<1> QED BY <1>1, <1>2

\* The TabState of an open document.
LEMMA TabIsRecord == ASSUME TabsInv, NEW i \in Live PROVE tabs[i] \in Built /\ Tab(i) \in TabRecords
BY DEF TabsInv, HeapTyped, MapsTyped, Live, Tab

\* Nobody else works on the document that this thread has to itself.
Sole(t, i) == \A u \in Threads \ {t} : thr[u].id = i /\ thr[u].op \in Structural => i \in tangled'

LEMMA OwnerIsSole ==
    ASSUME TabsInv, NEW t \in Threads, thr[t].op \in Structural, tangled \subseteq tangled'
    PROVE  thr[t].id \in Ids => Sole(t, thr[t].id)
BY DEF TabsInv, Exclusive, Sole

LEMMA MeetIsSole ==
    ASSUME TabsInv, NEW t \in Threads, NEW i \in Ids, NEW ps, Meet(t, i, ps)
    PROVE  Sole(t, i) /\ tangled \subseteq tangled' /\ tangled' \subseteq tangled \union {i}
BY DEF Meet, Claimed, Sole

\* Paths of the TabStates that were built do not change.
PathsStay == \A n \in Built : n \in Built' /\ heap'[n].path = heap[n].path

\* The stores change at one document, of which the thread is sure, if at all.
OnlyAt(i) == \A j \in Ids \ {i} : tabs'[j] = tabs[j] /\ byId'[j] = byId[j]

\* What a step leaves alone: the other threads' facts ...
LEMMA OthersOwn ==
    ASSUME TabsInv, NEW t \in Threads, NEW w, thr' = [thr EXCEPT ![t] = w], tangled \subseteq tangled',
           used \subseteq used', PathsStay, NEW i, OnlyAt(i), i \in Ids => Sole(t, i),
           NEW u \in Threads \ {t}
    PROVE  Sane(u)' /\ Owns(u)'
<1> USE DEF TabsInv
<1>1. thr'[u] = thr[u] /\ Sane(u) /\ Owns(u)
  OBVIOUS
<1>2. Sane(u)'
  BY <1>1 DEF Sane, PathsStay
<1>3. Owns(u)'
  <2> DEFINE j == thr[u].id
  <2>1. CASE j \notin Ids \ tangled' \/ thr[u].op \notin Structural
    BY <1>1, <2>1 DEF Owns, At, Structural
  <2>2. CASE j \in Ids \ tangled' /\ thr[u].op \in Structural
    <3>1. j # i
      BY <2>2 DEF Sole
    <3>2. tabs'[j] = tabs[j] /\ byId'[j] = byId[j] /\ j \in Ids \ tangled
      BY <2>2, <3>1 DEF OnlyAt
    <3>3. j \in Live' <=> j \in Live
      BY <3>2 DEF Live
    <3>4. j \in Live => Tab(j)'.path = Tab(j).path
      BY <3>2, TabIsRecord DEF PathsStay, Tab
    <3> QED BY <1>1, <3>2, <3>3, <3>4 DEF Owns, At
  <2> QED BY <2>1, <2>2
<1> QED BY <1>2, <1>3

\* ... that commands which meet are known ...
LEMMA ExclusiveStays ==
    ASSUME TabsInv, NEW t \in Threads, NEW w, thr' = [thr EXCEPT ![t] = w], tangled \subseteq tangled',
           w.id \in Ids /\ w.op \in Structural => Sole(t, w.id)
    PROVE  Exclusive'
<1> SUFFICES ASSUME NEW u \in Threads, NEW v \in Threads, u # v, thr'[u].id = thr'[v].id, thr'[u].id \in Ids,
                    thr'[u].op \in Structural, thr'[v].op \in Structural
             PROVE  thr'[u].id \in tangled'
  BY DEF Exclusive
<1>1. \A x \in Threads : thr'[x] = IF x = t THEN w ELSE thr[x]
  BY DEF TabsInv
<1>2. CASE u = t
  BY <1>1, <1>2 DEF Sole
<1>3. CASE v = t
  BY <1>1, <1>3 DEF Sole
<1>4. CASE u # t /\ v # t
  BY <1>1, <1>4 DEF TabsInv, Exclusive
<1> QED BY <1>2, <1>3, <1>4

\* ... and that the other documents are registered.
LEMMA OthersSettled ==
    ASSUME TabsInv, NEW t \in Threads, NEW w, thr' = [thr EXCEPT ![t] = w], tangled \subseteq tangled',
           PathsStay, NEW i, OnlyAt(i), NEW j \in Live' \ tangled', j # i,
           Moving(t, j) => Moving(t, j)' \/ byId[j] = Tab(j).path
    PROVE  Settled(j)'
<1>1. j \in Ids /\ tabs'[j] = tabs[j] /\ byId'[j] = byId[j] /\ j \in Live \ tangled
  BY DEF OnlyAt, Live
<1>2. Settled(j) /\ Tab(j)'.path = Tab(j).path
  BY <1>1, TabIsRecord DEF TabsInv, Registered, PathsStay, Tab
<1>3. CASE byId[j] = Tab(j).path
  BY <1>1, <1>2, <1>3 DEF Settled
<1>4. ASSUME NEW u \in Threads, Moving(u, j) PROVE Settled(j)'
  <2>1. CASE u = t
    BY <1>1, <1>2, <1>4, <2>1 DEF Settled
  <2>2. CASE u # t
    <3>1. thr'[u] = thr[u]
      BY <2>2 DEF TabsInv
    <3>2. Moving(u, j)'
      BY <1>1, <1>4, <3>1 DEF Moving, Retries
    <3> QED BY <3>2 DEF Settled
  <2> QED BY <2>1, <2>2
<1> QED BY <1>2, <1>3, <1>4 DEF Settled

\* A thread's step that moves no document and no registration.
LEMMA ThreadStep ==
    ASSUME TabsInv, NEW t \in Threads, NEW w, thr' = [thr EXCEPT ![t] = w],
           HeapTyped', MapsTyped', UNCHANGED <<tabs, byId, byPath>>, PathsStay,
           tangled \subseteq tangled', used \subseteq used',
           w.id \in Ids /\ w.op \in Structural => Sole(t, w.id),
           Sane(t)', Owns(t)',
           \A i \in Live \ tangled' : Moving(t, i) => Moving(t, i)' \/ byId[i] = Tab(i).path
    PROVE  TabsInv'
<1>1. thr' = [u \in Threads |-> thr'[u]]
  BY DEF TabsInv
<1>2. OnlyAt(NoId) /\ NoId \notin Ids
  BY NoIdIsNone DEF OnlyAt
<1>3. \A u \in Threads : Sane(u)' /\ Owns(u)'
  BY <1>2, OthersOwn
<1>4. Exclusive'
  BY ExclusiveStays
<1>5. OneToOne'
  BY DEF TabsInv, OneToOne
<1>6. ASSUME NEW j \in Live' \ tangled' PROVE Settled(j)'
  <2>1. j \in Live \ tangled' /\ j # NoId
    BY NoIdIsNone DEF Live
  <2> QED BY <1>2, <2>1, OthersSettled
<1> QED BY <1>1, <1>3, <1>4, <1>5, <1>6 DEF TabsInv, Registered

\* A thread that is done with a document lets go of it.
LEMMA LeavingStep ==
    ASSUME TabsInv, NEW t \in Threads, NEW w \in Works, thr' = [thr EXCEPT ![t] = w],
           w.id = NoId, w.pc \in {"idle", "next"},
           HeapTyped', MapsTyped', UNCHANGED <<tabs, byId, byPath>>, PathsStay,
           tangled \subseteq tangled', used \subseteq used',
           \A i \in Live \ tangled' : Moving(t, i) => byId[i] = Tab(i).path
    PROVE  TabsInv'
<1>1. thr'[t] = w
  BY DEF TabsInv
<1>2. Sane(t)' /\ Owns(t)'
  BY <1>1, NoIdIsNone DEF Sane, Owns
<1> QED BY <1>2, NoIdIsNone, ThreadStep

\* One flag or text of one TabState is set.
LEMMA HeapSet ==
    ASSUME TabsInv, NEW n \in Built, NEW r \in TabRecords, heap' = [heap EXCEPT ![n] = r], r.path = heap[n].path
    PROVE  HeapTyped' /\ PathsStay /\ Built' = Built
BY DEF TabsInv, HeapTyped, PathsStay, Built

LEMMA HeapSame == ASSUME TabsInv, UNCHANGED heap PROVE HeapTyped' /\ PathsStay
BY DEF TabsInv, HeapTyped, PathsStay, Built

\* Nothing is heard of the maps.
LEMMA MapsSame ==
    ASSUME TabsInv, UNCHANGED <<tabs, byId, byPath>>, open' \in BOOLEAN, texts' \in Nat, Built \subseteq Built',
           used \subseteq used', used' \subseteq Ids, tangled' \subseteq used'
    PROVE  MapsTyped'
BY DEF TabsInv, MapsTyped, Live

\* One flag of one TabState is set.
LEMMA FlagSet ==
    ASSUME TabsInv, NEW n \in Built, NEW b \in BOOLEAN,
           \/ heap' = [heap EXCEPT ![n].hidden = b]  \/ heap' = [heap EXCEPT ![n].dirty = b]
           \/ heap' = [heap EXCEPT ![n].missing = b] \/ heap' = [heap EXCEPT ![n].known = b]
    PROVE  HeapTyped' /\ PathsStay /\ Built' = Built
<1>1. heap[n] \in TabRecords
  BY DEF TabsInv, HeapTyped
<1>2. CASE heap' = [heap EXCEPT ![n].hidden = b]
  <2> DEFINE r == [heap[n] EXCEPT !.hidden = b]
  <2>1. r \in TabRecords /\ r.path = heap[n].path
    BY <1>1 DEF TabRecords
  <2> QED BY <1>2, <2>1, HeapSet
<1>3. CASE heap' = [heap EXCEPT ![n].dirty = b]
  <2> DEFINE r == [heap[n] EXCEPT !.dirty = b]
  <2>1. r \in TabRecords /\ r.path = heap[n].path
    BY <1>1 DEF TabRecords
  <2> QED BY <1>3, <2>1, HeapSet
<1>4. CASE heap' = [heap EXCEPT ![n].missing = b]
  <2> DEFINE r == [heap[n] EXCEPT !.missing = b]
  <2>1. r \in TabRecords /\ r.path = heap[n].path
    BY <1>1 DEF TabRecords
  <2> QED BY <1>4, <2>1, HeapSet
<1>5. CASE heap' = [heap EXCEPT ![n].known = b]
  <2> DEFINE r == [heap[n] EXCEPT !.known = b]
  <2>1. r \in TabRecords /\ r.path = heap[n].path
    BY <1>1 DEF TabRecords
  <2> QED BY <1>5, <2>1, HeapSet
<1> QED BY <1>2, <1>3, <1>4, <1>5

LEMMA HeapStep ==
    ASSUME TabsInv, UNCHANGED <<tabs, byId, byPath, thr, used, tangled, open, texts>>, HeapTyped', PathsStay
    PROVE  TabsInv'
<1> USE DEF TabsInv
<1>1. MapsTyped'
  BY DEF MapsTyped, Live, PathsStay
<1>2. ASSUME NEW t \in Threads PROVE Sane(t)' /\ Owns(t)'
  <2>1. Sane(t)'
    BY DEF Sane, PathsStay
  <2>2. \A i \in Live : Tab(i)'.path = Tab(i).path
    BY TabIsRecord DEF PathsStay, Tab
  <2>3. Live' = Live
    BY DEF Live
  <2>4. Owns(t)
    OBVIOUS
  <2>5. Owns(t)'
    BY <2>2, <2>3, <2>4 DEF Owns, At
  <2> QED BY <2>1, <2>5
<1>3. Exclusive' /\ OneToOne'
  BY DEF Exclusive, OneToOne
<1>4. Registered'
  <2>1. \A i \in Live : Tab(i)'.path = Tab(i).path
    BY TabIsRecord DEF PathsStay, Tab
  <2> QED BY <2>1 DEF Registered, Settled, Moving, Retries, Live
<1> QED BY <1>1, <1>2, <1>3, <1>4

\* A step that changes the map or the registry at one document.
LEMMA StoreStep ==
    ASSUME TabsInv, NEW t \in Threads, NEW w, thr' = [thr EXCEPT ![t] = w],
           HeapTyped', MapsTyped', PathsStay, tangled \subseteq tangled', used \subseteq used',
           NEW i \in Ids, OnlyAt(i), Sole(t, i), w.id \in Ids /\ w.op \in Structural => Sole(t, w.id),
           Sane(t)', Owns(t)', OneToOne', \A j \in Live : Moving(t, j) => j = i,
           i \in Live' \ tangled' => Settled(i)'
    PROVE  TabsInv'
<1>1. thr' = [u \in Threads |-> thr'[u]]
  BY DEF TabsInv
<1>2. \A u \in Threads : Sane(u)' /\ Owns(u)'
  BY OthersOwn
<1>3. Exclusive'
  BY ExclusiveStays
<1>4. ASSUME NEW j \in Live' \ tangled' PROVE Settled(j)'
  <2>1. CASE j = i
    BY <1>4, <2>1
  <2>2. CASE j # i
    <3>1. j \in Live
      BY <1>4, <2>2 DEF Live, OnlyAt
    <3> QED BY <1>4, <2>2, <3>1, OthersSettled
  <2> QED BY <2>1, <2>2
<1> QED BY <1>1, <1>2, <1>3, <1>4 DEF TabsInv, Registered

\* Registering an id at a path that is free.
LEMMA BindStep ==
    ASSUME TabsInv, NEW t \in Threads, NEW w, thr' = [thr EXCEPT ![t] = w],
           NEW i \in Ids, NEW p \in Paths \union {NoPath}, Free(i, p), Bind(i, p),
           UNCHANGED <<heap, tabs, used, open, texts, tangled>>,
           Sole(t, i), w.id = i, Sane(t)', Owns(t)', \A j \in Live : Moving(t, j) => j = i,
           i \in Live \ tangled => Settled(i)'
    PROVE  TabsInv'
<1> USE DEF TabsInv
<1>1. /\ byId' = [byId EXCEPT ![i] = p]
      /\ byPath' = [q \in Paths |-> IF q = p THEN i
                                    ELSE IF q = byId[i] /\ byPath[q] = i THEN NoId ELSE byPath[q]]
  BY DEF Bind
<1>2. HeapTyped' /\ PathsStay
  BY HeapSame
<1>3. MapsTyped'
  BY <1>1 DEF MapsTyped, Built, Live
<1>4. OnlyAt(i)
  BY <1>1 DEF OnlyAt
<1>5. OneToOne'
  <2> SUFFICES ASSUME NEW j \in Ids, NEW q \in Paths, byId'[j] = q PROVE byPath'[q] = j
    BY DEF OneToOne
  <2>1. CASE j = i
    BY <1>1, <2>1 DEF MapsTyped
  <2>2. CASE j # i
    <3>1. byId[j] = q /\ byPath[q] = j
      BY <1>1, <2>2 DEF OneToOne, MapsTyped
    <3>2. q # p
      BY <2>2, <3>1, NoIdIsNone DEF Free
    <3> QED BY <1>1, <2>2, <3>1, <3>2
  <2> QED BY <2>1, <2>2
<1>6. i \in Live' \ tangled' => Settled(i)'
  BY DEF Live
<1> QED BY <1>2, <1>3, <1>4, <1>5, <1>6, StoreStep

\* A new TabState for an id that is registered at its path.
LEMMA InstallStep ==
    ASSUME TabsInv, NEW t \in Threads, NEW w, thr' = [thr EXCEPT ![t] = w],
           NEW i \in used, NEW rec \in TabRecords, InstallFor(i, rec),
           UNCHANGED <<byId, byPath, used, open, texts, tangled>>,
           Sole(t, i), w.id = i, w \in Works, w.pc \in {"rotate", "rekey"}, w.op \notin {"close", "delete"},
           \A j \in Live : Moving(t, j) => j = i, i \notin tangled => byId[i] = rec.path
    PROVE  TabsInv'
<1> USE DEF TabsInv
<1>1. PICK n \in Nat : Built = 1..n
  BY DEF HeapTyped
<1>2. Cardinality(Built) = n
  BY <1>1, FS_Interval
<1> DEFINE m == n + 1
<1>3. m \in Nat \ {0} /\ m \notin Built /\ Built \union {m} = 1..m
  BY <1>1
<1>4. /\ heap' = [k \in Built \union {m} |-> IF k \in Built THEN heap[k] ELSE rec]
      /\ tabs' = [tabs EXCEPT ![i] = m]
  BY <1>2 DEF InstallFor
<1> HIDE DEF m
<1>5. Built' = 1..m /\ Built \subseteq Built' /\ m \in Built'
  BY <1>3, <1>4 DEF Built
<1>6. HeapTyped' /\ PathsStay
  BY <1>3, <1>4, <1>5 DEF HeapTyped, PathsStay
<1>7. i \in Ids
  BY DEF MapsTyped
<1>8. tabs' \in [Ids -> Built' \union {0}] /\ tabs'[i] = m /\ Live' = Live \union {i}
  BY <1>3, <1>4, <1>5, <1>7 DEF MapsTyped, Live
<1>9. MapsTyped'
  BY <1>8 DEF MapsTyped
<1>10. OnlyAt(i) /\ OneToOne'
  BY <1>4 DEF OnlyAt, OneToOne, MapsTyped
<1>11. thr'[t] = w
  OBVIOUS
<1>12. Sane(t)' /\ Owns(t)'
  BY <1>7, <1>11 DEF Sane, Owns, At
<1>13. Tab(i)' = rec
  BY <1>3, <1>4, <1>5, <1>8 DEF Tab
<1>14. i \notin tangled' => Settled(i)'
  BY <1>13 DEF Settled
<1> QED BY <1>6, <1>7, <1>9, <1>10, <1>12, <1>14, StoreStep

-----------------------------------------------------------------------------
(* One lemma per command's step.                                            *)

LEMMA OpenFoundKeeps ==
    ASSUME TabsInv, NEW t \in Threads, NEW p \in Paths, OpenFound(t, p) PROVE TabsInv'
<1> DEFINE i == byPath[p]
<1>1. /\ heap' = IF i \in Live THEN [heap EXCEPT ![tabs[i]].hidden = FALSE] ELSE heap
      /\ UNCHANGED <<tabs, byPath, byId, used, open, thr, texts, tangled>>
  BY DEF OpenFound
<1>2. CASE i \in Live
  BY <1>1, <1>2, TabIsRecord, FlagSet, HeapStep
<1>3. CASE i \notin Live
  BY <1>1, <1>3, HeapSame, HeapStep
<1> QED BY <1>2, <1>3

LEMMA SavedKeeps == ASSUME TabsInv, NEW i \in Ids, Saved(i) PROVE TabsInv'
<1>1. /\ i \in Live /\ heap' = [heap EXCEPT ![tabs[i]].dirty = FALSE]
      /\ UNCHANGED <<tabs, byPath, byId, used, open, thr, texts, tangled>>
  BY DEF Saved
<1> QED BY <1>1, TabIsRecord, FlagSet, HeapStep

LEMMA SetVisibilityKeeps ==
    ASSUME TabsInv, NEW t \in Threads, NEW i \in Ids, NEW hidden \in BOOLEAN, SetVisibility(t, i, hidden) PROVE TabsInv'
<1>1. /\ i \in Live /\ heap' = [heap EXCEPT ![tabs[i]].hidden = hidden]
      /\ UNCHANGED <<tabs, byPath, byId, used, open, thr, texts, tangled>>
  BY DEF SetVisibility
<1> QED BY <1>1, TabIsRecord, FlagSet, HeapStep

LEMMA OpenNewKeeps ==
    ASSUME TabsInv, NEW t \in Threads, NEW i \in Ids, NEW p \in Paths \union {NoPath}, OpenNew(t, i, p) PROVE TabsInv'
<1> DEFINE w == [Idle EXCEPT !.op = "open", !.pc = "register", !.id = i, !.path = p]
<1>1. /\ thr[t] = Idle /\ i \notin used /\ used' = used \union {i} /\ thr' = [thr EXCEPT ![t] = w] /\ Meet(t, i, {p})
      /\ UNCHANGED <<heap, tabs, byPath, byId, open, texts>>
  BY DEF OpenNew, Begin, Go
<1>2. w \in Works /\ w.op = "open" /\ w.pc = "register" /\ w.id = i /\ w.path = p
  BY IdleWork DEF Works
<1> HIDE DEF w
<1>3. thr'[t] = w
  BY <1>1 DEF TabsInv
<1>4. HeapTyped' /\ PathsStay /\ Built \subseteq Built'
  BY <1>1, HeapSame DEF Built
<1>5. Sole(t, i) /\ tangled \subseteq tangled' /\ tangled' \subseteq tangled \union {i}
  BY <1>1, MeetIsSole
<1>6. MapsTyped'
  BY <1>1, <1>4, <1>5, MapsSame DEF TabsInv, MapsTyped
<1>7. i \notin Live
  BY <1>1 DEF TabsInv, MapsTyped
<1>8. Sane(t)' /\ Owns(t)'
  BY <1>1, <1>2, <1>3, <1>7 DEF Sane, Owns, At, Live
<1>9. \A j \in Live : ~Moving(t, j)
  BY <1>1, IdleWork DEF Moving
<1> QED BY <1>1, <1>2, <1>4, <1>5, <1>6, <1>8, <1>9, ThreadStep

\* Steps of a thread that does not work on a document yet, or only reads it.
LEMMA BeginStep ==
    ASSUME TabsInv, NEW t \in Threads, thr[t] = Idle, NEW w \in Works, thr' = [thr EXCEPT ![t] = w],
           UNCHANGED <<heap, tabs, byPath, byId, used, texts>>, open' \in BOOLEAN,
           tangled \subseteq tangled', tangled' \subseteq used,
           \/ w.id = NoId /\ w.pc \in {"idle", "next"}
           \/ /\ w.id \in Live /\ Sole(t, w.id)
              /\ \/ w.op = "close" /\ w.pc = "remove" 
                 \/ w.op \in {"edit", "swap"} /\ w.pc = "set" /\ w.obj \in Built
    PROVE  TabsInv'
<1>1. thr'[t] = w
  BY DEF TabsInv
<1>2. HeapTyped' /\ PathsStay /\ Built' = Built /\ Live' = Live
  BY HeapSame DEF Built, Live
<1>3. MapsTyped'
  BY <1>2, MapsSame DEF TabsInv, MapsTyped
<1>4. \A j \in Live : ~Moving(t, j)
  BY IdleWork DEF Moving
<1>5. CASE w.id = NoId /\ w.pc \in {"idle", "next"}
  BY <1>2, <1>3, <1>4, <1>5, LeavingStep
<1>6. CASE /\ w.id \in Live /\ Sole(t, w.id)
           /\ \/ w.op = "close" /\ w.pc = "remove" 
              \/ w.op \in {"edit", "swap"} /\ w.pc = "set" /\ w.obj \in Built
  <2>1. Sane(t)'
    BY <1>1, <1>2, <1>6 DEF Sane, TabsInv, MapsTyped, Live
  <2>2. Owns(t)'
    BY <1>1, <1>6 DEF Owns, At
  <2> QED BY <1>2, <1>3, <1>4, <1>6, <2>1, <2>2, ThreadStep
<1> QED BY <1>5, <1>6

LEMMA EditClonesKeeps ==
    ASSUME TabsInv, NEW t \in Threads, NEW i \in Ids, NEW op \in {"edit", "swap"}, EditClones(t, i, op) PROVE TabsInv'
<1> DEFINE w == [Idle EXCEPT !.op = op, !.pc = "set", !.id = i, !.obj = tabs[i],
                             !.path = Tab(i).path, !.text = Tab(i).text, !.rev = Tab(i).rev]
<1>1. /\ thr[t] = Idle /\ i \in Live /\ thr' = [thr EXCEPT ![t] = w] /\ Meet(t, i, {Tab(i).path})
      /\ UNCHANGED <<heap, tabs, byPath, byId, used, open, texts>>
  BY DEF EditClones, Begin, Go
<1>2. tabs[i] \in Built /\ Tab(i) \in TabRecords /\ tabs[i] \in Nat
  BY <1>1, TabIsRecord DEF TabsInv, HeapTyped
<1>3. w \in Works /\ w.op = op /\ w.pc = "set" /\ w.id = i /\ w.obj = tabs[i]
  BY <1>2, IdleWork DEF Works, TabRecords
<1> HIDE DEF w
<1>4. Sole(t, i) /\ tangled \subseteq tangled' /\ tangled' \subseteq tangled \union {i}
  BY <1>1, MeetIsSole
<1>5. tangled' \subseteq used /\ open \in BOOLEAN
  BY <1>1, <1>4 DEF TabsInv, MapsTyped
<1> QED BY <1>1, <1>2, <1>3, <1>4, <1>5, BeginStep

LEMMA SaveAsKeeps ==
    ASSUME TabsInv, NEW t \in Threads, NEW i \in Ids, NEW p \in Paths, SaveAs(t, i, p) PROVE TabsInv'
<1> DEFINE w == [Idle EXCEPT !.op = "move", !.pc = "next", !.todo = {<<i, p>>}, !.saved = Tab(i).rev]
<1>1. /\ thr[t] = Idle /\ i \in Live /\ thr' = [thr EXCEPT ![t] = w]
      /\ UNCHANGED <<heap, tabs, byPath, byId, used, open, texts, tangled>>
  BY DEF SaveAs, Begin, Go
<1>2. Tab(i) \in TabRecords /\ {<<i, p>>} \in SUBSET Tasks
  BY <1>1, TabIsRecord DEF Tasks
<1>3. w \in Works /\ w.pc = "next" /\ w.id = NoId
  BY <1>2, IdleWork DEF Works, TabRecords
<1> HIDE DEF w
<1> QED BY <1>1, <1>3, BeginStep DEF TabsInv, MapsTyped

LEMMA RenameKeeps ==
    ASSUME TabsInv, NEW t \in Threads, NEW f \in Renames, Rename(t, f) PROVE TabsInv'
<1> DEFINE affected == {<<i, f[Tab(i).path]>> : i \in {j \in Live : Tab(j).path \in DOMAIN f}}
           w == [Idle EXCEPT !.op = "move", !.pc = "next", !.todo = affected]
<1>1. /\ thr[t] = Idle /\ thr' = [thr EXCEPT ![t] = w]
      /\ UNCHANGED <<heap, tabs, byPath, byId, used, open, texts, tangled>>
  BY DEF Rename, Begin, Go
<1>2. affected \in SUBSET Tasks
  BY TabsAssumption DEF Tasks, Live
<1> HIDE DEF affected
<1>3. w \in Works /\ w.pc = "next" /\ w.id = NoId
  BY <1>2, IdleWork DEF Works
<1> HIDE DEF w
<1> QED BY <1>1, <1>3, BeginStep DEF TabsInv, MapsTyped

LEMMA SwitchWorkspaceKeeps == ASSUME TabsInv, NEW t \in Threads, SwitchWorkspace(t) PROVE TabsInv'
<1>1. /\ thr[t] = Idle /\ open' \in BOOLEAN /\ thr' = [thr EXCEPT ![t] = Reclassify]
      /\ UNCHANGED <<heap, tabs, byPath, byId, used, texts, tangled>>
  BY DEF SwitchWorkspace, Begin, Go
<1> QED BY <1>1, ReclassifyWork, BeginStep DEF TabsInv, MapsTyped

LEMMA MoveRootKeeps == ASSUME TabsInv, NEW t \in Threads, MoveRoot(t) PROVE TabsInv'
<1> DEFINE w == [Idle EXCEPT !.op = "rebuild", !.pc = "next", !.todo = Live]
<1>1. /\ thr[t] = Idle /\ thr' = [thr EXCEPT ![t] = w]
      /\ UNCHANGED <<heap, tabs, byPath, byId, used, open, texts, tangled>>
  BY DEF MoveRoot, Begin, Go
<1>2. Live \in SUBSET Tasks
  BY DEF Tasks, Live
<1>3. w \in Works /\ w.pc = "next" /\ w.id = NoId
  BY <1>2, IdleWork DEF Works
<1> HIDE DEF w
<1> QED BY <1>1, <1>3, BeginStep DEF TabsInv, MapsTyped

LEMMA DeleteKeeps ==
    ASSUME TabsInv, NEW t \in Threads, NEW dead, Delete(t, dead) PROVE TabsInv'
<1> DEFINE affected == {i \in Live : Tab(i).path \in dead}
           w == [Idle EXCEPT !.op = "delete", !.pc = "next", !.todo = affected]
<1>1. /\ thr[t] = Idle /\ thr' = [thr EXCEPT ![t] = w]
      /\ UNCHANGED <<heap, tabs, byPath, byId, used, open, texts, tangled>>
  BY DEF Delete, Begin, Go
<1>2. affected \in SUBSET Tasks
  BY DEF Tasks, Live
<1> HIDE DEF affected
<1>3. w \in Works /\ w.pc = "next" /\ w.id = NoId
  BY <1>2, IdleWork DEF Works
<1> HIDE DEF w
<1> QED BY <1>1, <1>3, BeginStep DEF TabsInv, MapsTyped

LEMMA HardCloseKeeps ==
    ASSUME TabsInv, NEW t \in Threads, NEW i \in Ids, HardClose(t, i) PROVE TabsInv'
<1> DEFINE w == [Idle EXCEPT !.op = "close", !.pc = "remove", !.id = i, !.path = Tab(i).path]
<1>1. /\ thr[t] = Idle /\ i \in Live /\ thr' = [thr EXCEPT ![t] = w] /\ Meet(t, i, {Tab(i).path})
      /\ UNCHANGED <<heap, tabs, byPath, byId, used, open, texts>>
  BY DEF HardClose, Begin, Go
<1>2. Tab(i) \in TabRecords
  BY <1>1, TabIsRecord
<1>3. w \in Works /\ w.op = "close" /\ w.pc = "remove" /\ w.id = i
  BY <1>2, IdleWork DEF Works, TabRecords
<1> HIDE DEF w
<1>4. Sole(t, i) /\ tangled \subseteq tangled' /\ tangled' \subseteq tangled \union {i}
  BY <1>1, MeetIsSole
<1>5. tangled' \subseteq used /\ open \in BOOLEAN
  BY <1>1, <1>4 DEF TabsInv, MapsTyped
<1> QED BY <1>1, <1>3, <1>4, <1>5, BeginStep

\* A thread that is done with a document, with nothing else changed.
LEMMA LeaveStep ==
    ASSUME TabsInv, NEW t \in Threads, NEW w \in Works, thr' = [thr EXCEPT ![t] = w],
           w.id = NoId, w.pc \in {"idle", "next"},
           UNCHANGED <<heap, tabs, byPath, byId, used, open, texts>>, tangled \subseteq tangled', tangled' \subseteq used,
           \A i \in Live \ tangled' : Moving(t, i) => byId[i] = Tab(i).path
    PROVE  TabsInv'
<1>1. HeapTyped' /\ PathsStay /\ Built' = Built
  BY HeapSame DEF Built
<1>2. MapsTyped'
  BY <1>1, MapsSame DEF TabsInv, MapsTyped
<1> QED BY <1>1, <1>2, LeavingStep

\* A thread that goes on with the document it works on.
LEMMA GoOnStep ==
    ASSUME TabsInv, NEW t \in Threads, NEW w \in Works, thr' = [thr EXCEPT ![t] = w],
           thr[t].id \in Ids, w.id = thr[t].id, w.op = thr[t].op,
           UNCHANGED <<heap, tabs, byPath, byId, used, open, texts, tangled>>, Sane(t)', Owns(t)',
           \A i \in Live \ tangled : Moving(t, i) => Moving(t, i)'
    PROVE  TabsInv'
<1>1. HeapTyped' /\ PathsStay /\ Built' = Built
  BY HeapSame DEF Built
<1>2. MapsTyped'
  BY <1>1, MapsSame DEF TabsInv, MapsTyped
<1>3. w.op \in Structural => Sole(t, w.id)
  BY OwnerIsSole
<1> QED BY <1>1, <1>2, <1>3, ThreadStep

\* What is known of a thread in the middle of something.
LEMMA WorkIsTyped ==
    ASSUME TabsInv, NEW t \in Threads
    PROVE  /\ thr[t] \in Works /\ thr[t].todo \in SUBSET Tasks /\ thr[t].tries \in Nat
           /\ thr[t].path \in Paths \union {NoPath} /\ thr[t].id \in Ids \union {NoId}
           /\ thr[t].text \in Int /\ thr[t].rev \in Int /\ thr[t].saved \in Int
           /\ thr[t].pc \notin {"idle", "next"} => thr[t].id \in Ids /\ thr[t].id \in used
<1>1. Sane(t)
  BY DEF TabsInv
<1> QED BY <1>1, NoIdIsNone DEF Sane, Works

LEMMA RegisterKeeps == ASSUME TabsInv, NEW t \in Threads, Register(t) PROVE TabsInv'
<1> DEFINE i == thr[t].id
           p == thr[t].path
           w == [thr[t] EXCEPT !.pc = "insert"]
<1>1. /\ At(t, "open", "register") /\ UNCHANGED <<heap, tabs, used, open, texts, tangled>>
      /\ \/ Free(i, p) /\ Bind(i, p) /\ thr' = [thr EXCEPT ![t] = w]
         \/ thr' = [thr EXCEPT ![t] = Idle] /\ UNCHANGED <<byPath, byId>>
  BY DEF Register, Go, Step
<1>2. i \in Ids /\ i \in used /\ p \in Paths \union {NoPath} /\ \A j \in Live : ~Moving(t, j)
  BY <1>1, WorkIsTyped DEF At, Moving
<1>3. CASE Free(i, p) /\ Bind(i, p) /\ thr' = [thr EXCEPT ![t] = w]
  <2>1. w \in Works /\ w.op = "open" /\ w.pc = "insert" /\ w.id = i /\ w.path = p
    BY <1>1, WorkIsTyped DEF At, Works
  <2> HIDE DEF w
  <2>2. thr'[t] = w
    BY <1>3 DEF TabsInv
  <2>3. byId'[i] = p
    BY <1>2, <1>3 DEF Bind, TabsInv, MapsTyped
  <2>4. Live' = Live /\ (i \notin tangled => i \notin Live)
    BY <1>1, <1>2 DEF Live, TabsInv, Owns
  <2>5. Sane(t)' /\ Owns(t)'
    BY <1>1, <1>2, <2>1, <2>2, <2>3, <2>4 DEF Sane, Owns, At
  <2>6. Sole(t, i)
    BY <1>1, <1>2, OwnerIsSole DEF At, Structural
  <2> QED BY <1>1, <1>2, <1>3, <2>1, <2>4, <2>5, <2>6, BindStep
<1>4. CASE thr' = [thr EXCEPT ![t] = Idle] /\ UNCHANGED <<byPath, byId>>
  BY <1>1, <1>2, <1>4, IdleWork, LeaveStep DEF TabsInv, MapsTyped
<1> QED BY <1>1, <1>3, <1>4

\* The number of the TabState that a step builds.
LEMMA NextObjIsNat == ASSUME TabsInv PROVE Cardinality(Built) + 1 \in Nat
<1>1. PICK n \in Nat : Built = 1..n
  BY DEF TabsInv, HeapTyped
<1>2. Cardinality(Built) = n
  BY <1>1, FS_Interval
<1> QED BY <1>2

LEMMA InsertKeeps == ASSUME TabsInv, NEW t \in Threads, Insert(t) PROVE TabsInv'
<1> DEFINE i == thr[t].id
           rec == [path |-> thr[t].path, ws |-> Anchored(thr[t].path), text |-> 0, rev |-> 0,
                   dirty |-> FALSE, hidden |-> FALSE, missing |-> FALSE, known |-> FALSE]
           w == [thr[t] EXCEPT !.pc = "rotate", !.obj = Cardinality(Built) + 1]
<1>1. /\ At(t, "open", "insert") /\ InstallFor(i, rec) /\ thr' = [thr EXCEPT ![t] = w]
      /\ UNCHANGED <<byId, byPath, used, open, texts, tangled>>
  BY DEF Insert, Go
<1>2. i \in used /\ i \in Ids
  BY <1>1, WorkIsTyped DEF At
<1>3. Anchored(thr[t].path) \in BOOLEAN
  BY DEF Anchored
<1>4. rec \in TabRecords /\ rec.path = thr[t].path
  BY <1>3, WorkIsTyped DEF TabRecords
<1> HIDE DEF rec
<1>5. w \in Works /\ w.op = "open" /\ w.pc = "rotate" /\ w.id = i
  BY <1>1, WorkIsTyped, NextObjIsNat DEF At, Works
<1> HIDE DEF w
<1>6. Sole(t, i) /\ \A j \in Live : ~Moving(t, j)
  BY <1>1, <1>2, OwnerIsSole DEF At, Structural, Moving
<1>7. i \notin tangled => byId[i] = rec.path
  BY <1>1, <1>2, <1>4 DEF TabsInv, Owns
<1> QED BY <1>1, <1>2, <1>4, <1>5, <1>6, <1>7, InstallStep

LEMMA RotateKeeps == ASSUME TabsInv, NEW t \in Threads, Rotate(t) PROVE TabsInv'
<1> DEFINE w == [thr[t] EXCEPT !.pc = "publish"]
<1>1. /\ thr[t].pc = "rotate" /\ UNCHANGED <<heap, tabs, byPath, byId, used, open, texts, tangled>>
      /\ \/ thr[t].op = "open" /\ thr' = [thr EXCEPT ![t] = w]
         \/ thr' = [thr EXCEPT ![t] = NextOf(t, thr[t].todo)]
  BY DEF Rotate, Go, Step
<1>2. \A j \in Live : ~Moving(t, j)
  BY <1>1 DEF Moving
<1>3. CASE thr[t].op = "open" /\ thr' = [thr EXCEPT ![t] = w]
  <2>1. w \in Works /\ w.op = "open" /\ w.pc = "publish" /\ w.id = thr[t].id /\ w.id \in Ids /\ w.id \in used
    BY <1>1, <1>3, WorkIsTyped DEF Works
  <2> HIDE DEF w
  <2>2. thr'[t] = w
    BY <1>3 DEF TabsInv
  <2>3. Sane(t)' /\ Owns(t)'
    BY <1>1, <2>1, <2>2 DEF Sane, Owns, At
  <2> QED BY <1>1, <1>2, <1>3, <2>1, <2>3, GoOnStep
<1>4. CASE thr' = [thr EXCEPT ![t] = NextOf(t, thr[t].todo)]
  BY <1>1, <1>2, <1>4, WorkIsTyped, NextOfWork, LeaveStep DEF TabsInv, MapsTyped
<1> QED BY <1>1, <1>3, <1>4

LEMMA PublishKeeps == ASSUME TabsInv, NEW t \in Threads, Publish(t) PROVE TabsInv'
<1> DEFINE i == thr[t].id
<1>1. /\ At(t, "open", "publish") /\ thr' = [thr EXCEPT ![t] = Idle]
      /\ \/ i \in Live /\ heap' = [heap EXCEPT ![tabs[i]].known = (Tab(i).path # NoPath)]
         \/ UNCHANGED heap
      /\ UNCHANGED <<tabs, byPath, byId, used, open, texts, tangled>>
  BY DEF Publish, Go
<1>2. HeapTyped' /\ PathsStay /\ Built' = Built
  <2>1. CASE i \in Live /\ heap' = [heap EXCEPT ![tabs[i]].known = (Tab(i).path # NoPath)]
    BY <2>1, TabIsRecord, FlagSet
  <2>2. CASE UNCHANGED heap
    BY <2>2, HeapSame DEF Built
  <2> QED BY <1>1, <2>1, <2>2
<1>3. MapsTyped'
  BY <1>1, <1>2, MapsSame DEF TabsInv, MapsTyped
<1>4. \A j \in Live : ~Moving(t, j)
  BY <1>1 DEF At, Moving
<1> QED BY <1>1, <1>2, <1>3, <1>4, IdleWork, LeavingStep

LEMMA EditSetsKeeps == ASSUME TabsInv, NEW t \in Threads, NEW bump \in {0, 1}, EditSets(t, bump) PROVE TabsInv'
<1> DEFINE n == thr[t].obj
           w == [thr[t] EXCEPT !.pc = "publish", !.text = texts + 1]
<1>1. /\ thr[t].op \in {"edit", "swap"} /\ thr[t].pc = "set"
      /\ UNCHANGED <<tabs, byPath, byId, used, open, tangled>>
      /\ \/ thr' = [thr EXCEPT ![t] = Idle] /\ UNCHANGED <<heap, texts>>
         \/ /\ texts' = texts + 1 /\ thr' = [thr EXCEPT ![t] = w]
            /\ heap' = [heap EXCEPT ![n] = [heap[n] EXCEPT !.text = texts + 1, !.rev = heap[n].rev + bump, !.dirty = TRUE]]
  BY Zenon DEF EditSets, Go
<1>2. n \in Built /\ heap[n] \in TabRecords /\ texts \in Nat
  BY <1>1 DEF TabsInv, Sane, HeapTyped, MapsTyped
<1>3. \A j \in Live : ~Moving(t, j)
  BY <1>1 DEF Moving
<1>4. CASE thr' = [thr EXCEPT ![t] = Idle] /\ UNCHANGED <<heap, texts>>
  BY <1>1, <1>3, <1>4, IdleWork, LeaveStep DEF TabsInv, MapsTyped
<1>5. CASE /\ texts' = texts + 1 /\ thr' = [thr EXCEPT ![t] = w]
           /\ heap' = [heap EXCEPT ![n] = [heap[n] EXCEPT !.text = texts + 1, !.rev = heap[n].rev + bump, !.dirty = TRUE]]
  <2> DEFINE v == heap[n].rev + bump
             r1 == [heap[n] EXCEPT !.text = texts + 1]
             r2 == [r1 EXCEPT !.rev = v]
             r == [r2 EXCEPT !.dirty = TRUE]
  <2>1. texts + 1 \in Nat /\ v \in Int
    BY <1>2 DEF TabRecords
  <2>2. r1 \in TabRecords /\ r1.path = heap[n].path /\ r1.rev = heap[n].rev
    BY <1>2, <2>1 DEF TabRecords
  <2>3. heap' = [heap EXCEPT ![n] = r]
    BY <1>5
  <2> HIDE DEF r1, v
  <2>4. r2 \in TabRecords /\ r2.path = heap[n].path
    BY <2>1, <2>2 DEF TabRecords
  <2> HIDE DEF r2
  <2>5. r \in TabRecords /\ r.path = heap[n].path
    BY <2>4 DEF TabRecords
  <2> HIDE DEF r
  <2>6. HeapTyped' /\ PathsStay /\ Built' = Built
    BY <1>2, <2>3, <2>5, HeapSet
  <2>7. MapsTyped'
    BY <1>1, <1>5, <2>1, <2>6, MapsSame DEF TabsInv, MapsTyped
  <2>8. w \in Works /\ w.op = thr[t].op /\ w.pc = "publish" /\ w.id = thr[t].id
    <3> DEFINE x == texts + 1
    <3>1. x \in Int
      BY <2>1
    <3> HIDE DEF x
    <3>2. [thr[t] EXCEPT !.pc = "publish", !.text = x] \in Works
      BY <3>1, WorkIsTyped DEF Works
    <3> QED BY <3>1, <3>2, WorkIsTyped DEF Works, x
  <2>9. w.op \in {"edit", "swap"} /\ w.id \in Ids /\ w.id \in used
    BY <1>1, <2>8, WorkIsTyped
  <2> HIDE DEF w
  <2>10. thr'[t] = w
    BY <1>5 DEF TabsInv
  <2>11. Sane(t)' /\ Owns(t)'
    BY <1>1, <2>8, <2>9, <2>10 DEF Sane, Owns, At
  <2>12. w.op \notin Structural
    BY <2>9 DEF Structural
  <2> QED BY <1>1, <1>3, <1>5, <2>6, <2>7, <2>11, <2>12, ThreadStep
<1> QED BY <1>1, <1>4, <1>5

LEMMA EditPublishesKeeps == ASSUME TabsInv, NEW t \in Threads, EditPublishes(t) PROVE TabsInv'
<1>1. /\ thr[t].op \in {"edit", "swap"} /\ thr' = [thr EXCEPT ![t] = Idle]
      /\ UNCHANGED <<heap, tabs, byPath, byId, used, open, texts, tangled>>
  BY DEF EditPublishes, Go
<1>2. \A j \in Live : ~Moving(t, j)
  BY <1>1 DEF Moving
<1> QED BY <1>1, <1>2, IdleWork, LeaveStep DEF TabsInv, MapsTyped

LEMMA MoveSnapshotsKeeps ==
    ASSUME TabsInv, NEW t \in Threads, NEW i \in Ids, NEW p \in Paths, MoveSnapshots(t, i, p) PROVE TabsInv'
<1> DEFINE rest == thr[t].todo \ {<<i, p>>}
           w == [thr[t] EXCEPT !.pc = "bind", !.id = i, !.path = p, !.old = Tab(i).path,
                               !.text = Tab(i).text, !.rev = Tab(i).rev, !.obj = tabs[i], !.todo = rest]
<1>1. /\ At(t, "move", "next") /\ Again(t, i) /\ (Retries(t) => p = thr[t].path)
      /\ UNCHANGED <<heap, tabs, byPath, byId, used, open, texts>>
      /\ \/ i \in Live /\ thr' = [thr EXCEPT ![t] = w] /\ Meet(t, i, {p, Tab(i).path})
         \/ i \notin Live /\ thr' = [thr EXCEPT ![t] = NextOf(t, rest)] /\ UNCHANGED tangled
  BY DEF MoveSnapshots, Go
<1>2. rest \in SUBSET Tasks
  BY WorkIsTyped
<1> HIDE DEF rest
<1>3. \A j \in Live : Moving(t, j) => j = i /\ thr[t].path = p /\ Retries(t)
  BY <1>1 DEF At, Moving, Again
<1>4. CASE i \in Live /\ thr' = [thr EXCEPT ![t] = w] /\ Meet(t, i, {p, Tab(i).path})
  <2>1. tabs[i] \in Built /\ Tab(i) \in TabRecords /\ tabs[i] \in Nat
    BY <1>4, TabIsRecord DEF TabsInv, HeapTyped
  <2>2. Tab(i).path \in Paths \union {NoPath} /\ Tab(i).text \in Int /\ Tab(i).rev \in Int
    BY <2>1 DEF TabRecords
  <2>3. /\ w \in Works /\ w.op = thr[t].op /\ w.pc = "bind" /\ w.id = i /\ w.path = p /\ w.obj = tabs[i]
        /\ w.tries = thr[t].tries
    BY <1>2, <2>1, <2>2, WorkIsTyped DEF Works
  <2> HIDE DEF w
  <2>4. thr'[t] = w
    BY <1>4 DEF TabsInv
  <2>5. HeapTyped' /\ PathsStay /\ Built' = Built
    BY <1>1, HeapSame DEF Built
  <2>6. Sole(t, i) /\ tangled \subseteq tangled' /\ tangled' \subseteq used
    BY <1>4, MeetIsSole DEF TabsInv, MapsTyped
  <2>7. MapsTyped'
    BY <1>1, <2>5, <2>6, MapsSame DEF TabsInv, MapsTyped
  <2>8. Sane(t)' /\ Owns(t)'
    BY <1>1, <1>4, <2>1, <2>3, <2>4, <2>5 DEF Sane, Owns, At, TabsInv, MapsTyped
  <2>9. \A j \in Live : Moving(t, j) => Moving(t, j)'
    BY <1>1, <1>3, <2>3, <2>4 DEF Moving, At
  <2> QED BY <1>1, <1>4, <2>3, <2>5, <2>6, <2>7, <2>8, <2>9, ThreadStep
<1>5. CASE i \notin Live /\ thr' = [thr EXCEPT ![t] = NextOf(t, rest)] /\ UNCHANGED tangled
  <2>1. NextOf(t, rest) \in Works /\ NextOf(t, rest).id = NoId /\ NextOf(t, rest).pc \in {"idle", "next"}
    BY <1>2, NextOfWork
  <2>2. tangled' = tangled /\ tangled \subseteq used /\ \A j \in Live : ~Moving(t, j)
    BY <1>3, <1>5 DEF TabsInv, MapsTyped
  <2> QED BY <1>1, <1>5, <2>1, <2>2, LeaveStep
<1> QED BY <1>1, <1>4, <1>5

\* A thread has let go of its document: on to the next one.
LEMMA OnToTheNext ==
    ASSUME TabsInv, NEW t \in Threads, thr' = [thr EXCEPT ![t] = NextOf(t, thr[t].todo)],
           UNCHANGED <<heap, tabs, byPath, byId, used, open, texts>>, tangled \subseteq tangled', tangled' \subseteq used,
           \A i \in Live \ tangled' : Moving(t, i) => byId[i] = Tab(i).path
    PROVE  TabsInv'
BY WorkIsTyped, NextOfWork, LeaveStep

LEMMA MoveBindsKeeps == ASSUME TabsInv, NEW t \in Threads, MoveBinds(t) PROVE TabsInv'
<1> PICK i, p : i = thr[t].id /\ p = thr[t].path
  OBVIOUS
<1> DEFINE w == [thr[t] EXCEPT !.pc = "compare"]
<1>1. /\ At(t, "move", "bind") /\ UNCHANGED <<heap, tabs, used, open, texts, tangled>>
      /\ \/ Free(i, p) /\ Bind(i, p) /\ thr' = [thr EXCEPT ![t] = w]
         \/ ~Free(i, p) /\ thr' = [thr EXCEPT ![t] = NextOf(t, thr[t].todo)] /\ UNCHANGED <<byPath, byId>>
  BY DEF MoveBinds, Go, Step
<1>2. i \in Ids /\ i \in used /\ p \in Paths \union {NoPath}
  BY <1>1, WorkIsTyped DEF At
<1>3. \A j \in Live : Moving(t, j) => j = i /\ byId[i] = p
  BY DEF Moving
<1>4. CASE Free(i, p) /\ Bind(i, p) /\ thr' = [thr EXCEPT ![t] = w]
  <2>1. /\ w \in Works /\ w.op = "move" /\ w.pc = "compare" /\ w.id = i /\ w.path = p /\ w.obj = thr[t].obj
    BY <1>1, WorkIsTyped DEF At, Works
  <2> HIDE DEF w
  <2>2. thr'[t] = w
    BY <1>4 DEF TabsInv
  <2>3. byId'[i] = p
    BY <1>2, <1>4 DEF Bind, TabsInv, MapsTyped
  <2>4. thr[t].obj \in Built /\ Built' = Built
    BY <1>1 DEF At, TabsInv, Sane, Built
  <2>5. Sane(t)' /\ Owns(t)'
    BY <1>1, <1>2, <2>1, <2>2, <2>3, <2>4 DEF Sane, Owns, At
  <2>6. Moving(t, i)'
    BY <2>1, <2>2, <2>3 DEF Moving
  <2>7. Settled(i)' /\ Sole(t, i)
    BY <1>1, <1>2, <2>6, OwnerIsSole DEF At, Structural, Settled
  <2>8. \A j \in Live : Moving(t, j) => j = i
    BY <1>3
  <2> QED BY <1>1, <1>2, <1>4, <2>1, <2>5, <2>7, <2>8, BindStep
<1>5. CASE ~Free(i, p) /\ thr' = [thr EXCEPT ![t] = NextOf(t, thr[t].todo)] /\ UNCHANGED <<byPath, byId>>
  <2>1. byId[i] # p
    BY <1>2, <1>5 DEF Free, TabsInv, OneToOne
  <2> QED BY <1>1, <1>3, <1>5, <2>1, OnToTheNext DEF TabsInv, MapsTyped
<1> QED BY <1>1, <1>4, <1>5

LEMMA MoveComparesKeeps == ASSUME TabsInv, NEW t \in Threads, MoveCompares(t) PROVE TabsInv'
<1> DEFINE i == thr[t].id
           p == thr[t].path
           n == thr[t].obj
           d == IF thr[t].saved = NoVersion THEN heap[n].dirty ELSE thr[t].saved # thr[t].rev
           rec == [heap[n] EXCEPT !.path = p, !.ws = FALSE, !.rev = thr[t].rev, !.text = thr[t].text,
                                  !.known = TRUE, !.dirty = d]
           w == [thr[t] EXCEPT !.pc = "rekey", !.obj = Cardinality(Built) + 1]
           again == thr[t].todo \union {<<i, p>>}
           v == [thr[t] EXCEPT !.pc = "next", !.todo = again, !.tries = thr[t].tries + 1]
<1>1. At(t, "move", "compare") /\ UNCHANGED <<byPath, byId, used, open, texts>>
  BY DEF MoveCompares
<1>2. \/ i \notin Live /\ thr' = [thr EXCEPT ![t] = NextOf(t, thr[t].todo)] /\ UNCHANGED <<heap, tabs, tangled>>
      \/ InstallFor(i, rec) /\ thr' = [thr EXCEPT ![t] = w] /\ UNCHANGED tangled
      \/ thr' = [thr EXCEPT ![t] = v] /\ UNCHANGED <<heap, tabs, tangled>>
      \/ thr' = [thr EXCEPT ![t] = NextOf(t, thr[t].todo)] /\ tangled' = tangled \union {i} /\ UNCHANGED <<heap, tabs>>
  BY DEF MoveCompares, Go
<1>3. i \in Ids /\ i \in used /\ p \in Paths \union {NoPath} /\ n \in Built /\ heap[n] \in TabRecords
  BY <1>1, WorkIsTyped DEF At, TabsInv, Sane, HeapTyped
<1>4. \A j \in Live : Moving(t, j) => j = i
  BY DEF Moving
<1>5. i \notin tangled => byId[i] = p
  BY <1>1, <1>3 DEF TabsInv, Owns
<1>6. CASE i \notin Live /\ thr' = [thr EXCEPT ![t] = NextOf(t, thr[t].todo)] /\ UNCHANGED <<heap, tabs, tangled>>
  BY <1>1, <1>4, <1>6, OnToTheNext DEF TabsInv, MapsTyped
<1>7. CASE InstallFor(i, rec) /\ thr' = [thr EXCEPT ![t] = w] /\ UNCHANGED tangled
  <2>1. d \in BOOLEAN
    BY <1>3 DEF TabRecords
  <2> HIDE DEF d
  <2>2. rec \in TabRecords /\ rec.path = p
    BY <1>3, <2>1, WorkIsTyped DEF TabRecords
  <2> HIDE DEF rec
  <2>3. w \in Works /\ w.op = "move" /\ w.pc = "rekey" /\ w.id = i
    BY <1>1, WorkIsTyped, NextObjIsNat DEF At, Works
  <2> HIDE DEF w
  <2>4. Sole(t, i)
    BY <1>1, <1>3, <1>7, OwnerIsSole DEF At, Structural
  <2> QED BY <1>1, <1>3, <1>4, <1>5, <1>7, <2>2, <2>3, <2>4, InstallStep
<1>8. CASE thr' = [thr EXCEPT ![t] = v] /\ UNCHANGED <<heap, tabs, tangled>>
  <2>1. again \in SUBSET Tasks /\ thr[t].tries + 1 \in Nat \ {0}
    BY <1>3, WorkIsTyped DEF Tasks
  <2> HIDE DEF again
  <2>2. /\ v \in Works /\ v.op = "move" /\ v.pc = "next" /\ v.id = i /\ v.path = p
        /\ v.tries = thr[t].tries + 1
    BY <1>1, <2>1, WorkIsTyped DEF At, Works
  <2> HIDE DEF v
  <2>3. thr'[t] = v /\ v.tries > 0
    BY <1>8, <2>1, <2>2 DEF TabsInv
  <2>4. Sane(t)' /\ Owns(t)'
    BY <1>1, <1>3, <2>2, <2>3 DEF Sane, Owns, At
  <2>5. \A j \in Live : Moving(t, j) => Moving(t, j)'
    BY <1>1, <1>4, <2>2, <2>3 DEF Moving, Retries
  <2> QED BY <1>1, <1>3, <1>8, <2>2, <2>4, <2>5, GoOnStep DEF At
<1>9. CASE /\ thr' = [thr EXCEPT ![t] = NextOf(t, thr[t].todo)] /\ tangled' = tangled \union {i}
           /\ UNCHANGED <<heap, tabs>>
  BY <1>1, <1>3, <1>4, <1>9, OnToTheNext DEF TabsInv, MapsTyped
<1> QED BY <1>2, <1>6, <1>7, <1>8, <1>9

\* The rest of a move or of a removal does not touch the map or the registry.
LEMMA MoveRekeysKeeps == ASSUME TabsInv, NEW t \in Threads, MoveRekeys(t) PROVE TabsInv'
<1> DEFINE w == [thr[t] EXCEPT !.pc = "rotate"]
<1>1. /\ At(t, "move", "rekey") /\ thr' = [thr EXCEPT ![t] = w]
      /\ UNCHANGED <<heap, tabs, byPath, byId, used, open, texts, tangled>>
  BY DEF MoveRekeys, Step, Go
<1>2. w \in Works /\ w.op = "move" /\ w.pc = "rotate" /\ w.id = thr[t].id /\ w.id \in Ids /\ w.id \in used
  BY <1>1, WorkIsTyped DEF At, Works
<1> HIDE DEF w
<1>3. thr'[t] = w
  BY <1>1 DEF TabsInv
<1>4. Sane(t)' /\ Owns(t)' /\ \A j \in Live : ~Moving(t, j)
  BY <1>1, <1>2, <1>3 DEF Sane, Owns, At, Moving
<1> QED BY <1>1, <1>2, <1>4, GoOnStep DEF At

LEMMA TeardownKeeps == ASSUME TabsInv, NEW t \in Threads, Teardown(t) PROVE TabsInv'
<1> DEFINE w == [thr[t] EXCEPT !.pc = "unregister"]
<1>1. /\ At(t, "delete", "teardown") /\ thr' = [thr EXCEPT ![t] = w]
      /\ UNCHANGED <<heap, tabs, byPath, byId, used, open, texts, tangled>>
  BY DEF Teardown, Step, Go
<1>2. w \in Works /\ w.op = "delete" /\ w.pc = "unregister" /\ w.id = thr[t].id /\ w.id \in Ids /\ w.id \in used
  BY <1>1, WorkIsTyped DEF At, Works
<1> HIDE DEF w
<1>3. thr'[t] = w
  BY <1>1 DEF TabsInv
<1>4. w.id \notin tangled => w.id \notin Live
  BY <1>1, <1>2 DEF TabsInv, Owns, At
<1>5. Sane(t)' /\ Owns(t)' /\ \A j \in Live : ~Moving(t, j)
  BY <1>1, <1>2, <1>3, <1>4 DEF Sane, Owns, At, Moving, Live
<1> QED BY <1>1, <1>2, <1>5, GoOnStep DEF At

LEMMA BatchSnapshotsKeeps ==
    ASSUME TabsInv, NEW t \in Threads, NEW i \in Ids, BatchSnapshots(t, i) PROVE TabsInv'
<1> DEFINE rest == thr[t].todo \ {i}
           c == IF thr[t].op = "rebuild" THEN "compare" ELSE "bind"
           w == [thr[t] EXCEPT !.pc = c, !.id = i, !.path = Tab(i).path, !.obj = tabs[i],
                               !.text = Tab(i).text, !.rev = Tab(i).rev, !.todo = rest]
<1>1. /\ thr[t].op \in {"reclassify", "rebuild"} /\ thr[t].pc = "next"
      /\ UNCHANGED <<heap, tabs, byPath, byId, used, open, texts>>
      /\ \/ i \in Live /\ thr' = [thr EXCEPT ![t] = w] /\ Meet(t, i, {Tab(i).path})
         \/ thr' = [thr EXCEPT ![t] = NextOf(t, rest)] /\ UNCHANGED tangled
  BY DEF BatchSnapshots, Concerned, Go
<1>2. rest \in SUBSET Tasks
  BY WorkIsTyped
<1> HIDE DEF rest
<1>3. \A j \in Live : ~Moving(t, j)
  BY <1>1 DEF Moving
<1>4. CASE i \in Live /\ thr' = [thr EXCEPT ![t] = w] /\ Meet(t, i, {Tab(i).path})
  <2>1. tabs[i] \in Built /\ Tab(i) \in TabRecords /\ tabs[i] \in Nat
    BY <1>4, TabIsRecord DEF TabsInv, HeapTyped
  <2>2. Tab(i).path \in Paths \union {NoPath} /\ Tab(i).text \in Int /\ Tab(i).rev \in Int
    BY <2>1 DEF TabRecords
  <2>3. c \in {"compare", "bind"} /\ (thr[t].op = "rebuild" <=> c = "compare")
    OBVIOUS
  <2> HIDE DEF c
  <2>4. w \in Works /\ w.op = thr[t].op /\ w.pc = c /\ w.id = i /\ w.path = Tab(i).path /\ w.obj = tabs[i]
    BY <1>2, <2>1, <2>2, <2>3, WorkIsTyped DEF Works
  <2> HIDE DEF w
  <2>5. thr'[t] = w /\ i \in used
    BY <1>4 DEF TabsInv, MapsTyped
  <2>6. HeapTyped' /\ PathsStay /\ Built' = Built
    BY <1>1, HeapSame DEF Built
  <2>7. Sole(t, i) /\ tangled \subseteq tangled' /\ tangled' \subseteq used
    BY <1>4, <2>5, MeetIsSole DEF TabsInv, MapsTyped
  <2>8. MapsTyped'
    BY <1>1, <2>6, <2>7, MapsSame DEF TabsInv, MapsTyped
  <2>9. heap'[tabs[i]].path = Tab(i).path /\ Live' = Live /\ Tab(i)' = Tab(i)
    BY <1>1 DEF Tab, Live
  <2>10. Sane(t)'
    BY <1>1, <2>1, <2>4, <2>5, <2>6, <2>9 DEF Sane
  <2>11. Owns(t)'
    BY <1>1, <1>4, <2>3, <2>4, <2>5, <2>9 DEF Owns, At
  <2> QED BY <1>1, <1>3, <1>4, <2>4, <2>6, <2>7, <2>8, <2>10, <2>11, ThreadStep
<1>5. CASE thr' = [thr EXCEPT ![t] = NextOf(t, rest)] /\ UNCHANGED tangled
  <2>1. NextOf(t, rest) \in Works /\ NextOf(t, rest).id = NoId /\ NextOf(t, rest).pc \in {"idle", "next"}
    BY <1>2, NextOfWork
  <2> QED BY <1>1, <1>3, <1>5, <2>1, LeaveStep DEF TabsInv, MapsTyped
<1> QED BY <1>1, <1>4, <1>5

LEMMA ReclassifyBindsKeeps == ASSUME TabsInv, NEW t \in Threads, ReclassifyBinds(t) PROVE TabsInv'
<1> PICK i, p : i = thr[t].id /\ p = thr[t].path
  OBVIOUS
<1> DEFINE w == [thr[t] EXCEPT !.pc = "swap"]
<1>1. /\ At(t, "reclassify", "bind") /\ UNCHANGED <<heap, tabs, used, open, texts, tangled>>
      /\ \/ Free(i, p) /\ Bind(i, p) /\ thr' = [thr EXCEPT ![t] = w]
         \/ thr' = [thr EXCEPT ![t] = NextOf(t, thr[t].todo)] /\ UNCHANGED <<byPath, byId>>
  BY DEF ReclassifyBinds, Go, Step
<1>2. i \in Ids /\ i \in used /\ p \in Paths \union {NoPath} /\ \A j \in Live : ~Moving(t, j)
  BY <1>1, WorkIsTyped DEF At, Moving
<1>3. CASE Free(i, p) /\ Bind(i, p) /\ thr' = [thr EXCEPT ![t] = w]
  <2>1. /\ w \in Works /\ w.op = "reclassify" /\ w.pc = "swap" /\ w.id = i /\ w.path = p /\ w.obj = thr[t].obj
    BY <1>1, WorkIsTyped DEF At, Works
  <2> HIDE DEF w
  <2>2. thr'[t] = w
    BY <1>3 DEF TabsInv
  <2>3. byId'[i] = p
    BY <1>2, <1>3 DEF Bind, TabsInv, MapsTyped
  <2>4. thr[t].obj \in Built /\ heap[thr[t].obj].path = p /\ Built' = Built
    BY <1>1 DEF At, TabsInv, Sane, Built
  <2>5. Live' = Live /\ Tab(i)' = Tab(i)
    BY <1>1 DEF Live, Tab
  <2>6. i \notin tangled => i \in Live /\ Tab(i).path = p
    BY <1>1, <1>2 DEF TabsInv, Owns
  <2>7. Sane(t)' 
    BY <1>1, <1>2, <2>1, <2>2, <2>4 DEF Sane
  <2>8. Owns(t)'
    BY <1>1, <2>1, <2>2, <2>3, <2>5, <2>6 DEF Owns, At
  <2>9. Sole(t, i)
    BY <1>1, <1>2, OwnerIsSole DEF At, Structural
  <2>10. i \in Live \ tangled => Settled(i)'
    BY <2>3, <2>5, <2>6 DEF Settled
  <2> QED BY <1>1, <1>2, <1>3, <2>1, <2>7, <2>8, <2>9, <2>10, BindStep
<1>4. CASE thr' = [thr EXCEPT ![t] = NextOf(t, thr[t].todo)] /\ UNCHANGED <<byPath, byId>>
  BY <1>1, <1>2, <1>4, OnToTheNext DEF TabsInv, MapsTyped
<1> QED BY <1>1, <1>3, <1>4

\* A world for the path the thread's TabState has.
LEMMA RebuiltIsRecord ==
    ASSUME TabsInv, NEW t \in Threads, thr[t].op \in {"reclassify", "rebuild"}, thr[t].pc \in {"swap", "compare"},
           NEW ws \in BOOLEAN
    PROVE  Rebuilt(t, ws) \in TabRecords /\ Rebuilt(t, ws).path = thr[t].path
<1>1. thr[t].obj \in Built /\ heap[thr[t].obj].path = thr[t].path /\ heap[thr[t].obj] \in TabRecords
  BY DEF TabsInv, Sane, HeapTyped
<1> QED BY <1>1, WorkIsTyped DEF Rebuilt, TabRecords

LEMMA ReclassifySwapsKeeps == ASSUME TabsInv, NEW t \in Threads, ReclassifySwaps(t) PROVE TabsInv'
<1> DEFINE i == thr[t].id
           rec == Rebuilt(t, Anchored(thr[t].path))
           w == [thr[t] EXCEPT !.pc = "rotate", !.obj = Cardinality(Built) + 1]
<1>1. /\ At(t, "reclassify", "swap") /\ InstallFor(i, rec) /\ thr' = [thr EXCEPT ![t] = w]
      /\ UNCHANGED <<byPath, byId, used, open, texts, tangled>>
  BY DEF ReclassifySwaps, Go
<1>2. i \in used /\ i \in Ids
  BY <1>1, WorkIsTyped DEF At
<1>3. Anchored(thr[t].path) \in BOOLEAN
  BY DEF Anchored
<1>4. rec \in TabRecords /\ rec.path = thr[t].path
  BY <1>1, <1>3, RebuiltIsRecord DEF At
<1> HIDE DEF rec
<1>5. w \in Works /\ w.op = "reclassify" /\ w.pc = "rotate" /\ w.id = i
  BY <1>1, WorkIsTyped, NextObjIsNat DEF At, Works
<1> HIDE DEF w
<1>6. Sole(t, i) /\ \A j \in Live : ~Moving(t, j)
  BY <1>1, <1>2, OwnerIsSole DEF At, Structural, Moving
<1>7. i \notin tangled => byId[i] = rec.path
  BY <1>1, <1>2, <1>4 DEF TabsInv, Owns
<1> QED BY <1>1, <1>2, <1>4, <1>5, <1>6, <1>7, InstallStep

LEMMA RebuildComparesKeeps == ASSUME TabsInv, NEW t \in Threads, RebuildCompares(t) PROVE TabsInv'
<1> DEFINE i == thr[t].id
           rec == Rebuilt(t, TRUE)
           w == [thr[t] EXCEPT !.pc = "rotate", !.obj = Cardinality(Built) + 1]
           again == thr[t].todo \union {i}
           v == [thr[t] EXCEPT !.pc = "next", !.todo = again, !.tries = thr[t].tries + 1]
<1>1. At(t, "rebuild", "compare") /\ UNCHANGED <<byPath, byId, used, open, texts, tangled>>
  BY DEF RebuildCompares
<1>2. \/ InstallFor(i, rec) /\ thr' = [thr EXCEPT ![t] = w]
      \/ thr' = [thr EXCEPT ![t] = v] /\ UNCHANGED <<heap, tabs>>
      \/ thr' = [thr EXCEPT ![t] = NextOf(t, thr[t].todo)] /\ UNCHANGED <<heap, tabs>>
  BY DEF RebuildCompares, Go
<1>3. i \in Ids /\ i \in used /\ \A j \in Live : ~Moving(t, j)
  BY <1>1, WorkIsTyped DEF At, Moving
<1>4. i \notin tangled => byId[i] = thr[t].path
  <2> SUFFICES ASSUME i \notin tangled PROVE byId[i] = thr[t].path
    OBVIOUS
  <2>1. i \in Live /\ Tab(i).path = thr[t].path /\ Settled(i)
    BY <1>1, <1>3 DEF TabsInv, Owns, Registered
  <2>2. ASSUME NEW u \in Threads, Moving(u, i) PROVE FALSE
    <3>1. u # t /\ thr[u].id = i /\ thr[u].op \in Structural /\ thr[t].op \in Structural
      BY <1>1, <2>2 DEF Moving, At, Structural
    <3> QED BY <1>3, <3>1 DEF TabsInv, Exclusive
  <2> QED BY <2>1, <2>2 DEF Settled
<1>5. CASE InstallFor(i, rec) /\ thr' = [thr EXCEPT ![t] = w]
  <2>1. rec \in TabRecords /\ rec.path = thr[t].path
    BY <1>1, RebuiltIsRecord DEF At
  <2> HIDE DEF rec
  <2>2. w \in Works /\ w.op = "rebuild" /\ w.pc = "rotate" /\ w.id = i
    BY <1>1, WorkIsTyped, NextObjIsNat DEF At, Works
  <2> HIDE DEF w
  <2>3. Sole(t, i)
    BY <1>1, <1>3, OwnerIsSole DEF At, Structural
  <2> QED BY <1>1, <1>3, <1>4, <1>5, <2>1, <2>2, <2>3, InstallStep
<1>6. CASE thr' = [thr EXCEPT ![t] = v] /\ UNCHANGED <<heap, tabs>>
  <2>1. again \in SUBSET Tasks /\ thr[t].tries + 1 \in Nat
    BY <1>3, WorkIsTyped DEF Tasks
  <2> HIDE DEF again
  <2>2. v \in Works /\ v.op = "rebuild" /\ v.pc = "next" /\ v.id = i
    BY <1>1, <2>1, WorkIsTyped DEF At, Works
  <2> HIDE DEF v
  <2>3. thr'[t] = v
    BY <1>6 DEF TabsInv
  <2>4. Sane(t)' /\ Owns(t)'
    BY <1>1, <1>3, <2>2, <2>3 DEF Sane, Owns, At
  <2> QED BY <1>1, <1>3, <1>6, <2>2, <2>4, GoOnStep DEF At
<1>7. CASE thr' = [thr EXCEPT ![t] = NextOf(t, thr[t].todo)] /\ UNCHANGED <<heap, tabs>>
  BY <1>1, <1>3, <1>7, OnToTheNext DEF TabsInv, MapsTyped
<1> QED BY <1>2, <1>5, <1>6, <1>7

\* A document leaves the map.
LEMMA RemoveStep ==
    ASSUME TabsInv, NEW t \in Threads, NEW w \in Works, thr' = [thr EXCEPT ![t] = w],
           NEW i \in Live, tabs' = [tabs EXCEPT ![i] = 0], UNCHANGED <<heap, byPath, byId, used, open, texts>>,
           Sole(t, i), tangled \subseteq tangled', tangled' \subseteq used, w.id = i, w.pc \in {"unregister", "teardown"},
           w.op \in {"close", "delete"}, \A j \in Live : ~Moving(t, j)
    PROVE  TabsInv'
<1> USE DEF TabsInv
<1>1. thr'[t] = w /\ i \in Ids /\ i \in used
  BY DEF Live, MapsTyped
<1>2. tabs' \in [Ids -> Built \union {0}] /\ Live' = Live \ {i} /\ OnlyAt(i)
  BY <1>1 DEF MapsTyped, Live, OnlyAt
<1>3. HeapTyped' /\ PathsStay /\ Built' = Built
  BY HeapSame DEF Built
<1>4. MapsTyped'
  BY <1>2, <1>3 DEF MapsTyped
<1>5. Sane(t)' /\ Owns(t)'
  BY <1>1, <1>2 DEF Sane, Owns, At
<1>6. OneToOne'
  BY DEF OneToOne
<1> QED BY <1>1, <1>2, <1>3, <1>4, <1>5, <1>6, StoreStep

LEMMA CloseRemovesKeeps == ASSUME TabsInv, NEW t \in Threads, CloseRemoves(t) PROVE TabsInv'
<1> DEFINE i == thr[t].id
           w == [thr[t] EXCEPT !.pc = "unregister"]
<1>1. /\ At(t, "close", "remove") /\ UNCHANGED <<heap, byPath, byId, used, open, texts, tangled>>
      /\ \/ i \in Live /\ tabs' = [tabs EXCEPT ![i] = 0] /\ thr' = [thr EXCEPT ![t] = w]
         \/ thr' = [thr EXCEPT ![t] = Idle] /\ UNCHANGED tabs
  BY DEF CloseRemoves, Go, Step
<1>2. i \in Ids /\ \A j \in Live : ~Moving(t, j)
  BY <1>1, WorkIsTyped DEF At, Moving
<1>3. CASE i \in Live /\ tabs' = [tabs EXCEPT ![i] = 0] /\ thr' = [thr EXCEPT ![t] = w]
  <2>1. w \in Works /\ w.op = "close" /\ w.pc = "unregister" /\ w.id = i
    BY <1>1, WorkIsTyped DEF At, Works
  <2> HIDE DEF w
  <2>2. Sole(t, i) /\ tangled' \subseteq used
    BY <1>1, <1>2, OwnerIsSole DEF At, Structural, TabsInv, MapsTyped
  <2> QED BY <1>1, <1>2, <1>3, <2>1, <2>2, RemoveStep
<1>4. CASE thr' = [thr EXCEPT ![t] = Idle] /\ UNCHANGED tabs
  BY <1>1, <1>2, <1>4, IdleWork, LeaveStep DEF TabsInv, MapsTyped
<1> QED BY <1>1, <1>3, <1>4

LEMMA DeleteClosesKeeps ==
    ASSUME TabsInv, NEW t \in Threads, NEW i \in Ids, DeleteCloses(t, i) PROVE TabsInv'
<1> DEFINE rest == thr[t].todo \ {i}
           w == [thr[t] EXCEPT !.pc = "teardown", !.id = i, !.path = Tab(i).path, !.todo = rest]
<1>1. At(t, "delete", "next") /\ UNCHANGED <<byPath, byId, used, open, texts>>
  BY DEF DeleteCloses
<1>2. \/ /\ i \in Live /\ tabs' = [tabs EXCEPT ![i] = 0] /\ thr' = [thr EXCEPT ![t] = w]
         /\ Meet(t, i, {Tab(i).path}) /\ UNCHANGED heap
      \/ /\ i \in Live /\ heap' = [heap EXCEPT ![tabs[i]].missing = TRUE]
         /\ thr' = [thr EXCEPT ![t] = NextOf(t, rest)] /\ UNCHANGED <<tabs, tangled>>
      \/ thr' = [thr EXCEPT ![t] = NextOf(t, rest)] /\ UNCHANGED <<heap, tabs, tangled>>
  BY DEF DeleteCloses, Go
<1>3. rest \in SUBSET Tasks /\ \A j \in Live : ~Moving(t, j)
  BY <1>1, WorkIsTyped DEF At, Moving
<1> HIDE DEF rest
<1>4. NextOf(t, rest) \in Works /\ NextOf(t, rest).id = NoId /\ NextOf(t, rest).pc \in {"idle", "next"}
  BY <1>3, NextOfWork
<1>5. CASE /\ i \in Live /\ tabs' = [tabs EXCEPT ![i] = 0] /\ thr' = [thr EXCEPT ![t] = w]
           /\ Meet(t, i, {Tab(i).path}) /\ UNCHANGED heap
  <2>1. Tab(i).path \in Paths \union {NoPath} /\ i \in used
    BY <1>5, TabIsRecord DEF TabRecords, TabsInv, MapsTyped
  <2>2. w \in Works /\ w.op = "delete" /\ w.pc = "teardown" /\ w.id = i
    BY <1>1, <1>3, <2>1, WorkIsTyped DEF At, Works
  <2> HIDE DEF w
  <2>3. Sole(t, i) /\ tangled \subseteq tangled' /\ tangled' \subseteq used
    BY <1>5, <2>1, MeetIsSole DEF TabsInv, MapsTyped
  <2> QED BY <1>1, <1>3, <1>5, <2>2, <2>3, RemoveStep
<1>6. CASE /\ i \in Live /\ heap' = [heap EXCEPT ![tabs[i]].missing = TRUE]
           /\ thr' = [thr EXCEPT ![t] = NextOf(t, rest)] /\ UNCHANGED <<tabs, tangled>>
  <2>1. HeapTyped' /\ PathsStay /\ Built' = Built
    BY <1>6, TabIsRecord, FlagSet
  <2>2. MapsTyped'
    BY <1>1, <1>6, <2>1, MapsSame DEF TabsInv, MapsTyped
  <2> QED BY <1>1, <1>3, <1>4, <1>6, <2>1, <2>2, LeavingStep
<1>7. CASE thr' = [thr EXCEPT ![t] = NextOf(t, rest)] /\ UNCHANGED <<heap, tabs, tangled>>
  BY <1>1, <1>3, <1>4, <1>7, LeaveStep DEF TabsInv, MapsTyped
<1> QED BY <1>2, <1>5, <1>6, <1>7

LEMMA UnregisterKeeps == ASSUME TabsInv, NEW t \in Threads, Unregister(t) PROVE TabsInv'
<1> DEFINE i == thr[t].id
           w == NextOf(t, thr[t].todo)
<1>1. /\ thr[t].op \in {"close", "delete"} /\ thr[t].pc = "unregister"
      /\ byId' = [byId EXCEPT ![i] = NoId]
      /\ byPath' = [q \in Paths |-> IF q = byId[i] /\ byPath[q] = i THEN NoId ELSE byPath[q]]
      /\ thr' = [thr EXCEPT ![t] = w]
      /\ UNCHANGED <<heap, tabs, used, open, texts, tangled>>
  BY DEF Unregister, Unbind, Go
<1>2. i \in Ids /\ \A j \in Live : ~Moving(t, j)
  BY <1>1, WorkIsTyped DEF Moving
<1>3. w \in Works /\ w.id = NoId /\ w.pc \in {"idle", "next"}
  BY WorkIsTyped, NextOfWork
<1> HIDE DEF w
<1>4. HeapTyped' /\ PathsStay
  BY <1>1, HeapSame
<1>5. MapsTyped'
  BY <1>1 DEF TabsInv, MapsTyped, Built, Live
<1>6. OnlyAt(i)
  BY <1>1 DEF OnlyAt, TabsInv, MapsTyped
<1>7. OneToOne'
  <2> SUFFICES ASSUME NEW j \in Ids, NEW q \in Paths, byId'[j] = q PROVE byPath'[q] = j
    BY DEF OneToOne
  <2>1. j # i
    BY <1>1, <1>2, NoIdIsNone DEF TabsInv, MapsTyped
  <2>2. byId[j] = q /\ byPath[q] = j
    BY <1>1, <2>1 DEF TabsInv, OneToOne, MapsTyped
  <2> QED BY <1>1, <2>1, <2>2
<1>8. thr'[t] = w
  BY <1>1 DEF TabsInv
<1>9. Sane(t)' /\ Owns(t)'
  BY <1>3, <1>8, NoIdIsNone DEF Sane, Owns
<1>10. Sole(t, i)
  BY <1>1, <1>2, OwnerIsSole DEF Structural
<1>11. i \notin Live' \ tangled'
  BY <1>1, <1>2 DEF TabsInv, Owns, Live
<1> QED BY <1>1, <1>2, <1>3, <1>4, <1>5, <1>6, <1>7, <1>9, <1>10, <1>11, NoIdIsNone, StoreStep

LEMMA TabsKept == TabsInv /\ [TabsNext]_tabVars => TabsInv'
<1> SUFFICES ASSUME TabsInv, [TabsNext]_tabVars PROVE TabsInv'
  OBVIOUS
<1>1. CASE UNCHANGED tabVars
  BY <1>1, HeapSame, HeapStep DEF tabVars
<1>2. ASSUME NEW i \in Ids, Saved(i) PROVE TabsInv'
  BY <1>2, SavedKeeps
<1>3. ASSUME NEW t \in Threads,
             \/ \E p \in Paths : OpenFound(t, p) \/ Delete(t, {p})
             \/ \E i \in Ids : \E p \in Paths \union {NoPath} : OpenNew(t, i, p)
             \/ Register(t) \/ Insert(t) \/ Rotate(t) \/ Publish(t)
      PROVE  TabsInv'
  BY <1>3, OpenFoundKeeps, DeleteKeeps, OpenNewKeeps, RegisterKeeps, InsertKeeps, RotateKeeps, PublishKeeps
<1>4. ASSUME NEW t \in Threads,
             \/ \E i \in Ids : EditClones(t, i, "edit") \/ EditClones(t, i, "swap")
             \/ \E bump \in {0, 1} : EditSets(t, bump)
             \/ EditPublishes(t)
             \/ \E i \in Ids : SetVisibility(t, i, TRUE) \/ SetVisibility(t, i, FALSE)
      PROVE  TabsInv'
  BY <1>4, EditClonesKeeps, EditSetsKeeps, EditPublishesKeeps, SetVisibilityKeeps
<1>5. ASSUME NEW t \in Threads,
             \/ \E i \in Ids, p \in Paths : SaveAs(t, i, p) \/ MoveSnapshots(t, i, p)
             \/ \E f \in Renames : Rename(t, f)
             \/ MoveBinds(t) \/ MoveCompares(t) \/ MoveRekeys(t)
             \/ SwitchWorkspace(t) \/ MoveRoot(t)
      PROVE  TabsInv'
  BY <1>5, SaveAsKeeps, MoveSnapshotsKeeps, RenameKeeps, MoveBindsKeeps, MoveComparesKeeps, MoveRekeysKeeps,
     SwitchWorkspaceKeeps, MoveRootKeeps
<1>6. ASSUME NEW t \in Threads,
             \/ \E i \in Ids : BatchSnapshots(t, i)
             \/ ReclassifyBinds(t) \/ ReclassifySwaps(t) \/ RebuildCompares(t)
             \/ \E i \in Ids : HardClose(t, i) \/ DeleteCloses(t, i)
             \/ CloseRemoves(t) \/ Unregister(t) \/ Teardown(t)
      PROVE  TabsInv'
  BY <1>6, BatchSnapshotsKeeps, ReclassifyBindsKeeps, ReclassifySwapsKeeps, RebuildComparesKeeps, HardCloseKeeps,
     DeleteClosesKeeps, CloseRemovesKeeps, UnregisterKeeps, TeardownKeeps
<1> QED BY <1>1, <1>2, <1>3, <1>4, <1>5, <1>6 DEF TabsNext

LEMMA TabsStart == TabsInit => TabsInv
<1> SUFFICES ASSUME TabsInit PROVE TabsInv
  OBVIOUS
<1>1. heap = [n \in {} |-> 0] /\ Built = {} /\ Live = {} /\ \A t \in Threads : thr[t] = Idle
  BY DEF TabsInit, Built, Live
<1>2. HeapTyped
  <2>1. Built = 1..0 /\ heap \in [Built -> TabRecords]
    BY <1>1
  <2> QED BY <2>1 DEF HeapTyped
<1>3. MapsTyped
  BY <1>1 DEF TabsInit, MapsTyped
<1>4. \A t \in Threads : Sane(t) /\ Owns(t)
  BY <1>1, IdleWork, NoIdIsNone DEF Sane, Owns
<1>5. Exclusive /\ OneToOne /\ Registered
  BY <1>1, IdleWork, NoIdIsNone DEF TabsInit, Exclusive, OneToOne, Registered
<1>6. thr = [t \in Threads |-> thr[t]]
  BY DEF TabsInit
<1> QED BY <1>2, <1>3, <1>4, <1>5, <1>6 DEF TabsInv

\* However commands overlap, on any number of threads: two open documents have
\* one path only while a rebind of one of them is between its registry step and
\* its swap (open_from_content, rebind_path_inner, reclassify_one, hard_close).
THEOREM OnePathOneDocument == TabsSpec => []OneDocumentPerPath
<1>1. ASSUME TabsInv PROVE OneDocumentPerPath
  <2> SUFFICES ASSUME NEW i \in Live \ tangled, NEW j \in Live \ tangled, i # j,
                      Tab(i).path = Tab(j).path, Tab(i).path # NoPath
               PROVE  \E t \in Threads : Moving(t, i) \/ Moving(t, j)
    BY DEF OneDocumentPerPath, Moving
  <2>1. Tab(i).path \in Paths /\ i \in Ids /\ j \in Ids
    BY <1>1, TabIsRecord DEF TabRecords, Live
  <2>2. Settled(i) /\ Settled(j)
    BY <1>1 DEF TabsInv, Registered
  <2>3. ~(byId[i] = Tab(i).path /\ byId[j] = Tab(j).path)
    BY <1>1, <2>1 DEF TabsInv, OneToOne
  <2> QED BY <2>2, <2>3 DEF Settled
<1> QED BY <1>1, TabsStart, TabsKept, PTL DEF TabsSpec

\* The TabState a step builds is a new one.
LEMMA NewObjIsNew == ASSUME TabsInv PROVE Cardinality(Built) + 1 \notin Built
<1>1. PICK n \in Nat : Built = 1..n
  BY DEF TabsInv, HeapTyped
<1>2. Cardinality(Built) = n
  BY <1>1, FS_Interval
<1> QED BY <1>1, <1>2

\* A world built outside the locks replaces the very text it was built from,
\* for any number of edits between (the compare-and-swap of rebind_path_inner
\* and cas_swap_world).
THEOREM NoSwapUndoesAnEdit == TabsSpec => SwapKeepsText
<1> DEFINE TextStays == \A t \in Threads : MoveCompares(t) \/ RebuildCompares(t) =>
                      \A i \in Live : tabs'[i] # tabs[i] => heap'[tabs'[i]].text = Tab(i).text
<1>1. ASSUME TabsInv, NEW t \in Threads, MoveCompares(t) \/ RebuildCompares(t), NEW i \in Live, tabs'[i] # tabs[i]
      PROVE  heap'[tabs'[i]].text = Tab(i).text
  <2> DEFINE m == Cardinality(Built) + 1
  <2>1. thr[t].obj \in Built /\ heap[thr[t].obj] \in TabRecords
    BY <1>1 DEF MoveCompares, RebuildCompares, At, TabsInv, Sane, HeapTyped
  <2>2. PICK j, rec : /\ j \in Live /\ InstallFor(j, rec) /\ rec.text = Tab(j).text
    <3>1. CASE MoveCompares(t)
      <4> DEFINE d == IF thr[t].saved = NoVersion THEN heap[thr[t].obj].dirty ELSE thr[t].saved # thr[t].rev
                 rec == [heap[thr[t].obj] EXCEPT !.path = thr[t].path, !.ws = FALSE, !.rev = thr[t].rev,
                                                 !.text = thr[t].text, !.known = TRUE, !.dirty = d]
      <4>1. thr[t].id \in Live /\ Unchanged(t) /\ InstallFor(thr[t].id, rec)
        BY <1>1, <3>1 DEF MoveCompares
      <4>2. rec.text = thr[t].text
        BY <2>1 DEF TabRecords
      <4> QED BY <4>1, <4>2 DEF Unchanged
    <3>2. CASE RebuildCompares(t)
      <4>1. thr[t].id \in Live /\ Unchanged(t) /\ InstallFor(thr[t].id, Rebuilt(t, TRUE))
        BY <1>1, <3>2 DEF RebuildCompares
      <4>2. Rebuilt(t, TRUE).text = thr[t].text
        BY <2>1 DEF TabRecords, Rebuilt
      <4> QED BY <4>1, <4>2 DEF Unchanged
    <3> QED BY <1>1, <3>1, <3>2
  <2>3. m \notin Built
    BY <1>1, NewObjIsNew
  <2>4. heap' = [n \in Built \union {m} |-> IF n \in Built THEN heap[n] ELSE rec] /\ tabs' = [tabs EXCEPT ![j] = m]
    BY <2>2 DEF InstallFor
  <2> HIDE DEF m
  <2>5. i = j /\ tabs'[i] = m
    BY <1>1, <2>4 DEF Live, TabsInv, MapsTyped
  <2> QED BY <2>2, <2>3, <2>4, <2>5
<1>2. TabsInv /\ [TabsNext]_tabVars => [TextStays]_tabVars
  BY <1>1
<1> QED BY <1>2, TabsStart, TabsKept, PTL DEF TabsSpec, SwapKeepsText

-----------------------------------------------------------------------------
(* Dependents: nobody who included a file is forgotten.                     *)

\* A document that is open and not being closed.
Lives(d) == buf[d] # -1 /\ <<"close", d, 0>> \notin calls

\* What a compile reads of a file.
Visible(f) == IF overlay[f] # -1 THEN overlay[f] ELSE onDisk[f]

\* One of these steps of the file is still to come.
Coming(steps, f) == \E c \in calls : c[1] \in steps /\ c[2] = f

DependentsType ==
    /\ buf \in [Files -> -1..MaxVersion] /\ overlay \in [Files -> -1..MaxVersion]
    /\ onDisk \in [Files -> 0..MaxVersion] /\ version \in 0..MaxVersion
    /\ DOMAIN seen = Files /\ DOMAIN toRead = Files /\ DOMAIN result = Files
    /\ seen = [d \in Files |-> seen[d]] /\ toRead = [d \in Files |-> toRead[d]]
    /\ result = [d \in Files |-> result[d]]
    /\ calls \subseteq {"edit", "orphan", "publish", "cascade", "event", "close"} \X Files \X (0..MaxVersion)
    /\ \A c \in calls : c[1] = "edit" => buf[c[2]] # -1
    /\ \A f \in Files : <<"close", f, 0>> \in calls => buf[f] # -1

\* The in-memory file is the buffer's, or the one publication that makes it so
\* is to come; what is not live is read from the disk: unless publications of
\* the file overlapped one another or its close.
OverlayOf(f) ==
    /\ Lives(f) => overlay[f] # -1
    /\ f \notin crossed =>
          IF Lives(f) THEN /\ overlay[f] = buf[f] \/ Coming({"publish"}, f)
                           /\ \A c \in calls : c[1] = "publish" /\ c[2] = f => c[3] = buf[f]
                      ELSE overlay[f] = -1 /\ ~Coming({"publish"}, f)

OverlayFollows == \A f \in Files : OverlayOf(f)

\* A compile begins with its own document and reads every file once.
ReadsOnce ==
    \A d \in Files :
        /\ d \in Compiling => d \in DOMAIN seen[d]
        /\ d \notin Compiling => toRead[d] = {}
        /\ toRead[d] \intersect DOMAIN seen[d] = {}
        /\ DOMAIN seen[d] \subseteq Files /\ DOMAIN result[d] \subseteq Files

\* What a document's newest look at the files is: the compile under way, or the
\* last result.
Look(d) == IF d \in Compiling THEN seen[d] ELSE result[d]

\* A live document has looked at its buffer, or will look again.
OwnOf(d) ==
    Lives(d) => \/ d \in due
                \/ Coming({"publish", "cascade"}, d)
                \/ d \in DOMAIN Look(d) => Look(d)[d] = buf[d]

OwnFollows == \A d \in Files : OwnOf(d)

\* The graph has every file of the last result of a document that is not to be
\* compiled anyway.
GraphOf(d) ==
    Lives(d) /\ d \notin due /\ d \notin Compiling => \A g \in DOMAIN result[d] \ {d} : <<g, d>> \in edges

GraphKnows == \A d \in Files : GraphOf(d)

\* A live document has looked at what every other file is now, or will look
\* again, or the cascade of that file is to come or has missed it.
OtherOf(d, f) ==
    Lives(d) /\ f # d /\ f \in DOMAIN Look(d) /\ f \notin crossed =>
        \/ Look(d)[f] = Visible(f)
        \/ d \in due
        \/ <<f, d>> \in missed
        \/ Coming({"publish", "cascade", "event"}, f)

OthersFollow == \A d, f \in Files : OtherOf(d, f)

DependentsInv ==
    /\ DependentsType /\ OverlayFollows /\ ReadsOnce /\ OwnFollows /\ GraphKnows /\ OthersFollow

\* The walk visits the direct dependents.
LEMMA DirectDependents ==
    ASSUME NEW f, NEW d \in Files, <<f, d>> \in edges, d # f
    PROVE  d \in DependentsOf(f)
<1> DEFINE Closed(S) == \A e \in Files : (\E g \in S \union {f} : <<g, e>> \in edges) => e \in S
<1>1. ASSUME NEW S \in SUBSET Files, Closed(S) PROVE d \in S
    BY <1>1
<1>2. QED
    BY <1>1 DEF DependentsOf

\* A cascade signals every live document that has looked at the file, or notes
\* that it has missed it.
LEMMA CascadeReaches ==
    ASSUME DependentsInv, NEW f \in Files, NEW d \in Files, Lives(d), d # f, f \in DOMAIN Look(d),
           DependentsOf(f) \intersect Working \subseteq due', due \ {f} \subseteq due',
           missed' = missed \union {<<f, e>> : e \in {e \in Compiling \ DependentsOf(f) : f \in DOMAIN seen[e]}}
    PROVE  d \in due' \/ <<f, d>> \in missed'
<1>1. d \in Working
    BY DEF Lives, OpenFiles, Working
<1>2. CASE d \in DependentsOf(f)
    BY <1>1, <1>2
<1>3. CASE d \notin DependentsOf(f) /\ d \in Compiling
    BY <1>3 DEF Look
<1>4. CASE d \notin DependentsOf(f) /\ d \notin Compiling
    <2>1. d \in due \/ <<f, d>> \in edges
        BY <1>4 DEF DependentsInv, GraphKnows, GraphOf, Look
    <2>2. QED
        BY <2>1, <1>4, DirectDependents
<1>5. QED
    BY <1>2, <1>3, <1>4

\* What an edit changes when it takes the lock.
LEMMA LockFacts ==
    ASSUME DependentsType, NEW f \in Files, NEW v \in 0..MaxVersion, NEW kind \in {"edit", "orphan"},
           SetBuffer(f, v, kind)
    PROVE  /\ \A x \in Files : <<"close", x, 0>> \in calls' <=> <<"close", x, 0>> \in calls
           /\ \A c : c[1] = "publish" => (c \in calls' <=> c \in calls \/ c = <<"publish", f, v>>)
           /\ \A c : c[1] \in {"cascade", "event"} => (c \in calls' <=> c \in calls)
           /\ Coming({"publish"}, f)'
           /\ \A x \in Files \ {f} : buf'[x] = buf[x]
           /\ kind = "edit" => buf'[f] = v
           /\ \A x \in Files : Lives(x)' <=> Lives(x)
<1> DEFINE old == <<kind, f, v>>
           new == <<"publish", f, v>>
<1>1. calls' = (calls \ {old}) \union {new}
    BY DEF SetBuffer
<1>2. /\ old[1] = kind /\ new[1] = "publish" /\ new[2] = f
      /\ \A x \in Files : <<"close", x, 0>>[1] = "close"
    OBVIOUS
<1> HIDE DEF old
<1>3. Coming({"publish"}, f)'
    BY <1>1, <1>2 DEF Coming
<1>4. \A x \in Files : <<"close", x, 0>> # old /\ <<"close", x, 0>> # new
    BY <1>2
<1>5. /\ \A x \in Files \ {f} : buf'[x] = buf[x]
      /\ kind = "edit" => buf'[f] = v
      /\ kind = "orphan" => buf'[f] = buf[f]
    BY DEF SetBuffer, DependentsType
<1> HIDE DEF new
<1>6. \A c : c[1] = "publish" => (c \in calls' <=> c \in calls \/ c = new)
    BY <1>1, <1>2
<1>7. \A c : c[1] \in {"cascade", "event"} => (c \in calls' <=> c \in calls)
    BY <1>1, <1>2
<1>8. \A x \in Files : buf'[x] # -1 <=> buf[x] # -1
    <2>1. kind = "edit" => buf[f] # -1
        <3>1. <<kind, f, v>> \in calls /\ <<kind, f, v>>[1] = kind /\ <<kind, f, v>>[2] = f
            BY DEF SetBuffer
        <3>2. QED
            BY <3>1 DEF DependentsType
    <2>2. v # -1
        BY DependentsAssumption
    <2>3. QED
        BY <1>5, <2>1, <2>2
<1>9. \A x \in Files : <<"close", x, 0>> \in calls' <=> <<"close", x, 0>> \in calls
    BY <1>1, <1>4
<1>10. \A x \in Files : Lives(x)' <=> Lives(x)
    BY <1>8, <1>9 DEF Lives
<1>11. QED
    BY <1>3, <1>5, <1>6, <1>7, <1>9, <1>10 DEF new

\* What the end of a close leaves under way.
LEMMA CloseFacts ==
    ASSUME DependentsType, NEW f \in Files, CloseFile(f)
    PROVE  /\ buf'[f] = -1 /\ ~Lives(f)
           /\ \A x \in Files \ {f} : /\ buf'[x] = buf[x] /\ seen'[x] = seen[x] /\ result'[x] = result[x]
                                     /\ <<"close", x, 0>> \in calls' <=> <<"close", x, 0>> \in calls
           /\ \A c : c[1] \in {"publish", "cascade", "event"} => (c \in calls' <=> c \in calls)
           /\ UNCHANGED <<onDisk, overlay, edges, due, missed, crossed>>
<1>1. /\ <<"close", f, 0>> \in calls
      /\ UNCHANGED <<onDisk, overlay, edges, due, missed, crossed>>
      /\ buf' = [buf EXCEPT ![f] = -1] /\ seen' = [seen EXCEPT ![f] = NotRead] /\ result' = [result EXCEPT ![f] = NotRead]
    BY DEF CloseFile
<1> DEFINE clones == {c \in calls : c[1] = "edit" /\ c[2] = f}
           closing == <<"close", f, 0>>
           orphans == {<<"orphan", f, c[3]>> : c \in clones}
<1>2. calls' = (calls \ (clones \union {closing})) \union orphans
    BY DEF CloseFile
<1>3. /\ \A c \in clones : c[1] = "edit"
      /\ \A c \in orphans : c[1] = "orphan"
      /\ closing[1] = "close" /\ closing[2] = f
      /\ \A x : <<"close", x, 0>>[1] = "close" /\ <<"close", x, 0>>[2] = x
    OBVIOUS
<1> HIDE DEF clones, closing, orphans
<1>4. \A x \in Files \ {f} : <<"close", x, 0>> \in calls' <=> <<"close", x, 0>> \in calls
    BY <1>2, <1>3
<1>5. \A c : c[1] \in {"publish", "cascade", "event"} => (c \in calls' <=> c \in calls)
    BY <1>2, <1>3
<1>6. QED
    BY <1>1, <1>4, <1>5 DEF DependentsType, Lives

LEMMA DependentsTypeStep == DependentsType /\ [DependentsNext]_depVars => DependentsType'
<1> SUFFICES ASSUME DependentsType, [DependentsNext]_depVars PROVE DependentsType'
    OBVIOUS
<1> USE DependentsAssumption DEF DependentsType
<1>1. ASSUME NEW f \in Files, OpenFile(f) PROVE DependentsType'
    BY <1>1 DEF OpenFile
<1>2. ASSUME NEW f \in Files, CloneTab(f) PROVE DependentsType'
    <2>1. buf[f] # -1 /\ buf' = buf /\ calls' = calls \union {<<"edit", f, version + 1>>} /\ version + 1 \in 0..MaxVersion
        BY <1>2 DEF CloneTab, OpenFiles
    <2>2. \A c \in calls' : c[1] = "edit" => buf'[c[2]] # -1
        BY <2>1
    <2>3. QED
        BY <1>2, <2>1, <2>2 DEF CloneTab
<1>2a. ASSUME NEW f \in Files, NEW v \in 0..MaxVersion, NEW kind \in {"edit", "orphan"}, SetBuffer(f, v, kind)
       PROVE  DependentsType'
    <2>1. buf' \in [Files -> -1..MaxVersion]
        BY <1>2a DEF SetBuffer
    <2>2. /\ \A c \in calls' : c[1] = "edit" => c \in calls
          /\ \A x \in Files : <<"close", x, 0>> \in calls' => <<"close", x, 0>> \in calls
        BY <1>2a DEF SetBuffer
    <2>3. \A x \in Files : buf[x] # -1 => buf'[x] # -1
        BY <1>2a DEF SetBuffer
    <2>4. calls' \subseteq {"edit", "orphan", "publish", "cascade", "event", "close"} \X Files \X (0..MaxVersion)
        BY <1>2a DEF SetBuffer
    <2>5. UNCHANGED <<overlay, onDisk, version, seen, toRead, result>>
        BY <1>2a DEF SetBuffer
    <2>6. QED
        BY <2>1, <2>2, <2>3, <2>4, <2>5
<1>2b. ASSUME NEW f \in Files, NEW v \in 0..MaxVersion, \E kind \in {"edit", "orphan"} : SetBuffer(f, v, kind)
       PROVE  DependentsType'
    BY <1>2a, <1>2b
<1>3. ASSUME NEW f \in Files, EventCascades(f) PROVE DependentsType'
    BY <1>3 DEF EventCascades, Cascade
<1>4. ASSUME NEW f \in Files, DropFile(f) PROVE DependentsType'
    <2>1. buf[f] # -1 /\ buf' = buf /\ calls' = calls \union {<<"close", f, 0>>} /\ <<"close", f, 0>>[1] = "close"
        BY <1>4 DEF DropFile, Working, OpenFiles
    <2>2. \A c \in calls' : c[1] = "edit" => c \in calls
        BY <2>1
    <2>3. \A x \in Files : <<"close", x, 0>> \in calls' => buf'[x] # -1
        BY <2>1
    <2>4. calls' \subseteq {"edit", "orphan", "publish", "cascade", "event", "close"} \X Files \X (0..MaxVersion)
        BY <2>1
    <2>5. overlay' \in [Files -> -1..MaxVersion] /\ UNCHANGED <<onDisk, version, seen, toRead, result>>
        BY <1>4 DEF DropFile
    <2>6. QED
        BY <2>1, <2>2, <2>3, <2>4, <2>5
<1>5. ASSUME NEW f \in Files, CloseFile(f) PROVE DependentsType'
    <2> DEFINE clones == {c \in calls : c[1] = "edit" /\ c[2] = f}
    <2>1. \A c \in clones : <<"orphan", f, c[3]>> \in {"edit", "orphan", "publish", "cascade", "event", "close"} \X Files \X (0..MaxVersion)
        OBVIOUS
    <2>2. calls' \subseteq calls \union {<<"orphan", f, c[3]>> : c \in clones}
        BY <1>5 DEF CloseFile
    <2> HIDE DEF clones
    <2>3. calls' \subseteq {"edit", "orphan", "publish", "cascade", "event", "close"} \X Files \X (0..MaxVersion)
        BY <2>1, <2>2
    <2>4. /\ \A c \in calls' : c[1] = "edit" => c \in calls /\ c[2] # f
          /\ \A x \in Files : <<"close", x, 0>> \in calls' => <<"close", x, 0>> \in calls /\ x # f
        BY <1>5 DEF CloseFile
    <2>5. /\ buf' = [buf EXCEPT ![f] = -1] /\ UNCHANGED <<onDisk, overlay, version>>
          /\ seen' = [seen EXCEPT ![f] = NotRead] /\ toRead' = [toRead EXCEPT ![f] = {}]
          /\ result' = [result EXCEPT ![f] = NotRead]
        BY <1>5 DEF CloseFile
    <2>6. /\ \A c \in calls' : c[1] = "edit" => buf'[c[2]] # -1
          /\ \A x \in Files : <<"close", x, 0>> \in calls' => buf'[x] # -1
        BY <2>3, <2>4, <2>5
    <2>7. buf' \in [Files -> -1..MaxVersion]
        BY <2>5
    <2>8. DOMAIN seen' = Files /\ seen' = [d \in Files |-> seen'[d]]
        BY <2>5
    <2>9. DOMAIN toRead' = Files /\ toRead' = [d \in Files |-> toRead'[d]]
        BY <2>5
    <2>10. DOMAIN result' = Files /\ result' = [d \in Files |-> result'[d]]
        BY <2>5
    <2>11. QED
        BY <2>3, <2>5, <2>6, <2>7, <2>8, <2>9, <2>10
<1>6. ASSUME NEW f \in Files, NEW v \in 0..MaxVersion, Upsert(f, v) PROVE DependentsType'
    BY <1>6 DEF Upsert
<1>7. ASSUME NEW f \in Files, NEW v \in 0..MaxVersion, EditCascades(f, v) PROVE DependentsType'
    BY <1>7 DEF EditCascades
<1>8. ASSUME NEW f \in Files, NEW v \in 0..MaxVersion, DiskChanges(f, v) PROVE DependentsType'
    BY <1>8 DEF DiskChanges
<1>9. ASSUME NEW f \in Files, CompileStarts(f) PROVE DependentsType'
    BY <1>9 DEF CompileStarts
<1>10. ASSUME NEW f \in Files, CompileEnds(f) PROVE DependentsType'
    BY <1>10 DEF CompileEnds
<1>11. ASSUME NEW f \in Files, NEW g \in Files, Reads(f, g) PROVE DependentsType'
    BY <1>11 DEF Reads
<1>12. CASE UNCHANGED depVars
    BY <1>12 DEF depVars
<1>13. QED
    BY <1>1, <1>2, <1>2b, <1>3, <1>4, <1>5, <1>6, <1>7, <1>8, <1>9, <1>10, <1>11, <1>12 DEF DependentsNext

LEMMA OverlayStep ==
    DependentsType /\ OverlayFollows /\ [DependentsNext]_depVars => OverlayFollows'
<1> SUFFICES ASSUME DependentsType, OverlayFollows, [DependentsNext]_depVars, NEW x \in Files
             PROVE  OverlayOf(x)'
    BY DEF OverlayFollows
<1>0. OverlayOf(x)
    BY DEF OverlayFollows
<1>2a. ASSUME NEW f \in Files, NEW v \in 0..MaxVersion, NEW kind \in {"edit", "orphan"}, SetBuffer(f, v, kind)
       PROVE  OverlayOf(x)'
    <2>1. overlay' = overlay
        BY <1>2a DEF SetBuffer
    <2>2. CASE x = f
        <3> DEFINE alone == f \in Working /\ kind = "edit" /\ \A c \in calls : c[2] = f => c[1] # "publish"
        <3>1. crossed' = IF alone THEN crossed \ {f} ELSE crossed \union {f}
            BY <1>2a DEF SetBuffer
        <3>2. Lives(x)' => overlay'[x] # -1
            BY <1>0, <1>2a, <2>1, LockFacts DEF OverlayOf
        <3>3. ASSUME alone PROVE OverlayOf(x)'
            <4>1. Lives(x) /\ Lives(x)' /\ buf'[x] = v
                BY <1>2a, <2>2, <3>3, LockFacts DEF Lives, Working, OpenFiles, DependentsType
            <4>2. \A c \in calls' : c[1] = "publish" /\ c[2] = x => c = <<"publish", f, v>>
                BY <1>2a, <2>2, <3>3, LockFacts
            <4>3. \A c \in calls' : c[1] = "publish" /\ c[2] = x => c[3] = v
                BY <4>2
            <4>4. Coming({"publish"}, x)'
                BY <1>2a, <2>2, LockFacts
            <4>5. QED
                BY <3>2, <4>1, <4>3, <4>4 DEF OverlayOf
        <3>4. ASSUME ~alone PROVE OverlayOf(x)'
            BY <2>2, <3>1, <3>2, <3>4 DEF OverlayOf
        <3>5. QED
            BY <3>3, <3>4
    <2>3. CASE x # f
        <3>1. /\ Lives(x)' <=> Lives(x)
              /\ buf'[x] = buf[x] /\ (x \in crossed' <=> x \in crossed)
            BY <1>2a, <2>3, LockFacts DEF Lives, SetBuffer
        <3>2. \A c : c[1] = "publish" /\ c[2] = x => (c \in calls' <=> c \in calls)
            BY <1>2a, <2>3, LockFacts
        <3>3. QED
            BY <1>0, <2>1, <3>1, <3>2 DEF OverlayOf, Coming
    <2>4. QED
        BY <2>2, <2>3
<1>5. ASSUME NEW f \in Files, CloseFile(f) PROVE OverlayOf(x)'
    <2>1. \A c : c[1] = "publish" => (c \in calls' <=> c \in calls)
        BY <1>5, CloseFacts
    <2>2. CASE x = f
        BY <1>0, <1>5, <2>1, <2>2, CloseFacts DEF OverlayOf, Lives, Coming
    <2>3. CASE x # f
        BY <1>0, <1>5, <2>1, <2>3, CloseFacts DEF OverlayOf, Lives, Coming
    <2>4. QED
        BY <2>2, <2>3
<1> USE DependentsAssumption DEF DependentsType, OverlayOf, Lives, Coming
<1>1. ASSUME NEW f \in Files, OpenFile(f) PROVE OverlayOf(x)'
    <2>1. /\ buf' = [buf EXCEPT ![f] = onDisk[f]] /\ overlay' = [overlay EXCEPT ![f] = onDisk[f]]
          /\ UNCHANGED <<calls, crossed>> /\ ~Lives(f)
        BY <1>1 DEF OpenFile, OpenFiles
    <2>2. CASE x = f
        <3>1. overlay'[x] = buf'[x] /\ overlay'[x] # -1
            BY <2>1, <2>2
        <3>2. x \notin crossed' => \A c \in calls' : c[1] = "publish" => c[2] # x
            BY <1>0, <2>1, <2>2
        <3>3. Lives(x)'
            BY <1>1, <2>1, <2>2, <3>1 DEF OpenFile, OpenFiles
        <3>4. QED
            BY <3>1, <3>2, <3>3
    <2>3. CASE x # f
        BY <1>0, <2>1, <2>3
    <2>4. QED
        BY <2>2, <2>3
<1>2. ASSUME NEW f \in Files, CloneTab(f) PROVE OverlayOf(x)'
    BY <1>0, <1>2 DEF CloneTab
<1>3. ASSUME NEW f \in Files, EventCascades(f) PROVE OverlayOf(x)'
    BY <1>0, <1>3 DEF EventCascades, Cascade
<1>4. ASSUME NEW f \in Files, DropFile(f) PROVE OverlayOf(x)'
    BY <1>0, <1>4 DEF DropFile, Survives, Working, OpenFiles
<1>6. ASSUME NEW f \in Files, NEW v \in 0..MaxVersion, Upsert(f, v) PROVE OverlayOf(x)'
    <2> DEFINE old == <<"publish", f, v>>
               new == <<"cascade", f, v>>
    <2>1. /\ old \in calls /\ calls' = (calls \ {old}) \union {new} /\ overlay' = [overlay EXCEPT ![f] = v]
          /\ old[1] = "publish" /\ old[2] = f /\ old[3] = v /\ new[1] = "cascade" /\ UNCHANGED <<buf, crossed>>
        BY <1>6 DEF Upsert
    <2>2. <<"close", x, 0>> \in calls' <=> <<"close", x, 0>> \in calls
        BY <2>1
    <2> HIDE DEF old, new
    <2>3. CASE x = f
        <3>1. overlay'[x] = v /\ v # -1
            BY <2>1, <2>3
        <3>2. x \notin crossed => Lives(x) /\ v = buf[x]
            BY <1>0, <2>1, <2>3
        <3>3. QED
            BY <1>0, <2>1, <2>2, <3>1, <3>2
    <2>4. CASE x # f
        <3>1. overlay'[x] = overlay[x]
            BY <2>1, <2>4
        <3>2. \A c : c[1] = "publish" /\ c[2] = x => (c \in calls' <=> c \in calls)
            BY <2>1, <2>4
        <3>3. QED
            BY <1>0, <2>1, <2>2, <3>1, <3>2
    <2>5. QED
        BY <2>3, <2>4
<1>7. ASSUME NEW f \in Files, NEW v \in 0..MaxVersion, EditCascades(f, v) PROVE OverlayOf(x)'
    BY <1>0, <1>7 DEF EditCascades
<1>8. ASSUME NEW f \in Files, NEW v \in 0..MaxVersion, DiskChanges(f, v) PROVE OverlayOf(x)'
    BY <1>0, <1>8 DEF DiskChanges
<1>9. ASSUME NEW f \in Files, CompileStarts(f) \/ CompileEnds(f) \/ \E g \in Files : Reads(f, g) PROVE OverlayOf(x)'
    BY <1>0, <1>9 DEF CompileStarts, CompileEnds, Reads
<1>10. CASE UNCHANGED depVars
    BY <1>0, <1>10 DEF depVars
<1>11. QED
    BY <1>1, <1>2, <1>2a, <1>3, <1>4, <1>5, <1>6, <1>7, <1>8, <1>9, <1>10 DEF DependentsNext

LEMMA ReadsOnceStep == DependentsType /\ ReadsOnce /\ [DependentsNext]_depVars => ReadsOnce'
<1> SUFFICES ASSUME DependentsType, ReadsOnce, [DependentsNext]_depVars PROVE ReadsOnce'
    OBVIOUS
<1> USE DEF DependentsType, ReadsOnce, Compiling
<1>1. ASSUME NEW f \in Files, CompileStarts(f) PROVE ReadsOnce'
    <2>1. f \in DOMAIN [g \in {f} |-> buf[f]]
        OBVIOUS
    <2>2. [g \in {f} |-> buf[f]] # NotRead
        BY DEF NotRead
    <2>3. QED
        BY <1>1, <2>1, <2>2 DEF CompileStarts
<1>2. ASSUME NEW f \in Files, CompileEnds(f) PROVE ReadsOnce'
    <2>1. NotRead = NotRead /\ DOMAIN NotRead = {}
        BY DEF NotRead
    <2>2. QED
        BY <1>2, <2>1 DEF CompileEnds
<1>3. ASSUME NEW f \in Files, NEW g \in Files, Reads(f, g) PROVE ReadsOnce'
    <2>1. PICK got : /\ DOMAIN got = DOMAIN seen[f] \union {g}
                     /\ seen' = [seen EXCEPT ![f] = got]
                     /\ result' = result
                     /\ \E r : toRead' = [toRead EXCEPT ![f] = r \ DOMAIN got]
        BY <1>3 DEF Reads
    <2>2. DOMAIN NotRead = {} /\ g \in toRead[f]
        BY <1>3 DEF NotRead, Reads
    <2>3. f \in Compiling /\ f \in DOMAIN seen[f]
        BY <2>2
    <2>4. got # NotRead /\ f \in DOMAIN got
        BY <2>1, <2>2, <2>3
    <2>5. QED
        BY <2>1, <2>3, <2>4
<1>4. CASE UNCHANGED <<seen, toRead, result>>
    BY <1>4
<1>5. ASSUME NEW f \in Files, CloseFile(f) PROVE ReadsOnce'
    <2>1. NotRead = NotRead /\ DOMAIN NotRead = {}
        BY DEF NotRead
    <2>2. QED
        BY <1>5, <2>1 DEF CloseFile
<1>6. QED
    BY <1>1, <1>2, <1>3, <1>4, <1>5 DEF DependentsNext, depVars, OpenFile, CloneTab, SetBuffer, EventCascades,
       DropFile, Upsert, EditCascades, DiskChanges

\* What a read leaves of what a compile has looked at.
LEMMA ReadFacts ==
    ASSUME DependentsType, ReadsOnce, NEW f \in Files, NEW g \in Files, Reads(f, g)
    PROVE  /\ f \in Compiling /\ g # f /\ g \notin DOMAIN seen[f]
           /\ Compiling' = Compiling
           /\ DOMAIN seen'[f] = DOMAIN seen[f] \union {g}
           /\ seen'[f][g] = Visible(g)
           /\ \A h \in DOMAIN seen[f] : seen'[f][h] = seen[f][h]
           /\ \A d \in Files \ {f} : seen'[d] = seen[d]
           /\ UNCHANGED <<buf, onDisk, overlay, edges, due, result, calls, version, missed, crossed>>
<1>1. g \in toRead[f] /\ f \in Compiling /\ g \notin DOMAIN seen[f] /\ f \in DOMAIN seen[f]
    BY DEF Reads, ReadsOnce
<1>2. PICK got : /\ got = [h \in DOMAIN seen[f] \union {g} |-> IF h = g THEN Visible(g) ELSE seen[f][h]]
                 /\ seen' = [seen EXCEPT ![f] = got]
    BY DEF Reads, Visible
<1>3. got # NotRead
    BY <1>1, <1>2 DEF NotRead
<1>4. seen'[f] = got /\ \A d \in Files \ {f} : seen'[d] = seen[d]
    BY <1>2 DEF DependentsType
<1>5. Compiling' = Compiling
    BY <1>1, <1>3, <1>4 DEF Compiling
<1>6. QED
    BY <1>1, <1>2, <1>4, <1>5 DEF Reads

\* A compile that starts has looked at its own buffer.
LEMMA StartFacts ==
    ASSUME DependentsType, NEW f \in Files, CompileStarts(f)
    PROVE  /\ Compiling' = Compiling \union {f} /\ f \notin Compiling /\ f \in due
           /\ DOMAIN seen'[f] = {f} /\ seen'[f][f] = buf[f]
           /\ \A d \in Files \ {f} : seen'[d] = seen[d]
           /\ due' = due \ {f} /\ missed' = {m \in missed : m[2] # f}
           /\ UNCHANGED <<buf, onDisk, overlay, edges, result, calls, version, crossed>>
<1>1. seen' = [seen EXCEPT ![f] = [g \in {f} |-> buf[f]]]
    BY DEF CompileStarts
<1>2. [g \in {f} |-> buf[f]] # NotRead
    BY DEF NotRead
<1>3. seen'[f] = [g \in {f} |-> buf[f]] /\ \A d \in Files \ {f} : seen'[d] = seen[d]
    BY <1>1 DEF DependentsType
<1>4. Compiling' = Compiling \union {f}
    BY <1>2, <1>3 DEF Compiling
<1>5. QED
    BY <1>3, <1>4 DEF CompileStarts

\* What a compile has looked at becomes the result, and the graph's edges.
LEMMA EndFacts ==
    ASSUME DependentsType, NEW f \in Files, CompileEnds(f)
    PROVE  /\ f \in Compiling /\ Compiling' = Compiling \ {f}
           /\ \A d \in Files \ {f} : seen'[d] = seen[d] /\ result'[d] = result[d]
           /\ \A d \in Files \ {f}, g \in Files : <<g, d>> \in edges => <<g, d>> \in edges'
           /\ result'[f] = seen[f] /\ \A g \in DOMAIN seen[f] \ {f} : <<g, f>> \in edges'
           /\ UNCHANGED <<buf, onDisk, overlay, due, calls, version, missed, crossed>>
<1>1. seen'[f] = NotRead /\ \A d \in Files \ {f} : seen'[d] = seen[d]
    BY DEF CompileEnds, DependentsType
<1>2. Compiling' = Compiling \ {f}
    BY <1>1 DEF Compiling
<1>3. QED
    BY <1>1, <1>2 DEF CompileEnds, DependentsType, OpenFiles

LEMMA OwnStep == DependentsType /\ ReadsOnce /\ OwnFollows /\ [DependentsNext]_depVars => OwnFollows'
<1> SUFFICES ASSUME DependentsType, ReadsOnce, OwnFollows, [DependentsNext]_depVars, NEW x \in Files
             PROVE  OwnOf(x)'
    BY DEF OwnFollows, OwnOf
<1>0. OwnOf(x)
    BY DEF OwnFollows, OwnOf
<1> USE DEF DependentsType, OwnOf, Lives, Coming
<1>a. ASSUME UNCHANGED <<seen, result>> PROVE Look(x)' = Look(x)
    BY <1>a DEF Look, Compiling
<1>1. ASSUME NEW f \in Files, OpenFile(f) PROVE OwnOf(x)'
    BY <1>0, <1>1, <1>a DEF OpenFile
<1>2. ASSUME NEW f \in Files, CloneTab(f) PROVE OwnOf(x)'
    BY <1>0, <1>2, <1>a DEF CloneTab
<1>2a. ASSUME NEW f \in Files, NEW v \in 0..MaxVersion, NEW kind \in {"edit", "orphan"}, SetBuffer(f, v, kind)
       PROVE  OwnOf(x)'
    <2>1. UNCHANGED <<seen, result, due>>
        BY <1>2a DEF SetBuffer
    <2>2. CASE x = f
        BY <1>2a, <2>2, LockFacts
    <2>3. CASE x # f
        <3>1. buf'[x] = buf[x] /\ (Lives(x)' <=> Lives(x))
            BY <1>2a, <2>3, LockFacts
        <3>2. Coming({"publish", "cascade"}, x) => Coming({"publish", "cascade"}, x)'
            BY <1>2a, LockFacts
        <3>3. QED
            BY <1>0, <1>a, <2>1, <3>1, <3>2
    <2>4. QED
        BY <2>2, <2>3
<1>2b. ASSUME NEW f \in Files, NEW v \in 0..MaxVersion, \E kind \in {"edit", "orphan"} : SetBuffer(f, v, kind)
       PROVE  OwnOf(x)'
    BY <1>2a, <1>2b
<1>3. ASSUME NEW f \in Files, EventCascades(f) PROVE OwnOf(x)'
    BY <1>0, <1>3, <1>a DEF EventCascades, Cascade
<1>4. ASSUME NEW f \in Files, DropFile(f) PROVE OwnOf(x)'
    BY <1>0, <1>4, <1>a DEF DropFile
<1>5. ASSUME NEW f \in Files, CloseFile(f) PROVE OwnOf(x)'
    <2>1. CASE x = f
        BY <1>5, <2>1, CloseFacts
    <2>2. CASE x # f
        <3>1. Look(x)' = Look(x)
            BY <1>5, <2>2, CloseFacts DEF Look, Compiling
        <3>2. Coming({"publish", "cascade"}, x) => Coming({"publish", "cascade"}, x)'
            BY <1>5, CloseFacts
        <3>3. QED
            BY <1>0, <1>5, <2>2, <3>1, <3>2, CloseFacts
    <2>3. QED
        BY <2>1, <2>2
<1>6. ASSUME NEW f \in Files, NEW v \in 0..MaxVersion, Upsert(f, v) PROVE OwnOf(x)'
    <2> DEFINE old == <<"publish", f, v>>
               new == <<"cascade", f, v>>
    <2>1. /\ calls' = (calls \ {old}) \union {new} /\ new[1] = "cascade" /\ new[2] = f /\ old[2] = f
          /\ UNCHANGED <<seen, result, due, buf>>
        BY <1>6 DEF Upsert
    <2>2. <<"close", x, 0>> \in calls' <=> <<"close", x, 0>> \in calls
        BY <2>1
    <2> HIDE DEF new, old
    <2>3. CASE x = f
        BY <2>1, <2>3
    <2>4. CASE x # f
        <3>1. Coming({"publish", "cascade"}, x) => Coming({"publish", "cascade"}, x)'
            BY <2>1, <2>4
        <3>2. QED
            BY <1>0, <1>a, <2>1, <2>2, <3>1
    <2>5. QED
        BY <2>3, <2>4
<1>7. ASSUME NEW f \in Files, NEW v \in 0..MaxVersion, EditCascades(f, v) PROVE OwnOf(x)'
    BY <1>0, <1>7, <1>a DEF EditCascades, OpenFiles, Working
<1>8. ASSUME NEW f \in Files, NEW v \in 0..MaxVersion, DiskChanges(f, v) PROVE OwnOf(x)'
    BY <1>0, <1>8, <1>a DEF DiskChanges
<1>9. ASSUME NEW f \in Files, CompileStarts(f) PROVE OwnOf(x)'
    BY <1>0, <1>9, StartFacts DEF Look
<1>10. ASSUME NEW f \in Files, CompileEnds(f) PROVE OwnOf(x)'
    BY <1>0, <1>10, EndFacts DEF Look
<1>11. ASSUME NEW f \in Files, NEW g \in Files, Reads(f, g) PROVE OwnOf(x)'
    BY <1>0, <1>11, ReadFacts DEF Look, ReadsOnce
<1>12. CASE UNCHANGED depVars
    BY <1>0, <1>12, <1>a DEF depVars
<1>13. QED
    BY <1>1, <1>2, <1>2b, <1>3, <1>4, <1>5, <1>6, <1>7, <1>8, <1>9, <1>10, <1>11, <1>12 DEF DependentsNext

LEMMA GraphStep == DependentsType /\ ReadsOnce /\ GraphKnows /\ [DependentsNext]_depVars => GraphKnows'
<1> SUFFICES ASSUME DependentsType, ReadsOnce, GraphKnows, [DependentsNext]_depVars, NEW x \in Files
             PROVE  GraphOf(x)'
    BY DEF GraphKnows, GraphOf
<1>0. GraphOf(x)
    BY DEF GraphKnows, GraphOf
<1> USE DEF DependentsType, GraphOf, Lives
<1>a. ASSUME UNCHANGED seen PROVE Compiling' = Compiling
    BY <1>a DEF Compiling
<1>1. ASSUME NEW f \in Files, OpenFile(f) PROVE GraphOf(x)'
    BY <1>0, <1>1, <1>a DEF OpenFile
<1>2. ASSUME NEW f \in Files, CloneTab(f) PROVE GraphOf(x)'
    BY <1>0, <1>2, <1>a DEF CloneTab
<1>2a. ASSUME NEW f \in Files, NEW v \in 0..MaxVersion, NEW kind \in {"edit", "orphan"}, SetBuffer(f, v, kind)
       PROVE  GraphOf(x)'
    <2>1. UNCHANGED <<seen, result, due, edges>>
        BY <1>2a DEF SetBuffer
    <2>2. Lives(x)' => Lives(x)
        BY <1>2a, LockFacts
    <2>3. QED
        BY <1>0, <1>a, <2>1, <2>2
<1>2b. ASSUME NEW f \in Files, NEW v \in 0..MaxVersion, \E kind \in {"edit", "orphan"} : SetBuffer(f, v, kind)
       PROVE  GraphOf(x)'
    BY <1>2a, <1>2b
<1>3. ASSUME NEW f \in Files, EventCascades(f) PROVE GraphOf(x)'
    BY <1>0, <1>3, <1>a DEF EventCascades, Cascade
<1>4. ASSUME NEW f \in Files, DropFile(f) PROVE GraphOf(x)'
    BY <1>0, <1>4, <1>a DEF DropFile
<1>5. ASSUME NEW f \in Files, CloseFile(f) PROVE GraphOf(x)'
    <2>1. CASE x = f
        BY <1>5, <2>1, CloseFacts
    <2>2. CASE x # f
        <3>1. (x \in Compiling' <=> x \in Compiling) /\ result'[x] = result[x] /\ (Lives(x)' <=> Lives(x))
            BY <1>5, <2>2, CloseFacts DEF Compiling
        <3>2. UNCHANGED <<due, edges>>
            BY <1>5, CloseFacts
        <3>3. QED
            BY <1>0, <3>1, <3>2
    <2>3. QED
        BY <2>1, <2>2
<1>6. ASSUME NEW f \in Files, NEW v \in 0..MaxVersion, Upsert(f, v) PROVE GraphOf(x)'
    BY <1>0, <1>6, <1>a DEF Upsert
<1>7. ASSUME NEW f \in Files, NEW v \in 0..MaxVersion, EditCascades(f, v) PROVE GraphOf(x)'
    BY <1>0, <1>7, <1>a DEF EditCascades
<1>8. ASSUME NEW f \in Files, NEW v \in 0..MaxVersion, DiskChanges(f, v) PROVE GraphOf(x)'
    BY <1>0, <1>8, <1>a DEF DiskChanges
<1>9. ASSUME NEW f \in Files, CompileStarts(f) PROVE GraphOf(x)'
    BY <1>0, <1>9, StartFacts
<1>10. ASSUME NEW f \in Files, CompileEnds(f) PROVE GraphOf(x)'
    <2>1. CASE x = f
        BY <1>10, <2>1, EndFacts
    <2>2. CASE x # f
        <3>1. /\ result'[x] = result[x] /\ (x \in Compiling' <=> x \in Compiling)
              /\ UNCHANGED <<buf, calls, due>>
            BY <1>10, <2>2, EndFacts
        <3>2. \A g \in Files : <<g, x>> \in edges => <<g, x>> \in edges'
            BY <1>10, <2>2, EndFacts
        <3>3. DOMAIN result[x] \subseteq Files
            BY DEF ReadsOnce
        <3>4. QED
            BY <1>0, <3>1, <3>2, <3>3
    <2>3. QED
        BY <2>1, <2>2
<1>11. ASSUME NEW f \in Files, NEW g \in Files, Reads(f, g) PROVE GraphOf(x)'
    BY <1>0, <1>11, ReadFacts
<1>12. CASE UNCHANGED depVars
    BY <1>0, <1>12, <1>a DEF depVars
<1>13. QED
    BY <1>1, <1>2, <1>2b, <1>3, <1>4, <1>5, <1>6, <1>7, <1>8, <1>9, <1>10, <1>11, <1>12 DEF DependentsNext

\* No event and no cascade of a file is forgotten but by its own cascade.
LEMMA OthersStep == DependentsInv /\ [DependentsNext]_depVars => OthersFollow'
<1> SUFFICES ASSUME DependentsInv, [DependentsNext]_depVars, NEW x \in Files, NEW y \in Files
             PROVE  OtherOf(x, y)'
    BY DEF OthersFollow
<1>0. OtherOf(x, y) /\ DependentsType /\ ReadsOnce /\ OverlayOf(y) /\ OverlayOf(x)
    BY DEF OthersFollow, OverlayFollows, DependentsInv
<1> USE <1>0 DEF DependentsType, OtherOf, Lives, Coming, Visible
<1>a. ASSUME UNCHANGED <<seen, result>> PROVE Look(x)' = Look(x)
    BY <1>a DEF Look, Compiling
<1>1. ASSUME NEW f \in Files, OpenFile(f) PROVE OtherOf(x, y)'
    BY <1>1, <1>a DEF OpenFile, OverlayOf, OpenFiles
<1>2. ASSUME NEW f \in Files, CloneTab(f) PROVE OtherOf(x, y)'
    BY <1>2, <1>a DEF CloneTab
<1>2a. ASSUME NEW f \in Files, NEW v \in 0..MaxVersion, NEW kind \in {"edit", "orphan"}, SetBuffer(f, v, kind)
       PROVE  OtherOf(x, y)'
    <2>1. UNCHANGED <<seen, result, due, missed, overlay, onDisk>>
        BY <1>2a DEF SetBuffer
    <2>2. CASE y = f
        BY <1>2a, <2>2, LockFacts
    <2>3. CASE y # f
        <3>1. (y \in crossed' <=> y \in crossed) /\ (Lives(x)' => Lives(x))
            <4>1. crossed' = crossed \ {f} \/ crossed' = crossed \union {f}
                BY <1>2a DEF SetBuffer
            <4>2. Lives(x)' <=> Lives(x)
                BY <1>2a, LockFacts
            <4>3. QED
                BY <2>3, <4>1, <4>2
        <3>2. Coming({"publish", "cascade", "event"}, y) => Coming({"publish", "cascade", "event"}, y)'
            BY <1>2a, LockFacts
        <3>3. QED
            BY <1>a, <2>1, <3>1, <3>2
    <2>4. QED
        BY <2>2, <2>3
<1>2b. ASSUME NEW f \in Files, NEW v \in 0..MaxVersion, \E kind \in {"edit", "orphan"} : SetBuffer(f, v, kind)
       PROVE  OtherOf(x, y)'
    BY <1>2a, <1>2b
<1>3. ASSUME NEW f \in Files, EventCascades(f) PROVE OtherOf(x, y)'
    <2>1. CASE y = f
        BY <1>3, <1>a, <2>1, CascadeReaches DEF EventCascades, Cascade
    <2>2. CASE y # f
        BY <1>3, <1>a, <2>2 DEF EventCascades, Cascade
    <2>3. QED
        BY <2>1, <2>2
<1>4. ASSUME NEW f \in Files, DropFile(f) PROVE OtherOf(x, y)'
    <2>1. CASE y = f
        <3>1. CASE x = f
            BY <2>1, <3>1
        <3>2. CASE x # f
            <4>1. f \notin DependentsOf(f)
                BY DEF DependentsOf
            <4>2. DependentsOf(f) \intersect Working \subseteq due' /\ due \ {f} \subseteq due'
                BY <1>4, <4>1 DEF DropFile
            <4>3. Lives(x)' => Lives(x)
                BY <1>4 DEF DropFile
            <4>4. missed' = missed \union {<<f, e>> : e \in {e \in Compiling \ DependentsOf(f) : f \in DOMAIN seen[e]}}
                BY <1>4 DEF DropFile
            <4>5. Lives(x) /\ f \in DOMAIN Look(x) => x \in due' \/ <<f, x>> \in missed'
                BY <3>2, <4>2, <4>4, CascadeReaches
            <4>6. UNCHANGED <<seen, result>>
                BY <1>4 DEF DropFile
            <4>7. QED
                BY <1>a, <2>1, <4>3, <4>5, <4>6
        <3>3. QED
            BY <3>1, <3>2
    <2>2. CASE y # f
        BY <1>4, <1>a, <2>2 DEF DropFile, Survives
    <2>3. QED
        BY <2>1, <2>2
<1>5. ASSUME NEW f \in Files, CloseFile(f) PROVE OtherOf(x, y)'
    <2>1. CASE x = f
        BY <1>5, <2>1, CloseFacts
    <2>2. CASE x # f
        <3>1. Look(x)' = Look(x)
            BY <1>5, <2>2, CloseFacts DEF Look, Compiling
        <3>2. Coming({"publish", "cascade", "event"}, y) => Coming({"publish", "cascade", "event"}, y)'
            BY <1>5, CloseFacts
        <3>3. UNCHANGED <<onDisk, overlay, due, missed, crossed>> /\ (Lives(x)' <=> Lives(x))
            BY <1>5, <2>2, CloseFacts
        <3>4. QED
            BY <3>1, <3>2, <3>3
    <2>3. QED
        BY <2>1, <2>2
<1>6. ASSUME NEW f \in Files, NEW v \in 0..MaxVersion, Upsert(f, v) PROVE OtherOf(x, y)'
    <2> DEFINE old == <<"publish", f, v>>
               new == <<"cascade", f, v>>
    <2>1. /\ calls' = (calls \ {old}) \union {new} /\ new[1] = "cascade" /\ new[2] = f /\ old[2] = f
          /\ overlay' = [overlay EXCEPT ![f] = v]
          /\ UNCHANGED <<seen, result, due, buf, onDisk, missed, crossed>>
        BY <1>6 DEF Upsert
    <2>2. <<"close", x, 0>> \in calls' <=> <<"close", x, 0>> \in calls
        BY <2>1
    <2> HIDE DEF new, old
    <2>3. CASE y = f
        BY <2>1, <2>3
    <2>4. CASE y # f
        <3>1. Coming({"publish", "cascade", "event"}, y) => Coming({"publish", "cascade", "event"}, y)'
            BY <2>1, <2>4
        <3>2. QED
            BY <1>a, <2>1, <2>2, <2>4, <3>1
    <2>5. QED
        BY <2>3, <2>4
<1>7. ASSUME NEW f \in Files, NEW v \in 0..MaxVersion, EditCascades(f, v) PROVE OtherOf(x, y)'
    <2>1. CASE y = f
        BY <1>7, <1>a, <2>1, CascadeReaches DEF EditCascades
    <2>2. CASE y # f
        BY <1>7, <1>a, <2>2 DEF EditCascades
    <2>3. QED
        BY <2>1, <2>2
<1>8. ASSUME NEW f \in Files, NEW v \in 0..MaxVersion, DiskChanges(f, v) PROVE OtherOf(x, y)'
    <2> DEFINE new == <<"event", f, 0>>
    <2>1. /\ calls' = calls \union {new} /\ new[1] = "event" /\ new[2] = f
          /\ onDisk' = [onDisk EXCEPT ![f] = v]
          /\ UNCHANGED <<seen, result, due, buf, overlay, missed, crossed>>
        BY <1>8 DEF DiskChanges
    <2>2. <<"close", x, 0>> \in calls' <=> <<"close", x, 0>> \in calls
        BY <2>1
    <2> HIDE DEF new
    <2>3. CASE y = f
        BY <2>1, <2>3
    <2>4. CASE y # f
        BY <1>a, <2>1, <2>2, <2>4
    <2>5. QED
        BY <2>3, <2>4
<1>9. ASSUME NEW f \in Files, CompileStarts(f) PROVE OtherOf(x, y)'
    <2>1. CASE x = f
        BY <1>9, <2>1, StartFacts DEF Look
    <2>2. CASE x # f
        BY <1>9, <2>2, StartFacts DEF Look
    <2>3. QED
        BY <2>1, <2>2
<1>10. ASSUME NEW f \in Files, CompileEnds(f) PROVE OtherOf(x, y)'
    BY <1>10, EndFacts DEF Look
<1>11. ASSUME NEW f \in Files, NEW g \in Files, Reads(f, g) PROVE OtherOf(x, y)'
    BY <1>11, ReadFacts DEF Look
<1>12. CASE UNCHANGED depVars
    BY <1>12, <1>a DEF depVars
<1>13. QED
    BY <1>1, <1>2, <1>2b, <1>3, <1>4, <1>5, <1>6, <1>7, <1>8, <1>9, <1>10, <1>11, <1>12 DEF DependentsNext

\* When everything is quiet, the result of every open document was made from
\* its own buffer and from the buffers and files there are now, whatever was
\* edited, closed, changed on disk and compiled meanwhile, for any inclusions
\* and for edits that go on after the tab is closed: the exceptions are a cascade
\* that met a compile which had read the file and not reported it, and a file
\* whose last edit overlapped another edit of it or its close (apply_text,
\* hard_close, recompile_dependents_of, post_compile_tail).
THEOREM IncludersFollow == DependentsSpec => []DependentsFollow
<1>1. DependentsInit => DependentsInv
    <2>1. DOMAIN NotRead = {}
        BY DEF NotRead
    <2>2. QED
        BY <2>1, DependentsAssumption
           DEF DependentsInit, DependentsInv, DependentsType, OverlayFollows, OverlayOf, ReadsOnce, OwnFollows,
               OwnOf, GraphKnows, GraphOf, OthersFollow, OtherOf, Lives, Coming, Look, Compiling
<1>2. DependentsInv /\ [DependentsNext]_depVars => DependentsInv'
    BY DependentsTypeStep, OverlayStep, ReadsOnceStep, OwnStep, GraphStep, OthersStep DEF DependentsInv
<1>3. DependentsInv => DependentsFollow
    <2> SUFFICES ASSUME DependentsInv, DependentsAtRest, NEW d \in OpenFiles,
                        NEW f \in DOMAIN result[d] \ (crossed \ {d}), <<f, d>> \notin missed
                 PROVE  result[d][f] = Current(f)
        BY DEF DependentsFollow
    <2>1. d \in Files /\ f \in Files /\ Lives(d) /\ d \notin due /\ Look(d) = result[d]
        BY DEF DependentsInv, ReadsOnce, DependentsAtRest, OpenFiles, Lives, Look
    <2>2. CASE f = d
        BY <2>1, <2>2 DEF DependentsAtRest, DependentsInv, OwnFollows, OwnOf, Coming, Current, Lives
    <2>3. CASE f # d
        <3>1. result[d][f] = Visible(f)
            BY <2>1, <2>3 DEF DependentsAtRest, DependentsInv, OthersFollow, OtherOf, Coming
        <3>2. Visible(f) = Current(f)
            BY <2>1, <2>3 DEF DependentsAtRest, DependentsInv, OverlayFollows, OverlayOf, Lives, Coming, Visible, Current
        <3>3. QED
            BY <3>1, <3>2
    <2>4. QED
        BY <2>2, <2>3
<1>4. QED
    BY <1>1, <1>2, <1>3, PTL DEF DependentsSpec

-----------------------------------------------------------------------------
(* The stores agree: what each thread has done to which of them.           *)

\* The paths a thread is at.
PlacesOf(w) == {w.path, w.old} \ {NoPath}
Places(t)   == PlacesOf(thr[t])

\* A thread without a document has no path either; it has one from the snapshot
\* to the end of its attempts.
Shaped(t) ==
    /\ thr[t].id = NoId => thr[t].path = NoPath /\ thr[t].old = NoPath
    /\ thr[t].op # "move" => thr[t].old = NoPath
    /\ thr[t].pc = "next" /\ ~Retries(t) => thr[t].id = NoId
    /\ thr[t].pc = "idle" <=> thr[t].op = "none"
    /\ thr[t].pc = "idle" => thr[t].id = NoId
    /\ thr[t].op \in {"edit", "swap"} => thr[t].pc \in {"set", "publish"}
    /\ Retries(t) => thr[t].op \in {"move", "rebuild"}

\* A thread that has a document to itself: whether that is open, and compiled
\* from the TabState in the map.
Half(t) ==
    LET i == thr[t].id  pc == thr[t].pc IN
    i \in Ids \ tangled /\ thr[t].op \in Structural =>
        /\ pc \in {"register", "insert", "unregister"} => i \notin Live /\ workers[i] = 0
        /\ pc = "register" => byId[i] = NoId
        /\ pc = "remove" => i \in Live /\ workers[i] = 0
        /\ pc \in {"rotate", "rekey"} => i \in Live /\ tabs[i] = thr[t].obj
        /\ pc \in {"publish", "bind", "compare", "swap", "next"} => i \in Live /\ workers[i] = tabs[i]

\* A document nobody works on: open and compiled, or not to be found anywhere.
AtRest(i)  == IF i \in Live THEN workers[i] = tabs[i] ELSE workers[i] = 0 /\ byId[i] = NoId
HasTask(i) == \E t \in Threads : thr[t].id = i /\ thr[t].op \in Structural

\* Commands that work on one document, or at one path, know of each other.
Apart ==
    \A t, u \in Threads :
        t # u /\ ((thr[t].id = thr[u].id /\ thr[t].id \in Ids) \/ Places(t) \intersect Places(u) # {}) =>
            thr[t].id \in smeared /\ thr[u].id \in smeared

\* Where the tab is while a thread works on it: a move has it at the old path
\* until the swap.
Leaving(t) == thr[t].op = "move" /\ thr[t].pc \in {"bind", "compare"}
PlaceOf(t) == IF Leaving(t) THEN thr[t].old ELSE thr[t].path

\* What a thread knows of a document nobody else touched.
Knows(t) ==
    LET i == thr[t].id  pc == thr[t].pc IN
    i \in Ids \ smeared =>
        /\ i \in Live => Tab(i).path = PlaceOf(t)
        /\ pc # "next"
        /\ pc \in {"bind", "compare", "swap"} => Tab(i).text = thr[t].text /\ Tab(i).rev = thr[t].rev
        /\ thr[t].op \in {"edit", "swap"} => i \in Live /\ thr[t].obj = tabs[i]
        /\ pc = "rekey" \/ (thr[t].op # "open" /\ pc = "publish") => Tab(i).text = thr[t].text
        /\ thr[t].op \in {"close", "delete"} =>
              /\ byId[i] = thr[t].path
              /\ pc # "teardown" /\ thr[t].path # NoPath => vfs[thr[t].path] = NoVersion

\* No two documents have one TabState, and an edit works on one of its own.
Unshared == \A i, j \in Live : tabs[i] = tabs[j] => i = j
OwnState(t) ==
    thr[t].op \in {"edit", "swap"} /\ thr[t].pc = "set" =>
        \A j \in Live : tabs[j] = thr[t].obj => j = thr[t].id

\* No other document is at the path of one that nobody else touched; who comes
\* there is about to be refused.
OnePlace ==
    \A i \in Live \ smeared : \A j \in Live \ {i} : Tab(j).path = Tab(i).path => Tab(i).path = NoPath
Refused(t, p) == At(t, "move", "bind") /\ p = thr[t].path /\ p # thr[t].old
Visitors ==
    \A t \in Threads, j \in Live :
        j # thr[t].id /\ Tab(j).path \in Places(t) =>
            \/ thr[t].id \in smeared /\ j \in smeared
            \/ j \notin smeared /\ Refused(t, Tab(j).path)

\* The in-memory file is the buffer, or the thread that works on the document
\* is to make it so.
Pending(t) ==
    \/ At(t, "open", "rotate") \/ At(t, "move", "rekey") \/ thr[t].pc = "publish" \/ At(t, "close", "remove")
FileOf(i) ==
    Tab(i).path # NoPath =>
        vfs[Tab(i).path] = Tab(i).text \/ \E t \in Threads : thr[t].id = i /\ Pending(t)

\* A file nobody is registered at is the one a move leaves.
Left(t, p) == thr[t].op = "move" /\ thr[t].pc \in {"compare", "rekey"} /\ thr[t].old = p
Unowned(p) == vfs[p] # NoVersion /\ byPath[p] = NoId
LeftBehind == smeared = {} => \A p \in Paths : Unowned(p) => \E t \in Threads : Left(t, p)

StoresTyped == vfs \in [Paths -> Int] /\ workers \in [Ids -> Nat] /\ tangled \subseteq smeared

StoresInv ==
    /\ StoresTyped
    /\ \A t \in Threads : Shaped(t) /\ Half(t) /\ Knows(t) /\ OwnState(t)
    /\ \A i \in Ids \ tangled : HasTask(i) \/ AtRest(i)
    /\ Unshared /\ Apart /\ OnePlace /\ Visitors
    /\ \A i \in Live \ smeared : FileOf(i)
    /\ LeftBehind

-----------------------------------------------------------------------------

(* What a step at one document leaves as it is.                             *)

\* The stores and the texts of the other documents.
Elsewhere(i) == \A j \in Ids \ {i} :
    /\ tabs'[j] = tabs[j] /\ byId'[j] = byId[j] /\ workers'[j] = workers[j]
    /\ tabs[j] # 0 => /\ heap'[tabs[j]].path = heap[tabs[j]].path
                      /\ heap'[tabs[j]].text = heap[tabs[j]].text /\ heap'[tabs[j]].rev = heap[tabs[j]].rev

\* Thread t goes on as w, with document i in hand before or after, if with any.
StepAt(t, w, i) ==
    /\ thr' = [thr EXCEPT ![t] = w]
    /\ i \in Ids => thr[t].id = i \/ w.id = i
    /\ thr[t].id \in {i, NoId} /\ w.id \in {i, NoId}
    /\ smeared \subseteq smeared' /\ tangled \subseteq tangled'
    /\ Elsewhere(i)
    /\ (i \in Ids => Sole(t, i)) \/ UNCHANGED <<tabs, byId, workers>>
    /\ i \in Ids => tabs'[i] \in {tabs[i], 0} \/ tabs'[i] \notin Built

\* It writes files where it works, and not before the registry has agreed.
WritesAt(t, i) == \A p \in Paths : vfs'[p] # vfs[p] =>
    (p \in Places(t) /\ ~At(t, "move", "bind")) \/ (i \in Live /\ p = Tab(i).path)

\* Whoever is there already is known; and who is known now was met.
Met(t, w) == \A u \in Threads \ {t} :
    (thr[u].id = w.id /\ w.id \in Ids) \/ Places(u) \intersect PlacesOf(w) # {} =>
        thr[u].id \in smeared' /\ w.id \in smeared'
Smears(t, i) == \A k \in smeared' \ smeared :
    \/ \E v \in Threads \ {t} : thr[v].id = k
    \/ k = i /\ (i \in Live => \A u \in Threads \ {t} : Tab(i).path \in Places(u) => thr[u].id \in smeared')

\* Documents that are at the paths of w; and where i is found after the step.
Visits(w, i) == \A j \in Live \ {i} : Tab(j).path \in PlacesOf(w) =>
    \/ w.id \in smeared' /\ j \in smeared'
    \/ /\ j \notin smeared' /\ w.op = "move" /\ w.pc = "bind"
       /\ Tab(j).path = w.path /\ w.path # w.old
Arrives(t, i) == i \in Live' =>
    \/ i \in Live /\ Tab(i)'.path = Tab(i).path
    \/ Tab(i)'.path = NoPath
    \/ Tab(i)'.path \in Places(t) /\ ~At(t, "move", "bind")

Framed(t, w, i) == StepAt(t, w, i) /\ WritesAt(t, i) /\ Met(t, w) /\ Smears(t, i) /\ Visits(w, i) /\ Arrives(t, i)

\* The other documents are open where they were.
LEMMA OtherTabs ==
    ASSUME TabsInv, NEW i, Elsewhere(i), NEW j \in Ids \ {i}
    PROVE  /\ j \in Live' <=> j \in Live
           /\ j \in Live => Tab(j)'.path = Tab(j).path /\ Tab(j)'.text = Tab(j).text /\ Tab(j)'.rev = Tab(j).rev
BY DEF Elsewhere, Live, Tab

LEMMA ThreadsAfter ==
    ASSUME TabsInv, NEW t \in Threads, NEW w, NEW i, StepAt(t, w, i)
    PROVE  thr'[t] = w /\ \A u \in Threads \ {t} : thr'[u] = thr[u]
BY DEF TabsInv, StepAt

\* A command is idle, an edit or structural.
LEMMA StructuralOrEdit ==
    ASSUME TabsInv, StoresInv, NEW t \in Threads, thr[t].pc # "idle"
    PROVE  thr[t].op \in Structural \/ (thr[t].op \in {"edit", "swap"} /\ thr[t].pc \in {"set", "publish"})
BY WorkIsTyped DEF StoresInv, Shaped, Works, Structural

\* A thread at the document of the step is known.
LEMMA SameDocument ==
    ASSUME TabsInv, StoresInv, NEW t \in Threads, NEW w, NEW i, Framed(t, w, i),
           NEW u \in Threads \ {t}, thr[u].id = i, i \in Ids
    PROVE  i \in smeared'
<1>1. CASE thr[t].id = i
  BY <1>1 DEF StoresInv, Apart, Framed, StepAt
<1>2. CASE w.id = i
  BY <1>2 DEF Framed, Met
<1> QED BY <1>1, <1>2 DEF Framed, StepAt

LEMMA OthersHalf ==
    ASSUME TabsInv, StoresInv, NEW t \in Threads, NEW w, NEW i, Framed(t, w, i), NEW u \in Threads \ {t}
    PROVE  Shaped(u)' /\ Half(u)'
<1>1. thr'[u] = thr[u] /\ Shaped(u) /\ Half(u)
  BY ThreadsAfter DEF Framed, StoresInv
<1>2. Shaped(u)'
  BY <1>1 DEF Shaped, Retries
<1>3. Half(u)'
  <2> DEFINE j == thr[u].id
  <2> SUFFICES ASSUME j \in Ids \ tangled', thr[u].op \in Structural PROVE Half(u)'
    BY <1>1 DEF Half
  <2>1. j \in Ids \ tangled
    BY DEF Framed, StepAt
  <2>2. tabs'[j] = tabs[j] /\ byId'[j] = byId[j] /\ workers'[j] = workers[j]
    <3>1. CASE j # i
      BY <2>1, <3>1 DEF Framed, StepAt, Elsewhere
    <3>2. CASE j = i
      BY <2>1, <3>2 DEF Framed, StepAt, Sole
    <3> QED BY <3>1, <3>2
  <2>3. j \in Live' <=> j \in Live
    BY <2>1, <2>2 DEF Live
  <2> QED BY <1>1, <2>1, <2>2, <2>3 DEF Half
<1> QED BY <1>2, <1>3

LEMMA OthersKnow ==
    ASSUME TabsInv, StoresInv, NEW t \in Threads, NEW w, NEW i, Framed(t, w, i), NEW u \in Threads \ {t}
    PROVE  Knows(u)'
<1> DEFINE j == thr[u].id
           p == thr[u].path
<1>1. thr'[u] = thr[u] /\ Knows(u) /\ p \in Paths \union {NoPath}
  BY ThreadsAfter, WorkIsTyped DEF Framed, StoresInv
<1> SUFFICES ASSUME j \in Ids \ smeared' PROVE Knows(u)'
  BY <1>1 DEF Knows
<1>2. j \in Ids \ smeared /\ j # i
  BY SameDocument DEF Framed, StepAt
<1>3. tabs'[j] = tabs[j] /\ byId'[j] = byId[j]
  BY <1>2 DEF Framed, StepAt, Elsewhere
<1>4. /\ j \in Live' <=> j \in Live
      /\ j \in Live => Tab(j)'.path = Tab(j).path /\ Tab(j)'.text = Tab(j).text /\ Tab(j)'.rev = Tab(j).rev
  BY <1>2, OtherTabs DEF Framed, StepAt
<1>5. ASSUME thr[u].op \in {"close", "delete"}, p # NoPath PROVE vfs'[p] = vfs[p]
  <2> SUFFICES ASSUME vfs'[p] # vfs[p] PROVE FALSE
    OBVIOUS
  <2>1. p \in Paths /\ p \in Places(u)
    BY <1>1, <1>5 DEF Places, PlacesOf
  <2>2. p \notin Places(t)
    BY <1>2, <2>1 DEF StoresInv, Apart
  <2>3. i \in Live /\ Tab(i).path = p
    BY <2>1, <2>2 DEF Framed, WritesAt
  <2>4. Refused(u, p)
    BY <1>2, <2>1, <2>3 DEF StoresInv, Visitors
  <2> QED BY <1>5, <2>4 DEF Refused, At
<1>6. thr[u].op \in {"edit", "swap"} => j \in Live
  BY <1>1, <1>2 DEF Knows
<1>7. thr[u].op \notin {"edit", "swap"} /\ thr[u].pc \in {"bind", "compare", "swap", "rekey", "publish"} => j \in Live
  BY <1>2, StructuralOrEdit DEF StoresInv, StoresTyped, Half
<1> QED BY <1>1, <1>2, <1>3, <1>4, <1>5, <1>6, <1>7 DEF Knows, PlaceOf, Leaving

LEMMA OthersApart ==
    ASSUME TabsInv, StoresInv, NEW t \in Threads, NEW w, NEW i, Framed(t, w, i)
    PROVE  Apart'
<1> SUFFICES ASSUME NEW u \in Threads, NEW v \in Threads, u # v,
                    (thr'[u].id = thr'[v].id /\ thr'[u].id \in Ids)
                        \/ PlacesOf(thr'[u]) \intersect PlacesOf(thr'[v]) # {}
             PROVE  thr'[u].id \in smeared' /\ thr'[v].id \in smeared'
  BY DEF Apart, Places
<1>1. thr'[t] = w /\ \A x \in Threads \ {t} : thr'[x] = thr[x]
  BY ThreadsAfter DEF Framed
<1>2. CASE u = t
  BY <1>1, <1>2 DEF Framed, Met, Places
<1>3. CASE v = t
  BY <1>1, <1>3 DEF Framed, Met, Places
<1>4. CASE u # t /\ v # t
  BY <1>1, <1>4 DEF Framed, StepAt, StoresInv, Apart, Places
<1> QED BY <1>2, <1>3, <1>4

\* Where the thread arrives there is no document but known ones.
LEMMA ArrivesAlone ==
    ASSUME TabsInv, StoresInv, NEW t \in Threads, NEW w, NEW i, Framed(t, w, i), i \in Ids,
           NEW q \in Places(t), ~At(t, "move", "bind")
    PROVE  /\ \A j \in Live \ {i} : Tab(j).path = q => i \in smeared' /\ j \in smeared'
           /\ \A u \in Threads \ {t} : q \in Places(u) => i \in smeared' /\ thr[u].id \in smeared'
<1>1. thr[t].id = i
  BY DEF Framed, StepAt, StoresInv, Shaped, Places, PlacesOf
<1>2. smeared \subseteq smeared'
  BY DEF Framed, StepAt
<1>3. ASSUME NEW j \in Live \ {i}, Tab(j).path = q PROVE i \in smeared' /\ j \in smeared'
  <2>1. ~Refused(t, q)
    BY DEF Refused
  <2> QED BY <1>1, <1>2, <1>3, <2>1 DEF StoresInv, Visitors
<1>4. ASSUME NEW u \in Threads \ {t}, q \in Places(u) PROVE i \in smeared' /\ thr[u].id \in smeared'
  BY <1>1, <1>2, <1>4 DEF StoresInv, Apart
<1> QED BY <1>3, <1>4

LEMMA OthersOnePlace ==
    ASSUME TabsInv, StoresInv, NEW t \in Threads, NEW w, NEW i, Framed(t, w, i)
    PROVE  OnePlace'
<1> SUFFICES ASSUME NEW j \in Live', NEW k \in Live', j # k, Tab(j)'.path = Tab(k)'.path, Tab(j)'.path # NoPath,
                    j \notin smeared'
             PROVE  FALSE
  BY DEF OnePlace
<1>1. smeared \subseteq smeared' /\ Elsewhere(i) /\ j \in Ids /\ k \in Ids
  BY DEF Framed, StepAt, Live
<1>2. \A x \in {j, k} : x # i => x \in Live /\ Tab(x)'.path = Tab(x).path
  BY <1>1, OtherTabs
<1>3. CASE \A x \in {j, k} : x \in Live /\ Tab(x)'.path = Tab(x).path
  BY <1>1, <1>3 DEF StoresInv, OnePlace
<1>4. CASE i \in {j, k} /\ Tab(i)'.path \in Places(t) /\ ~At(t, "move", "bind")
  <2>1. CASE j = i
    <3>1. k \in Live \ {i} /\ Tab(k).path = Tab(i)'.path
      BY <1>2, <2>1
    <3> QED BY <1>1, <1>4, <2>1, <3>1, ArrivesAlone
  <2>2. CASE k = i
    <3>1. j \in Live \ {i} /\ Tab(j).path = Tab(i)'.path
      BY <1>2, <2>2
    <3> QED BY <1>1, <1>4, <2>2, <3>1, ArrivesAlone
  <2> QED BY <1>4, <2>1, <2>2
<1> QED BY <1>2, <1>3, <1>4 DEF Framed, Arrives

LEMMA OthersVisit ==
    ASSUME TabsInv, StoresInv, NEW t \in Threads, NEW w, NEW i, Framed(t, w, i), Shaped(t)'
    PROVE  Visitors'
<1> SUFFICES ASSUME NEW u \in Threads, NEW k \in Live', k # thr'[u].id, Tab(k)'.path \in PlacesOf(thr'[u])
             PROVE  \/ thr'[u].id \in smeared' /\ k \in smeared'
                    \/ /\ k \notin smeared' /\ thr'[u].op = "move" /\ thr'[u].pc = "bind"
                       /\ Tab(k)'.path = thr'[u].path /\ thr'[u].path # thr'[u].old
  BY DEF Visitors, Refused, At, Places
<1> DEFINE q == Tab(k)'.path
<1>1. thr'[t] = w /\ \A x \in Threads \ {t} : thr'[x] = thr[x]
  BY ThreadsAfter DEF Framed
<1>2. smeared \subseteq smeared' /\ Elsewhere(i) /\ k \in Ids /\ NoId \notin Ids
  BY NoIdIsNone DEF Framed, StepAt, Live
<1>3. k # i => k \in Live /\ Tab(k).path = q
  BY <1>2, OtherTabs
<1>4. CASE u = t
  <2>1. k # i \/ w.id = NoId
    BY <1>1, <1>4 DEF Framed, StepAt
  <2>2. CASE k # i
    BY <1>1, <1>3, <1>4, <2>2 DEF Framed, Visits
  <2>3. CASE w.id = NoId
    BY <1>1, <1>4, <2>3 DEF Shaped, PlacesOf
  <2> QED BY <2>1, <2>2, <2>3
<1>5. CASE u # t
  <2>1. thr'[u] = thr[u] /\ q \in Places(u) /\ k # thr[u].id
    BY <1>1, <1>5 DEF Places
  <2>2. CASE k \in Live /\ Tab(k).path = q
    <3>1. \/ thr[u].id \in smeared /\ k \in smeared
          \/ k \notin smeared /\ Refused(u, q)
      BY <2>1, <2>2 DEF StoresInv, Visitors
    <3>2. CASE k \in smeared' /\ k \notin smeared
      <4>1. CASE k = i /\ (i \in Live => \A v \in Threads \ {t} : Tab(i).path \in Places(v) => thr[v].id \in smeared')
        BY <1>5, <2>1, <2>2, <3>2, <4>1
      <4>2. ASSUME NEW v \in Threads \ {t}, thr[v].id = k PROVE thr[u].id \in smeared'
        <5>1. Tab(k).path = PlaceOf(v) /\ q # NoPath
          BY <1>2, <2>1, <2>2, <3>2, <4>2 DEF StoresInv, Knows, Places, PlacesOf
        <5>2. q \in Places(v) /\ u # v
          BY <2>1, <2>2, <4>2, <5>1 DEF PlaceOf, Places, PlacesOf
        <5> QED BY <1>2, <2>1, <5>2 DEF StoresInv, Apart
      <4> QED BY <2>1, <3>2, <4>1, <4>2 DEF Framed, Smears
    <3> QED BY <1>2, <2>1, <3>1, <3>2 DEF Refused, At
  <2>3. CASE k = i /\ q \in Places(t) /\ ~At(t, "move", "bind")
    BY <1>2, <1>5, <2>1, <2>3, ArrivesAlone
  <2>4. q # NoPath
    BY <2>1 DEF Places, PlacesOf
  <2> QED BY <1>3, <2>2, <2>3, <2>4 DEF Framed, Arrives
<1> QED BY <1>4, <1>5

LEMMA OthersFiles ==
    ASSUME TabsInv, StoresInv, NEW t \in Threads, NEW w, NEW i, Framed(t, w, i),
           NEW j \in Live' \ smeared', j # i
    PROVE  FileOf(j)'
<1> DEFINE q == Tab(j).path
<1>1. j \in Live \ smeared /\ q = Tab(j)'.path /\ Tab(j)'.text = Tab(j).text /\ j \in Ids /\ Elsewhere(i)
  BY OtherTabs DEF Framed, StepAt, Live
<1> SUFFICES ASSUME q # NoPath PROVE vfs'[q] = Tab(j).text \/ \E u \in Threads : thr'[u].id = j /\ Pending(u)'
  BY <1>1 DEF FileOf
<1>2. vfs[q] = Tab(j).text \/ \E u \in Threads : thr[u].id = j /\ Pending(u)
  BY <1>1 DEF StoresInv, FileOf
<1>3. vfs'[q] = vfs[q]
  <2> SUFFICES ASSUME vfs'[q] # vfs[q] PROVE FALSE
    OBVIOUS
  <2>1. q \in Paths
    BY <1>1, TabIsRecord DEF TabRecords
  <2>2. (q \in Places(t) /\ ~At(t, "move", "bind")) \/ (i \in Live /\ q = Tab(i).path)
    BY <2>1 DEF Framed, WritesAt
  <2>3. CASE q \in Places(t) /\ ~At(t, "move", "bind")
    <3>1. j # thr[t].id
      BY <1>1, NoIdIsNone DEF Framed, StepAt
    <3> QED BY <1>1, <2>3, <3>1 DEF StoresInv, Visitors, Refused
  <2>4. CASE i \in Live /\ q = Tab(i).path
    BY <1>1, <2>4 DEF StoresInv, OnePlace
  <2> QED BY <2>2, <2>3, <2>4
<1>4. ASSUME NEW u \in Threads, thr[u].id = j, Pending(u) PROVE thr'[u].id = j /\ Pending(u)'
  <2>1. u # t
    BY <1>1, <1>4, NoIdIsNone DEF Framed, StepAt
  <2>2. thr'[u] = thr[u]
    BY <2>1, ThreadsAfter DEF Framed
  <2> QED BY <1>4, <2>2 DEF Pending, At
<1> QED BY <1>2, <1>3, <1>4

\* What is left to show of a step.
LEMMA StoresStep ==
    ASSUME TabsInv, StoresInv, NEW t \in Threads, NEW w, NEW i \in Ids \union {NoId}, Framed(t, w, i), StoresTyped',
           Shaped(t)', Half(t)', Knows(t)', OwnState(t)', LeftBehind',
           i \in Ids \ tangled' => HasTask(i)' \/ AtRest(i)',
           i \in Live' \ smeared' => FileOf(i)'
    PROVE  StoresInv'
<1>1. ASSUME NEW u \in Threads PROVE Shaped(u)' /\ Half(u)' /\ Knows(u)'
  BY OthersHalf, OthersKnow
<1>2. ASSUME NEW u \in Threads PROVE OwnState(u)'
  <2>1. CASE u = t
    BY <2>1
  <2>2. CASE u # t
    <3>1. thr'[u] = thr[u] /\ OwnState(u)
      BY <2>2, ThreadsAfter DEF Framed, StoresInv
    <3> SUFFICES ASSUME thr[u].op \in {"edit", "swap"}, thr[u].pc = "set", NEW j \in Live', tabs'[j] = thr[u].obj
                 PROVE  j = thr[u].id
      BY <3>1 DEF OwnState
    <3>2. thr[u].obj \in Built /\ thr[u].obj # 0 /\ j \in Ids
      BY DEF TabsInv, Sane, HeapTyped, Live
    <3>3. tabs'[j] = tabs[j]
      <4>1. CASE j = i
        BY <3>2, <4>1 DEF Framed, StepAt
      <4>2. CASE j # i
        BY <3>2, <4>2 DEF Framed, StepAt, Elsewhere
      <4> QED BY <4>1, <4>2
    <3>4. j \in Live
      BY <3>2, <3>3 DEF Live
    <3> QED BY <3>1, <3>3, <3>4 DEF OwnState
  <2> QED BY <2>1, <2>2
<1>3. ASSUME NEW j \in Ids \ tangled' PROVE HasTask(j)' \/ AtRest(j)'
  <2>1. CASE j = i
    BY <2>1
  <2>2. CASE j # i
    <3>1. j \in Ids \ tangled /\ tabs'[j] = tabs[j] /\ byId'[j] = byId[j] /\ workers'[j] = workers[j]
      BY <2>2 DEF Framed, StepAt, Elsewhere
    <3>2. CASE AtRest(j)
      BY <3>1, <3>2 DEF AtRest, Live
    <3>3. ASSUME NEW u \in Threads, thr[u].id = j, thr[u].op \in Structural PROVE HasTask(j)'
      <4>1. u # t
        BY <2>2, <3>3, NoIdIsNone DEF Framed, StepAt
      <4>2. thr'[u] = thr[u]
        BY <4>1, ThreadsAfter DEF Framed
      <4> QED BY <3>3, <4>2 DEF HasTask
    <3> QED BY <3>1, <3>2, <3>3 DEF StoresInv, HasTask
  <2> QED BY <2>1, <2>2
<1>4. \A j \in Live' \ smeared' : FileOf(j)'
  BY OthersFiles
<1>5. Unshared'
  <2> SUFFICES ASSUME NEW j \in Live', NEW k \in Live', tabs'[j] = tabs'[k], j # k PROVE FALSE
    BY DEF Unshared
  <2>1. \A x \in Ids : tabs'[x] # 0 /\ (x # i \/ tabs'[x] \in {tabs[x], 0}) => x \in Live /\ tabs'[x] = tabs[x]
    BY DEF Framed, StepAt, Elsewhere, Live
  <2>2. \A x \in Live : tabs[x] \in Built
    BY DEF TabsInv, MapsTyped, Live
  <2>3. tabs'[j] # 0 /\ tabs'[k] # 0 /\ j \in Ids /\ k \in Ids
    BY DEF Live
  <2>4. i \in {j, k} => tabs'[i] \in {tabs[i], 0}
    BY <2>1, <2>2, <2>3 DEF Framed, StepAt
  <2> QED BY <2>1, <2>3, <2>4 DEF StoresInv, Unshared
<1> QED BY <1>1, <1>2, <1>3, <1>4, <1>5, OthersApart, OthersOnePlace, OthersVisit DEF StoresInv

-----------------------------------------------------------------------------
(* Kinds of steps.                                                          *)

\* A thread that goes on with its document, or lets go of it, meets nobody.
LEMMA GoesOn ==
    ASSUME TabsInv, StoresInv, NEW t \in Threads, NEW w, smeared' = smeared,
           (w.id = thr[t].id /\ PlacesOf(w) \subseteq Places(t)) \/ (w.id = NoId /\ PlacesOf(w) = {}),
           w.id = NoId \/ \A j \in Live \ (smeared \union {thr[t].id}) : Tab(j).path \in Places(t) => ~Refused(t, Tab(j).path)
    PROVE  Met(t, w) /\ Smears(t, thr[t].id) /\ Visits(w, thr[t].id)
<1>1. Met(t, w)
  BY NoIdIsNone DEF Met, StoresInv, Apart
<1>2. Smears(t, thr[t].id)
  BY DEF Smears
<1>3. Visits(w, thr[t].id)
  <2> SUFFICES ASSUME NEW j \in Live \ {thr[t].id}, Tab(j).path \in PlacesOf(w)
               PROVE  w.id \in smeared /\ j \in smeared
    BY DEF Visits
  <2>1. Tab(j).path \in Places(t) /\ w.id = thr[t].id
    OBVIOUS
  <2>2. PlacesOf(w) # {}
    OBVIOUS
  <2>3. j \notin smeared => ~Refused(t, Tab(j).path)
    <3>1. CASE w.id = NoId
      BY <2>1, <2>2, <3>1 DEF StoresInv, Shaped, Places, PlacesOf
    <3> QED BY <3>1
  <2> QED BY <2>1, <2>3 DEF StoresInv, Visitors
<1> QED BY <1>1, <1>2, <1>3

\* An open document is registered at its path unless a move has it in hand.
LEMMA RegisteredOrMoving ==
    ASSUME TabsInv, StoresInv, NEW j \in Live \ smeared
    PROVE  byId[j] = Tab(j).path \/ \E u \in Threads : thr[u].id = j /\ Tab(j).path = thr[u].old /\ Leaving(u)
<1>1. j \notin tangled /\ j \in Ids
  BY DEF StoresInv, StoresTyped, Live
<1>2. Settled(j)
  BY <1>1 DEF TabsInv, Registered
<1>3. ASSUME NEW u \in Threads, Moving(u, j) PROVE Tab(j).path = thr[u].old /\ Leaving(u) /\ thr[u].id = j
  BY <1>1, <1>3 DEF Moving, StoresInv, Knows, PlaceOf, Leaving
<1> QED BY <1>2, <1>3 DEF Settled

\* A thread that takes up a document has met whoever is there.
LEMMA MeetKnown ==
    ASSUME TabsInv, StoresInv, NEW t \in Threads, NEW w, NEW i \in Ids, NEW ps, Meet(t, i, ps), w.id = i,
           thr[t].id \in {i, NoId},
           PlacesOf(w) \subseteq ps, i \in Live => Tab(i).path \in ps,
           \A q \in PlacesOf(w) : \/ i \in Live /\ q = Tab(i).path
                                  \/ w.op = "move" /\ w.pc = "bind" /\ q = w.path /\ q # w.old
                                  \/ q \in Paths /\ byPath[q] = NoId
    PROVE  /\ smeared \subseteq smeared' /\ tangled' \subseteq smeared'
           /\ Met(t, w) /\ Smears(t, i) /\ Visits(w, i)
<1> DEFINE us == Touchers(i, ps \ {NoPath}, t)
           ss == Strays(i, ps \ {NoPath})
<1>1. smeared' = smeared \union {thr[u].id : u \in us} \union (IF us = {} /\ ss = {} THEN {} ELSE {i})
  BY DEF Meet
<1>2. \A u \in Threads \ {t} : thr[u].id = i \/ Places(u) \intersect (ps \ {NoPath}) # {} => u \in us
  BY DEF Touchers, Places, PlacesOf
<1>3. \A u \in us : u \in Threads \ {t} /\ thr[u].id \in smeared' /\ i \in smeared'
  BY <1>1 DEF Touchers
<1>4. \A j \in ss : j \in smeared /\ i \in smeared'
  BY <1>1 DEF Strays
<1>5. tangled' \subseteq smeared'
  <2>1. Claimed(i, t) => i \in smeared'
    BY <1>2, <1>3 DEF Claimed
  <2> QED BY <1>1, <2>1 DEF Meet, StoresInv, StoresTyped
<1>6. PlacesOf(w) \subseteq ps \ {NoPath}
  BY DEF PlacesOf
<1>7. Met(t, w)
  BY <1>2, <1>3, <1>6 DEF Met
<1>8. Smears(t, i)
  <2>1. \A u \in Threads \ {t} : i \in Live /\ Tab(i).path \in Places(u) => thr[u].id \in smeared'
    BY <1>2, <1>3 DEF Places, PlacesOf
  <2>2. \A k \in smeared' \ smeared : k = i \/ \E v \in Threads \ {t} : thr[v].id = k
    BY <1>1, <1>3
  <2> QED BY <2>1, <2>2 DEF Smears
<1>9. Visits(w, i)
  <2> SUFFICES ASSUME NEW j \in Live \ {i}, Tab(j).path \in PlacesOf(w)
               PROVE  \/ w.id \in smeared' /\ j \in smeared'
                      \/ /\ j \notin smeared' /\ w.op = "move" /\ w.pc = "bind"
                         /\ Tab(j).path = w.path /\ w.path # w.old
    BY DEF Visits
  <2> DEFINE q == Tab(j).path
  <2>1. CASE j \in smeared
    <3>1. j \in ss
      BY <1>6, <2>1 DEF Strays
    <3> QED BY <1>1, <1>4, <2>1, <3>1
  <2>2. CASE j \in smeared' \ smeared
    <3>1. us # {}
      BY <1>1, <2>2
    <3> QED BY <1>3, <2>2, <3>1
  <2>3. CASE j \notin smeared'
    <3>0. j \notin smeared
      BY <1>1, <2>3
    <3>1. CASE i \in Live /\ q = Tab(i).path
      BY <3>0, <3>1 DEF StoresInv, OnePlace, PlacesOf
    <3>2. CASE q \in Paths /\ byPath[q] = NoId
      <4>1. byId[j] # q
        BY <3>2, NoIdIsNone DEF TabsInv, OneToOne, Live
      <4>2. PICK u \in Threads : thr[u].id = j /\ q = thr[u].old
        BY <3>0, <4>1, RegisteredOrMoving
      <4>3. u # t
        BY <4>2, NoIdIsNone DEF Live
      <4>4. u \in us
        BY <1>2, <1>6, <3>2, <4>2, <4>3, NoIdIsNone DEF Places, PlacesOf
      <4> QED BY <1>3, <2>3, <4>2, <4>4
    <3> QED BY <2>3, <3>1, <3>2
  <2> QED BY <2>1, <2>2, <2>3
<1> QED BY <1>1, <1>5, <1>7, <1>8, <1>9

\* A step that leaves the stores and every text as they are.
Calm ==
    /\ UNCHANGED <<tabs, byId, byPath, vfs, workers>>
    /\ \A n \in Built : /\ n \in Built' /\ heap'[n].path = heap[n].path
                        /\ heap'[n].text = heap[n].text /\ heap'[n].rev = heap[n].rev

LEMMA CalmFrame ==
    ASSUME TabsInv, StoresInv, NEW t \in Threads, NEW i, Calm
    PROVE  /\ Elsewhere(i) /\ WritesAt(t, i) /\ Arrives(t, i) /\ Live' = Live
           /\ \A j \in Live : Tab(j)'.path = Tab(j).path /\ Tab(j)'.text = Tab(j).text /\ Tab(j)'.rev = Tab(j).rev
           /\ StoresTyped <=> vfs' \in [Paths -> Int] /\ workers' \in [Ids -> Nat] /\ tangled \subseteq smeared
<1>1. \A j \in Ids : tabs[j] # 0 => tabs[j] \in Built
  BY DEF TabsInv, MapsTyped
<1>2. Live' = Live
  BY DEF Calm, Live
<1>3. Elsewhere(i)
  BY <1>1 DEF Elsewhere, Calm
<1>4. \A j \in Live : Tab(j)'.path = Tab(j).path /\ Tab(j)'.text = Tab(j).text /\ Tab(j)'.rev = Tab(j).rev
  BY <1>1 DEF Live, Tab, Calm
<1> QED BY <1>2, <1>3, <1>4 DEF WritesAt, Arrives, Calm, StoresTyped

LEMMA CalmStep ==
    ASSUME TabsInv, StoresInv, NEW t \in Threads, NEW w, NEW i \in Ids \union {NoId}, thr' = [thr EXCEPT ![t] = w],
           Calm, i \in Ids => thr[t].id = i \/ w.id = i, thr[t].id \in {i, NoId}, w.id \in {i, NoId},
           smeared \subseteq smeared', tangled \subseteq tangled', tangled' \subseteq smeared',
           Met(t, w), Smears(t, i), Visits(w, i), Shaped(t)', Half(t)', Knows(t)', OwnState(t)',
           i \in Ids \ tangled' => HasTask(i)' \/ AtRest(i),
           i \in Live \ smeared' /\ thr[t].id = i /\ Pending(t) => w.id = i /\ Pending(t)',
           smeared' = {} => \A p \in Paths : Left(t, p) => Left(t, p)'
    PROVE  StoresInv'
<1>1. /\ Elsewhere(i) /\ WritesAt(t, i) /\ Arrives(t, i) /\ Live' = Live
      /\ \A j \in Live : Tab(j)'.path = Tab(j).path /\ Tab(j)'.text = Tab(j).text
  BY CalmFrame
<1>2. StoresTyped'
  BY DEF StoresInv, StoresTyped, Calm
<1>3. StepAt(t, w, i)
  BY <1>1 DEF StepAt, Calm
<1>4. Framed(t, w, i)
  BY <1>1, <1>3 DEF Framed
<1>5. LeftBehind'
  <2> SUFFICES ASSUME smeared' = {}, NEW p \in Paths, Unowned(p)' PROVE \E u \in Threads : Left(u, p)'
    BY DEF LeftBehind
  <2>1. PICK u \in Threads : Left(u, p)
    BY DEF StoresInv, LeftBehind, Unowned, Calm
  <2>2. CASE u = t
    BY <2>1, <2>2
  <2>3. CASE u # t
    <3>1. thr'[u] = thr[u]
      BY <2>3 DEF TabsInv
    <3> QED BY <2>1, <3>1 DEF Left
  <2> QED BY <2>2, <2>3
<1>6. i \in Ids \ tangled' => HasTask(i)' \/ AtRest(i)'
  BY <1>1 DEF AtRest, Calm
<1>7. i \in Live' \ smeared' => FileOf(i)'
  <2> SUFFICES ASSUME i \in Live \ smeared', Tab(i).path # NoPath
               PROVE  vfs[Tab(i).path] = Tab(i).text \/ \E u \in Threads : thr'[u].id = i /\ Pending(u)'
    BY <1>1 DEF FileOf, Calm
  <2>1. vfs[Tab(i).path] = Tab(i).text \/ \E u \in Threads : thr[u].id = i /\ Pending(u)
    BY DEF StoresInv, FileOf
  <2>2. ASSUME NEW u \in Threads, thr[u].id = i, Pending(u) PROVE thr'[t].id = i /\ Pending(t)'
    <3>1. u = t
      BY <1>4, <2>2, SameDocument DEF Live
    <3>2. thr'[t] = w
      BY DEF TabsInv
    <3> QED BY <2>2, <3>1, <3>2
  <2> QED BY <2>1, <2>2
<1> QED BY <1>2, <1>4, <1>5, <1>6, <1>7, StoresStep

\* A thread with no document in hand.
Freed(w) == /\ w.id = NoId /\ w.path = NoPath /\ w.old = NoPath /\ w.tries = 0
            /\ \/ w.op = "none" /\ w.pc = "idle"
               \/ w.op \in Structural \ {"open"} /\ w.pc = "next"

LEMMA FreedIsRight ==
    ASSUME TabsInv, StoresInv, NEW t \in Threads, NEW w, Freed(w), thr' = [thr EXCEPT ![t] = w]
    PROVE  /\ Shaped(t)' /\ Half(t)' /\ Knows(t)' /\ OwnState(t)' /\ PlacesOf(w) = {} /\ w.id = NoId
           /\ \A i \in Ids : thr[t].op \notin Structural /\ HasTask(i) => HasTask(i)'
<1>1. thr'[t] = w /\ \A u \in Threads \ {t} : thr'[u] = thr[u]
  BY DEF TabsInv
<1>2. Shaped(t)' /\ OwnState(t)'
  BY <1>1 DEF Freed, Shaped, Retries, OwnState, Structural
<1>3. Half(t)' /\ Knows(t)'
  BY <1>1, NoIdIsNone DEF Freed, Half, Knows
<1>4. \A i \in Ids : thr[t].op \notin Structural /\ HasTask(i) => HasTask(i)'
  BY <1>1 DEF HasTask
<1> QED BY <1>2, <1>3, <1>4 DEF Freed, PlacesOf

\* It is done with its document, or had none.
LEMMA LeavesOff ==
    ASSUME TabsInv, StoresInv, NEW t \in Threads, NEW i, i = thr[t].id, NEW w, Freed(w), thr' = [thr EXCEPT ![t] = w], Calm,
           smeared' = smeared, tangled \subseteq tangled', tangled' \subseteq smeared,
           i \in Ids \ tangled' /\ thr[t].op \in Structural => AtRest(i),
           i \in Ids \ smeared => ~Pending(t),
           i \notin smeared => thr[t].op # "move" \/ thr[t].pc \notin {"compare", "rekey"}
    PROVE  StoresInv'
<1>1. i \in Ids \union {NoId}
  BY WorkIsTyped
<1>2. /\ Shaped(t)' /\ Half(t)' /\ Knows(t)' /\ OwnState(t)' /\ PlacesOf(w) = {} /\ w.id = NoId
      /\ \A j \in Ids : thr[t].op \notin Structural /\ HasTask(j) => HasTask(j)'
  BY FreedIsRight
<1>3. Met(t, w) /\ Smears(t, i) /\ Visits(w, i)
  BY <1>2, GoesOn
<1>4. i \in Ids \ tangled' => HasTask(i)' \/ AtRest(i)
  <2> SUFFICES ASSUME i \in Ids \ tangled' PROVE HasTask(i)' \/ AtRest(i)
    OBVIOUS
  <2>1. HasTask(i) \/ AtRest(i)
    BY DEF StoresInv
  <2>2. thr[t].op \in Structural => AtRest(i)
    OBVIOUS
  <2> QED BY <1>2, <2>1, <2>2
<1>5. i \in Live \ smeared' => ~Pending(t)
  BY DEF Live
<1>6. \A p \in Paths : Left(t, p) => smeared' # {}
  BY DEF Left
<1>7. thr[t].id = i /\ tangled' \subseteq smeared' /\ smeared \subseteq smeared' /\ w.id \in {i, NoId}
  BY <1>2
<1> QED BY <1>1, <1>2, <1>3, <1>4, <1>5, <1>6, <1>7, CalmStep

\* The rest of a batch.
LEMMA ReclassifyIsFreed == Freed(Idle) /\ Freed(Reclassify)
<1>1. CASE Live = {}
  BY <1>1 DEF Reclassify, Idle, Freed
<1>2. CASE Live # {}
  <2>1. Reclassify = [op |-> "reclassify", pc |-> "next", id |-> NoId, path |-> NoPath, old |-> NoPath,
                      obj |-> 0, text |-> NoVersion, rev |-> 0, todo |-> Live, tries |-> 0, saved |-> NoVersion]
    BY <1>2 DEF Reclassify, Idle
  <2> QED BY <2>1 DEF Freed, Idle, Structural
<1> QED BY <1>1, <1>2

LEMMA NextIsFreed ==
    ASSUME NEW t \in Threads, NEW rest, thr[t].op \in Structural \ {"open"}
    PROVE  Freed(NextOf(t, rest))
<1>1. CASE rest = {}
  BY <1>1, ReclassifyIsFreed DEF NextOf
<1>2. CASE rest # {}
  <2>1. NextOf(t, rest) =
          [op |-> thr[t].op, pc |-> "next", id |-> NoId, path |-> NoPath, old |-> NoPath,
           obj |-> 0, text |-> NoVersion, rev |-> 0, todo |-> rest, tries |-> 0, saved |-> thr[t].saved]
    BY <1>2 DEF NextOf, Idle
  <2> QED BY <2>1 DEF Freed
<1> QED BY <1>1, <1>2

-----------------------------------------------------------------------------
(* The same commands' steps, for the stores.                                *)

LEMMA CalmTabs ==
    ASSUME TabsInv, Calm
    PROVE  Live' = Live /\ \A j \in Live : Tab(j)'.path = Tab(j).path /\ Tab(j)'.text = Tab(j).text /\ Tab(j)'.rev = Tab(j).rev
BY DEF TabsInv, MapsTyped, Live, Tab, Calm

LEMMA CalmStays == ASSUME TabsInv, StoresInv, Calm, UNCHANGED <<thr, tangled, smeared>> PROVE StoresInv'
<1>1. Live' = Live /\ \A j \in Live : Tab(j)'.path = Tab(j).path /\ Tab(j)'.text = Tab(j).text /\ Tab(j)'.rev = Tab(j).rev
  BY CalmTabs
<1>2. UNCHANGED <<tabs, byId, byPath, vfs, workers>>
  BY DEF Calm
<1>3. StoresTyped' /\ LeftBehind' /\ Apart'
  BY <1>2 DEF StoresInv, StoresTyped, LeftBehind, Unowned, Left, Apart, Places
<1>4. ASSUME NEW t \in Threads PROVE Shaped(t)' /\ Half(t)' /\ OwnState(t)' /\ Knows(t)'
  <2>1. Shaped(t) /\ Half(t) /\ OwnState(t) /\ Knows(t)
    BY DEF StoresInv
  <2>2. Shaped(t)' /\ Half(t)' /\ OwnState(t)'
    BY <1>1, <1>2, <2>1 DEF Shaped, Retries, Half, OwnState
  <2>3. ASSUME thr[t].id \in Ids \ smeared, thr[t].pc \in {"bind", "compare", "swap", "rekey", "publish"} \/ thr[t].op \in {"edit", "swap"}
        PROVE  thr[t].id \in Live
    BY <2>1, <2>3, StructuralOrEdit DEF StoresInv, StoresTyped, Half, Knows, Shaped
  <2>4. Knows(t)'
    BY <1>1, <1>2, <2>1, <2>3 DEF Knows, PlaceOf, Leaving
  <2> QED BY <2>2, <2>4
<1>5. \A i \in Ids \ tangled' : HasTask(i)' \/ AtRest(i)'
  BY <1>1, <1>2 DEF StoresInv, HasTask, AtRest
<1>6. Unshared' /\ OnePlace' /\ Visitors'
  BY <1>1, <1>2 DEF StoresInv, Unshared, OnePlace, Visitors, Refused, At, Places
<1>7. \A i \in Live' \ smeared' : FileOf(i)'
  BY <1>1, <1>2 DEF StoresInv, FileOf, Pending, At
<1> QED BY <1>3, <1>4, <1>5, <1>6, <1>7 DEF StoresInv

\* One flag of one TabState is set, or nothing.
LEMMA FlagIsCalm ==
    ASSUME TabsInv, UNCHANGED <<tabs, byId, byPath, vfs, workers>>, NEW n, NEW b,
           \/ n \in Built /\ heap' = [heap EXCEPT ![n].hidden = b]
           \/ n \in Built /\ heap' = [heap EXCEPT ![n].dirty = b]
           \/ n \in Built /\ heap' = [heap EXCEPT ![n].missing = b]
           \/ n \in Built /\ heap' = [heap EXCEPT ![n].known = b]
           \/ UNCHANGED heap
    PROVE  Calm
<1>1. heap \in [Built -> TabRecords]
  BY DEF TabsInv, HeapTyped
<1>2. CASE UNCHANGED heap
  BY <1>2 DEF Calm, Built
<1>3. ASSUME n \in Built, NEW r, r.path = heap[n].path, r.text = heap[n].text, r.rev = heap[n].rev,
             heap' = [heap EXCEPT ![n] = r]
      PROVE  Calm
  BY <1>1, <1>3 DEF Calm, Built
<1>4. CASE n \in Built /\ heap' = [heap EXCEPT ![n].hidden = b]
  <2> DEFINE r == [heap[n] EXCEPT !.hidden = b]
  <2>1. r.path = heap[n].path /\ r.text = heap[n].text /\ r.rev = heap[n].rev
    BY <1>1, <1>4 DEF TabRecords
  <2> QED BY <1>3, <1>4, <2>1
<1>5. CASE n \in Built /\ heap' = [heap EXCEPT ![n].dirty = b]
  <2> DEFINE r == [heap[n] EXCEPT !.dirty = b]
  <2>1. r.path = heap[n].path /\ r.text = heap[n].text /\ r.rev = heap[n].rev
    BY <1>1, <1>5 DEF TabRecords
  <2> QED BY <1>3, <1>5, <2>1
<1>6. CASE n \in Built /\ heap' = [heap EXCEPT ![n].missing = b]
  <2> DEFINE r == [heap[n] EXCEPT !.missing = b]
  <2>1. r.path = heap[n].path /\ r.text = heap[n].text /\ r.rev = heap[n].rev
    BY <1>1, <1>6 DEF TabRecords
  <2> QED BY <1>3, <1>6, <2>1
<1>7. CASE n \in Built /\ heap' = [heap EXCEPT ![n].known = b]
  <2> DEFINE r == [heap[n] EXCEPT !.known = b]
  <2>1. r.path = heap[n].path /\ r.text = heap[n].text /\ r.rev = heap[n].rev
    BY <1>1, <1>7 DEF TabRecords
  <2> QED BY <1>3, <1>7, <2>1
<1> QED BY <1>2, <1>4, <1>5, <1>6, <1>7

\* Steps that only set a flag.
LEMMA FlagsStores ==
    ASSUME TabsInv, StoresInv,
           \/ \E t \in Threads, p \in Paths : OpenFound(t, p)
           \/ \E i \in Ids : Saved(i)
           \/ \E t \in Threads, i \in Ids : SetVisibility(t, i, TRUE) \/ SetVisibility(t, i, FALSE)
    PROVE  StoresInv'
<1>1. ASSUME NEW t \in Threads, NEW p \in Paths, OpenFound(t, p) PROVE StoresInv'
  <2>1. /\ heap' = IF byPath[p] \in Live THEN [heap EXCEPT ![tabs[byPath[p]]].hidden = FALSE] ELSE heap
        /\ UNCHANGED <<tabs, byPath, byId, vfs, workers, thr, tangled, smeared>>
    BY <1>1 DEF OpenFound
  <2> QED BY <2>1, TabIsRecord, FlagIsCalm, CalmStays
<1>2. ASSUME NEW i \in Ids, Saved(i) PROVE StoresInv'
  <2>1. /\ i \in Live /\ heap' = [heap EXCEPT ![tabs[i]].dirty = FALSE]
        /\ UNCHANGED <<tabs, byPath, byId, vfs, workers, thr, tangled, smeared>>
    BY <1>2 DEF Saved
  <2> QED BY <2>1, TabIsRecord, FlagIsCalm, CalmStays
<1>3. ASSUME NEW t \in Threads, NEW i \in Ids, NEW b, SetVisibility(t, i, b) PROVE StoresInv'
  <2>1. /\ i \in Live /\ heap' = [heap EXCEPT ![tabs[i]].hidden = b]
        /\ UNCHANGED <<tabs, byPath, byId, vfs, workers, thr, tangled, smeared>>
    BY <1>3 DEF SetVisibility
  <2> QED BY <2>1, TabIsRecord, FlagIsCalm, CalmStays
<1> QED BY <1>1, <1>2, <1>3

\* A command begins with a list of documents, none in hand.
LEMMA BeginsFreed ==
    ASSUME TabsInv, StoresInv, NEW t \in Threads, thr[t] = Idle, NEW w, Freed(w), thr' = [thr EXCEPT ![t] = w],
           UNCHANGED <<heap, tabs, byId, byPath, vfs, workers, tangled, smeared>>
    PROVE  StoresInv'
<1>1. Calm
  BY DEF Calm, Built
<1>2. thr[t].id = NoId /\ thr[t].op = "none" /\ ~Pending(t)
  BY IdleWork DEF Pending, At
<1>3. tangled \subseteq smeared
  BY DEF StoresInv, StoresTyped
<1> QED BY <1>1, <1>2, <1>3, NoIdIsNone, LeavesOff DEF Structural

LEMMA BeginStores ==
    ASSUME TabsInv, StoresInv, NEW t \in Threads,
           \/ \E i \in Ids, p \in Paths : SaveAs(t, i, p)
           \/ \E f \in Renames : Rename(t, f)
           \/ SwitchWorkspace(t) \/ MoveRoot(t) \/ \E p \in Paths : Delete(t, {p})
    PROVE  StoresInv'
<1>1. ASSUME NEW i \in Ids, NEW p \in Paths, SaveAs(t, i, p) PROVE StoresInv'
  <2> DEFINE w == [Idle EXCEPT !.op = "move", !.pc = "next", !.todo = {<<i, p>>}, !.saved = Tab(i).rev]
  <2>1. /\ thr[t] = Idle /\ thr' = [thr EXCEPT ![t] = w]
        /\ UNCHANGED <<heap, tabs, byId, byPath, vfs, workers, tangled, smeared>>
    BY <1>1 DEF SaveAs, Begin, Go
  <2>2. Freed(w)
    BY DEF Freed, Idle, Structural
  <2> HIDE DEF w
  <2> QED BY <2>1, <2>2, BeginsFreed
<1>2. ASSUME NEW op \in {"move", "rebuild", "delete"}, NEW todo, NEW w, w = [Idle EXCEPT !.op = op, !.pc = "next", !.todo = todo],
             thr[t] = Idle, thr' = [thr EXCEPT ![t] = w],
             UNCHANGED <<heap, tabs, byId, byPath, vfs, workers, tangled, smeared>>
      PROVE  StoresInv'
  <2>1. Freed(w)
    BY <1>2 DEF Freed, Idle, Structural
  <2> QED BY <1>2, <2>1, BeginsFreed
<1>3. ASSUME NEW f \in Renames, Rename(t, f) PROVE StoresInv'
  BY <1>2, <1>3 DEF Rename, Begin, Go
<1>4. ASSUME SwitchWorkspace(t) PROVE StoresInv'
  <2>1. /\ thr[t] = Idle /\ thr' = [thr EXCEPT ![t] = Reclassify]
        /\ UNCHANGED <<heap, tabs, byId, byPath, vfs, workers, tangled, smeared>>
    BY <1>4 DEF SwitchWorkspace, Begin, Go
  <2> QED BY <2>1, ReclassifyIsFreed, BeginsFreed
<1>5. ASSUME MoveRoot(t) PROVE StoresInv'
  BY <1>2, <1>5 DEF MoveRoot, Begin, Go
<1>6. ASSUME NEW p \in Paths, Delete(t, {p}) PROVE StoresInv'
  BY <1>2, <1>6 DEF Delete, Begin, Go
<1> QED BY <1>1, <1>3, <1>4, <1>5, <1>6

\* A thread that gives its document up, or had none, with the stores as they are.
LEMMA GivesUp ==
    ASSUME TabsInv, StoresInv, NEW t \in Threads, NEW i, i = thr[t].id, NEW w, Freed(w), thr' = [thr EXCEPT ![t] = w],
           Calm, UNCHANGED smeared, tangled \subseteq tangled', tangled' \subseteq smeared,
           \/ thr[t].op \notin Structural /\ thr[t].pc = "set"
           \/ thr[t].pc \in {"register", "next", "bind"} \/ At(t, "rebuild", "compare")
           \/ i \in tangled'
    PROVE  StoresInv'
<1>1. i \in Ids \ tangled' /\ thr[t].op \in Structural => AtRest(i)
  BY DEF StoresInv, Half, AtRest, At, Live
<1>2. i \in Ids \ smeared => ~Pending(t)
  BY DEF Pending, At
<1>3. i \notin smeared => thr[t].op # "move" \/ thr[t].pc \notin {"compare", "rekey"}
  BY DEF At
<1> QED BY <1>1, <1>2, <1>3, LeavesOff

\* So it is when a name is refused, a document has gone, or a buffer keeps changing.
LEMMA GivingUpStores ==
    ASSUME TabsInv, StoresInv, NEW t \in Threads, UNCHANGED <<heap, tabs, byId, byPath, vfs, workers, smeared>>,
           \/ /\ thr' = [thr EXCEPT ![t] = Idle] /\ UNCHANGED tangled
              /\ At(t, "open", "register") \/ At(t, "swap", "set") \/ (At(t, "close", "remove") /\ thr[t].id \notin Live)
           \/ /\ thr[t].op \in Structural \ {"open"} /\ \E rest : thr' = [thr EXCEPT ![t] = NextOf(t, rest)]
              /\ \/ thr[t].pc \in {"next", "bind"} /\ UNCHANGED tangled
                 \/ At(t, "rebuild", "compare") /\ UNCHANGED tangled
                 \/ At(t, "move", "compare") /\ thr[t].id \notin Live /\ UNCHANGED tangled
                 \/ At(t, "move", "compare") /\ ~Unchanged(t) /\ tangled' = tangled \union {thr[t].id}
    PROVE  StoresInv'
<1> PICK i : i = thr[t].id
  OBVIOUS
<1>1. Calm /\ tangled \subseteq smeared
  BY DEF Calm, Built, StoresInv, StoresTyped
<1>2. thr[t].pc \notin {"idle", "next"} => i \in Ids
  BY WorkIsTyped
<1>3. Freed(Idle)
  BY DEF Freed, Idle
<1>4. thr[t].pc \in {"remove", "compare"} /\ thr[t].op \in Structural /\ i \notin Live => i \in tangled
  BY <1>2 DEF StoresInv, Half
<1>5. At(t, "move", "compare") /\ ~Unchanged(t) => i \in smeared
  BY <1>2 DEF At, Unchanged, StoresInv, Knows
<1>6. CASE /\ thr' = [thr EXCEPT ![t] = Idle] /\ UNCHANGED tangled
           /\ At(t, "open", "register") \/ At(t, "swap", "set") \/ (At(t, "close", "remove") /\ thr[t].id \notin Live)
  BY <1>1, <1>3, <1>4, <1>6, GivesUp DEF At, Structural
<1>7. ASSUME NEW rest, thr[t].op \in Structural \ {"open"}, thr' = [thr EXCEPT ![t] = NextOf(t, rest)],
             \/ thr[t].pc \in {"next", "bind"} /\ UNCHANGED tangled
             \/ At(t, "rebuild", "compare") /\ UNCHANGED tangled
             \/ At(t, "move", "compare") /\ thr[t].id \notin Live /\ UNCHANGED tangled
             \/ At(t, "move", "compare") /\ ~Unchanged(t) /\ tangled' = tangled \union {thr[t].id}
      PROVE  StoresInv'
  <2>1. Freed(NextOf(t, rest))
    BY <1>7, NextIsFreed
  <2> QED BY <1>1, <1>4, <1>5, <1>7, <2>1, GivesUp DEF At
<1> QED BY <1>6, <1>7

\* A document that somebody has just taken up was at rest.
LEMMA TakenAtRest ==
    ASSUME TabsInv, StoresInv, NEW t \in Threads, NEW i \in Ids \ tangled', Sole(t, i), tangled \subseteq tangled',
           thr[t].pc \in {"idle", "next"}
    PROVE  AtRest(i)
<1>1. ASSUME NEW u \in Threads, thr[u].id = i, thr[u].op \in Structural PROVE AtRest(i)
  <2>1. u = t
    BY <1>1 DEF Sole
  <2>2. thr[t].pc = "next"
    BY <1>1, <2>1, NoIdIsNone DEF StoresInv, Shaped
  <2> QED BY <1>1, <2>1, <2>2 DEF StoresInv, Half, AtRest
<1> QED BY <1>1 DEF StoresInv, HasTask

LEMMA OpenNewStores ==
    ASSUME TabsInv, StoresInv, NEW t \in Threads, NEW i \in Ids, NEW p \in Paths \union {NoPath}, OpenNew(t, i, p)
    PROVE  StoresInv'
<1> DEFINE w == [Idle EXCEPT !.op = "open", !.pc = "register", !.id = i, !.path = p]
<1>1. /\ thr[t] = Idle /\ i \notin used /\ thr' = [thr EXCEPT ![t] = w] /\ Meet(t, i, {p})
      /\ p # NoPath => byPath[p] = NoId
      /\ UNCHANGED <<heap, tabs, byPath, byId, vfs, workers>>
  BY DEF OpenNew, Begin, Go
<1>2. w.op = "open" /\ w.pc = "register" /\ w.id = i /\ w.path = p /\ w.old = NoPath /\ w.tries = 0
  BY DEF Idle
<1> HIDE DEF w
<1>3. thr'[t] = w /\ thr[t].id = NoId /\ thr[t].op = "none" /\ thr[t].pc = "idle"
  BY <1>1, IdleWork DEF TabsInv
<1>4. Sole(t, i) /\ tangled \subseteq tangled' /\ i \notin Live
  BY <1>1, MeetIsSole DEF TabsInv, MapsTyped
<1>5. /\ smeared \subseteq smeared' /\ tangled' \subseteq smeared'
      /\ Met(t, w) /\ Smears(t, i) /\ Visits(w, i)
  <2>1. PlacesOf(w) \subseteq {p} \ {NoPath}
    BY <1>2 DEF PlacesOf
  <2> QED BY <1>1, <1>2, <1>3, <1>4, <2>1, MeetKnown
<1>6. Calm
  BY <1>1 DEF Calm, Built
<1>7. Shaped(t)' /\ OwnState(t)' /\ HasTask(i)'
  BY <1>2, <1>3, NoIdIsNone DEF Shaped, Retries, OwnState, HasTask, Structural
<1>8. Half(t)'
  BY <1>1, <1>2, <1>3, <1>4, TakenAtRest DEF Half, AtRest, Live
<1>9. Knows(t)'
  BY <1>1, <1>2, <1>3, <1>4 DEF Knows, Live
<1>10. \A q \in Paths : ~Left(t, q)
  BY <1>3 DEF Left
<1> QED BY <1>1, <1>2, <1>3, <1>4, <1>5, <1>6, <1>7, <1>8, <1>9, <1>10, NoIdIsNone, CalmStep

LEMMA EditClonesStores ==
    ASSUME TabsInv, StoresInv, NEW t \in Threads, NEW i \in Ids, NEW op \in {"edit", "swap"}, EditClones(t, i, op)
    PROVE  StoresInv'
<1> DEFINE w == [Idle EXCEPT !.op = op, !.pc = "set", !.id = i, !.obj = tabs[i],
                             !.path = Tab(i).path, !.text = Tab(i).text, !.rev = Tab(i).rev]
<1>1. /\ thr[t] = Idle /\ i \in Live /\ thr' = [thr EXCEPT ![t] = w] /\ Meet(t, i, {Tab(i).path})
      /\ UNCHANGED <<heap, tabs, byPath, byId, vfs, workers>>
  BY DEF EditClones, Begin, Go
<1>2. /\ w.op = op /\ w.pc = "set" /\ w.id = i /\ w.path = Tab(i).path /\ w.old = NoPath /\ w.tries = 0
      /\ w.obj = tabs[i]
  BY DEF Idle
<1> HIDE DEF w
<1>3. thr'[t] = w /\ thr[t].id = NoId /\ thr[t].op = "none" /\ thr[t].pc = "idle"
  BY <1>1, IdleWork DEF TabsInv
<1>4. tangled \subseteq tangled'
  BY <1>1, MeetIsSole
<1>5. /\ smeared \subseteq smeared' /\ tangled' \subseteq smeared'
      /\ Met(t, w) /\ Smears(t, i) /\ Visits(w, i)
  <2>1. PlacesOf(w) \subseteq {Tab(i).path}
    BY <1>2 DEF PlacesOf
  <2> QED BY <1>1, <1>2, <1>3, <2>1, MeetKnown
<1>6. Calm /\ Live' = Live /\ Tab(i)'.path = Tab(i).path
  BY <1>1 DEF Calm, Built, Live, Tab
<1>7. Shaped(t)' /\ Half(t)'
  BY <1>2, <1>3, NoIdIsNone DEF Shaped, Retries, Half, Structural
<1>8. Knows(t)' /\ OwnState(t)'
  BY <1>1, <1>2, <1>3, <1>6 DEF Knows, PlaceOf, Leaving, OwnState, StoresInv, Unshared
<1>9. i \in Ids \ tangled' => HasTask(i)' \/ AtRest(i)
  <2>1. HasTask(i) => HasTask(i)'
    BY <1>1, <1>3 DEF HasTask, Structural, TabsInv
  <2> QED BY <1>4, <2>1 DEF StoresInv
<1>10. \A q \in Paths : ~Left(t, q)
  BY <1>3 DEF Left
<1> QED BY <1>1, <1>2, <1>3, <1>4, <1>5, <1>6, <1>7, <1>8, <1>9, <1>10, NoIdIsNone, CalmStep

\* A batch takes up the next document.
LEMMA TakesUp ==
    ASSUME TabsInv, StoresInv, NEW t \in Threads, thr[t].pc = "next", thr[t].op \in Structural, NEW i \in Live,
           thr[t].id \in {i, NoId}, NEW ps, Meet(t, i, ps), Tab(i).path \in ps,
           NEW w, thr' = [thr EXCEPT ![t] = w], UNCHANGED <<heap, tabs, byPath, byId, vfs, workers>>,
           w.op = thr[t].op, w.id = i, w.text = Tab(i).text, w.rev = Tab(i).rev, w.tries = thr[t].tries,
           \/ w.op = "move" /\ w.pc = "bind" /\ w.path \in ps /\ w.old = Tab(i).path
           \/ w.op \in {"reclassify", "rebuild"} /\ w.pc \in {"bind", "compare"} /\ w.path = Tab(i).path /\ w.old = NoPath
    PROVE  StoresInv'
<1>1. thr'[t] = w /\ i \in Ids
  BY DEF TabsInv, Live
<1>2. Sole(t, i) /\ tangled \subseteq tangled'
  BY <1>1, MeetIsSole
<1>3. PlacesOf(w) \subseteq ps
  BY DEF PlacesOf
<1>4. \A q \in PlacesOf(w) : q = Tab(i).path \/ (w.op = "move" /\ w.pc = "bind" /\ q = w.path /\ q # w.old)
  BY DEF PlacesOf
<1>5. /\ smeared \subseteq smeared' /\ tangled' \subseteq smeared'
      /\ Met(t, w) /\ Smears(t, i) /\ Visits(w, i)
  BY <1>1, <1>3, <1>4, MeetKnown
<1>6. Calm /\ Live' = Live /\ Tab(i)' = Tab(i)
  BY DEF Calm, Built, Live, Tab
<1>7. Shaped(t)' /\ OwnState(t)' /\ HasTask(i)'
  BY <1>1, NoIdIsNone DEF Shaped, Retries, OwnState, HasTask, StoresInv
<1>8. Half(t)'
  BY <1>1, <1>2, <1>6, TakenAtRest DEF Half, AtRest
<1>9. Knows(t)'
  BY <1>1, <1>6 DEF Knows, PlaceOf, Leaving
<1>10. (\A q \in Paths : ~Left(t, q)) /\ ~Pending(t)
  BY DEF Left, Pending, At
<1> QED BY <1>1, <1>2, <1>5, <1>6, <1>7, <1>8, <1>9, <1>10, CalmStep

LEMMA MoveSnapshotsStores ==
    ASSUME TabsInv, StoresInv, NEW t \in Threads, NEW i \in Ids, NEW p \in Paths, MoveSnapshots(t, i, p)
    PROVE  StoresInv'
<1> DEFINE rest == thr[t].todo \ {<<i, p>>}
           w == [thr[t] EXCEPT !.pc = "bind", !.id = i, !.path = p, !.old = Tab(i).path,
                               !.text = Tab(i).text, !.rev = Tab(i).rev, !.obj = tabs[i], !.todo = rest]
<1>1. /\ At(t, "move", "next") /\ Again(t, i) /\ UNCHANGED <<heap, tabs, byPath, byId, vfs, workers>>
      /\ \/ i \in Live /\ thr' = [thr EXCEPT ![t] = w] /\ Meet(t, i, {p, Tab(i).path})
         \/ thr' = [thr EXCEPT ![t] = NextOf(t, rest)] /\ UNCHANGED <<tangled, smeared>>
  BY DEF MoveSnapshots, Go
<1>2. thr[t].id \in {i, NoId}
  BY <1>1 DEF StoresInv, Shaped, Again, At
<1>3. CASE i \in Live /\ thr' = [thr EXCEPT ![t] = w] /\ Meet(t, i, {p, Tab(i).path})
  <2>1. /\ w.op = "move" /\ w.pc = "bind" /\ w.id = i /\ w.path = p /\ w.old = Tab(i).path /\ w.tries = thr[t].tries
        /\ w.text = Tab(i).text /\ w.rev = Tab(i).rev
    BY <1>1, WorkIsTyped DEF At, Works
  <2> HIDE DEF w
  <2>2. thr[t].pc = "next" /\ thr[t].op = "move" /\ thr[t].op \in Structural
    BY <1>1 DEF At, Structural
  <2>3. PICK ps : ps = {p, Tab(i).path}
    OBVIOUS
  <2>4. Meet(t, i, ps) /\ w.path \in ps /\ Tab(i).path \in ps
    BY <1>3, <2>1, <2>3
  <2>5. i \in Live /\ thr' = [thr EXCEPT ![t] = w] /\ UNCHANGED <<heap, tabs, byPath, byId, vfs, workers>>
    BY <1>1, <1>3
  <2>6. /\ w.op = thr[t].op
        /\ \/ w.op = "move" /\ w.pc = "bind" /\ w.path \in ps /\ w.old = Tab(i).path
           \/ w.op \in {"reclassify", "rebuild"} /\ w.pc \in {"bind", "compare"} /\ w.path = Tab(i).path /\ w.old = NoPath
    BY <2>1, <2>2, <2>4
  <2>7. w.id = i /\ w.text = Tab(i).text /\ w.rev = Tab(i).rev /\ w.tries = thr[t].tries
    BY <2>1
  <2> QED BY <1>2, <2>2, <2>4, <2>5, <2>6, <2>7, TakesUp
<1>4. CASE thr' = [thr EXCEPT ![t] = NextOf(t, rest)] /\ UNCHANGED <<tangled, smeared>>
  BY <1>1, <1>4, GivingUpStores DEF At, Structural
<1> QED BY <1>1, <1>3, <1>4

LEMMA BatchSnapshotsStores ==
    ASSUME TabsInv, StoresInv, NEW t \in Threads, NEW i \in Ids, BatchSnapshots(t, i)
    PROVE  StoresInv'
<1> DEFINE rest == thr[t].todo \ {i}
           pc == IF thr[t].op = "rebuild" THEN "compare" ELSE "bind"
           w == [thr[t] EXCEPT !.pc = pc, !.id = i, !.path = Tab(i).path, !.obj = tabs[i],
                               !.text = Tab(i).text, !.rev = Tab(i).rev, !.todo = rest]
<1>1. /\ thr[t].op \in {"reclassify", "rebuild"} /\ thr[t].pc = "next" /\ Again(t, i)
      /\ UNCHANGED <<heap, tabs, byPath, byId, vfs, workers>>
      /\ \/ i \in Live /\ thr' = [thr EXCEPT ![t] = w] /\ Meet(t, i, {Tab(i).path})
         \/ thr' = [thr EXCEPT ![t] = NextOf(t, rest)] /\ UNCHANGED <<tangled, smeared>>
  BY DEF BatchSnapshots, Go, Concerned
<1>2. thr[t].id \in {i, NoId} /\ thr[t].old = NoPath
  BY <1>1 DEF StoresInv, Shaped, Again
<1>3. CASE i \in Live /\ thr' = [thr EXCEPT ![t] = w] /\ Meet(t, i, {Tab(i).path})
  <2>1. /\ w.op = thr[t].op /\ w.pc \in {"bind", "compare"} /\ w.id = i /\ w.path = Tab(i).path /\ w.old = NoPath /\ w.tries = thr[t].tries
        /\ w.text = Tab(i).text /\ w.rev = Tab(i).rev
    BY <1>1, <1>2, WorkIsTyped DEF Works
  <2> HIDE DEF w
  <2>2. thr[t].op \in Structural
    BY <1>1 DEF Structural
  <2>3. PICK ps : ps = {Tab(i).path}
    OBVIOUS
  <2>4. Meet(t, i, ps) /\ Tab(i).path \in ps
    BY <1>3, <2>3
  <2> QED BY <1>1, <1>2, <1>3, <2>1, <2>2, <2>4, TakesUp
<1>4. CASE thr' = [thr EXCEPT ![t] = NextOf(t, rest)] /\ UNCHANGED <<tangled, smeared>>
  BY <1>1, <1>4, GivingUpStores DEF Structural
<1> QED BY <1>1, <1>3, <1>4

-----------------------------------------------------------------------------

\* A thread's document that nobody else touched is registered, but while it moves.
LEMMA IsRegistered ==
    ASSUME TabsInv, StoresInv, NEW j \in Live \ smeared, \A u \in Threads : thr[u].id = j => ~Leaving(u)
    PROVE  byId[j] = Tab(j).path /\ (Tab(j).path # NoPath => byPath[Tab(j).path] = j)
<1>1. byId[j] = Tab(j).path
  BY RegisteredOrMoving
<1>2. j \in Ids /\ Tab(j).path \in Paths \union {NoPath}
  BY TabIsRecord DEF TabRecords, Live
<1> QED BY <1>1, <1>2 DEF TabsInv, OneToOne

LEMMA OwnRegistered ==
    ASSUME TabsInv, StoresInv, NEW t \in Threads, NEW i, i = thr[t].id, i \in Live \ smeared, ~Leaving(t)
    PROVE  byId[i] = Tab(i).path /\ (Tab(i).path # NoPath => byPath[Tab(i).path] = i)
<1>1. \A u \in Threads : thr[u].id = i => u = t
  BY DEF StoresInv, Apart, Live
<1> QED BY <1>1, IsRegistered

\* What a thread leaves behind, and who writes the file of its document.
LEMMA StillLeft ==
    ASSUME TabsInv, StoresInv, NEW t \in Threads, NEW w, thr' = [thr EXCEPT ![t] = w], smeared \subseteq smeared',
           smeared' = {} => \A p \in Paths : Unowned(p)' => (Unowned(p) /\ (Left(t, p) => Left(t, p)')) \/ Left(t, p)'
    PROVE  LeftBehind'
<1> SUFFICES ASSUME smeared' = {}, NEW p \in Paths, Unowned(p)' PROVE \E u \in Threads : Left(u, p)'
  BY DEF LeftBehind
<1>1. CASE Left(t, p)'
  BY <1>1
<1>2. CASE Unowned(p) /\ (Left(t, p) => Left(t, p)')
  <2>1. PICK u \in Threads : Left(u, p)
    BY <1>2 DEF StoresInv, LeftBehind
  <2>2. CASE u # t
    <3>1. thr'[u] = thr[u]
      BY <2>2 DEF TabsInv
    <3> QED BY <2>1, <3>1 DEF Left
  <2> QED BY <1>2, <2>1, <2>2
<1> QED BY <1>1, <1>2

LEMMA FileStays ==
    ASSUME TabsInv, StoresInv, NEW t \in Threads, NEW w, thr' = [thr EXCEPT ![t] = w],
           NEW i \in Live \ smeared, Tab(i)'.path = Tab(i).path, Tab(i)'.text = Tab(i).text,
           Tab(i).path # NoPath => vfs'[Tab(i).path] = vfs[Tab(i).path],
           thr[t].id = i /\ Pending(t) => w.id = i /\ Pending(t)'
    PROVE  FileOf(i)'
<1>1. thr'[t] = w /\ \A u \in Threads \ {t} : thr'[u] = thr[u]
  BY DEF TabsInv
<1>2. \A u \in Threads : thr[u].id = i /\ Pending(u) => thr'[u].id = i /\ Pending(u)'
  BY <1>1 DEF Pending, At
<1> QED BY <1>2 DEF StoresInv, FileOf

LEMMA PutIsTyped ==
    ASSUME NEW p, p \in Paths \union {NoPath}, NEW x, x \in Int, vfs \in [Paths -> Int], vfs' = Put(vfs, p, x)
    PROVE  vfs' \in [Paths -> Int] /\ \A q \in Paths : (q = p => vfs'[q] = x) /\ (q # p => vfs'[q] = vfs[q])
<1>1. CASE p = NoPath
  BY <1>1, NoIdIsNone DEF Put
<1>2. CASE p # NoPath
  BY <1>2 DEF Put
<1> QED BY <1>1, <1>2

LEMMA HardCloseStores ==
    ASSUME TabsInv, StoresInv, NEW t \in Threads, NEW i \in Ids, HardClose(t, i)
    PROVE  StoresInv'
<1> DEFINE p == Tab(i).path
           w == [Idle EXCEPT !.op = "close", !.pc = "remove", !.id = i, !.path = p]
<1>1. /\ thr[t] = Idle /\ i \in Live /\ thr' = [thr EXCEPT ![t] = w] /\ Meet(t, i, {p})
      /\ workers' = [workers EXCEPT ![i] = 0] /\ vfs' = Put(vfs, p, NoVersion)
      /\ UNCHANGED <<heap, tabs, byPath, byId>>
  BY DEF HardClose, Begin, Go
<1>2. w.op = "close" /\ w.pc = "remove" /\ w.id = i /\ w.path = p /\ w.old = NoPath /\ w.tries = 0
  BY DEF Idle
<1> HIDE DEF w
<1>3. thr'[t] = w /\ thr[t].id = NoId /\ thr[t].op = "none" /\ thr[t].pc = "idle"
  BY <1>1, IdleWork DEF TabsInv
<1>4. Sole(t, i) /\ tangled \subseteq tangled' /\ p \in Paths \union {NoPath}
  BY <1>1, MeetIsSole, TabIsRecord DEF TabRecords
<1>5. /\ smeared \subseteq smeared' /\ tangled' \subseteq smeared'
      /\ Met(t, w) /\ Smears(t, i) /\ Visits(w, i)
  <2>1. PlacesOf(w) \subseteq {p}
    BY <1>2 DEF PlacesOf
  <2> QED BY <1>1, <1>2, <1>3, <2>1, MeetKnown
<1>6. vfs' \in [Paths -> Int] /\ \A q \in Paths : (q = p => vfs'[q] = NoVersion) /\ (q # p => vfs'[q] = vfs[q])
  <2>1. vfs \in [Paths -> Int] /\ NoVersion \in Int
    BY DEF StoresInv, StoresTyped, NoVersion
  <2>2. vfs' = Put(vfs, p, NoVersion) /\ p \in Paths \union {NoPath}
    BY <1>1, <1>4
  <2> HIDE DEF p
  <2> QED BY <2>1, <2>2, PutIsTyped
<1>7. workers' \in [Ids -> Nat] /\ workers'[i] = 0 /\ \A j \in Ids \ {i} : workers'[j] = workers[j]
  BY <1>1 DEF StoresInv, StoresTyped
<1>8. Live' = Live /\ Tab(i)' = Tab(i) /\ Elsewhere(i)
  BY <1>1, <1>7 DEF Live, Tab, Elsewhere
<1>9. Framed(t, w, i)
  <2>1. StepAt(t, w, i)
    BY <1>1, <1>2, <1>3, <1>4, <1>5, <1>8 DEF StepAt
  <2>2. WritesAt(t, i) /\ Arrives(t, i)
    BY <1>1, <1>6, <1>8 DEF WritesAt, Arrives
  <2> QED BY <1>5, <2>1, <2>2 DEF Framed
<1>10. StoresTyped'
  BY <1>5, <1>6, <1>7 DEF StoresTyped
<1>11. Shaped(t)' /\ Half(t)' /\ OwnState(t)' /\ HasTask(i)' /\ FileOf(i)'
  BY <1>1, <1>2, <1>3, <1>7, <1>8, NoIdIsNone
  DEF Shaped, Retries, Half, OwnState, HasTask, Structural, FileOf, Pending, At
<1>12. i \notin smeared' => byId[i] = p
  <2> SUFFICES ASSUME i \notin smeared' PROVE byId[i] = p
    OBVIOUS
  <2>1. \A u \in Threads : thr[u].id # i
    BY <1>2, <1>3, <1>5, NoIdIsNone DEF Met
  <2> QED BY <1>1, <1>5, <2>1, IsRegistered
<1>13. Knows(t)'
  BY <1>1, <1>2, <1>3, <1>4, <1>6, <1>8, <1>12 DEF Knows, PlaceOf, Leaving
<1>14. LeftBehind'
  BY <1>1, <1>3, <1>5, <1>6, StillLeft DEF Unowned, Left
<1> QED BY <1>9, <1>10, <1>11, <1>13, <1>14, StoresStep

LEMMA DeleteClosesStores ==
    ASSUME TabsInv, StoresInv, NEW t \in Threads, NEW i \in Ids, DeleteCloses(t, i)
    PROVE  StoresInv'
<1> DEFINE p == Tab(i).path
           rest == thr[t].todo \ {i}
           w == [thr[t] EXCEPT !.pc = "teardown", !.id = i, !.path = p, !.todo = rest]
<1>1. At(t, "delete", "next") /\ UNCHANGED <<byPath, byId, vfs, workers>>
  BY DEF DeleteCloses
<1>2. \/ /\ i \in Live /\ tabs' = [tabs EXCEPT ![i] = 0] /\ thr' = [thr EXCEPT ![t] = w]
         /\ Meet(t, i, {p}) /\ UNCHANGED heap
      \/ /\ i \in Live /\ heap' = [heap EXCEPT ![tabs[i]].missing = TRUE]
         /\ thr' = [thr EXCEPT ![t] = NextOf(t, rest)] /\ UNCHANGED <<tabs, tangled, smeared>>
      \/ thr' = [thr EXCEPT ![t] = NextOf(t, rest)] /\ UNCHANGED <<heap, tabs, tangled, smeared>>
  BY DEF DeleteCloses, Go
<1>3. thr[t].op = "delete" /\ thr[t].pc = "next" /\ thr[t].id = NoId /\ thr[t].old = NoPath /\ ~Retries(t)
  BY <1>1 DEF At, StoresInv, Shaped
<1>4. tangled \subseteq smeared /\ vfs \in [Paths -> Int] /\ workers \in [Ids -> Nat]
  BY DEF StoresInv, StoresTyped
<1>5. CASE /\ i \in Live /\ tabs' = [tabs EXCEPT ![i] = 0] /\ thr' = [thr EXCEPT ![t] = w]
           /\ Meet(t, i, {p}) /\ UNCHANGED heap
  <2>1. w.op = "delete" /\ w.pc = "teardown" /\ w.id = i /\ w.path = p /\ w.old = NoPath /\ w.tries = thr[t].tries
    BY <1>3, WorkIsTyped DEF Works
  <2> HIDE DEF w
  <2>2. thr'[t] = w
    BY <1>5 DEF TabsInv
  <2>3. Sole(t, i) /\ tangled \subseteq tangled'
    BY <1>5, MeetIsSole
  <2>4. /\ smeared \subseteq smeared' /\ tangled' \subseteq smeared'
        /\ Met(t, w) /\ Smears(t, i) /\ Visits(w, i)
    <3>1. PlacesOf(w) \subseteq {p}
      BY <2>1 DEF PlacesOf
    <3> QED BY <1>3, <1>5, <2>1, <3>1, MeetKnown
  <2>5. tabs'[i] = 0 /\ i \notin Live' /\ Elsewhere(i)
    BY <1>1, <1>5 DEF TabsInv, MapsTyped, Live, Elsewhere
  <2>6. Framed(t, w, i)
    <3>1. StepAt(t, w, i)
      BY <1>3, <1>5, <2>1, <2>3, <2>4, <2>5 DEF StepAt
    <3>2. WritesAt(t, i) /\ Arrives(t, i)
      BY <1>1, <2>5 DEF WritesAt, Arrives
    <3> QED BY <2>4, <3>1, <3>2 DEF Framed
  <2>7. StoresTyped'
    BY <1>1, <1>4, <2>4 DEF StoresTyped
  <2>8. Shaped(t)' /\ Half(t)' /\ OwnState(t)' /\ HasTask(i)'
    BY <1>3, <2>1, <2>2, <2>5, NoIdIsNone DEF Shaped, Retries, Half, OwnState, HasTask, Structural
  <2>9. i \notin smeared' => byId[i] = p
    <3> SUFFICES ASSUME i \notin smeared' PROVE byId[i] = p
      OBVIOUS
    <3>1. \A u \in Threads : thr[u].id # i
      BY <1>3, <2>1, <2>4, NoIdIsNone DEF Met
    <3> QED BY <1>5, <2>4, <3>1, IsRegistered
  <2>10. Knows(t)'
    BY <1>1, <2>1, <2>2, <2>5, <2>9 DEF Knows
  <2>11. LeftBehind'
    BY <1>1, <1>3, <1>5, <2>4, StillLeft DEF Unowned, Left
  <2> QED BY <2>5, <2>6, <2>7, <2>8, <2>10, <2>11, StoresStep
<1>6. Freed(NextOf(t, rest))
  BY <1>3, NextIsFreed DEF Structural
<1>7. CASE /\ i \in Live /\ heap' = [heap EXCEPT ![tabs[i]].missing = TRUE]
           /\ thr' = [thr EXCEPT ![t] = NextOf(t, rest)] /\ UNCHANGED <<tabs, tangled, smeared>>
  <2>1. Calm
    BY <1>1, <1>7, TabIsRecord, FlagIsCalm
  <2> QED BY <1>3, <1>4, <1>6, <1>7, <2>1, GivesUp
<1>8. CASE thr' = [thr EXCEPT ![t] = NextOf(t, rest)] /\ UNCHANGED <<heap, tabs, tangled, smeared>>
  BY <1>1, <1>3, <1>8, GivingUpStores DEF Structural
<1> QED BY <1>2, <1>5, <1>7, <1>8

\* A thread goes on with its document, or lets go of it, and nobody is met.
LEMMA OwnFrame ==
    ASSUME TabsInv, StoresInv, NEW t \in Threads, NEW i \in Ids, i = thr[t].id, NEW w, thr' = [thr EXCEPT ![t] = w],
           UNCHANGED <<smeared, tangled>>,
           (w.id = i /\ PlacesOf(w) \subseteq Places(t)) \/ (w.id = NoId /\ PlacesOf(w) = {}),
           thr[t].op \in Structural \/ UNCHANGED <<tabs, byId, workers>>,
           w.id = NoId \/ \A j \in Live \ (smeared \union {i}) : Tab(j).path \in Places(t) => ~Refused(t, Tab(j).path),
           Elsewhere(i), WritesAt(t, i), Arrives(t, i), tabs'[i] \in {tabs[i], 0} \/ tabs'[i] \notin Built
    PROVE  Framed(t, w, i)
<1>1. Met(t, w) /\ Smears(t, i) /\ Visits(w, i)
  BY GoesOn
<1>2. thr[t].op \in Structural => Sole(t, i)
  BY OwnerIsSole
<1>3. StepAt(t, w, i)
  BY <1>2 DEF StepAt
<1> QED BY <1>1, <1>3 DEF Framed

\* One that has its registry entry, its files or its worker changed, and no text.
LEMMA OwnTabStays ==
    ASSUME TabsInv, NEW t \in Threads, NEW i \in Ids, UNCHANGED <<heap, tabs>>,
           \A j \in Ids \ {i} : byId'[j] = byId[j] /\ workers'[j] = workers[j]
    PROVE  Elsewhere(i) /\ Arrives(t, i) /\ Live' = Live /\ tabs'[i] = tabs[i] /\ Tab(i)' = Tab(i)
BY DEF Elsewhere, Arrives, Live, Tab

LEMMA BindMeans ==
    ASSUME TabsInv, NEW i \in Ids, NEW p \in Paths \union {NoPath}, Bind(i, p)
    PROVE  /\ byId'[i] = p /\ \A j \in Ids \ {i} : byId'[j] = byId[j]
           /\ \A q \in Paths : byPath'[q] = NoId => q # p /\ (byPath[q] = NoId \/ q = byId[i])
BY NoIdIsNone DEF TabsInv, MapsTyped, Bind

LEMMA RegisterStores == ASSUME TabsInv, StoresInv, NEW t \in Threads, Register(t) PROVE StoresInv'
<1> PICK i, p : i = thr[t].id /\ p = thr[t].path
  OBVIOUS
<1> DEFINE w == [thr[t] EXCEPT !.pc = "insert"]
<1>1. /\ At(t, "open", "register") /\ UNCHANGED <<heap, tabs, vfs, workers, tangled, smeared>>
      /\ \/ Bind(i, p) /\ thr' = [thr EXCEPT ![t] = w]
         \/ thr' = [thr EXCEPT ![t] = Idle] /\ UNCHANGED <<byPath, byId>>
  BY DEF Register, Go, Step
<1>2. CASE thr' = [thr EXCEPT ![t] = Idle] /\ UNCHANGED <<byPath, byId>>
  BY <1>1, <1>2, GivingUpStores
<1>3. CASE Bind(i, p) /\ thr' = [thr EXCEPT ![t] = w]
  <2>1. /\ w.op = "open" /\ w.pc = "insert" /\ w.id = i /\ w.path = p /\ w.old = thr[t].old /\ w.tries = thr[t].tries
        /\ thr[t].op = "open" /\ thr[t].pc = "register" /\ i \in Ids /\ p \in Paths \union {NoPath}
    BY <1>1, WorkIsTyped DEF At, Works
  <2> HIDE DEF w
  <2>2. thr'[t] = w /\ Shaped(t) /\ Half(t) /\ Knows(t) /\ tangled \subseteq smeared
    BY <1>3 DEF TabsInv, StoresInv, StoresTyped
  <2>3. /\ byId'[i] = p /\ \A j \in Ids \ {i} : byId'[j] = byId[j]
        /\ \A q \in Paths : byPath'[q] = NoId => q # p /\ (byPath[q] = NoId \/ q = byId[i])
    BY <1>3, <2>1, BindMeans
  <2>4. Elsewhere(i) /\ Arrives(t, i) /\ Live' = Live /\ tabs'[i] = tabs[i] /\ Tab(i)' = Tab(i) /\ WritesAt(t, i)
    BY <1>1, <2>1, <2>3, OwnTabStays DEF WritesAt
  <2>5. Framed(t, w, i)
    <3>1. PlacesOf(w) \subseteq Places(t) /\ thr[t].op \in Structural /\ \A j \in Live : ~Refused(t, Tab(j).path)
      BY <2>1 DEF PlacesOf, Places, Structural, Refused, At
    <3> QED BY <1>1, <1>3, <2>1, <2>4, <3>1, OwnFrame
  <2>6. i \notin tangled => i \notin Live /\ workers[i] = 0 /\ byId[i] = NoId
    BY <2>1, <2>2 DEF Half, Structural
  <2>7. StoresTyped'
    BY <1>1 DEF StoresInv, StoresTyped
  <2>8. Shaped(t)' /\ Half(t)' /\ OwnState(t)' /\ HasTask(i)'
    BY <1>1, <2>1, <2>2, <2>4, <2>6, NoIdIsNone DEF Shaped, Retries, Half, OwnState, HasTask, Structural
  <2>9. Knows(t)'
    BY <1>1, <2>1, <2>2, <2>4 DEF Knows, PlaceOf, Leaving
  <2>10. LeftBehind'
    BY <1>1, <1>3, <2>1, <2>2, <2>3, <2>6, NoIdIsNone, StillLeft DEF Unowned, Left
  <2>11. i \notin Live' \ smeared'
    BY <1>1, <2>2, <2>4, <2>6
  <2> QED BY <2>1, <2>5, <2>7, <2>8, <2>9, <2>10, <2>11, StoresStep
<1> QED BY <1>1, <1>2, <1>3

LEMMA NewObjIsPositive == ASSUME TabsInv PROVE Cardinality(Built) + 1 \in Nat \ {0}
<1>1. PICK n \in Nat : Built = 1..n
  BY DEF TabsInv, HeapTyped
<1>2. Cardinality(Built) = n
  BY <1>1, FS_Interval
<1> QED BY <1>2

\* A TabState that a thread has built and put in the map.
LEMMA Installed ==
    ASSUME TabsInv, NEW t \in Threads, NEW i \in Ids, NEW rec, InstallFor(i, rec), UNCHANGED <<byId, workers>>,
           rec.path = thr[t].path, thr[t].pc # "bind", thr[t].path \in Paths \union {NoPath}
    PROVE  /\ tabs'[i] = Cardinality(Built) + 1 /\ tabs'[i] \notin Built /\ i \in Live' /\ Tab(i)' = rec
           /\ Elsewhere(i) /\ Arrives(t, i)
<1> DEFINE m == Cardinality(Built) + 1
<1>1. m \in Nat \ {0} /\ m \notin Built
  BY NewObjIsNew, NewObjIsPositive
<1>2. /\ heap' = [k \in Built \union {m} |-> IF k \in Built THEN heap[k] ELSE rec]
      /\ tabs' = [tabs EXCEPT ![i] = m]
  BY DEF InstallFor
<1> HIDE DEF m
<1>3. tabs'[i] = m /\ \A j \in Ids \ {i} : tabs'[j] = tabs[j]
  BY <1>2 DEF TabsInv, MapsTyped
<1>4. i \in Live' /\ Tab(i)' = rec
  BY <1>1, <1>2, <1>3 DEF Live, Tab
<1>5. Elsewhere(i)
  BY <1>2, <1>3 DEF Elsewhere, TabsInv, MapsTyped
<1>6. Arrives(t, i)
  BY <1>4 DEF Arrives, Places, PlacesOf, At
<1> QED BY <1>1, <1>3, <1>4, <1>5, <1>6 DEF m

LEMMA InsertStores == ASSUME TabsInv, StoresInv, NEW t \in Threads, Insert(t) PROVE StoresInv'
<1> PICK i, p : i = thr[t].id /\ p = thr[t].path
  OBVIOUS
<1> DEFINE rec == [path |-> p, ws |-> Anchored(p), text |-> 0, rev |-> 0,
                   dirty |-> FALSE, hidden |-> FALSE, missing |-> FALSE, known |-> FALSE]
           w == [thr[t] EXCEPT !.pc = "rotate", !.obj = Cardinality(Built) + 1]
<1>1. /\ At(t, "open", "insert") /\ InstallFor(i, rec) /\ thr' = [thr EXCEPT ![t] = w]
      /\ UNCHANGED <<byId, byPath, vfs, workers, tangled, smeared>>
  BY DEF Insert, Go
<1>2. /\ w.op = "open" /\ w.pc = "rotate" /\ w.id = i /\ w.path = p /\ w.old = thr[t].old /\ w.tries = thr[t].tries
      /\ w.obj = Cardinality(Built) + 1
      /\ thr[t].op = "open" /\ thr[t].pc = "insert" /\ i \in Ids /\ p \in Paths \union {NoPath}
  BY <1>1, WorkIsTyped DEF At, Works
<1>3. rec.path = p
  OBVIOUS
<1> HIDE DEF w, rec
<1>4. thr'[t] = w /\ Shaped(t) /\ tangled \subseteq smeared
  BY <1>1 DEF TabsInv, StoresInv, StoresTyped
<1>5. /\ tabs'[i] = w.obj /\ tabs'[i] \notin Built /\ i \in Live' /\ Tab(i)' = rec
      /\ Elsewhere(i) /\ Arrives(t, i)
  BY <1>1, <1>2, <1>3, Installed
<1>6. Framed(t, w, i)
  <2>1. PlacesOf(w) \subseteq Places(t) /\ thr[t].op \in Structural /\ \A j \in Live : ~Refused(t, Tab(j).path)
    BY <1>2 DEF PlacesOf, Places, Structural, Refused, At
  <2>2. WritesAt(t, i)
    BY <1>1 DEF WritesAt
  <2> QED BY <1>1, <1>2, <1>5, <2>1, <2>2, OwnFrame
<1>7. StoresTyped' /\ LeftBehind'
  BY <1>1, <1>2, StillLeft DEF StoresInv, StoresTyped, Unowned, Left
<1>8. Shaped(t)' /\ Half(t)' /\ OwnState(t)' /\ HasTask(i)' /\ FileOf(i)'
  BY <1>2, <1>4, <1>5, NoIdIsNone DEF Shaped, Retries, Half, OwnState, HasTask, Structural, FileOf, Pending, At
<1>9. Knows(t)'
  BY <1>2, <1>3, <1>4, <1>5 DEF Knows, PlaceOf, Leaving
<1> QED BY <1>2, <1>6, <1>7, <1>8, <1>9, StoresStep

LEMMA RotateStores == ASSUME TabsInv, StoresInv, NEW t \in Threads, Rotate(t) PROVE StoresInv'
<1> PICK i : i = thr[t].id
  OBVIOUS
<1> DEFINE v == [thr[t] EXCEPT !.pc = "publish"]
<1>1. /\ thr[t].pc = "rotate" /\ workers' = [workers EXCEPT ![i] = thr[t].obj]
      /\ UNCHANGED <<heap, tabs, byPath, byId, vfs, tangled, smeared>>
      /\ \/ thr[t].op = "open" /\ thr' = [thr EXCEPT ![t] = v]
         \/ thr[t].op # "open" /\ thr' = [thr EXCEPT ![t] = NextOf(t, thr[t].todo)]
  BY DEF Rotate, Go, Step
<1>2. i \in Ids /\ thr[t].op \in Structural /\ thr[t].obj \in Nat
  BY <1>1, StructuralOrEdit, WorkIsTyped DEF Works
<1>3. Shaped(t) /\ Half(t) /\ Knows(t) /\ tangled \subseteq smeared
  BY DEF StoresInv, StoresTyped
<1>4. workers' \in [Ids -> Nat] /\ workers'[i] = thr[t].obj /\ \A j \in Ids \ {i} : workers'[j] = workers[j]
  BY <1>1, <1>2 DEF StoresInv, StoresTyped
<1>5. Elsewhere(i) /\ Arrives(t, i) /\ Live' = Live /\ tabs'[i] = tabs[i] /\ Tab(i)' = Tab(i) /\ WritesAt(t, i)
  BY <1>1, <1>2, <1>4, OwnTabStays DEF WritesAt
<1>6. StoresTyped'
  BY <1>1, <1>4 DEF StoresInv, StoresTyped
<1>7. i \notin tangled => i \in Live /\ workers'[i] = tabs'[i]
  BY <1>1, <1>2, <1>3, <1>4, <1>5 DEF Half
<1>8. \A j \in Live : ~Refused(t, Tab(j).path)
  BY <1>1 DEF Refused, At
<1>9. CASE thr[t].op = "open" /\ thr' = [thr EXCEPT ![t] = v]
  <2>1. v.op = "open" /\ v.pc = "publish" /\ v.id = i /\ v.path = thr[t].path /\ v.old = thr[t].old /\ v.tries = thr[t].tries
    BY <1>9, WorkIsTyped DEF Works
  <2> HIDE DEF v
  <2>2. thr'[t] = v
    BY <1>9 DEF TabsInv
  <2>3. Framed(t, v, i)
    <3>1. PlacesOf(v) \subseteq Places(t)
      BY <2>1 DEF PlacesOf, Places
    <3> QED BY <1>1, <1>2, <1>5, <1>8, <1>9, <2>1, <3>1, OwnFrame
  <2>4. Shaped(t)' /\ Half(t)' /\ OwnState(t)' /\ HasTask(i)' /\ FileOf(i)'
    BY <1>1, <1>2, <1>3, <1>5, <1>7, <1>9, <2>1, <2>2, NoIdIsNone
    DEF Shaped, Retries, Half, OwnState, HasTask, Structural, FileOf, Pending, At
  <2>5. Knows(t)'
    BY <1>1, <1>3, <1>5, <1>9, <2>1, <2>2 DEF Knows, PlaceOf, Leaving
  <2>6. LeftBehind'
    BY <1>1, <1>9, StillLeft DEF Unowned, Left
  <2> QED BY <1>2, <1>6, <2>3, <2>4, <2>5, <2>6, StoresStep
<1>10. CASE thr[t].op # "open" /\ thr' = [thr EXCEPT ![t] = NextOf(t, thr[t].todo)]
  <2> PICK w : w = NextOf(t, thr[t].todo)
    OBVIOUS
  <2>1. Freed(w) /\ thr' = [thr EXCEPT ![t] = w]
    BY <1>2, <1>10, NextIsFreed
  <2>2. Shaped(t)' /\ Half(t)' /\ Knows(t)' /\ OwnState(t)' /\ PlacesOf(w) = {} /\ w.id = NoId
    BY <2>1, FreedIsRight
  <2>3. Framed(t, w, i)
    BY <1>1, <1>2, <1>5, <2>1, <2>2, OwnFrame
  <2>4. i \in Ids \ tangled' => AtRest(i)'
    BY <1>1, <1>5, <1>7 DEF AtRest
  <2>5. i \in Live' \ smeared' => FileOf(i)'
    BY <1>1, <1>5, <1>10, <2>1, FileStays DEF Pending, At
  <2>6. LeftBehind'
    BY <1>1, <2>1, StillLeft DEF Unowned, Left
  <2> QED BY <1>2, <1>6, <2>2, <2>3, <2>4, <2>5, <2>6, StoresStep
<1> QED BY <1>1, <1>9, <1>10

LEMMA PublishStores == ASSUME TabsInv, StoresInv, NEW t \in Threads, Publish(t) PROVE StoresInv'
<1> PICK i : i = thr[t].id
  OBVIOUS
<1> DEFINE p == Tab(i).path
<1>1. /\ At(t, "open", "publish") /\ thr' = [thr EXCEPT ![t] = Idle]
      /\ UNCHANGED <<tabs, byPath, byId, workers, tangled, smeared>>
      /\ \/ /\ i \in Live /\ vfs' = Put(vfs, p, Tab(i).text)
            /\ heap' = [heap EXCEPT ![tabs[i]].known = (p # NoPath)]
         \/ i \notin Live /\ UNCHANGED <<vfs, heap>>
  BY DEF Publish, Go
<1>2. thr[t].op = "open" /\ thr[t].pc = "publish" /\ i \in Ids /\ thr[t].op \in Structural
  BY <1>1, WorkIsTyped DEF At, Structural
<1>3. Freed(Idle) /\ tangled \subseteq smeared /\ Half(t) /\ vfs \in [Paths -> Int]
  BY ReclassifyIsFreed DEF StoresInv, StoresTyped
<1>4. i \notin tangled => i \in Live /\ workers[i] = tabs[i]
  BY <1>2, <1>3 DEF Half
<1>5. CASE i \notin Live /\ UNCHANGED <<vfs, heap>>
  <2>1. Calm
    BY <1>1, <1>5 DEF Calm, Built
  <2> QED BY <1>1, <1>2, <1>3, <1>4, <1>5, <2>1, GivesUp
<1>6. CASE /\ i \in Live /\ vfs' = Put(vfs, p, Tab(i).text)
           /\ heap' = [heap EXCEPT ![tabs[i]].known = (p # NoPath)]
  <2>1. Tab(i).path \in Paths \union {NoPath} /\ Tab(i).text \in Int
    BY <1>6, TabIsRecord DEF TabRecords
  <2>2. vfs' \in [Paths -> Int] /\ \A q \in Paths : (q = p => vfs'[q] = Tab(i).text) /\ (q # p => vfs'[q] = vfs[q])
    BY <1>3, <1>6, <2>1, PutIsTyped
  <2>3. \A n \in Built : n \in Built' /\ heap'[n].path = heap[n].path /\ heap'[n].text = heap[n].text /\ heap'[n].rev = heap[n].rev
    <3> DEFINE b == (p # NoPath)
               r == [heap[tabs[i]] EXCEPT !.known = b]
    <3>1. heap' = [heap EXCEPT ![tabs[i]] = r] /\ tabs[i] \in Built /\ heap \in [Built -> TabRecords]
      BY <1>6, TabIsRecord DEF TabsInv, HeapTyped
    <3>2. r.path = heap[tabs[i]].path /\ r.text = heap[tabs[i]].text /\ r.rev = heap[tabs[i]].rev
      BY <3>1 DEF TabRecords
    <3> HIDE DEF r
    <3> QED BY <3>1, <3>2 DEF Built
  <2>4. Elsewhere(i) /\ Live' = Live /\ tabs'[i] = tabs[i] /\ Tab(i)'.path = p /\ Tab(i)'.text = Tab(i).text
    BY <1>1, <1>6, <2>3 DEF Elsewhere, Live, Tab, TabsInv, MapsTyped
  <2>5. WritesAt(t, i) /\ Arrives(t, i)
    BY <1>6, <2>2, <2>4 DEF WritesAt, Arrives
  <2>6. Shaped(t)' /\ Half(t)' /\ Knows(t)' /\ OwnState(t)' /\ PlacesOf(Idle) = {} /\ Idle.id = NoId
    BY <1>1, <1>3, FreedIsRight
  <2>7. Framed(t, Idle, i)
    BY <1>1, <1>2, <2>4, <2>5, <2>6, OwnFrame
  <2>8. i \in Ids \ tangled' => AtRest(i)'
    BY <1>1, <1>4, <2>4 DEF AtRest
  <2>9. FileOf(i)'
    BY <2>1, <2>2, <2>4 DEF FileOf
  <2>10. i \notin smeared /\ p # NoPath => byPath[p] = i
    BY <1>2, <1>6, OwnRegistered DEF Leaving
  <2>11. LeftBehind'
    <3>1. ASSUME smeared' = {}, NEW q \in Paths, Unowned(q)' PROVE Unowned(q) /\ ~Left(t, q)
      <4>1. q # p
        BY <1>1, <1>2, <2>10, <3>1, NoIdIsNone DEF Unowned
      <4> QED BY <1>1, <1>2, <2>2, <3>1, <4>1 DEF Unowned, Left
    <3> QED BY <1>1, <3>1, StillLeft
  <2>12. StoresTyped'
    BY <1>1, <2>2 DEF StoresInv, StoresTyped
  <2> QED BY <1>2, <2>6, <2>7, <2>8, <2>9, <2>11, <2>12, StoresStep
<1> QED BY <1>1, <1>5, <1>6

LEMMA EditSetsStores ==
    ASSUME TabsInv, StoresInv, NEW t \in Threads, NEW bump \in {0, 1}, EditSets(t, bump) PROVE StoresInv'
<1> PICK i, n : i = thr[t].id /\ n = thr[t].obj
  OBVIOUS
<1> DEFINE r == [heap[n] EXCEPT !.text = texts + 1, !.rev = heap[n].rev + bump, !.dirty = TRUE]
           w == [thr[t] EXCEPT !.pc = "publish", !.text = texts + 1]
<1>1. /\ thr[t].op \in {"edit", "swap"} /\ thr[t].pc = "set"
      /\ UNCHANGED <<tabs, byPath, byId, vfs, workers, tangled, smeared>>
      /\ \/ thr[t].op = "swap" /\ thr' = [thr EXCEPT ![t] = Idle] /\ UNCHANGED heap
         \/ heap' = [heap EXCEPT ![n] = r] /\ thr' = [thr EXCEPT ![t] = w]
  BY Zenon DEF EditSets, Go
<1>2. i \in Ids /\ thr[t].op \notin Structural /\ n \in Built /\ heap \in [Built -> TabRecords]
  BY <1>1, WorkIsTyped DEF Structural, TabsInv, Sane, HeapTyped
<1>3. CASE thr[t].op = "swap" /\ thr' = [thr EXCEPT ![t] = Idle] /\ UNCHANGED heap
  BY <1>1, <1>3, GivingUpStores DEF At
<1>4. CASE heap' = [heap EXCEPT ![n] = r] /\ thr' = [thr EXCEPT ![t] = w]
  <2>1. r.path = heap[n].path /\ r.text = texts + 1
    BY <1>2 DEF TabRecords
  <2>2. /\ w.op = thr[t].op /\ w.pc = "publish" /\ w.id = i /\ w.path = thr[t].path /\ w.old = thr[t].old /\ w.tries = thr[t].tries
        /\ w.text = texts + 1 /\ w.obj = n
    BY <1>1, WorkIsTyped DEF Works
  <2> HIDE DEF r, w
  <2>3. /\ thr'[t] = w /\ Shaped(t) /\ Half(t) /\ Knows(t) /\ OwnState(t) /\ tangled \subseteq smeared
    BY <1>4 DEF TabsInv, StoresInv, StoresTyped
  <2>4. \A k \in Built : heap'[k].path = heap[k].path /\ (k # n => heap'[k] = heap[k])
    BY <1>2, <1>4, <2>1
  <2>5. \A j \in Live : tabs[j] \in Built /\ (j # i => tabs[j] # n)
    BY <1>1, <2>3 DEF OwnState, TabsInv, MapsTyped, Live
  <2>6. Elsewhere(i) /\ Live' = Live /\ tabs'[i] = tabs[i] /\ (i \in Live => Tab(i)'.path = Tab(i).path)
    BY <1>1, <2>4, <2>5 DEF Elsewhere, Live, Tab
  <2>7. WritesAt(t, i) /\ Arrives(t, i)
    BY <1>1, <2>6 DEF WritesAt, Arrives
  <2>8. Framed(t, w, i)
    <3>1. PlacesOf(w) \subseteq Places(t) /\ \A j \in Live : ~Refused(t, Tab(j).path)
      BY <1>1, <2>2 DEF PlacesOf, Places, Refused, At
    <3> QED BY <1>1, <1>2, <1>4, <2>2, <2>6, <2>7, <3>1, OwnFrame
  <2>9. Shaped(t)' /\ Half(t)' /\ OwnState(t)' /\ FileOf(i)'
    BY <1>1, <1>2, <2>2, <2>3, NoIdIsNone DEF Shaped, Retries, Half, OwnState, FileOf, Pending
  <2>10. Knows(t)'
    <3> SUFFICES ASSUME i \in Ids \ smeared PROVE Knows(t)'
      BY <1>1, <2>2, <2>3 DEF Knows
    <3>1. i \in Live /\ n = tabs[i] /\ Tab(i).path = thr[t].path
      BY <1>1, <2>3 DEF Knows, PlaceOf, Leaving
    <3>2. Tab(i)'.text = texts + 1
      BY <1>1, <1>2, <1>4, <2>1, <3>1 DEF Tab
    <3> QED BY <1>1, <2>2, <2>3, <2>6, <3>1, <3>2 DEF Knows, PlaceOf, Leaving
  <2>11. i \in Ids \ tangled' => HasTask(i)' \/ AtRest(i)'
    <3>1. HasTask(i) => HasTask(i)'
      BY <1>2, <1>4 DEF HasTask, TabsInv
    <3>2. AtRest(i) => AtRest(i)'
      BY <1>1, <2>6 DEF AtRest
    <3> QED BY <1>1, <3>1, <3>2 DEF StoresInv
  <2>12. StoresTyped' /\ LeftBehind'
    BY <1>1, <1>4, StillLeft DEF StoresInv, StoresTyped, Unowned, Left
  <2> QED BY <1>2, <2>8, <2>9, <2>10, <2>11, <2>12, StoresStep
<1> QED BY <1>1, <1>3, <1>4

LEMMA EditPublishesStores == ASSUME TabsInv, StoresInv, NEW t \in Threads, EditPublishes(t) PROVE StoresInv'
<1> PICK i, p : i = thr[t].id /\ p = thr[t].path
  OBVIOUS
<1>1. /\ thr[t].op \in {"edit", "swap"} /\ thr[t].pc = "publish" /\ thr' = [thr EXCEPT ![t] = Idle]
      /\ vfs' = Put(vfs, p, thr[t].text)
      /\ UNCHANGED <<heap, tabs, byPath, byId, workers, tangled, smeared>>
  BY DEF EditPublishes, Go
<1>2. /\ i \in Ids /\ thr[t].op \notin Structural /\ p \in Paths \union {NoPath} /\ thr[t].text \in Int
      /\ Freed(Idle) /\ tangled \subseteq smeared /\ vfs \in [Paths -> Int] /\ Knows(t)
  BY <1>1, WorkIsTyped, ReclassifyIsFreed DEF Structural, StoresInv, StoresTyped
<1>3. vfs' \in [Paths -> Int] /\ \A q \in Paths : (q = p => vfs'[q] = thr[t].text) /\ (q # p => vfs'[q] = vfs[q])
  BY <1>1, <1>2, PutIsTyped
<1>4. Elsewhere(i) /\ Arrives(t, i) /\ Live' = Live /\ tabs'[i] = tabs[i] /\ Tab(i)' = Tab(i)
  BY <1>1, <1>2, OwnTabStays
<1>5. WritesAt(t, i)
  BY <1>1, <1>3, NoIdIsNone DEF WritesAt, Places, PlacesOf, At
<1>6. Shaped(t)' /\ Half(t)' /\ Knows(t)' /\ OwnState(t)' /\ PlacesOf(Idle) = {} /\ Idle.id = NoId
  BY <1>1, <1>2, FreedIsRight
<1>7. Framed(t, Idle, i)
  BY <1>1, <1>2, <1>4, <1>5, <1>6, OwnFrame
<1>8. i \notin smeared => i \in Live /\ Tab(i).path = p /\ Tab(i).text = thr[t].text
  BY <1>1, <1>2 DEF Knows, PlaceOf, Leaving
<1>9. i \in Live' \ smeared' => FileOf(i)'
  BY <1>1, <1>2, <1>3, <1>4, <1>8 DEF FileOf
<1>10. i \in Ids \ tangled' => HasTask(i)' \/ AtRest(i)'
  <2>1. HasTask(i) => HasTask(i)'
    BY <1>1, <1>2 DEF HasTask, TabsInv
  <2>2. AtRest(i) => AtRest(i)'
    BY <1>1, <1>4 DEF AtRest
  <2> QED BY <1>1, <2>1, <2>2 DEF StoresInv
<1>11. i \notin smeared /\ p # NoPath => byPath[p] = i
  BY <1>1, <1>8, OwnRegistered DEF Leaving
<1>12. LeftBehind'
  <2>1. ASSUME smeared' = {}, NEW q \in Paths, Unowned(q)' PROVE Unowned(q) /\ ~Left(t, q)
    <3>1. q # p
      BY <1>1, <1>2, <1>11, <2>1, NoIdIsNone DEF Unowned
    <3> QED BY <1>1, <1>3, <2>1, <3>1 DEF Unowned, Left
  <2> QED BY <1>1, <2>1, StillLeft
<1>13. StoresTyped'
  BY <1>1, <1>3 DEF StoresInv, StoresTyped
<1> QED BY <1>2, <1>6, <1>7, <1>9, <1>10, <1>12, <1>13, StoresStep

LEMMA MoveBindsStores == ASSUME TabsInv, StoresInv, NEW t \in Threads, MoveBinds(t) PROVE StoresInv'
<1> PICK i, p : i = thr[t].id /\ p = thr[t].path
  OBVIOUS
<1> DEFINE w == [thr[t] EXCEPT !.pc = "compare"]
<1>1. /\ At(t, "move", "bind") /\ UNCHANGED <<heap, tabs, vfs, workers, tangled, smeared>>
      /\ \/ Free(i, p) /\ Bind(i, p) /\ thr' = [thr EXCEPT ![t] = w]
         \/ thr' = [thr EXCEPT ![t] = NextOf(t, thr[t].todo)] /\ UNCHANGED <<byPath, byId>>
  BY DEF MoveBinds, Go, Step
<1>2. CASE thr' = [thr EXCEPT ![t] = NextOf(t, thr[t].todo)] /\ UNCHANGED <<byPath, byId>>
  BY <1>1, <1>2, GivingUpStores DEF At, Structural
<1>3. CASE Free(i, p) /\ Bind(i, p) /\ thr' = [thr EXCEPT ![t] = w]
  <2>1. /\ w.op = "move" /\ w.pc = "compare" /\ w.id = i /\ w.path = p /\ w.old = thr[t].old /\ w.tries = thr[t].tries
        /\ w.text = thr[t].text /\ w.rev = thr[t].rev
        /\ thr[t].op = "move" /\ thr[t].pc = "bind" /\ i \in Ids /\ p \in Paths \union {NoPath}
    BY <1>1, WorkIsTyped DEF At, Works
  <2> HIDE DEF w
  <2>2. thr'[t] = w /\ Shaped(t) /\ Half(t) /\ Knows(t) /\ tangled \subseteq smeared
    BY <1>3 DEF TabsInv, StoresInv, StoresTyped
  <2>3. /\ byId'[i] = p /\ \A j \in Ids \ {i} : byId'[j] = byId[j]
        /\ \A q \in Paths : byPath'[q] = NoId => q # p /\ (byPath[q] = NoId \/ q = byId[i])
    BY <1>3, <2>1, BindMeans
  <2>4. Elsewhere(i) /\ Arrives(t, i) /\ Live' = Live /\ tabs'[i] = tabs[i] /\ Tab(i)' = Tab(i) /\ WritesAt(t, i)
    BY <1>1, <2>1, <2>3, OwnTabStays DEF WritesAt
  <2>5. ASSUME NEW j \in Live \ (smeared \union {i}), Tab(j).path \in Places(t), Refused(t, Tab(j).path) PROVE FALSE
    <3>1. Tab(j).path = p /\ p # NoPath /\ p \in Places(t) /\ j \in Ids
      BY <2>5 DEF Refused, Places, PlacesOf, Live
    <3>2. byId[j] # p
      BY <1>3, <2>1, <3>1, NoIdIsNone DEF Free, TabsInv, OneToOne
    <3>3. PICK u \in Threads : thr[u].id = j /\ p = thr[u].old
      BY <3>1, <3>2, RegisteredOrMoving
    <3>4. u # t /\ p \in Places(u)
      BY <3>1, <3>3 DEF Places, PlacesOf
    <3> QED BY <2>5, <3>1, <3>3, <3>4 DEF StoresInv, Apart
  <2>6. Framed(t, w, i)
    <3>1. PlacesOf(w) \subseteq Places(t) /\ thr[t].op \in Structural
      BY <2>1 DEF PlacesOf, Places, Structural
    <3> QED BY <1>1, <1>3, <2>1, <2>4, <2>5, <3>1, OwnFrame
  <2>7. i \notin tangled => i \in Live /\ workers[i] = tabs[i]
    BY <2>1, <2>2 DEF Half, Structural
  <2>8. StoresTyped'
    BY <1>1 DEF StoresInv, StoresTyped
  <2>9. Shaped(t)' /\ Half(t)' /\ OwnState(t)' /\ HasTask(i)'
    BY <1>1, <2>1, <2>2, <2>4, <2>7, NoIdIsNone DEF Shaped, Retries, Half, OwnState, HasTask, Structural
  <2>10. Knows(t)'
    BY <1>1, <2>1, <2>2, <2>4 DEF Knows, PlaceOf, Leaving
  <2>11. i \notin smeared => byId[i] \in {p, thr[t].old}
    <3> SUFFICES ASSUME i \notin smeared PROVE byId[i] \in {p, thr[t].old}
      OBVIOUS
    <3>1. i \in Live /\ Settled(i) /\ Tab(i).path = thr[t].old
      BY <2>1, <2>2, <2>7 DEF TabsInv, Registered, Knows, PlaceOf, Leaving
    <3>2. \A u \in Threads : thr[u].id = i => u = t
      BY <2>1 DEF StoresInv, Apart
    <3> QED BY <3>1, <3>2 DEF Settled, Moving
  <2>12. LeftBehind'
    <3>1. ASSUME smeared' = {}, NEW q \in Paths, Unowned(q)' PROVE (Unowned(q) /\ ~Left(t, q)) \/ Left(t, q)'
      BY <1>1, <2>1, <2>2, <2>3, <2>11, <3>1 DEF Unowned, Left
    <3> QED BY <1>1, <1>3, <3>1, StillLeft
  <2>13. i \in Live' \ smeared' => FileOf(i)'
    BY <1>1, <1>3, <2>1, <2>4, FileStays DEF Pending, At
  <2> QED BY <2>1, <2>6, <2>8, <2>9, <2>10, <2>12, <2>13, StoresStep
<1> QED BY <1>1, <1>2, <1>3

\* A document that kept changing is tried again.
LEMMA TriesAgain ==
    ASSUME TabsInv, StoresInv, NEW t \in Threads, thr[t].op \in {"move", "rebuild"}, thr[t].pc = "compare",
           UNCHANGED <<heap, tabs, byPath, byId, vfs, workers, tangled, smeared>>, ~Unchanged(t),
           NEW w, thr' = [thr EXCEPT ![t] = w], w.op = thr[t].op, w.pc = "next", w.id = thr[t].id,
           w.path = thr[t].path, w.old = thr[t].old, w.tries > 0
    PROVE  StoresInv'
<1> PICK i : i = thr[t].id
  OBVIOUS
<1>1. thr'[t] = w /\ i \in Ids /\ Shaped(t) /\ Half(t) /\ Knows(t) /\ tangled \subseteq smeared
  BY WorkIsTyped DEF TabsInv, StoresInv, StoresTyped
<1>2. i \in smeared
  BY <1>1 DEF Knows, Unchanged
<1>3. Met(t, w) /\ Smears(t, i) /\ Visits(w, i)
  <2>1. PlacesOf(w) \subseteq Places(t) /\ \A j \in Live : ~Refused(t, Tab(j).path)
    BY DEF PlacesOf, Places, Refused, At
  <2> QED BY <2>1, GoesOn
<1>4. Calm
  BY DEF Calm, Built
<1>5. Shaped(t)' /\ OwnState(t)' /\ HasTask(i)' /\ Knows(t)'
  BY <1>1, <1>2, NoIdIsNone DEF Shaped, Retries, OwnState, HasTask, Knows, Structural
<1>6. Half(t)'
  BY <1>1 DEF Half, Live, Structural
<1>7. ~Pending(t)
  BY DEF Pending, At
<1> QED BY <1>1, <1>2, <1>3, <1>4, <1>5, <1>6, <1>7, CalmStep

\* The world a thread has built is put in place of the one it was built from.
LEMMA Installs ==
    ASSUME TabsInv, StoresInv, NEW t \in Threads, NEW i, i = thr[t].id, NEW rec, InstallFor(i, rec),
           rec.path = thr[t].path, rec.text = thr[t].text,
           \/ At(t, "move", "compare") \/ At(t, "reclassify", "swap") \/ At(t, "rebuild", "compare"),
           NEW w, thr' = [thr EXCEPT ![t] = w], w.op = thr[t].op, w.id = i, w.path = thr[t].path, w.old = thr[t].old,
           w.text = thr[t].text, w.tries = thr[t].tries, w.obj = Cardinality(Built) + 1,
           (thr[t].op = "move" /\ w.pc = "rekey") \/ (thr[t].op # "move" /\ w.pc = "rotate"),
           UNCHANGED <<byPath, byId, vfs, workers, tangled, smeared>>
    PROVE  StoresInv'
<1>1. /\ thr'[t] = w /\ i \in Ids /\ thr[t].path \in Paths \union {NoPath} /\ thr[t].op \in Structural
      /\ Shaped(t) /\ Half(t) /\ Knows(t) /\ tangled \subseteq smeared
  BY WorkIsTyped DEF TabsInv, StoresInv, StoresTyped, At, Structural
<1>2. /\ tabs'[i] = w.obj /\ tabs'[i] \notin Built /\ i \in Live' /\ Tab(i)' = rec
      /\ Elsewhere(i) /\ Arrives(t, i)
  BY <1>1, Installed DEF At
<1>3. Framed(t, w, i)
  <2>1. PlacesOf(w) \subseteq Places(t) /\ \A j \in Live : ~Refused(t, Tab(j).path)
    BY DEF PlacesOf, Places, Refused, At
  <2>2. WritesAt(t, i)
    BY DEF WritesAt
  <2> QED BY <1>1, <1>2, <2>1, <2>2, OwnFrame
<1>4. StoresTyped' /\ LeftBehind'
  BY <1>1, StillLeft DEF StoresInv, StoresTyped, Unowned, Left, At
<1>5. Shaped(t)' /\ Half(t)' /\ OwnState(t)' /\ HasTask(i)'
  BY <1>1, <1>2, NoIdIsNone DEF Shaped, Retries, Half, OwnState, HasTask, Structural, At
<1>6. Knows(t)'
  BY <1>1, <1>2 DEF Knows, PlaceOf, Leaving, At
<1>7. i \notin smeared => FileOf(i)'
  <2>1. CASE thr[t].op = "move"
    BY <1>1, <2>1 DEF FileOf, Pending, At
  <2>2. CASE thr[t].op # "move" /\ i \notin smeared
    <3>1. i \in Live /\ Tab(i).path = thr[t].path /\ Tab(i).text = thr[t].text
      BY <1>1, <2>2 DEF Half, Knows, PlaceOf, Leaving, At
    <3>2. ~Pending(t)
      BY DEF Pending, At
    <3> QED BY <1>2, <2>2, <3>1, <3>2, FileStays
  <2> QED BY <2>1, <2>2
<1> QED BY <1>1, <1>3, <1>4, <1>5, <1>6, <1>7, StoresStep

LEMMA MoveComparesStores == ASSUME TabsInv, StoresInv, NEW t \in Threads, MoveCompares(t) PROVE StoresInv'
<1> PICK i, n, p : i = thr[t].id /\ n = thr[t].obj /\ p = thr[t].path
  OBVIOUS
<1> DEFINE d == IF thr[t].saved = NoVersion THEN heap[n].dirty ELSE thr[t].saved # thr[t].rev
           rec == [heap[n] EXCEPT !.path = p, !.ws = FALSE, !.rev = thr[t].rev, !.text = thr[t].text,
                                  !.known = TRUE, !.dirty = d]
           w == [thr[t] EXCEPT !.pc = "rekey", !.obj = Cardinality(Built) + 1]
           again == thr[t].todo \union {<<i, p>>}
           v == [thr[t] EXCEPT !.pc = "next", !.todo = again, !.tries = thr[t].tries + 1]
<1>1. At(t, "move", "compare") /\ UNCHANGED <<byPath, byId, vfs, workers, smeared>>
  BY DEF MoveCompares
<1>2. \/ i \notin Live /\ thr' = [thr EXCEPT ![t] = NextOf(t, thr[t].todo)] /\ UNCHANGED <<heap, tabs, tangled>>
      \/ InstallFor(i, rec) /\ thr' = [thr EXCEPT ![t] = w] /\ UNCHANGED tangled
      \/ ~Unchanged(t) /\ thr' = [thr EXCEPT ![t] = v] /\ UNCHANGED <<heap, tabs, tangled>>
      \/ /\ ~Unchanged(t) /\ thr' = [thr EXCEPT ![t] = NextOf(t, thr[t].todo)] /\ tangled' = tangled \union {i}
         /\ UNCHANGED <<heap, tabs>>
  BY DEF MoveCompares, Go
<1>3. n \in Built /\ heap[n] \in TabRecords /\ thr[t].op = "move" /\ thr[t].pc = "compare" /\ thr[t].tries \in Nat
  BY <1>1, WorkIsTyped DEF At, TabsInv, Sane, HeapTyped
<1>4. CASE \/ i \notin Live /\ thr' = [thr EXCEPT ![t] = NextOf(t, thr[t].todo)] /\ UNCHANGED <<heap, tabs, tangled>>
           \/ /\ ~Unchanged(t) /\ thr' = [thr EXCEPT ![t] = NextOf(t, thr[t].todo)] /\ tangled' = tangled \union {i}
              /\ UNCHANGED <<heap, tabs>>
  BY <1>1, <1>4, GivingUpStores DEF At, Structural
<1>5. CASE InstallFor(i, rec) /\ thr' = [thr EXCEPT ![t] = w] /\ UNCHANGED tangled
  <2> HIDE DEF d
  <2>1. rec.path = p /\ rec.text = thr[t].text
    BY <1>3 DEF TabRecords
  <2>2. /\ w.op = "move" /\ w.pc = "rekey" /\ w.id = i /\ w.path = p /\ w.old = thr[t].old /\ w.text = thr[t].text
        /\ w.tries = thr[t].tries /\ w.obj = Cardinality(Built) + 1
    BY <1>3, WorkIsTyped DEF Works
  <2> HIDE DEF rec, w
  <2> QED BY <1>1, <1>3, <1>5, <2>1, <2>2, Installs
<1>6. CASE ~Unchanged(t) /\ thr' = [thr EXCEPT ![t] = v] /\ UNCHANGED <<heap, tabs, tangled>>
  <2> HIDE DEF again
  <2>1. v.op = "move" /\ v.pc = "next" /\ v.id = i /\ v.path = p /\ v.old = thr[t].old /\ v.tries > 0
    BY <1>3, WorkIsTyped DEF Works
  <2> HIDE DEF v
  <2> QED BY <1>1, <1>3, <1>6, <2>1, TriesAgain
<1> QED BY <1>2, <1>4, <1>5, <1>6

LEMMA MoveRekeysStores == ASSUME TabsInv, StoresInv, NEW t \in Threads, MoveRekeys(t) PROVE StoresInv'
<1> PICK i, p, o, x : i = thr[t].id /\ p = thr[t].path /\ o = thr[t].old /\ x = thr[t].text
  OBVIOUS
<1> DEFINE w == [thr[t] EXCEPT !.pc = "rotate"]
<1>1. /\ At(t, "move", "rekey") /\ thr' = [thr EXCEPT ![t] = w]
      /\ vfs' = Put(IF o = p THEN vfs ELSE Put(vfs, o, NoVersion), p, x)
      /\ UNCHANGED <<heap, tabs, byPath, byId, workers, tangled, smeared>>
  BY DEF MoveRekeys, Step, Go
<1>2. /\ w.op = "move" /\ w.pc = "rotate" /\ w.id = i /\ w.path = p /\ w.old = o /\ w.tries = thr[t].tries
      /\ w.obj = thr[t].obj /\ thr[t].op = "move" /\ thr[t].pc = "rekey" /\ i \in Ids
      /\ p \in Paths \union {NoPath} /\ o \in Paths \union {NoPath} /\ x \in Int
  BY <1>1, WorkIsTyped DEF At, Works
<1> HIDE DEF w
<1>3. /\ thr'[t] = w /\ Shaped(t) /\ Half(t) /\ Knows(t) /\ tangled \subseteq smeared /\ vfs \in [Paths -> Int]
      /\ NoVersion \in Int
  BY <1>1 DEF TabsInv, StoresInv, StoresTyped, NoVersion
<1>4. /\ vfs' \in [Paths -> Int]
      /\ \A q \in Paths : /\ q = p => vfs'[q] = x
                          /\ q # p /\ q = o => vfs'[q] = NoVersion
                          /\ q # p /\ q # o => vfs'[q] = vfs[q]
  BY <1>1, <1>2, <1>3, NoIdIsNone DEF Put
<1>5. Elsewhere(i) /\ Arrives(t, i) /\ Live' = Live /\ tabs'[i] = tabs[i] /\ Tab(i)' = Tab(i)
  BY <1>1, <1>2, OwnTabStays
<1>6. WritesAt(t, i)
  BY <1>2, <1>4, NoIdIsNone DEF WritesAt, Places, PlacesOf, At
<1>7. Framed(t, w, i)
  <2>1. PlacesOf(w) \subseteq Places(t) /\ thr[t].op \in Structural /\ \A j \in Live : ~Refused(t, Tab(j).path)
    BY <1>2 DEF PlacesOf, Places, Structural, Refused, At
  <2> QED BY <1>1, <1>2, <1>5, <1>6, <2>1, OwnFrame
<1>8. StoresTyped'
  BY <1>1, <1>4 DEF StoresInv, StoresTyped
<1>9. Shaped(t)' /\ Half(t)' /\ OwnState(t)' /\ HasTask(i)'
  BY <1>1, <1>2, <1>3, <1>5, NoIdIsNone DEF Shaped, Retries, Half, OwnState, HasTask, Structural
<1>10. Knows(t)'
  BY <1>1, <1>2, <1>3, <1>5 DEF Knows, PlaceOf, Leaving
<1>11. i \notin smeared => i \in Live /\ Tab(i).path = p /\ Tab(i).text = x /\ (p # NoPath => byPath[p] = i)
  <2>1. i \notin smeared => i \in Live
    BY <1>2, <1>3 DEF Half, Structural
  <2>2. i \notin smeared => Tab(i).path = p /\ Tab(i).text = x
    BY <1>2, <1>3, <2>1 DEF Knows, PlaceOf, Leaving
  <2> QED BY <1>2, <2>1, <2>2, OwnRegistered DEF Leaving
<1>12. i \notin smeared => FileOf(i)'
  BY <1>2, <1>4, <1>5, <1>11 DEF FileOf
<1>13. LeftBehind'
  <2>1. ASSUME smeared' = {}, NEW q \in Paths, Unowned(q)' PROVE Unowned(q) /\ ~Left(t, q)
    <3>1. q # p
      BY <1>1, <1>2, <1>11, <2>1, NoIdIsNone DEF Unowned
    <3> QED BY <1>1, <1>4, <2>1, <3>1 DEF Unowned, Left
  <2> QED BY <1>1, <2>1, StillLeft
<1> QED BY <1>1, <1>2, <1>7, <1>8, <1>9, <1>10, <1>12, <1>13, StoresStep

LEMMA ReclassifyBindsStores == ASSUME TabsInv, StoresInv, NEW t \in Threads, ReclassifyBinds(t) PROVE StoresInv'
<1> PICK i, p : i = thr[t].id /\ p = thr[t].path
  OBVIOUS
<1> DEFINE w == [thr[t] EXCEPT !.pc = "swap"]
<1>1. /\ At(t, "reclassify", "bind") /\ UNCHANGED <<heap, tabs, vfs, workers, tangled, smeared>>
      /\ \/ Bind(i, p) /\ thr' = [thr EXCEPT ![t] = w]
         \/ thr' = [thr EXCEPT ![t] = NextOf(t, thr[t].todo)] /\ UNCHANGED <<byPath, byId>>
  BY DEF ReclassifyBinds, Go, Step
<1>2. CASE thr' = [thr EXCEPT ![t] = NextOf(t, thr[t].todo)] /\ UNCHANGED <<byPath, byId>>
  BY <1>1, <1>2, GivingUpStores DEF At, Structural
<1>3. CASE Bind(i, p) /\ thr' = [thr EXCEPT ![t] = w]
  <2>1. /\ w.op = "reclassify" /\ w.pc = "swap" /\ w.id = i /\ w.path = p /\ w.old = thr[t].old /\ w.tries = thr[t].tries
        /\ w.text = thr[t].text /\ w.rev = thr[t].rev
        /\ thr[t].op = "reclassify" /\ thr[t].pc = "bind" /\ i \in Ids /\ p \in Paths \union {NoPath}
    BY <1>1, WorkIsTyped DEF At, Works
  <2> HIDE DEF w
  <2>2. thr'[t] = w /\ Shaped(t) /\ Half(t) /\ Knows(t) /\ tangled \subseteq smeared
    BY <1>3 DEF TabsInv, StoresInv, StoresTyped
  <2>3. /\ byId'[i] = p /\ \A j \in Ids \ {i} : byId'[j] = byId[j]
        /\ \A q \in Paths : byPath'[q] = NoId => q # p /\ (byPath[q] = NoId \/ q = byId[i])
    BY <1>3, <2>1, BindMeans
  <2>4. Elsewhere(i) /\ Arrives(t, i) /\ Live' = Live /\ tabs'[i] = tabs[i] /\ Tab(i)' = Tab(i) /\ WritesAt(t, i)
    BY <1>1, <2>1, <2>3, OwnTabStays DEF WritesAt
  <2>5. Framed(t, w, i)
    <3>1. PlacesOf(w) \subseteq Places(t) /\ thr[t].op \in Structural /\ \A j \in Live : ~Refused(t, Tab(j).path)
      BY <2>1 DEF PlacesOf, Places, Structural, Refused, At
    <3> QED BY <1>1, <1>3, <2>1, <2>4, <3>1, OwnFrame
  <2>6. i \notin tangled => i \in Live /\ workers[i] = tabs[i]
    BY <2>1, <2>2 DEF Half, Structural
  <2>7. StoresTyped'
    BY <1>1 DEF StoresInv, StoresTyped
  <2>8. Shaped(t)' /\ Half(t)' /\ OwnState(t)' /\ HasTask(i)'
    BY <1>1, <2>1, <2>2, <2>4, <2>6, NoIdIsNone DEF Shaped, Retries, Half, OwnState, HasTask, Structural
  <2>9. Knows(t)'
    BY <1>1, <2>1, <2>2, <2>4 DEF Knows, PlaceOf, Leaving
  <2>10. i \notin smeared => byId[i] = p
    <3>1. i \notin smeared => i \in Live /\ Tab(i).path = p
      BY <2>1, <2>2, <2>6 DEF Knows, PlaceOf, Leaving
    <3> QED BY <2>1, <3>1, OwnRegistered DEF Leaving
  <2>11. LeftBehind'
    <3>1. ASSUME smeared' = {}, NEW q \in Paths, Unowned(q)' PROVE Unowned(q) /\ ~Left(t, q)
      BY <1>1, <2>1, <2>3, <2>10, <3>1 DEF Unowned, Left
    <3> QED BY <1>1, <1>3, <3>1, StillLeft
  <2>12. i \in Live' \ smeared' => FileOf(i)'
    BY <1>1, <1>3, <2>1, <2>4, FileStays DEF Pending, At
  <2> QED BY <2>1, <2>5, <2>7, <2>8, <2>9, <2>11, <2>12, StoresStep
<1> QED BY <1>1, <1>2, <1>3

\* The world rebuilt for a thread's snapshot is that of its document.
LEMMA InstallsRebuilt ==
    ASSUME TabsInv, StoresInv, NEW t \in Threads, NEW ws, NEW i, i = thr[t].id, NEW rec, rec = Rebuilt(t, ws),
           InstallFor(i, rec), At(t, "reclassify", "swap") \/ At(t, "rebuild", "compare"),
           NEW w, w = [thr[t] EXCEPT !.pc = "rotate", !.obj = Cardinality(Built) + 1], thr' = [thr EXCEPT ![t] = w],
           UNCHANGED <<byPath, byId, vfs, workers, tangled, smeared>>
    PROVE  StoresInv'
<1>1. /\ heap[thr[t].obj] \in TabRecords /\ heap[thr[t].obj].path = thr[t].path
      /\ thr[t].op \in {"reclassify", "rebuild"} /\ thr[t].pc \in {"swap", "compare"}
  BY DEF At, TabsInv, Sane, HeapTyped
<1>2. rec.path = thr[t].path /\ rec.text = thr[t].text
  BY <1>1 DEF Rebuilt, TabRecords
<1>3. /\ w.op = thr[t].op /\ w.pc = "rotate" /\ w.id = i /\ w.path = thr[t].path /\ w.old = thr[t].old
      /\ w.text = thr[t].text /\ w.tries = thr[t].tries /\ w.obj = Cardinality(Built) + 1
  BY WorkIsTyped DEF Works
<1>4. (thr[t].op = "move" /\ w.pc = "rekey") \/ (thr[t].op # "move" /\ w.pc = "rotate")
  BY <1>1, <1>3
<1>5. At(t, "move", "compare") \/ At(t, "reclassify", "swap") \/ At(t, "rebuild", "compare")
  OBVIOUS
<1> QED BY <1>2, <1>3, <1>4, <1>5, Installs

LEMMA ReclassifySwapsStores == ASSUME TabsInv, StoresInv, NEW t \in Threads, ReclassifySwaps(t) PROVE StoresInv'
<1> PICK ws : InstallFor(thr[t].id, Rebuilt(t, ws))
  BY DEF ReclassifySwaps
<1> PICK i, rec, w : /\ i = thr[t].id /\ rec = Rebuilt(t, ws)
                     /\ w = [thr[t] EXCEPT !.pc = "rotate", !.obj = Cardinality(Built) + 1]
  OBVIOUS
<1>1. InstallFor(i, rec) /\ At(t, "reclassify", "swap")
  BY DEF ReclassifySwaps
<1>2. thr' = [thr EXCEPT ![t] = w] /\ UNCHANGED <<byPath, byId, vfs, workers, tangled, smeared>>
  BY DEF ReclassifySwaps, Go
<1> QED BY <1>1, <1>2, InstallsRebuilt

LEMMA RebuildComparesStores == ASSUME TabsInv, StoresInv, NEW t \in Threads, RebuildCompares(t) PROVE StoresInv'
<1> PICK i, rec, w : /\ i = thr[t].id /\ rec = Rebuilt(t, TRUE)
                     /\ w = [thr[t] EXCEPT !.pc = "rotate", !.obj = Cardinality(Built) + 1]
  OBVIOUS
<1> DEFINE again == thr[t].todo \union {thr[t].id}
           v == [thr[t] EXCEPT !.pc = "next", !.todo = again, !.tries = thr[t].tries + 1]
<1>1. At(t, "rebuild", "compare") /\ UNCHANGED <<byPath, byId, vfs, workers, tangled, smeared>>
  BY DEF RebuildCompares
<1>2. \/ InstallFor(i, rec) /\ thr' = [thr EXCEPT ![t] = w]
      \/ ~Unchanged(t) /\ thr' = [thr EXCEPT ![t] = v] /\ UNCHANGED <<heap, tabs>>
      \/ thr' = [thr EXCEPT ![t] = NextOf(t, thr[t].todo)] /\ UNCHANGED <<heap, tabs>>
  BY DEF RebuildCompares, Go
<1>3. CASE InstallFor(i, rec) /\ thr' = [thr EXCEPT ![t] = w]
  BY <1>1, <1>3, InstallsRebuilt
<1>4. CASE ~Unchanged(t) /\ thr' = [thr EXCEPT ![t] = v] /\ UNCHANGED <<heap, tabs>>
  <2> HIDE DEF again
  <2>1. /\ v.op = thr[t].op /\ v.pc = "next" /\ v.id = thr[t].id /\ v.path = thr[t].path /\ v.old = thr[t].old /\ v.tries > 0
        /\ thr[t].op = "rebuild" /\ thr[t].pc = "compare"
    BY <1>1, WorkIsTyped DEF Works, At
  <2> HIDE DEF v
  <2> QED BY <1>1, <1>4, <2>1, TriesAgain
<1>5. CASE thr' = [thr EXCEPT ![t] = NextOf(t, thr[t].todo)] /\ UNCHANGED <<heap, tabs>>
  BY <1>1, <1>5, GivingUpStores DEF At, Structural
<1> QED BY <1>2, <1>3, <1>4, <1>5

LEMMA CloseRemovesStores == ASSUME TabsInv, StoresInv, NEW t \in Threads, CloseRemoves(t) PROVE StoresInv'
<1> PICK i : i = thr[t].id
  OBVIOUS
<1> DEFINE w == [thr[t] EXCEPT !.pc = "unregister"]
<1>1. /\ At(t, "close", "remove") /\ UNCHANGED <<heap, byPath, byId, vfs, workers, tangled, smeared>>
      /\ \/ i \in Live /\ tabs' = [tabs EXCEPT ![i] = 0] /\ thr' = [thr EXCEPT ![t] = w]
         \/ i \notin Live /\ thr' = [thr EXCEPT ![t] = Idle] /\ UNCHANGED tabs
  BY DEF CloseRemoves, Go, Step
<1>2. CASE i \notin Live /\ thr' = [thr EXCEPT ![t] = Idle] /\ UNCHANGED tabs
  BY <1>1, <1>2, GivingUpStores
<1>3. CASE i \in Live /\ tabs' = [tabs EXCEPT ![i] = 0] /\ thr' = [thr EXCEPT ![t] = w]
  <2>1. /\ w.op = "close" /\ w.pc = "unregister" /\ w.id = i /\ w.path = thr[t].path /\ w.old = thr[t].old
        /\ w.tries = thr[t].tries /\ thr[t].op = "close" /\ thr[t].pc = "remove" /\ i \in Ids
    BY <1>1, WorkIsTyped DEF At, Works
  <2> HIDE DEF w
  <2>2. thr'[t] = w /\ Shaped(t) /\ Half(t) /\ Knows(t) /\ tangled \subseteq smeared
    BY <1>3 DEF TabsInv, StoresInv, StoresTyped
  <2>3. tabs'[i] = 0 /\ i \notin Live' /\ Elsewhere(i)
    BY <1>1, <1>3, <2>1 DEF TabsInv, MapsTyped, Live, Elsewhere
  <2>4. Framed(t, w, i)
    <3>1. PlacesOf(w) \subseteq Places(t) /\ thr[t].op \in Structural /\ \A j \in Live : ~Refused(t, Tab(j).path)
      BY <2>1 DEF PlacesOf, Places, Structural, Refused, At
    <3>2. WritesAt(t, i) /\ Arrives(t, i)
      BY <1>1, <2>3 DEF WritesAt, Arrives
    <3> QED BY <1>1, <1>3, <2>1, <2>3, <3>1, <3>2, OwnFrame
  <2>5. StoresTyped' /\ LeftBehind'
    BY <1>1, <1>3, <2>1, StillLeft DEF StoresInv, StoresTyped, Unowned, Left
  <2>6. Shaped(t)' /\ Half(t)' /\ OwnState(t)' /\ HasTask(i)'
    BY <1>1, <2>1, <2>2, <2>3, NoIdIsNone DEF Shaped, Retries, Half, OwnState, HasTask, Structural
  <2>7. Knows(t)'
    BY <1>1, <2>1, <2>2, <2>3 DEF Knows
  <2> QED BY <2>1, <2>3, <2>4, <2>5, <2>6, <2>7, StoresStep
<1> QED BY <1>1, <1>2, <1>3

LEMMA UnregisterStores == ASSUME TabsInv, StoresInv, NEW t \in Threads, Unregister(t) PROVE StoresInv'
<1> PICK i, w : i = thr[t].id /\ w = NextOf(t, thr[t].todo)
  OBVIOUS
<1>1. /\ thr[t].op \in {"close", "delete"} /\ thr[t].pc = "unregister" /\ thr' = [thr EXCEPT ![t] = w]
      /\ byId' = [byId EXCEPT ![i] = NoId]
      /\ byPath' = [q \in Paths |-> IF q = byId[i] /\ byPath[q] = i THEN NoId ELSE byPath[q]]
      /\ UNCHANGED <<heap, tabs, vfs, workers, tangled, smeared>>
  BY DEF Unregister, Unbind, Go
<1>2. /\ i \in Ids /\ thr[t].op \in Structural /\ Freed(w) /\ tangled \subseteq smeared /\ Half(t) /\ Knows(t)
  BY <1>1, WorkIsTyped, NextIsFreed DEF Structural, StoresInv, StoresTyped
<1>3. byId'[i] = NoId /\ \A j \in Ids \ {i} : byId'[j] = byId[j]
  BY <1>1, <1>2 DEF TabsInv, MapsTyped
<1>4. Elsewhere(i) /\ Arrives(t, i) /\ Live' = Live /\ tabs'[i] = tabs[i] /\ WritesAt(t, i)
  BY <1>1, <1>2, <1>3, OwnTabStays DEF WritesAt
<1>5. Shaped(t)' /\ Half(t)' /\ Knows(t)' /\ OwnState(t)' /\ PlacesOf(w) = {} /\ w.id = NoId
  BY <1>1, <1>2, FreedIsRight
<1>6. Framed(t, w, i)
  BY <1>1, <1>2, <1>4, <1>5, OwnFrame
<1>7. i \notin tangled => i \notin Live /\ workers[i] = 0
  BY <1>1, <1>2 DEF Half
<1>8. StoresTyped'
  BY <1>1 DEF StoresInv, StoresTyped
<1>9. i \in Ids \ tangled' => AtRest(i)'
  BY <1>1, <1>3, <1>4, <1>7 DEF AtRest
<1>10. LeftBehind'
  <2>1. ASSUME smeared' = {}, NEW q \in Paths, Unowned(q)' PROVE Unowned(q) /\ ~Left(t, q)
    <3>1. byId[i] = thr[t].path /\ (thr[t].path # NoPath => vfs[thr[t].path] = NoVersion)
      BY <1>1, <1>2, <2>1 DEF Knows
    <3>2. q # byId[i]
      BY <1>1, <2>1, <3>1, NoIdIsNone DEF Unowned
    <3> QED BY <1>1, <2>1, <3>2 DEF Unowned, Left
  <2> QED BY <1>1, <2>1, StillLeft
<1>11. i \notin Live' \ smeared'
  BY <1>1, <1>2, <1>4, <1>7
<1> QED BY <1>2, <1>5, <1>6, <1>8, <1>9, <1>10, <1>11, StoresStep

LEMMA TeardownStores == ASSUME TabsInv, StoresInv, NEW t \in Threads, Teardown(t) PROVE StoresInv'
<1> PICK i, p : i = thr[t].id /\ p = thr[t].path
  OBVIOUS
<1> DEFINE w == [thr[t] EXCEPT !.pc = "unregister"]
<1>1. /\ At(t, "delete", "teardown") /\ thr' = [thr EXCEPT ![t] = w]
      /\ workers' = [workers EXCEPT ![i] = 0] /\ vfs' = Put(vfs, p, NoVersion)
      /\ UNCHANGED <<heap, tabs, byPath, byId, tangled, smeared>>
  BY DEF Teardown, Step, Go
<1>2. /\ w.op = "delete" /\ w.pc = "unregister" /\ w.id = i /\ w.path = p /\ w.old = thr[t].old /\ w.tries = thr[t].tries
      /\ thr[t].op = "delete" /\ thr[t].pc = "teardown" /\ i \in Ids /\ p \in Paths \union {NoPath}
  BY <1>1, WorkIsTyped DEF At, Works
<1> HIDE DEF w
<1>3. /\ thr'[t] = w /\ Shaped(t) /\ Knows(t) /\ tangled \subseteq smeared /\ vfs \in [Paths -> Int] /\ NoVersion \in Int
  BY <1>1 DEF TabsInv, StoresInv, StoresTyped, NoVersion
<1>4. vfs' \in [Paths -> Int] /\ \A q \in Paths : (q = p => vfs'[q] = NoVersion) /\ (q # p => vfs'[q] = vfs[q])
  BY <1>1, <1>2, <1>3, PutIsTyped
<1>5. workers' \in [Ids -> Nat] /\ workers'[i] = 0 /\ \A j \in Ids \ {i} : workers'[j] = workers[j]
  BY <1>1, <1>2 DEF StoresInv, StoresTyped
<1>6. Elsewhere(i) /\ Arrives(t, i) /\ Live' = Live /\ tabs'[i] = tabs[i] /\ Tab(i)' = Tab(i)
  BY <1>1, <1>2, <1>5, OwnTabStays
<1>7. WritesAt(t, i)
  BY <1>2, <1>4, NoIdIsNone DEF WritesAt, Places, PlacesOf, At
<1>8. Framed(t, w, i)
  <2>1. PlacesOf(w) \subseteq Places(t) /\ thr[t].op \in Structural /\ \A j \in Live : ~Refused(t, Tab(j).path)
    BY <1>2 DEF PlacesOf, Places, Structural, Refused, At
  <2> QED BY <1>1, <1>2, <1>6, <1>7, <2>1, OwnFrame
<1>9. i \notin tangled => i \notin Live
  BY <1>2 DEF TabsInv, Owns
<1>10. StoresTyped'
  BY <1>1, <1>4, <1>5 DEF StoresInv, StoresTyped
<1>11. Shaped(t)' /\ Half(t)' /\ OwnState(t)' /\ HasTask(i)'
  BY <1>1, <1>2, <1>3, <1>5, <1>6, <1>9, NoIdIsNone DEF Shaped, Retries, Half, OwnState, HasTask, Structural
<1>12. Knows(t)'
  BY <1>1, <1>2, <1>3, <1>4, <1>6, <1>9 DEF Knows, PlaceOf, Leaving
<1>13. LeftBehind'
  BY <1>1, <1>2, <1>4, StillLeft DEF Unowned, Left
<1>14. i \notin Live' \ smeared'
  BY <1>1, <1>3, <1>6, <1>9
<1> QED BY <1>2, <1>8, <1>10, <1>11, <1>12, <1>13, <1>14, StoresStep

-----------------------------------------------------------------------------

LEMMA StoresKept == TabsInv /\ StoresInv /\ [TabsNext]_tabVars => StoresInv'
<1> SUFFICES ASSUME TabsInv, StoresInv, [TabsNext]_tabVars PROVE StoresInv'
  OBVIOUS
<1>1. CASE UNCHANGED tabVars
  <2>1. Calm
    BY <1>1 DEF tabVars, Calm, Built
  <2> QED BY <1>1, <2>1, CalmStays DEF tabVars
<1>2. ASSUME NEW i \in Ids, Saved(i) PROVE StoresInv'
  BY <1>2, FlagsStores
<1>3. ASSUME NEW t \in Threads,
             \/ \E p \in Paths : OpenFound(t, p) \/ Delete(t, {p})
             \/ \E i \in Ids : \E p \in Paths \union {NoPath} : OpenNew(t, i, p)
             \/ Register(t) \/ Insert(t) \/ Rotate(t) \/ Publish(t)
      PROVE  StoresInv'
  BY <1>3, FlagsStores, BeginStores, OpenNewStores, RegisterStores, InsertStores, RotateStores, PublishStores
<1>4. ASSUME NEW t \in Threads,
             \/ \E i \in Ids : EditClones(t, i, "edit") \/ EditClones(t, i, "swap")
             \/ \E bump \in {0, 1} : EditSets(t, bump)
             \/ EditPublishes(t)
             \/ \E i \in Ids : SetVisibility(t, i, TRUE) \/ SetVisibility(t, i, FALSE)
      PROVE  StoresInv'
  BY <1>4, EditClonesStores, EditSetsStores, EditPublishesStores, FlagsStores
<1>5. ASSUME NEW t \in Threads,
             \/ \E i \in Ids, p \in Paths : SaveAs(t, i, p) \/ MoveSnapshots(t, i, p)
             \/ \E f \in Renames : Rename(t, f)
             \/ MoveBinds(t) \/ MoveCompares(t) \/ MoveRekeys(t)
             \/ SwitchWorkspace(t) \/ MoveRoot(t)
      PROVE  StoresInv'
  BY <1>5, BeginStores, MoveSnapshotsStores, MoveBindsStores, MoveComparesStores, MoveRekeysStores
<1>6. ASSUME NEW t \in Threads,
             \/ \E i \in Ids : BatchSnapshots(t, i)
             \/ ReclassifyBinds(t) \/ ReclassifySwaps(t) \/ RebuildCompares(t)
             \/ \E i \in Ids : HardClose(t, i) \/ DeleteCloses(t, i)
             \/ CloseRemoves(t) \/ Unregister(t) \/ Teardown(t)
      PROVE  StoresInv'
  BY <1>6, BatchSnapshotsStores, ReclassifyBindsStores, ReclassifySwapsStores, RebuildComparesStores, HardCloseStores,
     DeleteClosesStores, CloseRemovesStores, UnregisterStores, TeardownStores
<1> QED BY <1>1, <1>2, <1>3, <1>4, <1>5, <1>6 DEF TabsNext

LEMMA StoresStart == TabsInit => StoresInv
<1> SUFFICES ASSUME TabsInit PROVE StoresInv
  OBVIOUS
<1>1. /\ Live = {} /\ tangled = {} /\ smeared = {} /\ vfs = [p \in Paths |-> NoVersion] /\ workers = [i \in Ids |-> 0]
      /\ byId = [i \in Ids |-> NoId] /\ \A t \in Threads : thr[t] = Idle
  BY DEF TabsInit, Live
<1>2. Idle.id = NoId /\ Idle.op = "none" /\ Idle.pc = "idle" /\ Idle.path = NoPath /\ Idle.old = NoPath /\ Idle.tries = 0
  BY DEF Idle
<1>3. StoresTyped /\ LeftBehind
  BY <1>1 DEF StoresTyped, LeftBehind, Unowned, NoVersion
<1>4. \A t \in Threads : Shaped(t) /\ Half(t) /\ Knows(t) /\ OwnState(t)
  BY <1>1, <1>2, NoIdIsNone DEF Shaped, Retries, Half, Knows, OwnState
<1>5. \A i \in Ids : AtRest(i)
  BY <1>1 DEF AtRest
<1>6. Apart
  BY <1>1, <1>2, NoIdIsNone DEF Apart, Places, PlacesOf
<1>7. Unshared /\ OnePlace /\ Visitors
  BY <1>1 DEF Unshared, OnePlace, Visitors
<1> QED BY <1>1, <1>3, <1>4, <1>5, <1>6, <1>7 DEF StoresInv

\* Once every command is done, the map, the registry, the workers and the
\* in-memory files tell one story of every document that two commands did not
\* work on at once, whatever order the commands took their locks in
\* (open_from_content, apply_text, rebind_path_inner, reclassify_one,
\* cas_swap_world, hard_close, hard_close_if_clean).
THEOREM StoresDoAgree == TabsSpec => []StoresAgree
<1>1. ASSUME TabsInv, StoresInv, AllIdle PROVE StoresAgree
  <2>1. /\ \A t \in Threads : thr[t].id = NoId /\ thr[t].op = "none" /\ thr[t].pc = "idle"
        /\ \A i \in Ids : ~HasTask(i)
    BY <1>1, IdleWork, NoIdIsNone DEF AllIdle, HasTask
  <2>2. ASSUME NEW i \in Live \ tangled
        PROVE  byId[i] = Tab(i).path /\ workers[i] = tabs[i] /\ (Tab(i).path # NoPath => byPath[Tab(i).path] = i)
    <3>1. byId[i] = Tab(i).path /\ i \in Ids
      BY <1>1, <2>1 DEF TabsInv, Registered, Settled, Moving, Live
    <3>2. workers[i] = tabs[i]
      BY <1>1, <2>1, <3>1 DEF StoresInv, AtRest
    <3>3. Tab(i).path \in Paths \union {NoPath}
      BY <1>1, TabIsRecord DEF TabRecords
    <3> QED BY <1>1, <3>1, <3>2, <3>3 DEF TabsInv, OneToOne
  <2>3. ASSUME NEW i \in used \ (Live \union tangled) PROVE byId[i] = NoId /\ workers[i] = 0
    <3>1. i \in Ids
      BY <1>1 DEF TabsInv, MapsTyped
    <3> QED BY <1>1, <2>1, <3>1 DEF StoresInv, AtRest
  <2>4. ASSUME NEW i \in Live \ smeared, Tab(i).path # NoPath PROVE vfs[Tab(i).path] = Tab(i).text
    BY <1>1, <2>1, <2>4, NoIdIsNone DEF StoresInv, FileOf, Live
  <2>5. ASSUME smeared = {}, NEW p \in Paths, vfs[p] # NoVersion PROVE byPath[p] # NoId
    BY <1>1, <2>1, <2>5 DEF StoresInv, LeftBehind, Unowned, Left
  <2> QED BY <2>2, <2>3, <2>4, <2>5 DEF StoresAgree
<1>2. TabsInv /\ StoresInv => StoresAgree
  BY <1>1 DEF StoresAgree
<1>3. TabsInit => TabsInv /\ StoresInv
  BY TabsStart, StoresStart
<1>4. TabsInv /\ StoresInv /\ [TabsNext]_tabVars => TabsInv' /\ StoresInv'
  BY TabsKept, StoresKept
<1> QED BY <1>2, <1>3, <1>4, PTL DEF TabsSpec
=============================================================================
