---------------------------- MODULE SettingsStore ----------------------------
(***************************************************************************)
(* The settings document: concurrent writers, failing saves, edits of the  *)
(* file by hand, and restarts.                                             *)
(*                                                                         *)
(* A value is a record [kind, n, toks]: a number's value or the parts of a *)
(* string.  SettingDefs is the manifest.                                   *)
(***************************************************************************)
EXTENDS Integers, Sequences, FiniteSets

CONSTANTS
    SettingDefs,    \* the manifest: the constraints of every known key
    SettingValues,  \* the values writers try
    HandValues,     \* the values a hand edit may leave
    Setters,        \* threads that run set_setting
    MaxSets, MaxHandEdits, MaxLoads   \* bounds

SettingKeys   == DOMAIN SettingDefs
NoValue       == [kind |-> "absent", n |-> 0, toks |-> <<>>]
Null          == [kind |-> "null", n |-> 0, toks |-> <<>>]
Text(toks)    == [kind |-> "str", n |-> 0, toks |-> toks]
SecretMask    == Text(<<"mask">>)
SchemaCurrent == 1

VARIABLES
    stMem,      \* the document in memory
    stDisk,     \* the file: missing, an object, or some other JSON value
    stWriter,   \* who holds write_lock
    stPc, stReq, stPrev, stSnap,   \* each setter's step, request and clones
    stSeen,     \* the last document the windows were sent
    stRelaunch, \* a relaunch of the language server was spawned
    stSets, stEdits, stLoads,
    stAcked,    \* history: the last acknowledged value of each key
    stByHand    \* history: the file was edited by hand since the last save

stHistory == <<stAcked, stByHand>>
settingsVars == <<stMem, stDisk, stWriter, stPc, stReq, stPrev, stSnap, stSeen,
                  stRelaunch, stSets, stEdits, stLoads, stHistory>>

-----------------------------------------------------------------------------
(* Validation.                                                              *)

\* A keybinding's parts: modifiers and exactly one key; empty disables it.
ValidKeybinding(toks) ==
    \/ toks = <<"">>
    \/ /\ \A i \in DOMAIN toks : toks[i] \in {"mod", "char", "named"}
       /\ Cardinality({i \in DOMAIN toks : toks[i] # "mod"}) = 1

InRange(def, n) == def.min <= n /\ n <= def.max

SettingIsValid(def, v) ==
    \/ def.type = "number"  /\ v.kind \in {"int", "frac"} /\ InRange(def, v.n)
    \/ def.type = "integer" /\ v.kind = "int" /\ InRange(def, v.n)
    \/ def.type = "string"  /\ v.kind = "str"    \* string, font, path
    \/ def.type = "boolean" /\ v.kind = "bool"
    \/ def.type = "paths"   /\ v.kind = "strs"
    \/ def.type = "keybinding" /\ v.kind = "str" /\ ValidKeybinding(v.toks)
    \/ /\ def.type = "select" /\ v.kind = "str"
       /\ IF def.dynamic THEN v.toks # <<"">> ELSE v.toks \in def.options

\* settings/manifest.json: every default is one its own constraints accept.
\* Nobody types the mask into the file in place of a secret.
ASSUME SettingsAssumption ==
    /\ \A k \in SettingKeys : /\ SettingIsValid(SettingDefs[k], SettingDefs[k].default)
                              /\ SettingDefs[k].default # SecretMask
    /\ SecretMask \notin HandValues

\* sanitize_loaded: a stored value the manifest refuses becomes the default.
SanitizeLoaded(vals) ==
    [k \in SettingKeys |->
        IF vals[k] = NoValue \/ SettingIsValid(SettingDefs[k], vals[k])
        THEN vals[k] ELSE SettingDefs[k].default]

\* migrate_settings_value: older or absent versions become the current one.
MigrateSettings(ver) == IF ver < SchemaCurrent THEN SchemaCurrent ELSE ver

\* ensure_object_with_schema_version, migrate_settings_value, sanitize_loaded.
LoadSettings(file) ==
    IF file.form = "object"
    THEN [ver |-> MigrateSettings(file.ver), vals |-> SanitizeLoaded(file.vals)]
    ELSE [ver |-> MigrateSettings(0), vals |-> [k \in SettingKeys |-> NoValue]]

\* get: the stored value, or the manifest's default.
GetSetting(k) == IF stMem.vals[k] = NoValue THEN SettingDefs[k].default ELSE stMem.vals[k]

\* mask_secret_keys: what crosses to the windows.
MaskValue(v) ==
    IF v = NoValue THEN v
    ELSE IF v.kind = "str" /\ v.toks # <<"">> THEN SecretMask ELSE Null
Masked(doc) ==
    [doc EXCEPT !.vals = [k \in SettingKeys |->
        IF SettingDefs[k].secret THEN MaskValue(@[k]) ELSE @[k]]]

-----------------------------------------------------------------------------

File(form, ver, vals) == [form |-> form, ver |-> ver, vals |-> vals]
NoVals  == [k \in SettingKeys |-> NoValue]
NoFile  == File("missing", 0, NoVals)
NoReq   == [key |-> CHOOSE k \in SettingKeys : TRUE, value |-> NoValue]

\* SettingsService::new on a fresh install.
SettingsInit ==
    /\ stDisk = NoFile
    /\ stMem = LoadSettings(NoFile)
    /\ stWriter = {}
    /\ stPc = [t \in Setters |-> "idle"]
    /\ stReq = [t \in Setters |-> NoReq]
    /\ stPrev = [t \in Setters |-> stMem] /\ stSnap = [t \in Setters |-> stMem]
    /\ stSeen = Masked(stMem)
    /\ stRelaunch = FALSE
    /\ stSets = 0 /\ stEdits = 0 /\ stLoads = 0
    /\ stAcked = NoVals /\ stByHand = FALSE

SetterAt(t, step) == stPc[t] = step
SetterGo(t, step) == stPc' = [stPc EXCEPT ![t] = step]

\* set_setting, up to the lock: anything refused changes nothing.
Submit(t, k, v) ==
    /\ SetterAt(t, "idle") /\ stSets < MaxSets
    /\ ~(SettingDefs[k].secret /\ v = SecretMask)
    /\ ~SettingDefs[k].readonly /\ SettingIsValid(SettingDefs[k], v)
    /\ stReq' = [stReq EXCEPT ![t] = [key |-> k, value |-> v]]
    /\ stSets' = stSets + 1
    /\ SetterGo(t, "checked")
    /\ UNCHANGED <<stMem, stDisk, stWriter, stPrev, stSnap, stSeen, stRelaunch, stEdits, stLoads, stHistory>>

SetPointer(doc, req) == [doc EXCEPT !.vals[req.key] = req.value]

\* Mutant: the writers are not serialized.
MutateUnlocked(t) ==
    /\ SetterAt(t, "checked")
    /\ stWriter' = stWriter \union {t}
    /\ stPrev' = [stPrev EXCEPT ![t] = stMem]
    /\ stMem' = SetPointer(stMem, stReq[t])
    /\ stSnap' = [stSnap EXCEPT ![t] = stMem']
    /\ SetterGo(t, "mutated")
    /\ UNCHANGED <<stDisk, stReq, stSeen, stRelaunch, stSets, stEdits, stLoads, stHistory>>

\* Under write_lock: the document is cloned, changed and cloned again.
Mutate(t) ==
    /\ SetterAt(t, "checked") /\ stWriter = {}
    /\ stWriter' = {t}
    /\ stPrev' = [stPrev EXCEPT ![t] = stMem]
    /\ stMem' = SetPointer(stMem, stReq[t])
    /\ stSnap' = [stSnap EXCEPT ![t] = stMem']
    /\ SetterGo(t, "mutated")
    /\ UNCHANGED <<stDisk, stReq, stSeen, stRelaunch, stSets, stEdits, stLoads, stHistory>>

\* save_value succeeds; the lock is dropped before the callback.
Save(t) ==
    /\ SetterAt(t, "mutated")
    /\ stDisk' = File("object", stSnap[t].ver, stSnap[t].vals)
    /\ stByHand' = FALSE
    /\ stAcked' = [stAcked EXCEPT ![stReq[t].key] = stReq[t].value]
    /\ stWriter' = stWriter \ {t}
    /\ SetterGo(t, "saved")
    /\ UNCHANGED <<stMem, stReq, stPrev, stSnap, stSeen, stRelaunch, stSets, stEdits, stLoads>>

\* save_value fails: memory goes back, nothing is announced.
SaveFails(t) ==
    /\ SetterAt(t, "mutated")
    /\ stMem' = stPrev[t]
    /\ stWriter' = stWriter \ {t}
    /\ SetterGo(t, "idle")
    /\ UNCHANGED <<stDisk, stReq, stPrev, stSnap, stSeen, stRelaunch, stSets, stEdits, stLoads, stHistory>>

\* on_change, then the relaunch a changed lsp.* key asks for.
Announce(t) ==
    /\ SetterAt(t, "saved")
    /\ stSeen' = Masked(stSnap[t])
    /\ stRelaunch' = (stRelaunch \/ SettingDefs[stReq[t].key].lsp)
    /\ SetterGo(t, "idle")
    /\ UNCHANGED <<stMem, stDisk, stWriter, stReq, stPrev, stSnap, stSets, stEdits, stLoads, stHistory>>

\* Somebody, or another build, writes settings.json.
HandEdit ==
    /\ stEdits < MaxHandEdits
    /\ \/ \E ver \in 0..SchemaCurrent + 1, k \in SettingKeys, v \in HandValues :
             stDisk' = File("object", ver, [stDisk.vals EXCEPT ![k] = v])
       \/ stDisk' = File("other", 0, NoVals)
    /\ stByHand' = TRUE
    /\ stEdits' = stEdits + 1
    /\ UNCHANGED <<stMem, stWriter, stPc, stReq, stPrev, stSnap, stSeen, stRelaunch, stSets, stLoads, stAcked>>

\* The process ends at any step and starts again.
Relaunch ==
    /\ stLoads < MaxLoads
    /\ stMem' = LoadSettings(stDisk)
    /\ stWriter' = {}
    /\ stPc' = [t \in Setters |-> "idle"]
    /\ stSeen' = Masked(stMem')
    /\ stRelaunch' = FALSE
    /\ stLoads' = stLoads + 1
    /\ stAcked' = IF stByHand THEN NoVals ELSE stAcked
    /\ UNCHANGED <<stDisk, stReq, stPrev, stSnap, stSets, stEdits, stByHand>>

SettingsNext ==
    \/ \E t \in Setters :
          \/ \E k \in SettingKeys, v \in SettingValues : Submit(t, k, v)
          \/ Mutate(t) \/ Save(t) \/ SaveFails(t) \/ Announce(t)
    \/ HandEdit \/ Relaunch

SettingsSpec == SettingsInit /\ [][SettingsNext]_settingsVars

-----------------------------------------------------------------------------

SettingsTypeOK ==
    /\ stMem.ver \in {SchemaCurrent, SchemaCurrent + 1} /\ DOMAIN stMem.vals = SettingKeys
    /\ stDisk.form \in {"missing", "object", "other"} /\ stDisk.ver \in 0..SchemaCurrent + 1
    /\ stPc \in [Setters -> {"idle", "checked", "mutated", "saved"}]
    /\ stWriter \subseteq Setters /\ stRelaunch \in BOOLEAN /\ stByHand \in BOOLEAN
    /\ \A k \in SettingKeys : SettingDefs[k].secret => stSeen.vals[k] \in {NoValue, Null, SecretMask}

\* Whatever the file holds, no reader is handed a value its constraints refuse
\* (SettingsService::new): get_or_default deserializes without checking.  Nor does
\* what a window shows in place of a secret ever become the secret.
MemoryIsValid ==
    \A k \in SettingKeys :
        /\ SettingIsValid(SettingDefs[k], GetSetting(k))
        /\ SettingDefs[k].secret => SecretMask \notin {stMem.vals[k], stDisk.vals[k]}

\* An acknowledged set stays, in memory and on disk, until the key is set
\* again: no other writer's save or rollback takes it away (write_lock).
AckedIsKept ==
    stWriter = {} =>
        \A k \in SettingKeys : stAcked[k] # NoValue =>
            /\ stMem.vals[k] = stAcked[k]
            /\ ~stByHand => stDisk.vals[k] = stAcked[k]

\* The settings hold, whatever the file is edited into and whoever writes.
SettingsHold == MemoryIsValid /\ AckedIsKept
=============================================================================
