------------------------------ MODULE MCStores ------------------------------
(* What the core keeps, one part per behaviour: a file that is replaced     *)
(* atomically, the settings, the session, the stores of the open tabs, and  *)
(* the graph of the documents that include one another.                     *)
EXTENDS AtomicFile, SettingsStore, SessionStore, TabLifecycle, Dependents

CONSTANTS AllParts

VARIABLE part

MCDef(type, min, max, options, default, secret, lsp) ==
    [type |-> type, min |-> min, max |-> max, options |-> options, dynamic |-> FALSE,
     default |-> default, secret |-> secret, readonly |-> FALSE, lsp |-> lsp]
MCNum(n)  == [kind |-> "int", n |-> n, toks |-> <<>>]
MCSettingDefs ==
    [size |-> MCDef("integer", 1, 2, {}, MCNum(1), FALSE, FALSE),
     apiKey |-> MCDef("string", 0, 0, {}, Text(<<"">>), TRUE, FALSE),
     path |-> MCDef("keybinding", 0, 0, {}, Text(<<"mod", "char">>), FALSE, TRUE)]
MCSettingValues == {MCNum(2), MCNum(3), Text(<<"mask">>), Text(<<"mod", "named">>)}
MCHandValues == {MCNum(3), Text(<<"mod", "mod">>), Text(<<"secret">>)}
MCRecentLists == {<<"a", "b", "a">>, <<"b", "c", "d", "a">>}
MCDocLists == {<<>>, <<"disk", "bad", "untitled">>}

\* Two files, one below the workspace root, that may be renamed to each other.
MCRenames == {[p \in {"a"} |-> "b"], [p \in {"b"} |-> "a"]}

\* A document that includes a second one that includes a third.
MCIncludes ==
    [f \in Files |-> [v \in 0 .. MaxVersion |->
        CASE f = "main" -> IF v = 1 THEN {} ELSE {"part"}
          [] f = "part" -> {"leaf"}
          [] OTHER      -> {}]]

\* The second edit is one of the included file too, and nothing is written then.
Few ==
    version' = 2 =>
        /\ onDisk' = [f \in Files |-> 0]
        /\ \A f \in Files \ {"part"} : buf'[f] \in {-1, 0} /\ \A c \in calls' : c[2] # f

StoresInit ==
    /\ part \in AllParts
    /\ AtomicFileInit /\ SettingsInit /\ SessionInit /\ TabsInit /\ DependentsInit
    /\ part # "session" => snDisk = NoSession

StoresNext ==
    /\ part' = part
    /\ \/ part = "file" /\ AtomicFileNext /\ UNCHANGED <<settingsVars, sessionVars, tabVars, depVars>>
       \/ part = "settings" /\ SettingsNext /\ UNCHANGED <<atomicFileVars, sessionVars, tabVars, depVars>>
       \/ part = "session" /\ SessionNext /\ UNCHANGED <<atomicFileVars, settingsVars, tabVars, depVars>>
       \/ part = "tabs" /\ TabsNext /\ UNCHANGED <<atomicFileVars, settingsVars, sessionVars, depVars>>
       \/ part = "dependents" /\ DependentsNext /\ Few /\ UNCHANGED <<atomicFileVars, settingsVars, sessionVars, tabVars>>

Spec == StoresInit /\ [][StoresNext]_<<part, atomicFileVars, settingsVars, sessionVars, tabVars, depVars>>
=============================================================================
