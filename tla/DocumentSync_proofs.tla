------------------------ MODULE DocumentSync_proofs ------------------------
(***************************************************************************)
(* The document and its file for any texts, inodes, savers, handlers and   *)
(* bounds: the types, saves in the order of their revisions, and no edit   *)
(* forgotten but the one made between the two halves of use-disk.          *)
(*                                                                         *)
(* The invariant that carries the last two follows the revision a save     *)
(* holds: it is at most the buffer's, at least that of the file, and while *)
(* it equals the buffer's the save holds the buffer's text, or that text   *)
(* has come from the file meanwhile.                                       *)
(***************************************************************************)
EXTENDS DocumentSync, TLAPS

\* The save lock, and what a save that has taken its snapshot knows.
OneSaver ==
    \A s, r \in Savers : pc[s] # "idle" /\ pc[r] # "idle" => s = r

SnapsTyped ==
    /\ \A s \in Savers : pc[s] = "snapped" => snap[s].text \in Contents
    /\ \A h \in Handlers : hpc[h] \in {"read", "decide"} => seen[h].content \in Contents
    /\ adopt # "idle" => loaded.content \in Contents /\ rev <= MaxRev

RevsOrdered ==
    /\ written <= rev
    /\ \A s \in Savers : pc[s] \in {"snapped", "replaced"} => snap[s].rev <= rev
    /\ \A s \in Savers : pc[s] = "snapped" => written <= snap[s].rev

SnapsCurrent ==
    /\ \A s \in Savers : pc[s] = "snapped" /\ snap[s].rev = rev =>
          durable \/ snap[s].text = text
    /\ \A s \in Savers : pc[s] = "replaced" /\ snap[s].rev = rev => durable

AdoptedIsDurable == adopt = "set" => durable \/ swept

\* The types and the revisions.
Base == TypeOK /\ OneSaver /\ SnapsTyped /\ RevsOrdered

\* The histories agree with the flags.
Clean == SnapsCurrent /\ AdoptedIsDurable /\ CleanIsDurable

Unchanged == UNCHANGED vars

-----------------------------------------------------------------------------
\* The document opens on its file, at rest.
LEMMA InitBase == Init => Base
<1> SUFFICES ASSUME Init PROVE Base
  OBVIOUS
<1>1. /\ disk \in Files /\ stored = disk /\ text = disk.content
      /\ rev = 0 /\ dirty = FALSE /\ conflict = "none" /\ adopt = "idle"
      /\ loaded = NoVersion /\ durable = TRUE /\ swept = FALSE /\ written = 0 /\ externals = 0
      /\ pc = [s \in Savers |-> "idle"]
      /\ kind = [s \in Savers |-> "plain"]
      /\ snap = [s \in Savers |-> NoSnap]
      /\ found = [s \in Savers |-> Missing]
      /\ hpc = [h \in Handlers |-> "idle"]
      /\ seen = [h \in Handlers |-> NoVersion]
      /\ verdict = [h \in Handlers |-> "nothing"]
  BY Zenon DEF Init
<1>2. /\ 0 \in Revs /\ 0 \in 0..MaxExternal
      /\ NoSnap \in [rev : Revs, text : Contents \union {Missing}]
      /\ NoVersion \in Versions
  BY DocumentAssumption, SMT DEF Revs, NoSnap, NoVersion, Versions
<1>3. /\ text \in Contents
      /\ stored \in [content : Contents, ino : Inodes \union {Missing}]
  BY <1>1, SMT DEF Files
<1>a. /\ pc \in [Savers -> {"idle", "gated", "snapped", "replaced", "marked", "read"}]
      /\ kind \in [Savers -> {"plain", "overwrite"}]
      /\ found \in [Savers -> Contents \union {Missing}]
      /\ hpc \in [Handlers -> {"idle", "gone", "read", "decide"}]
      /\ verdict \in [Handlers -> {"nothing", "modified", "replaced", "rebaseline"}]
  BY <1>1, SMT
<1>b. /\ snap \in [Savers -> [rev : Revs, text : Contents \union {Missing}]]
      /\ seen \in [Handlers -> Versions]
  BY <1>1, <1>2, SMT
<1>4. TypeOK
  BY <1>1, <1>2, <1>3, <1>a, <1>b, Zenon DEF TypeOK
<1>5. OneSaver /\ SnapsTyped
  BY <1>1, Zenon DEF OneSaver, SnapsTyped
<1>6. RevsOrdered
  BY <1>1, SMT DEF RevsOrdered
<1> QED
  BY <1>4, <1>5, <1>6 DEF Base

\* The text read at the opening is on disk.
LEMMA InitClean == Init => Clean
BY SMT DEF Init, Clean, SnapsCurrent, AdoptedIsDurable, CleanIsDurable

-----------------------------------------------------------------------------
\* What a step writes has its type; rev + 1 stays within the bound.
LEMMA TypeStep == Base /\ [Next]_vars => TypeOK'
<1> SUFFICES ASSUME Base, [Next]_vars PROVE TypeOK'
  OBVIOUS
<1> USE DocumentAssumption
<1>0. TypeOK /\ SnapsTyped
  BY DEF Base
<1>1. ASSUME NEW t \in Contents, Edit(t) PROVE TypeOK'
  <2>1. rev < MaxRev /\ rev \in Revs
    BY <1>0, <1>1, Zenon DEF Edit, TypeOK
  <2>2. rev + 1 \in Revs
    BY <2>1, SMT DEF Revs
  <2> QED
    BY <1>0, <1>1, <2>2, Zenon DEF Edit, TypeOK, saveVars, hVars, adoptVars
<1>2. ASSUME NEW f \in Files, External(f) PROVE TypeOK'
  BY <1>0, <1>2, SMT DEF External, TypeOK, bufVars, saveVars, hVars, adoptVars, history
<1>3. CASE Delete
  BY <1>0, <1>3, SMT DEF Delete, TypeOK, bufVars, saveVars, hVars, adoptVars, history
<1>4. ASSUME NEW s \in Savers, NEW k \in {"plain", "overwrite"}, StartSave(s, k) PROVE TypeOK'
  BY <1>0, <1>4, SMT DEF StartSave, TypeOK, bufVars, hVars, adoptVars, history
<1>5. ASSUME NEW s \in Savers, SnapshotSave(s) PROVE TypeOK'
  BY <1>0, <1>5, SMT DEF SnapshotSave, TypeOK, bufVars, hVars, adoptVars, history
<1>6. ASSUME NEW s \in Savers, Replace(s) PROVE TypeOK'
  BY <1>0, <1>6, SMT DEF Replace, TypeOK, SnapsTyped, Files, bufVars, hVars, adoptVars
<1>7. ASSUME NEW s \in Savers, SaveFails(s) PROVE TypeOK'
  BY <1>0, <1>7, SMT DEF SaveFails, Leave, NoSnap, Revs, TypeOK, bufVars, hVars, adoptVars, history
<1>8. ASSUME NEW s \in Savers, MarkSaved(s) PROVE TypeOK'
  BY <1>0, <1>8, SMT DEF MarkSaved, TypeOK, hVars, adoptVars, history
<1>9. ASSUME NEW s \in Savers, ReadBaseline(s) PROVE TypeOK'
  BY <1>0, <1>9, SMT DEF ReadBaseline, ContentOf, TypeOK, Files, bufVars, hVars, adoptVars, history
<1>10. ASSUME NEW s \in Savers, SetBaseline(s) PROVE TypeOK'
  BY <1>0, <1>10, SMT DEF SetBaseline, Leave, NoSnap, Revs, InodeOf, TypeOK, Files, hVars,
     adoptVars, history
<1>11. ASSUME NEW h \in Handlers, Look(h) PROVE TypeOK'
  BY <1>0, <1>11, SMT DEF Look, ContentOf, Versions, Files, TypeOK, bufVars, saveVars, adoptVars,
     history
<1>12. ASSUME NEW h \in Handlers, Gone(h) PROVE TypeOK'
  BY <1>0, <1>12, SMT DEF Gone, Done, NoVersion, Versions, TypeOK, saveVars, adoptVars, history
<1>13. ASSUME NEW h \in Handlers, Compare(h) PROVE TypeOK'
  BY <1>0, <1>13, SMT DEF Compare, Judge, InodeOf, Versions, Files, TypeOK, bufVars, saveVars,
     adoptVars, history
<1>14. ASSUME NEW h \in Handlers, Decide(h) PROVE TypeOK'
  BY <1>0, <1>14, SMT DEF Decide, Done, NoVersion, Versions, SnapsTyped, TypeOK, saveVars,
     adoptVars, history
<1>15. CASE Load
  BY <1>0, <1>15, SMT DEF Load, Versions, Files, TypeOK, bufVars, saveVars, hVars, history
<1>16. CASE AdoptText
  BY <1>0, <1>16, SMT DEF AdoptText, InodeOf, Versions, Files, SnapsTyped, TypeOK, saveVars, hVars
<1>17. CASE AdoptCommit
  <2>1. rev <= MaxRev /\ rev \in Revs
    BY <1>0, <1>17, SMT DEF AdoptCommit, SnapsTyped, TypeOK
  <2>2. rev + 1 \in Revs
    BY <2>1, SMT DEF Revs
  <2>3. loaded \in [content : Contents, ino : Inodes \union {Missing}]
    BY <1>0, <1>17, SMT DEF AdoptCommit, SnapsTyped, TypeOK, Versions
  <2>4. NoVersion \in Versions
    BY SMT DEF NoVersion, Versions
  <2> QED
    BY <1>0, <1>17, <2>2, <2>3, <2>4, Zenon DEF AdoptCommit, TypeOK, saveVars, hVars, history
<1>18. CASE Unchanged
  BY <1>0, <1>18, SMT DEF Unchanged, vars, bufVars, saveVars, hVars, adoptVars, history, TypeOK
<1> QED
  BY <1>1, <1>2, <1>3, <1>4, <1>5, <1>6, <1>7, <1>8, <1>9, <1>10, <1>11, <1>12, <1>13, <1>14,
     <1>15, <1>16, <1>17, <1>18, Zenon DEF Next, Save, Handle, Unchanged

-----------------------------------------------------------------------------
\* A save starts only when every other has ended.
LEMMA OneSaverStep == Base /\ [Next]_vars => OneSaver'
<1> SUFFICES ASSUME Base, [Next]_vars PROVE OneSaver'
  OBVIOUS
<1>0. OneSaver /\ pc \in [Savers -> {"idle", "gated", "snapped", "replaced", "marked", "read"}]
  BY Zenon DEF Base, TypeOK
<1>1. ASSUME NEW s \in Savers, pc[s] # "idle", NEW p, pc' = [pc EXCEPT ![s] = p]
      PROVE OneSaver'
  BY <1>0, <1>1, SMT DEF OneSaver
<1>2. ASSUME NEW s \in Savers, NEW k \in {"plain", "overwrite"}, StartSave(s, k) PROVE OneSaver'
  BY <1>0, <1>2, SMT DEF StartSave, LockFree, OneSaver
<1>3. ASSUME NEW s \in Savers,
             SnapshotSave(s) \/ Replace(s) \/ SaveFails(s) \/ MarkSaved(s) \/ ReadBaseline(s)
                \/ SetBaseline(s)
      PROVE OneSaver'
  <2>1. pc[s] # "idle" /\ \E p : pc' = [pc EXCEPT ![s] = p]
    BY <1>3, Zenon DEF SnapshotSave, Replace, SaveFails, MarkSaved, ReadBaseline, SetBaseline,
       Leave
  <2> QED
    BY <1>1, <2>1
<1>4. CASE pc' = pc
  BY <1>0, <1>4, SMT DEF OneSaver
<1>5. \/ pc' = pc
      \/ \E s \in Savers : Save(s)
  BY Zenon DEF Next, vars, Edit, External, Delete, Handle, Look, Gone, Compare, Decide, Load,
     AdoptText, AdoptCommit, saveVars
<1> QED
  BY <1>2, <1>3, <1>4, <1>5, Zenon DEF Save

\* What was read or snapshotted is a text; use-disk leaves room for a revision.
LEMMA SnapsTypedStep == Base /\ [Next]_vars => SnapsTyped'
<1> SUFFICES ASSUME Base, [Next]_vars PROVE SnapsTyped'
  OBVIOUS
<1> USE DocumentAssumption
<1>0. TypeOK /\ SnapsTyped
  BY DEF Base
<1>1. ASSUME NEW t \in Contents, Edit(t) PROVE SnapsTyped'
  BY <1>0, <1>1, SMT DEF Edit, Revs, SnapsTyped, TypeOK, saveVars, hVars, adoptVars
<1>2. ASSUME NEW f \in Files, External(f) PROVE SnapsTyped'
  BY <1>0, <1>2, SMT DEF External, SnapsTyped, TypeOK, bufVars, saveVars, hVars,
     adoptVars, history
<1>3. CASE Delete
  BY <1>0, <1>3, SMT DEF Delete, SnapsTyped, TypeOK, bufVars, saveVars, hVars,
     adoptVars, history
<1>4. ASSUME NEW s \in Savers, NEW k \in {"plain", "overwrite"}, StartSave(s, k)
      PROVE SnapsTyped'
  BY <1>0, <1>4, SMT DEF StartSave, SnapsTyped, TypeOK, bufVars, hVars, adoptVars,
     history
<1>5. ASSUME NEW s \in Savers, SnapshotSave(s) PROVE SnapsTyped'
  BY <1>0, <1>5, SMT DEF SnapshotSave, SnapsTyped, TypeOK, bufVars, hVars,
     adoptVars, history
<1>6. ASSUME NEW s \in Savers, Replace(s) PROVE SnapsTyped'
  BY <1>0, <1>6, SMT DEF Replace, SnapsTyped, TypeOK, bufVars, hVars, adoptVars
<1>7. ASSUME NEW s \in Savers, SaveFails(s) PROVE SnapsTyped'
  BY <1>0, <1>7, SMT DEF SaveFails, SnapsTyped, TypeOK, Leave, bufVars, hVars,
     adoptVars, history
<1>8. ASSUME NEW s \in Savers, MarkSaved(s) PROVE SnapsTyped'
  BY <1>0, <1>8, SMT DEF MarkSaved, SnapsTyped, TypeOK, hVars, adoptVars, history
<1>9. ASSUME NEW s \in Savers, ReadBaseline(s) PROVE SnapsTyped'
  BY <1>0, <1>9, SMT DEF ReadBaseline, SnapsTyped, TypeOK, bufVars, hVars,
     adoptVars, history
<1>10. ASSUME NEW s \in Savers, SetBaseline(s) PROVE SnapsTyped'
  BY <1>0, <1>10, SMT DEF SetBaseline, SnapsTyped, TypeOK, Leave, hVars, adoptVars,
     history
<1>11. ASSUME NEW h \in Handlers, Look(h) PROVE SnapsTyped'
  BY <1>0, <1>11, SMT DEF Look, ContentOf, Files, SnapsTyped, TypeOK, bufVars,
     saveVars, adoptVars, history
<1>12. ASSUME NEW h \in Handlers, Gone(h) PROVE SnapsTyped'
  BY <1>0, <1>12, SMT DEF Gone, SnapsTyped, TypeOK, Done, saveVars, adoptVars,
     history
<1>13. ASSUME NEW h \in Handlers, Compare(h) PROVE SnapsTyped'
  BY <1>0, <1>13, SMT DEF Compare, SnapsTyped, TypeOK, bufVars, saveVars,
     adoptVars, history
<1>14. ASSUME NEW h \in Handlers, Decide(h) PROVE SnapsTyped'
  BY <1>0, <1>14, SMT DEF Decide, SnapsTyped, TypeOK, Done, saveVars, adoptVars,
     history
<1>15. CASE Load
  BY <1>0, <1>15, SMT DEF Load, Files, Revs, SnapsTyped, TypeOK, bufVars, saveVars,
     hVars, history
<1>16. CASE AdoptText
  BY <1>0, <1>16, SMT DEF AdoptText, SnapsTyped, TypeOK, saveVars, hVars
<1>17. CASE AdoptCommit
  BY <1>0, <1>17, SMT DEF AdoptCommit, SnapsTyped, TypeOK, saveVars, hVars, history
<1>18. CASE Unchanged
  BY <1>0, <1>18, SMT DEF Unchanged, vars, bufVars, saveVars, hVars, adoptVars,
     history, SnapsTyped, TypeOK
<1> QED
  BY <1>1, <1>2, <1>3, <1>4, <1>5, <1>6, <1>7, <1>8, <1>9, <1>10, <1>11, <1>12, <1>13, <1>14,
     <1>15, <1>16, <1>17, <1>18, Zenon DEF Next, Save, Handle, Unchanged

\* A save snapshots a revision at least the file's, and it is the only one to.
LEMMA RevsOrderedStep == Base /\ [Next]_vars => RevsOrdered'
<1> SUFFICES ASSUME Base, [Next]_vars PROVE RevsOrdered'
  OBVIOUS
<1>0. TypeOK /\ OneSaver /\ RevsOrdered
  BY DEF Base
<1>1. ASSUME NEW t \in Contents, Edit(t) PROVE RevsOrdered'
  BY <1>0, <1>1, SMT DEF Edit, RevsOrdered, Revs, TypeOK, saveVars, hVars,
     adoptVars
<1>2. ASSUME NEW f \in Files, External(f) PROVE RevsOrdered'
  BY <1>0, <1>2, SMT DEF External, RevsOrdered, Revs, TypeOK, bufVars, saveVars,
     hVars, adoptVars, history
<1>3. CASE Delete
  BY <1>0, <1>3, SMT DEF Delete, RevsOrdered, Revs, TypeOK, bufVars, saveVars,
     hVars, adoptVars, history
<1>4. ASSUME NEW s \in Savers, NEW k \in {"plain", "overwrite"}, StartSave(s, k)
      PROVE RevsOrdered'
  BY <1>0, <1>4, SMT DEF StartSave, RevsOrdered, Revs, TypeOK, bufVars, hVars,
     adoptVars, history
<1>5. ASSUME NEW s \in Savers, SnapshotSave(s) PROVE RevsOrdered'
  BY <1>0, <1>5, SMT DEF SnapshotSave, OneSaver, RevsOrdered, Revs, TypeOK,
     bufVars, hVars, adoptVars, history
<1>6. ASSUME NEW s \in Savers, Replace(s) PROVE RevsOrdered'
  BY <1>0, <1>6, SMT DEF Replace, OneSaver, RevsOrdered, Revs, TypeOK, bufVars,
     hVars, adoptVars
<1>7. ASSUME NEW s \in Savers, SaveFails(s) PROVE RevsOrdered'
  BY <1>0, <1>7, SMT DEF SaveFails, NoSnap, RevsOrdered, Revs, TypeOK, Leave,
     bufVars, hVars, adoptVars, history
<1>8. ASSUME NEW s \in Savers, MarkSaved(s) PROVE RevsOrdered'
  BY <1>0, <1>8, SMT DEF MarkSaved, RevsOrdered, Revs, TypeOK, hVars, adoptVars,
     history
<1>9. ASSUME NEW s \in Savers, ReadBaseline(s) PROVE RevsOrdered'
  BY <1>0, <1>9, SMT DEF ReadBaseline, RevsOrdered, Revs, TypeOK, bufVars, hVars,
     adoptVars, history
<1>10. ASSUME NEW s \in Savers, SetBaseline(s) PROVE RevsOrdered'
  BY <1>0, <1>10, SMT DEF SetBaseline, NoSnap, RevsOrdered, Revs, TypeOK, Leave,
     hVars, adoptVars, history
<1>11. ASSUME NEW h \in Handlers, Look(h) PROVE RevsOrdered'
  BY <1>0, <1>11, SMT DEF Look, RevsOrdered, Revs, TypeOK, bufVars, saveVars,
     adoptVars, history
<1>12. ASSUME NEW h \in Handlers, Gone(h) PROVE RevsOrdered'
  BY <1>0, <1>12, SMT DEF Gone, RevsOrdered, Revs, TypeOK, Done, saveVars,
     adoptVars, history
<1>13. ASSUME NEW h \in Handlers, Compare(h) PROVE RevsOrdered'
  BY <1>0, <1>13, SMT DEF Compare, RevsOrdered, Revs, TypeOK, bufVars, saveVars,
     adoptVars, history
<1>14. ASSUME NEW h \in Handlers, Decide(h) PROVE RevsOrdered'
  BY <1>0, <1>14, SMT DEF Decide, RevsOrdered, Revs, TypeOK, Done, saveVars,
     adoptVars, history
<1>15. CASE Load
  BY <1>0, <1>15, SMT DEF Load, RevsOrdered, Revs, TypeOK, bufVars, saveVars,
     hVars, history
<1>16. CASE AdoptText
  BY <1>0, <1>16, SMT DEF AdoptText, RevsOrdered, Revs, TypeOK, saveVars, hVars
<1>17. CASE AdoptCommit
  BY <1>0, <1>17, SMT DEF AdoptCommit, RevsOrdered, Revs, TypeOK, saveVars, hVars,
     history
<1>18. CASE Unchanged
  BY <1>0, <1>18, SMT DEF Unchanged, vars, bufVars, saveVars, hVars, adoptVars,
     history, RevsOrdered, Revs, TypeOK
<1> QED
  BY <1>1, <1>2, <1>3, <1>4, <1>5, <1>6, <1>7, <1>8, <1>9, <1>10, <1>11, <1>12, <1>13, <1>14,
     <1>15, <1>16, <1>17, <1>18, Zenon DEF Next, Save, Handle, Unchanged

\* An edit makes every snapshot older than the buffer; only a replaced file or
\* the file's own text makes the buffer durable.
LEMMA CleanStep == Base /\ Clean /\ [Next]_vars => Clean'
<1> SUFFICES ASSUME Base, Clean, [Next]_vars PROVE Clean'
  OBVIOUS
<1>0. TypeOK /\ RevsOrdered /\ SnapsCurrent /\ AdoptedIsDurable /\ CleanIsDurable
  BY DEF Base, Clean
<1>1. ASSUME NEW t \in Contents, Edit(t) PROVE Clean'
  BY <1>0, <1>1, SMT DEF Edit, RevsOrdered, Revs, Clean, SnapsCurrent,
     AdoptedIsDurable, CleanIsDurable, TypeOK, saveVars, hVars, adoptVars
<1>2. ASSUME NEW f \in Files, External(f) PROVE Clean'
  BY <1>0, <1>2, SMT DEF External, Clean, SnapsCurrent, AdoptedIsDurable,
     CleanIsDurable, TypeOK, bufVars, saveVars, hVars, adoptVars, history
<1>3. CASE Delete
  BY <1>0, <1>3, SMT DEF Delete, Clean, SnapsCurrent, AdoptedIsDurable,
     CleanIsDurable, TypeOK, bufVars, saveVars, hVars, adoptVars, history
<1>4. ASSUME NEW s \in Savers, NEW k \in {"plain", "overwrite"}, StartSave(s, k)
      PROVE Clean'
  BY <1>0, <1>4, SMT DEF StartSave, Clean, SnapsCurrent, AdoptedIsDurable,
     CleanIsDurable, TypeOK, bufVars, hVars, adoptVars, history
<1>5. ASSUME NEW s \in Savers, SnapshotSave(s) PROVE Clean'
  BY <1>0, <1>5, SMT DEF SnapshotSave, Clean, SnapsCurrent, AdoptedIsDurable,
     CleanIsDurable, TypeOK, bufVars, hVars, adoptVars, history
<1>6. ASSUME NEW s \in Savers, Replace(s) PROVE Clean'
  BY <1>0, <1>6, SMT DEF Replace, Clean, SnapsCurrent, AdoptedIsDurable,
     CleanIsDurable, TypeOK, bufVars, hVars, adoptVars
<1>7. ASSUME NEW s \in Savers, SaveFails(s) PROVE Clean'
  BY <1>0, <1>7, SMT DEF SaveFails, NoSnap, Clean, SnapsCurrent, AdoptedIsDurable,
     CleanIsDurable, TypeOK, Leave, bufVars, hVars, adoptVars, history
<1>8. ASSUME NEW s \in Savers, MarkSaved(s) PROVE Clean'
  BY <1>0, <1>8, SMT DEF MarkSaved, Clean, SnapsCurrent, AdoptedIsDurable,
     CleanIsDurable, TypeOK, hVars, adoptVars, history
<1>9. ASSUME NEW s \in Savers, ReadBaseline(s) PROVE Clean'
  BY <1>0, <1>9, SMT DEF ReadBaseline, Clean, SnapsCurrent, AdoptedIsDurable,
     CleanIsDurable, TypeOK, bufVars, hVars, adoptVars, history
<1>10. ASSUME NEW s \in Savers, SetBaseline(s) PROVE Clean'
  BY <1>0, <1>10, SMT DEF SetBaseline, NoSnap, Clean, SnapsCurrent,
     AdoptedIsDurable, CleanIsDurable, TypeOK, Leave, hVars, adoptVars, history
<1>11. ASSUME NEW h \in Handlers, Look(h) PROVE Clean'
  BY <1>0, <1>11, SMT DEF Look, Clean, SnapsCurrent, AdoptedIsDurable,
     CleanIsDurable, TypeOK, bufVars, saveVars, adoptVars, history
<1>12. ASSUME NEW h \in Handlers, Gone(h) PROVE Clean'
  BY <1>0, <1>12, SMT DEF Gone, Clean, SnapsCurrent, AdoptedIsDurable,
     CleanIsDurable, TypeOK, Done, saveVars, adoptVars, history
<1>13. ASSUME NEW h \in Handlers, Compare(h) PROVE Clean'
  BY <1>0, <1>13, SMT DEF Compare, Clean, SnapsCurrent, AdoptedIsDurable,
     CleanIsDurable, TypeOK, bufVars, saveVars, adoptVars, history
<1>14. ASSUME NEW h \in Handlers, Decide(h) PROVE Clean'
  BY <1>0, <1>14, SMT DEF Decide, Clean, SnapsCurrent, AdoptedIsDurable,
     CleanIsDurable, TypeOK, Done, saveVars, adoptVars, history
<1>15. CASE Load
  BY <1>0, <1>15, SMT DEF Load, Clean, SnapsCurrent, AdoptedIsDurable,
     CleanIsDurable, TypeOK, bufVars, saveVars, hVars, history
<1>16. CASE AdoptText
  BY <1>0, <1>16, SMT DEF AdoptText, Clean, SnapsCurrent, AdoptedIsDurable,
     CleanIsDurable, TypeOK, saveVars, hVars
<1>17. CASE AdoptCommit
  BY <1>0, <1>17, SMT DEF AdoptCommit, RevsOrdered, Revs, Clean, SnapsCurrent,
     AdoptedIsDurable, CleanIsDurable, TypeOK, saveVars, hVars, history
<1>18. CASE Unchanged
  BY <1>0, <1>18, SMT DEF Unchanged, vars, bufVars, saveVars, hVars, adoptVars,
     history, Clean, SnapsCurrent, AdoptedIsDurable, CleanIsDurable, TypeOK
<1> QED
  BY <1>1, <1>2, <1>3, <1>4, <1>5, <1>6, <1>7, <1>8, <1>9, <1>10, <1>11, <1>12, <1>13, <1>14,
     <1>15, <1>16, <1>17, <1>18, Zenon DEF Next, Save, Handle, Unchanged

-----------------------------------------------------------------------------
\* The types and the revisions are inductive ...
THEOREM BaseHolds == Spec => []Base
<1>1. Base /\ [Next]_vars => Base'
  BY TypeStep, OneSaverStep, SnapsTypedStep, RevsOrderedStep DEF Base
<1> QED
  BY <1>1, InitBase, PTL DEF Spec

\* ... and with them the rest.
THEOREM CleanHolds == Spec => []Clean
<1>1. Base /\ Clean /\ [Next]_vars => Clean'
  BY CleanStep
<1> QED
  BY <1>1, InitClean, BaseHolds, PTL DEF Spec

\* Every variable of the document and of its saves has its type.
THEOREM TypeCorrect == Spec => []TypeOK
<1>1. Base => TypeOK
  BY DEF Base
<1> QED
  BY <1>1, BaseHolds, PTL

\* CleanIsDurable: mark_saved forgets no edit made during the write, and
\* use-disk none but the one made between its two halves.
THEOREM NoEditForgotten == Spec => []CleanIsDurable
<1>1. Clean => CleanIsDurable
  BY DEF Clean
<1> QED
  BY <1>1, CleanHolds, PTL

\* SavesInOrder: the save lock keeps the file's revisions in order.
THEOREM FileInOrder == Spec => SavesInOrder
<1>1. Base /\ [Next]_vars => [written' >= written]_written
  <2> SUFFICES ASSUME Base, [Next]_vars PROVE written' >= written \/ written' = written
    BY Zenon
  <2>1. \/ written' = written
        \/ \E s \in Savers : pc[s] = "snapped" /\ written' = snap[s].rev
    BY Zenon DEF Next, vars, history, Save, Handle, Edit, External, Delete, StartSave,
       SnapshotSave, Replace, SaveFails, MarkSaved, ReadBaseline, SetBaseline, Look, Gone,
       Compare, Decide, Load, AdoptText, AdoptCommit
  <2>2. \A s \in Savers : pc[s] = "snapped" => written <= snap[s].rev
    BY DEF Base, RevsOrdered
  <2>3. written \in Int /\ \A s \in Savers : snap[s].rev \in Int
    BY DocumentAssumption, SMT DEF Base, TypeOK, Revs
  <2> QED
    BY <2>1, <2>2, <2>3, SMT
<1> QED
  BY <1>1, BaseHolds, PTL DEF Spec, SavesInOrder

=============================================================================
