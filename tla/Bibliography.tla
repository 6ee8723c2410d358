---------------------------- MODULE Bibliography ----------------------------
(***************************************************************************)
(* The bibliography panel and the files it edits.  The panel keeps a flat  *)
(* list of the entries of one file; a change sends the whole list, and the *)
(* service patches it onto the file as it is then: an entry that is not in *)
(* the list is deleted, one whose key is new is a rename if it looks like  *)
(* exactly one of those, and the fields the list does not show stay.       *)
(*                                                                         *)
(* rest names the fields of an entry that the list does not show; 0 where  *)
(* there are none.  finer is the fields of which the list shows less than  *)
(* the file says: of a date the year, of a name its words, of a title its  *)
(* letters.  The fields beyond title, authors and year that the list shows *)
(* too are patched like the title, and left out.                           *)
(***************************************************************************)
EXTENDS Integers, SequencesExt, FiniteSetsExt

CONSTANTS
    Paths,
    Extension,   \* of each path: "bib", "yaml" or "yml"
    Entries,     \* entries a user may type: key, title, authors, year, kind ("" for none)
    Originals,   \* contents of the files at first: sequences of entries with rests
    MaxActs      \* bound: things the user and other programs do

ASSUME BibAssumption == Extension \in [Paths -> {"bib", "yaml", "yml"}]

VARIABLES
    lib,         \* the entries of each file
    panel,       \* active file ("" if none), its list, loading, loadGen, discoverGen
    calls,       \* loads, saves and discoveries in flight
    acts,        \* counter
    kept,        \* history: the entries with rests that nobody deleted, and their years
    hasty,       \* history: files changed while a load or a save of them was under way
    late,        \* history: files changed otherwise than the list can say
    outside      \* history: files others wrote after the panel last read them

bibVars == <<lib, panel, calls, acts, kept, hasty, late, outside>>

Keys(es) == {es[i].key : i \in DOMAIN es}
\* sniff_format: the extension tells; the panel lists no other files.
Format(p) == IF Extension[p] = "bib" THEN "bib" ELSE "yaml"
Rests(es) == SelectSeq([i \in DOMAIN es |-> [rest |-> es[i].rest, year |-> es[i].year]], LAMBDA r : r.rest # 0)

\* entry_to_editable: what the panel is shown.
Shown(e) == [key |-> e.key, title |-> e.title, authors |-> e.authors, year |-> e.year, kind |-> e.kind]
Projection(es) == [i \in DOMAIN es |-> Shown(es[i])]

-----------------------------------------------------------------------------
(* serialize_bibliography.                                                  *)

\* cores_match: an absent title or an absent list of authors says nothing.
CoresMatch(e, edited) ==
    LET titles  == e.title # "" /\ edited.title # ""
        authors == e.authors # "" /\ edited.authors # ""
    IN /\ titles \/ authors
       /\ titles => e.title = edited.title
       /\ authors => e.authors = edited.authors

\* detect_key_renames: <<old key, position in the list>>, front to back; each
\* takes an entry no key of the list claims, if just one looks like it.
Renames(es, list) ==
    LET unclaimed == {i \in DOMAIN es : es[i].key \notin Keys(list)}
        upTo[n \in 0 .. Len(list)] ==
          IF n = 0 THEN {}
          ELSE LET taken == {r[1] : r \in upTo[n - 1]}
                   fits == {i \in unclaimed : es[i].key \notin taken /\ CoresMatch(es[i], list[n])}
               IN IF list[n].key \notin Keys(es) /\ Cardinality(fits) = 1
                  THEN upTo[n - 1] \union {<<es[i].key, n>> : i \in fits} ELSE upTo[n - 1]
    IN upTo[Len(list)]

Fresh(edited) == [key |-> edited.key, title |-> edited.title, authors |-> edited.authors,
                  year |-> edited.year, kind |-> edited.kind, rest |-> 0, finer |-> {}]
Fine(e) == {f \in {"title", "authors", "year"} : e[f] # ""}

\* Every entry of the list is written over its own in the file, whether it was
\* edited or not.  apply_biblatex_edits sets or removes what the list shows and
\* leaves the type as it is; apply_hayagriva_core_edits clears nothing, and a
\* new type builds the entry anew.  What is set is as fine as the list has it.
Patched(format, e, edited) ==
    LET stays(f) == edited[f] = "" /\ e.kind = edited.kind
        field(f) == IF stays(f) THEN e[f] ELSE edited[f]
    IN IF format = "bib" THEN [Fresh(edited) EXCEPT !.kind = e.kind, !.rest = e.rest]
       ELSE [Fresh(edited) EXCEPT !.title = field("title"), !.authors = field("authors"), !.year = field("year"),
                                  !.rest = IF e.kind = edited.kind THEN e.rest ELSE 0,
                                  !.finer = {f \in e.finer : stays(f)}]

\* Library::push and Bibliography::insert: an entry with the key is replaced.
Put(es, e) ==
    IF e.key \in Keys(es) THEN [i \in DOMAIN es |-> IF es[i].key = e.key THEN e ELSE es[i]] ELSE Append(es, e)

\* serialize_biblatex and serialize_yaml
Serialized(format, es, list) ==
    LET renames == Renames(es, list)
        \* edited_by_key holds the last of those with one key.
        source(e) == LET same == {n \in DOMAIN list : list[n].key = e.key} IN
                     IF same # {} THEN same ELSE {r[2] : r \in {s \in renames : s[1] = e.key}}
        patch(out, e) == IF source(e) = {} THEN out ELSE Put(out, Patched(format, e, list[Max(source(e))]))
        new(out, edited) == IF edited.key \in Keys(es) \union {list[r[2]].key : r \in renames}
                            THEN out ELSE Put(out, Fresh(edited))
    IN FoldLeft(new, FoldLeft(patch, <<>>, es), list)

-----------------------------------------------------------------------------
(* The panel's store.                                                       *)

BibInit ==
    /\ lib \in [Paths -> Originals]
    /\ panel = [active |-> "", list |-> <<>>, loading |-> FALSE, gen |-> 0, discoverGen |-> 0]
    /\ calls = {} /\ acts = 0
    /\ kept = [p \in Paths |-> Rests(lib[p])]
    /\ hasty = {} /\ late = {} /\ outside = {}

Act == acts < MaxActs /\ acts' = acts + 1
Call(kind, pc, p, list) == [kind |-> kind, pc |-> pc, path |-> p, gen |-> panel.gen + 1, list |-> list, out |-> <<>>]

\* What the next panel is: its loads and saves under way are of no concern to it.
Panel(p, loading) == [panel EXCEPT !.active = p, !.list = <<>>, !.loading = loading, !.gen = @ + 1]

\* loadFile
LoadFile(p) ==
    /\ Act
    /\ panel' = Panel(p, TRUE)
    /\ calls' = calls \union {Call("load", "read", p, <<>>)}
    /\ UNCHANGED <<lib, kept, hasty, late, outside>>

\* discoverFiles: the selection goes with the old list of files, which can be
\* picked from until the answer is there.
DiscoverFiles ==
    /\ Act
    /\ panel' = [Panel("", TRUE) EXCEPT !.discoverGen = @ + 1]
    /\ calls' = calls \union {[Call("discover", "walk", "", <<>>) EXCEPT !.gen = panel.discoverGen + 1]}
    /\ UNCHANGED <<lib, kept, hasty, late, outside>>

\* clear: the workspace was closed.  A discovery under way stays current.
Clear ==
    /\ Act
    /\ panel' = Panel("", FALSE)
    /\ UNCHANGED <<lib, calls, kept, hasty, late, outside>>

\* Calls about the file in the panel that have not returned.
UnderWay == \E c \in calls : c.path = panel.active

\* saveEntries
SaveEntries(list) ==
    /\ Act /\ panel.active # ""
    /\ panel' = [panel EXCEPT !.loading = TRUE, !.gen = @ + 1]
    /\ calls' = calls \union {Call("save", "original", panel.active, list)}
    /\ hasty' = IF UnderWay THEN hasty \union {panel.active} ELSE hasty
    /\ UNCHANGED <<lib, outside>>

\* The list is that of the file, or the file changed behind it.
Stale == ~UnderWay /\ panel.list # Projection(lib[panel.active])
Behind(also) == late' = IF Stale \/ also THEN late \union {panel.active} ELSE late

\* addEntry, with a key the modal has checked.
AddEntry(e) ==
    /\ panel.active # "" /\ e.key \notin Keys(panel.list)
    /\ SaveEntries(Append(panel.list, e))
    /\ Behind(FALSE)
    /\ UNCHANGED kept

\* updateEntry: any key may be changed to any other.  A change of the key that
\* takes the key of another entry, or comes with another title or authors, or
\* whose entry looks like none, is beyond the heuristic; so is a new type.
UpdateEntry(n, e) ==
    /\ n \in DOMAIN panel.list /\ e # panel.list[n]
    /\ SaveEntries([panel.list EXCEPT ![n] = e])
    /\ LET old == panel.list[n] IN
       /\ Behind(\/ e.key # old.key /\ (e.key \in Keys(panel.list) \/ ~CoresMatch(old, e))
                 \/ Format(panel.active) = "yaml" /\ e.kind # old.kind)
       /\ LET es == lib[panel.active]
              mine == {es[i].rest : i \in {j \in DOMAIN es : es[j].key = old.key}}
              year(y) == IF Format(panel.active) = "yaml" /\ e.year = "" THEN y ELSE e.year
          IN kept' = [kept EXCEPT ![panel.active] =
                        [i \in DOMAIN @ |-> IF @[i].rest \in mine THEN [@[i] EXCEPT !.year = year(@)] ELSE @[i]]]

\* deleteEntry, confirmed.
DeleteEntry(n) ==
    /\ n \in DOMAIN panel.list
    /\ SaveEntries(SelectSeq(panel.list, LAMBDA e : e.key # panel.list[n].key))
    /\ Behind(FALSE)
    /\ LET es == lib[panel.active]
           gone == {es[i].rest : i \in {j \in DOMAIN es : es[j].key = panel.list[n].key}}
       IN kept' = [kept EXCEPT ![panel.active] = SelectSeq(@, LAMBDA k : k.rest \notin gone)]

\* Another program appends an entry.
AppendOutside(p, e) ==
    /\ Act /\ e.key \notin Keys(lib[p])
    /\ lib' = [lib EXCEPT ![p] = Append(@, [Fresh(e) EXCEPT !.rest = 10 + acts, !.finer = Fine(e)])]
    /\ kept' = [kept EXCEPT ![p] = Append(@, [rest |-> 10 + acts, year |-> e.year])]
    /\ late' = IF \E c \in calls : c.path = p THEN late \union {p} ELSE late
    /\ outside' = outside \union {p}
    /\ UNCHANGED <<panel, calls, hasty>>

-----------------------------------------------------------------------------
(* The commands.                                                            *)

Becomes(c, d) == calls' = (calls \ {c}) \union d

\* bibliography_save_entries: the file is read again and patched ...
SaveReads(c) ==
    /\ c.pc = "original"
    /\ Becomes(c, {[c EXCEPT !.pc = "write", !.out = Serialized(Format(c.path), lib[c.path], c.list)]})
    /\ UNCHANGED <<lib, panel, acts, kept, hasty, late, outside>>

\* ... and written; the panel asks for it again.
SaveWrites(c) ==
    /\ c.pc = "write"
    /\ lib' = [lib EXCEPT ![c.path] = c.out]
    /\ Becomes(c, {[c EXCEPT !.pc = "read", !.out = <<>>, !.list = <<>>]})
    /\ outside' = IF c.gen = panel.gen THEN outside ELSE outside \union {c.path}
    /\ UNCHANGED <<panel, acts, kept, hasty, late>>

\* bibliography_parse_full
LoadReads(c) ==
    /\ c.pc = "read"
    /\ Becomes(c, {[c EXCEPT !.pc = "attach", !.list = Projection(lib[c.path])]})
    /\ outside' = IF c.gen = panel.gen THEN outside \ {c.path} ELSE outside
    /\ UNCHANGED <<lib, panel, acts, kept, hasty, late>>

\* Mutant: an answer is attached whatever was asked since.
AttachLate(c) ==
    /\ c.pc = "attach" /\ Becomes(c, {})
    /\ panel' = [panel EXCEPT !.list = c.list, !.loading = FALSE]
    /\ UNCHANGED <<lib, acts, kept, hasty, late, outside>>

Attach(c) ==
    /\ c.pc = "attach" /\ Becomes(c, {})
    /\ panel' = IF c.gen = panel.gen THEN [panel EXCEPT !.list = c.list, !.loading = FALSE] ELSE panel
    /\ UNCHANGED <<lib, acts, kept, hasty, late, outside>>

\* The list of files is there, or there is none: whatever else is under way,
\* the panel waits no longer.
Discovered(c) ==
    /\ c.pc = "walk" /\ Becomes(c, {})
    /\ panel' = IF c.gen = panel.discoverGen THEN [panel EXCEPT !.loading = FALSE] ELSE panel
    /\ UNCHANGED <<lib, acts, kept, hasty, late, outside>>

\* A load that fails deselects the file, a save that fails leaves the list.
Fails(c) ==
    /\ c.pc \in {"original", "read"} /\ Becomes(c, {})
    /\ panel' = IF c.gen # panel.gen THEN panel
                ELSE IF c.kind = "load" THEN [panel EXCEPT !.active = "", !.loading = FALSE]
                ELSE [panel EXCEPT !.loading = FALSE]
    /\ late' = late \union {c.path}
    /\ UNCHANGED <<lib, acts, kept, hasty, outside>>

BibNext ==
    \/ \E p \in Paths : LoadFile(p) \/ \E e \in Entries : AppendOutside(p, e)
    \/ DiscoverFiles \/ Clear
    \/ \E e \in Entries : AddEntry(e) \/ \E n \in 1 .. Len(panel.list) : UpdateEntry(n, e)
    \/ \E n \in 1 .. Len(panel.list) : DeleteEntry(n)
    \/ \E c \in calls : SaveReads(c) \/ SaveWrites(c) \/ LoadReads(c) \/ Attach(c) \/ Discovered(c) \/ Fails(c)

-----------------------------------------------------------------------------
(* Properties.                                                              *)

\* The fields the list does not show survive, entry by entry and in their
\* order, through additions, changes of keys and deletions, and an entry that
\* was not edited keeps its year, if the panel showed the file when the change
\* was made.  The fields the list does show are cut to what it shows.
UntouchedSurvives ==
    \A p \in Paths \ (hasty \union late) : Rests(lib[p]) = kept[p] \/ \E c \in calls : c.path = p

\* "Untouched entries and untouched fields on edited entries survive verbatim":
\* a list sent back as it was shown leaves the file as it is.
IdleSaveIsVerbatim ==
    \A p \in Paths : Serialized(Format(p), lib[p], Projection(lib[p])) = lib[p]

\* At rest the panel shows the file it names and does not say that it loads,
\* however discoveries, loads and saves of several files have overtaken each
\* other.
PanelShowsFile ==
    calls = {} =>
        /\ ~panel.loading
        /\ panel.active # "" /\ panel.active \notin hasty \union late \union outside =>
              panel.list = Projection(lib[panel.active])

\* Neither the file nor the panel loses what the other one does not show.
BibliographyIsKept == UntouchedSurvives /\ PanelShowsFile

\* "Untouched entries ... survive verbatim", of the fields the list does not
\* show: without the condition that the panel had finished loading.
NothingElseIsDeleted ==
    \A p \in Paths \ late : Rests(lib[p]) = kept[p] \/ \E c \in calls : c.path = p
=============================================================================
