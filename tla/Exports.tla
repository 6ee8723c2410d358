------------------------------ MODULE Exports ------------------------------
(***************************************************************************)
(* Exports over the running compile pipeline: a command names a revision   *)
(* of each document, waits for that revision's result, renders it and      *)
(* writes files, a PDF, the pages as images, or a batch of PDFs in one     *)
(* folder.                                                                 *)
(*                                                                         *)
(* A file name is a stem, the sequence of a base and the numbers appended  *)
(* to it; a file holds a document, in the version of its text that it was  *)
(* rendered from.                                                          *)
(***************************************************************************)
EXTENDS CompilePipeline, Sequences

CONSTANTS
    Batches,    \* the lists of names a batch may be asked for
    Stem,       \* what sanitizing leaves of each name
    Pages       \* pages of every document

ASSUME ExportsAssumption ==
    /\ DOMAIN Stem # {}
    /\ \A ns \in Batches : ns \in Seq(DOMAIN Stem)
    /\ \A n \in DOMAIN Stem : Len(Stem[n]) \in Nat /\ Stem[n] = [i \in 1..Len(Stem[n]) |-> Stem[n][i]]
    /\ Pages \in Nat \ {0}

VARIABLES
    born,       \* text version with which each revision of the document began
    job         \* the export command, with what it has put in the folder

exportVars == <<born, job>>

NoJob == [pc |-> "none", kind |-> "none", items |-> <<>>, outcomes |-> <<>>, stems |-> {},
          stem |-> <<>>, doc |-> -1, written |-> <<>>, folder |-> <<>>]

ExportsInit ==
    /\ born = [d \in Docs |-> <<>>]
    /\ job = NoJob

\* The pipeline's step; a new revision begins with the text that brought it.
PipelineStep ==
    /\ Next
    /\ born' = [d \in Docs |-> IF rev'[<<d, gen[d]>>] = rev[<<d, gen[d]>>] THEN born[d]
                               ELSE Append(born[d], text'[<<d, gen[d]>>])]
    /\ UNCHANGED job

Began(d, r) == IF r = 0 THEN 0 ELSE born[d][r]

-----------------------------------------------------------------------------

Item(d, r, n) == [doc |-> d, revision |-> r, name |-> n]

\* The revision the webview flushed; a batch says 0 for a file it does not show.
Revisions(kind, d) == {rev[<<d, gen[d]>>]} \union (IF kind = "batch" THEN {0} ELSE {})

Ask(kind, names) ==
    /\ job.pc = "none"
    /\ \E ds \in [DOMAIN names -> Docs] :
       \E rs \in [DOMAIN names -> UNION {Revisions(kind, ds[i]) : i \in DOMAIN names}] :
           /\ \A i \in DOMAIN names : rs[i] \in Revisions(kind, ds[i])
           /\ job' = [job EXCEPT !.pc = "next", !.kind = kind,
                                 !.items = [i \in DOMAIN names |-> Item(ds[i], rs[i], names[i])]]
    /\ UNCHANGED <<vars, born>>

Asked == job.items[Len(job.outcomes) + 1]

\* Mutant: names that sanitize to one stem share it.
FreeAnyway(used, base) == base

\* The base, or the base with the first number that gives an unused stem.
Free(used, base) ==
    IF base \notin used THEN base
    ELSE Append(base, CHOOSE n \in 2 .. Cardinality(used) + 2 :
                         /\ Append(base, n) \notin used
                         /\ \A k \in 2 .. n - 1 : Append(base, k) \in used)

\* The next item gets its name, also when it is going to fail.
TakeItem ==
    /\ job.pc = "next"
    /\ Len(job.outcomes) < Len(job.items)
    /\ LET s == Free(job.stems, Stem[Asked.name]) IN
       job' = [job EXCEPT !.pc = "wait", !.stem = s, !.stems = @ \union {s}, !.written = <<>>]
    /\ UNCHANGED <<vars, born>>

\* The files of an item, or none when it failed; only a batch goes on then.
End(path) ==
    [job EXCEPT !.pc = IF path # <<>> \/ job.kind = "batch" THEN "next" ELSE "done", !.doc = -1,
                !.outcomes = Append(@, [path |-> path, doc |-> job.doc])]

Fail == job' = End(<<>>)

Answer ==
    /\ job.pc = "next"
    /\ Len(job.outcomes) = Len(job.items)
    /\ job' = [job EXCEPT !.pc = "done"]
    /\ UNCHANGED <<vars, born>>

\* The answer reaches the webview; one command is followed to its end.
Hear ==
    /\ job.pc = "done"
    /\ job' = [NoJob EXCEPT !.pc = "returned"]
    /\ UNCHANGED <<vars, born>>

\* What the current tab state of a document stores.
Result(d) == last[<<d, gen[d]>>]

\* Mutant: whatever compiled last is exported.
PollAny ==
    LET d == Asked.doc IN
    /\ job.pc = "wait"
    /\ open[d] /\ Result(d).ok
    /\ job' = [job EXCEPT !.pc = "write", !.doc = Result(d).ver]
    /\ UNCHANGED <<vars, born>>

\* One look at the last result: the document, a failure, or nothing yet.
Poll ==
    LET d == Asked.doc IN
    /\ job.pc = "wait"
    /\ \/ ~open[d] /\ Fail
       \/ /\ open[d] /\ Result(d).rev = Asked.revision /\ Result(d).ok
          /\ job' = [job EXCEPT !.pc = "write", !.doc = Result(d).ver]
       \/ open[d] /\ Result(d).rev = Asked.revision /\ ~Result(d).ok /\ Fail
       \/ open[d] /\ Result(d).rev > Asked.revision /\ Fail
    /\ UNCHANGED <<vars, born>>

\* The deadline passes while the revision has no result.
TimeOut ==
    LET d == Asked.doc IN
    /\ job.pc = "wait"
    /\ open[d] /\ Result(d).rev < Asked.revision
    /\ Fail
    /\ UNCHANGED <<vars, born>>

Files == IF job.kind = "images" THEN [p \in 1 .. Pages |-> Append(job.stem, p)] ELSE <<job.stem>>

\* Each file is written whole; a page that fails leaves the pages before it.
WriteFile ==
    LET f == Files[Len(job.written) + 1] IN
    /\ job.pc = "write"
    /\ \/ Fail
       \/ LET done == Append(job.written, f)
              rest == IF done = Files THEN End(done) ELSE [job EXCEPT !.written = done] IN
          job' = [rest EXCEPT !.folder =
                     [g \in DOMAIN job.folder \union {f} |-> IF g = f THEN <<Asked.doc, job.doc>> ELSE job.folder[g]]]
    /\ UNCHANGED <<vars, born>>

ExportStep ==
    \/ Ask("pdf", <<CHOOSE n \in DOMAIN Stem : TRUE>>)
    \/ Ask("images", <<CHOOSE n \in DOMAIN Stem : TRUE>>)
    \/ \E ns \in Batches : Ask("batch", ns)
    \/ TakeItem \/ Answer \/ Poll \/ TimeOut \/ WriteFile \/ Hear

ExportsNext == PipelineStep \/ ExportStep

ExportsSpec == Init /\ ExportsInit /\ [][ExportsNext]_<<vars, exportVars>>

-----------------------------------------------------------------------------

\* What an export writes was compiled from the text the requested revision
\* began with, or from a later one, never from an older revision's.
NeverOlder ==
    job.doc # -1 => job.doc >= Began(Asked.doc, Asked.revision)

\* What an export writes is a text that had the requested revision.
ExportIsExact ==
    LET i == Asked IN
    job.doc # -1 /\ i.revision < Len(born[i.doc]) => job.doc < Began(i.doc, i.revision + 1)

\* The answer is true of the folder: every item of a batch has an outcome, a
\* path in it leads to the document of that very item, all pages of one text,
\* and no item has overwritten the file of another, of the same document or not.
AnswerIsTrue ==
    job.pc = "done" =>
        /\ job.kind = "batch" => Len(job.outcomes) = Len(job.items)
        /\ \A i \in DOMAIN job.outcomes : LET o == job.outcomes[i] IN
               \A k \in DOMAIN o.path : job.folder[o.path[k]] = <<job.items[i].doc, o.doc>>
        /\ job.kind # "images" =>
               DOMAIN job.folder = UNION {{o.path[k] : k \in DOMAIN o.path}
                                            : o \in {job.outcomes[i] : i \in DOMAIN job.outcomes}}

=============================================================================
