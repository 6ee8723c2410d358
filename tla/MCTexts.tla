------------------------------ MODULE MCTexts ------------------------------
(* Work on texts and on the files of a workspace, one kind per behaviour.   *)
EXTENDS ReplaceInFiles, TextSplice, Bibliography, SourceMap, Entries, TLC

CONSTANTS AllParts

VARIABLE part

NoQuestion == question = [kind |-> "none"] /\ answer = <<>>

TextsInit ==
    /\ part \in AllParts
    /\ ReplaceInit
    /\ part # "replace" => onDisk = [f \in Files |-> Blank] /\ \A f \in Files : ~Doc(f)
    /\ \/ part = "search" /\ AskSearch
       \/ part = "edits" /\ AskEdits
       \/ part \notin {"search", "edits"} /\ NoQuestion
    /\ BibInit
    /\ part # "bib" => lib = [p \in Paths |-> CHOOSE es \in Originals : TRUE]
    /\ IF part = "map" THEN MapInit ELSE typeset = <<>> /\ derived = <<>>
    /\ IF part = "entries" THEN EntriesInit ELSE tree = <<>> /\ listing = <<>> /\ last = Nothing /\ commands = 0

TextsNext ==
    /\ part' = part
    /\ \/ part = "replace" /\ ReplaceNext /\ UNCHANGED <<textVars, bibVars, mapVars, entryVars>>
       \/ part \in {"search", "edits"} /\ TextNext /\ UNCHANGED <<replaceVars, bibVars, mapVars, entryVars>>
       \/ part = "bib" /\ BibNext /\ UNCHANGED <<replaceVars, textVars, mapVars, entryVars>>
       \/ part = "map" /\ Derive /\ UNCHANGED <<replaceVars, textVars, bibVars, entryVars>>
       \/ part = "entries" /\ EntriesNext /\ UNCHANGED <<replaceVars, textVars, bibVars, mapVars>>

Spec == TextsInit /\ [][TextsNext]_<<part, replaceVars, textVars, bibVars, mapVars, entryVars>>

MCNeedles == {<<"a">>, <<"a", "a">>, <<"A">>, <<"i", "dot">>}
MCNewTexts == {<<>>, <<"a", "a">>}
Named(k, t, a, d) == [key |-> k, title |-> t, authors |-> a, year |-> "2020", kind |-> d]
Undated(e) == [e EXCEPT !.year = ""]
With(e, r) == [Fresh(e) EXCEPT !.rest = r, !.finer = Fine(e)]
First == Named("a", "T", "", "book")
MCEntries == {First, Named("c", "T", "", "book"), Undated(Named("c", "U", "", "book")), Named("b", "T", "", "book"),
              Named("c", "", "A", "book"), Undated(Named("c", "T", "", "misc"))}
\* A second entry with another title, with authors only, or that looks like the first.
MCOriginals == {<<With(First, 1), With(e, 2)>>
                  : e \in {Named("b", "U", "", "book"), Named("b", "", "A", "book"), Named("b", "T", "", "book")}}
MCExtension == [p |-> "bib", q |-> "yaml"]

MCPositions == {<<0, 0>>, <<0, 1>>, <<0, 2>>, <<1, 0>>}

\* All trees of n nodes, numbered in the order of the text.
Kids(n) ==
    LET parents == {f \in [2 .. n -> 1 .. n] : \A k \in 2 .. n : f[k] < k /\ (k > 2 =>
                      LET anc[j \in 1 .. n] == {j} \union (IF j = 1 THEN {} ELSE anc[f[j]]) IN f[k] \in anc[k - 1])}
    IN {[k \in 1 .. n |-> SetToSortSeq({c \in 2 .. n : f[c] = k}, <)] : f \in parents}
MCSources ==
    UNION {{[kids |-> k, size |-> z, breaks |-> b]
              : z \in {f \in [1 .. 4 -> {1, 2}] : \A n \in 1 .. 4 : k[n] # <<>> => f[n] = 1}, b \in SUBSET (1 .. 3)}
             : k \in Kids(4)}
Chapter == [kids |-> <<<<2, 3>>, <<>>, <<>>>>, size |-> <<0, 1, 1>>, breaks |-> {1}]
Number(f, n) == [kind |-> "number", file |-> f, num |-> n]
Nowhere == [kind |-> "detached", file |-> "main", num |-> 0]
Byte(f, n) == [kind |-> "range", file |-> f, num |-> n]
Glyph(s) == [span |-> s, dx |-> 0, dy |-> 0, advance |-> 2, rise |-> 0]
TextRun(in, at, glyphs) == [kind |-> "text", in |-> in, at |-> at, matrix |-> Still, size |-> 5, glyphs |-> glyphs]
Shape(in, at, s) == [kind |-> "shape", in |-> in, at |-> at, matrix |-> Still, span |-> s]
Group(in, at, m) == [kind |-> "group", in |-> in, at |-> at, matrix |-> m]
Heading(l, o, s) == [level |-> l, outlined |-> o, span |-> s]
\* Every tree with every set of nodes drawn.
Drawings ==
    {LET spans == [i \in DOMAIN ns |-> Number("main", ns[i])]
                    \o <<Number("part", 3), Byte("main", 2), Nowhere>> IN
     [world |-> [main |-> s, part |-> c], pages |-> <<<<TextRun(0, <<0, 0>>, [i \in DOMAIN spans |-> Glyph(spans[i])])>>>>,
      errors |-> spans, headings |-> <<>>]
        : s \in MCSources, c \in {Chapter, Unreadable}, ns \in {SetToSortSeq(n, <) : n \in SUBSET (1 .. 4)}}
\* Groups in groups.
Main == [kids |-> <<<<2, 3>>, <<>>, <<>>>>, size |-> <<0, 2, 1>>, breaks |-> {2}]
Turns == {Still, [xx |-> 0, xy |-> -1, yx |-> 1, yy |-> 0, dx |-> 1, dy |-> 0],
          [xx |-> 1, xy |-> 0, yx |-> 0, yy |-> -1, dx |-> 0, dy |-> 2]}
Spots == {<<0, 0>>, <<3, 1>>}
Glyphs2 == {[span |-> Number("main", 2), dx |-> x, dy |-> y, advance |-> a, rise |-> 1]
              : x \in {-1, 0, 4}, y \in {0, 1}, a \in {1, 3}}
Layouts ==
    {[world |-> [main |-> Main, part |-> Chapter], errors |-> <<>>, headings |-> <<>>,
      pages |-> <<<<Group(0, a, m), Group(i, <<1, 2>>, n), Shape(j, b, Number("main", 3)),
                    TextRun(2, b, <<g, [g EXCEPT !.span.num = 3]>>)>>, <<Shape(0, a, Number("main", 2))>>>>]
        : a, b \in Spots, m, n \in Turns, i \in {0, 1}, j \in {0, 2}, g \in Glyphs2}
HeadingKinds == {Heading(l, TRUE, Number("main", 2)) : l \in 1 .. 3}
                  \union {Heading(1, FALSE, Number("main", 2)), Heading(1, TRUE, Nowhere)}
Outlines ==
    {[world |-> [main |-> Main, part |-> Chapter], errors |-> <<>>, pages |-> <<>>, headings |-> hs]
        : hs \in UNION {[1 .. n -> HeadingKinds] : n \in 0 .. 4}}
MCTypesets == Drawings \union Layouts \union Outlines

Ws == <<"w">>
Disk0 == (<<>> :> Dir) @@ (Ws :> Dir) @@ (<<"o">> :> Dir) @@ (<<"o", "a">> :> File(3))
MCTrees ==
    {Disk0 @@ f @@ g : f \in {Ws \o <<"a">> :> File(1), Ws \o <<"a">> :> LinkTo(<<"o">>),
                            (Ws \o <<"a">> :> Dir) @@ (Ws \o <<"a", "a">> :> File(1))},
                     g \in {Ws \o <<"b">> :> File(2), Ws \o <<"b">> :> LinkTo(Ws),
                            (Ws \o <<"b">> :> Dir) @@ (Ws \o <<"b", "a">> :> File(4)) @@ (Ws \o <<"b", "b">> :> LinkTo(Ws \o <<"a">>))}}
MCInputs == {<<"a">>, <<"b">>, <<"a", "a">>, <<"b", "c">>, <<"..", "o", "a">>, <<"a", "..", "b">>}
=============================================================================
