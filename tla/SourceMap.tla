----------------------------- MODULE SourceMap -----------------------------
(***************************************************************************)
(* From a laid-out document back to its source: the line map that scroll   *)
(* synchronisation and click-to-source use, the outline and the places of  *)
(* diagnostics.  A syntax tree is numbered in the order of the text; a     *)
(* page is a sequence of items, each in a group that stands before it.     *)
(* Offsets, lines and lengths are small integers; a text size is a         *)
(* multiple of 5.                                                          *)
(***************************************************************************)
EXTENDS Integers, SequencesExt, FiniteSetsExt

CONSTANTS
    Typesets    \* compiled documents with the world they were compiled in

VARIABLES typeset, derived

mapVars == <<typeset, derived>>

NoLine   == 0
Unreadable == [kids |-> <<>>, size |-> <<>>, breaks |-> {}]
Readable(world, file) == world[file] # Unreadable
Source(world, file) == IF Readable(world, file) THEN world[file] ELSE world["main"]
Nodes(src) == DOMAIN src.kids
Leaves(src) == {n \in Nodes(src) : src.kids[n] = <<>>}
SizeOf(src, S) == MapThenSumSet(LAMBDA n : src.size[n], S)

\* SyntaxNode::len.
Length(src, node) ==
    LET len[n \in Nodes(src)] ==
          IF n \in Leaves(src) THEN src.size[n] ELSE FoldLeft(+, 0, [i \in DOMAIN src.kids[n] |-> len[src.kids[n][i]]])
    IN len[node]

\* byte_to_line_column, from 1; a line begins at every offset of breaks.
LineAt(src, offset) == IF offset > Length(src, 1) THEN NoLine ELSE 1 + Cardinality({b \in src.breaks : b <= offset})
Place(src, offset) ==
    [line |-> LineAt(src, offset), column |-> 1 + offset - Max({0} \union {b \in src.breaks : b <= offset})]

\* Where a node begins: after all the leaves before it in the text.
NodeStart(src, n) == SizeOf(src, {l \in Leaves(src) : l < n})

-----------------------------------------------------------------------------
(* From spans to lines.                                                     *)

\* Mutant: the children are reversed before their offsets are accumulated.
PlacedReversed(src, node, offset) ==
    LET kids == Reverse(src.kids[node]) IN
    Reverse([i \in DOMAIN kids |->
        [node |-> kids[i], offset |-> offset + FoldLeft(+, 0, [j \in 1 .. i - 1 |-> Length(src, kids[j])])]])

\* The children of a popped node with their offsets, in source order.
Placed(src, node, offset) ==
    LET kids == src.kids[node] IN
    [i \in DOMAIN kids |->
        [node |-> kids[i], offset |-> offset + FoldLeft(+, 0, [j \in 1 .. i - 1 |-> Length(src, kids[j])])]]

\* One round of resolve_numbers_via_dfs: the last entry of the stack is next,
\* and nothing is pushed once every number that is needed has been seen.
Visit(src, needed, s) ==
    IF s.stack = <<>> \/ DOMAIN s.lines = needed THEN s
    ELSE LET top == Last(s.stack)
             lines == IF top.node \in needed /\ LineAt(src, top.offset) # NoLine
                      THEN [n \in DOMAIN s.lines \union {top.node} |->
                              IF n = top.node THEN LineAt(src, top.offset) ELSE s.lines[n]]
                      ELSE s.lines
         IN [stack |-> Front(s.stack) \o (IF DOMAIN lines = needed THEN <<>>
                                           ELSE Reverse(Placed(src, top.node, top.offset))),
             lines |-> lines]

Numbered(src, needed) ==
    FoldLeft(LAMBDA s, k : Visit(src, needed, s),
             [stack |-> <<[node |-> 1, offset |-> 0]>>, lines |-> <<>>], [k \in Nodes(src) |-> k]).lines

\* SpanLineResolver::new and resolve: numbers of a file that cannot be read
\* have no line, and neither has a span that stands for no place.
SpanLines(world, spans) ==
    LET of(f) == {s \in spans : s.kind = "number" /\ s.file = f}
        numbers == [f \in {s.file : s \in spans} |->
                      IF of(f) = {} \/ ~Readable(world, f) THEN <<>>
                      ELSE Numbered(world[f], {s.num : s \in of(f)})]
    IN [s \in spans |->
          CASE s.kind = "detached" -> NoLine
            [] s.kind = "range" -> LineAt(Source(world, s.file), s.num)
            [] OTHER -> IF s.num \in DOMAIN numbers[s.file] THEN numbers[s.file][s.num] ELSE NoLine]

\* span_to_line, one span at a time.
SpanToLine(world, s) ==
    IF s.kind = "detached" \/ (s.kind = "number" /\ (~Readable(world, s.file) \/ s.num \notin Nodes(world[s.file])))
    THEN NoLine
    ELSE LineAt(Source(world, s.file), IF s.kind = "range" THEN s.num ELSE NodeStart(world[s.file], s.num))

\* convert_diagnostic with byte_range_to_range.  A file that cannot be read
\* gives way to the main source.
Diagnosed(world, s) ==
    LET src == Source(world, s.file)
        start == IF s.kind = "range" THEN s.num ELSE NodeStart(src, s.num)
        end == IF s.kind = "range" THEN start + 1 ELSE start + Length(src, s.num)
        from == IF start > Length(src, 1) THEN [line |-> 1, column |-> 1] ELSE Place(src, start)
    IN IF s.kind = "detached" \/ (s.kind = "number" /\ s.num \notin Nodes(src))
       THEN [from |-> [line |-> 1, column |-> 1], to |-> [line |-> 1, column |-> 1]]
       ELSE [from |-> from, to |-> IF end > Length(src, 1) THEN from ELSE Place(src, end)]

-----------------------------------------------------------------------------
(* From items to the page.                                                  *)

Still == [xx |-> 1, xy |-> 0, yx |-> 0, yy |-> 1, dx |-> 0, dy |-> 0]
Translate(p) == [Still EXCEPT !.dx = p[1], !.dy = p[2]]
Apply(t, p) == <<t.xx * p[1] + t.xy * p[2] + t.dx, t.yx * p[1] + t.yy * p[2] + t.dy>>

\* First the inner transform, then the outer.
PreConcat(t, inner) ==
    LET d == Apply(t, <<inner.dx, inner.dy>>) IN
    [xx |-> t.xx * inner.xx + t.xy * inner.yx, xy |-> t.xx * inner.xy + t.xy * inner.yy,
     yx |-> t.yx * inner.xx + t.yy * inner.yx, yy |-> t.yx * inner.xy + t.yy * inner.yy, dx |-> d[1], dy |-> d[2]]

\* The transform walk_frame has accumulated when it comes to item i.
Accumulated(page, i) ==
    LET at[k \in DOMAIN page] ==
          PreConcat(IF page[k].in = 0 THEN Still ELSE PreConcat(at[page[k].in], page[page[k].in].matrix),
                    Translate(page[k].at))
    IN at[i]

\* walk_text: the run's cursor before glyph k.
Cursor(glyphs, k) == [x |-> FoldLeft(+, 0, [j \in 1 .. k - 1 |-> glyphs[j].advance]),
                      y |-> FoldLeft(+, 0, [j \in 1 .. k - 1 |-> glyphs[j].rise])]

\* record_glyph: two corners around the base line, y turned downwards.
GlyphBox(item, k) ==
    LET g == item.glyphs[k]
        c == Cursor(item.glyphs, k)
        base == -(c.y + g.dy)
    IN {<<Min({c.x + g.dx, c.x}), base - (4 * item.size) \div 5>>,
        <<Max({c.x + g.advance, c.x + g.dx}), base + item.size \div 5>>}

\* What collect_frame and walk_frame take of a page, text by glyph; an image
\* or a shape counts by its origin only, links and tags not at all.
Marks(page) ==
    UNION {IF page[i].kind = "text"
           THEN {[span |-> page[i].glyphs[k].span,
                  points |-> {Apply(Accumulated(page, i), p) : p \in GlyphBox(page[i], k)}]
                   : k \in DOMAIN page[i].glyphs}
           ELSE {[span |-> page[i].span, points |-> {Apply(Accumulated(page, i), <<0, 0>>)}]}
             : i \in {j \in DOMAIN page : page[j].kind \in {"text", "shape"}}}

\* LineAccum: the smallest rectangle around all points.
Around(points) == [x |-> Min({p[1] : p \in points}), y |-> Min({p[2] : p \in points}),
                   right |-> Max({p[1] : p \in points}), bottom |-> Max({p[2] : p \in points})]

Before(r, s) == \/ r.page < s.page
                \/ r.page = s.page /\ (r.box.y < s.box.y \/ (r.box.y = s.box.y /\ r.line < s.line))

\* build_source_map: one rectangle for each line on each page, whichever file
\* the line is of.
LineMap(t) ==
    LET marks == [p \in DOMAIN t.pages |-> Marks(t.pages[p])]
        line == SpanLines(t.world, {m.span : m \in UNION {marks[p] : p \in DOMAIN marks}})
        rects == UNION {{[page |-> p - 1, line |-> l,
                          box |-> Around(UNION {m.points : m \in {n \in marks[p] : line[n.span] = l}})]
                           : l \in {line[m.span] : m \in marks[p]} \ {NoLine}} : p \in DOMAIN t.pages}
    IN SetToSortSeq(rects, Before)

-----------------------------------------------------------------------------
(* The outline.                                                             *)

\* Pop until the top is strictly shallower.
Shallower(stack, nodes, level) ==
    SubSeq(stack, 1, Max({0} \union {k \in DOMAIN stack : nodes[stack[k]].level < level}))

\* build_outline over the headings that may be shown and have a line.
AddHeading(world, s, h) ==
    LET line == SpanToLine(world, h.span)
        above == Shallower(s.stack, s.nodes, h.level)
    IN IF ~h.outlined \/ line = NoLine THEN s
       ELSE [nodes |-> Append(s.nodes, [line |-> line, level |-> h.level,
                                        parent |-> IF above = <<>> THEN 0 ELSE Last(above)]),
             stack |-> Append(above, Len(s.nodes) + 1)]

Outline(t) ==
    FoldLeft(LAMBDA s, h : AddHeading(t.world, s, h), [nodes |-> <<>>, stack |-> <<>>], t.headings).nodes

-----------------------------------------------------------------------------
MapInit ==
    /\ typeset \in Typesets
    /\ derived = <<>>

\* What a finished compile derives from its document.
Derive ==
    /\ derived = <<>>
    /\ derived' = [rects |-> LineMap(typeset), outline |-> Outline(typeset),
                   errors |-> [i \in DOMAIN typeset.errors |-> Diagnosed(typeset.world, typeset.errors[i])]]
    /\ UNCHANGED typeset

-----------------------------------------------------------------------------
(* Properties.                                                              *)

Done == derived # <<>>

Glyphs(page) == UNION {{[item |-> i, glyph |-> k] : k \in DOMAIN page[i].glyphs}
                         : i \in {j \in DOMAIN page : page[j].kind = "text"}}
Shapes(page) == {[item |-> i, glyph |-> 0] : i \in {j \in DOMAIN page : page[j].kind = "shape"}}
Drawn(page)  == Glyphs(page) \union Shapes(page)
SpanOf(page, d) == IF d.glyph = 0 THEN page[d.item].span ELSE page[d.item].glyphs[d.glyph].span

\* A point of an item, taken out of one group after the other.
OnPage(page, i, point) ==
    LET within[k \in DOMAIN page] == {k} \union (IF page[k].in = 0 THEN {} ELSE within[page[k].in])
        out(p, k) == LET q == Apply(page[k].matrix, p) IN <<q[1] + page[k].at[1], q[2] + page[k].at[2]>>
    IN FoldLeft(out, point, Reverse(SetToSortSeq(within[i], <)))

\* Where the glyph is drawn and where its advance ends; a shape's origin.
Points(page, d) ==
    IF d.glyph = 0 THEN {OnPage(page, d.item, <<0, 0>>)}
    ELSE LET g == page[d.item].glyphs[d.glyph]
             c == Cursor(page[d.item].glyphs, d.glyph)
         IN {OnPage(page, d.item, <<x, -(c.y + g.dy)>>) : x \in {c.x + g.dx, c.x + g.advance}}

Within(p, box, slack) == /\ p[1] \in box.x - slack .. box.right + slack
                         /\ p[2] \in box.y - slack .. box.bottom + slack

\* build_source_map: "Build a Vec<LineRect> mapping each source line to its
\* page-space bbox", after a single walk of the syntax tree with offsets
\* counted by hand: the lines on a page are those of the nodes that were drawn
\* there, each at the offset of its node; and a diagnostic is at the node it is
\* about.
LinesAreFound ==
    Done =>
        /\ \A p \in DOMAIN typeset.pages :
              {r.line : r \in {q \in Range(derived.rects) : q.page = p - 1}}
                = {SpanToLine(typeset.world, SpanOf(typeset.pages[p], d)) : d \in Drawn(typeset.pages[p])} \ {NoLine}
        /\ \A i \in DOMAIN typeset.errors :
              LET s == typeset.errors[i] IN
              SpanToLine(typeset.world, s) # NoLine => derived.errors[i].from.line = SpanToLine(typeset.world, s)

\* Groups nest, and each has a position and a transform of its own: everything
\* that is drawn of a line is inside the rectangle of the line, which reaches
\* no further than the text is high.  (Transforms that turn by a quarter, flip
\* and move: only two corners of a glyph are looked at.)
DrawnIsInside ==
    Done =>
        \A p \in DOMAIN typeset.pages : \A r \in {q \in Range(derived.rects) : q.page = p - 1} :
            LET page == typeset.pages[p]
                mine == {d \in Drawn(page) : SpanToLine(typeset.world, SpanOf(page, d)) = r.line}
                points == UNION {Points(page, d) : d \in mine}
                high == Max({0} \union {page[d.item].size : d \in {e \in mine : e.glyph # 0}})
            IN /\ \A q \in points : Within(q, r.box, 0)
               /\ \A side \in {r.box.x, r.box.right} : \E q \in points : side \in q[1] - high .. q[1] + high
               /\ \A side \in {r.box.y, r.box.bottom} : \E q \in points : side \in q[2] - high .. q[2] + high

\* build_outline finds parents with a stack: a heading's parent is the nearest
\* heading before it that is shallower, of those that are shown.
ParentsAreNearest ==
    Done => \A i \in DOMAIN derived.outline :
        derived.outline[i].parent
          = Max({0} \union {j \in 1 .. i - 1 : derived.outline[j].level < derived.outline[i].level})

\* What is derived from a compiled document is true of it.
DerivedIsTrue == LinesAreFound /\ DrawnIsInside /\ ParentsAreNearest

\* "mapping each source line to its page-space bbox": a rectangle is of one
\* line of one file.
OneLinePerRect ==
    Done => \A p \in DOMAIN typeset.pages : \A d, e \in Drawn(typeset.pages[p]) :
        LET of(x) == SpanOf(typeset.pages[p], x) IN
        (/\ SpanToLine(typeset.world, of(d)) = SpanToLine(typeset.world, of(e))
         /\ SpanToLine(typeset.world, of(d)) # NoLine) => of(d).file = of(e).file
=============================================================================
