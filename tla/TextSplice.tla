----------------------------- MODULE TextSplice -----------------------------
(***************************************************************************)
(* What search, replace and text edits of the language server do to one    *)
(* text.  A text is a sequence of characters; a range is from start up to  *)
(* but without end, and positions count from 1.  A letter stands for its   *)
(* like: "I." is a letter whose lower case is two characters, "em" one     *)
(* that takes two UTF-16 units.  The literal matcher is modelled; the      *)
(* regular expressions are those of a library.                             *)
(***************************************************************************)
EXTENDS Integers, SequencesExt, FiniteSetsExt

CONSTANTS
    Alphabet,    \* characters of the texts
    Needles,     \* patterns: sequences of characters, none empty
    NewTexts,    \* replacements and texts of edits
    Positions,   \* positions of edits: <<line, unit>>, from 0
    MaxLength, MaxHits \* bounds: length of a text; the cap of the search

VARIABLES question, answer

textVars == <<question, answer>>

Lower(c) == CASE c = "A" -> <<"a">> [] c = "I." -> <<"i", "dot">> [] OTHER -> <<c>>
Upper(c) == CASE c = "a" -> "A" [] c = "i" -> "I" [] OTHER -> c
Folded(s) == FlattenSeq([i \in DOMAIN s |-> Lower(s[i])])
Ascii(s)  == \A i \in DOMAIN s : s[i] \notin {"I.", "dot", "em"}
Units(c)  == IF c = "em" THEN 2 ELSE 1
Slice(s, start, end) == SubSeq(s, start, end - 1)

\* is_word_boundary: ASCII letters only.
WordChar(s, i) == i \in DOMAIN s /\ s[i] \in {"a", "A", "i", "I"}
Bounded(s, r) == ~WordChar(s, r.start - 1) /\ ~WordChar(s, r.end)

-----------------------------------------------------------------------------
(* The matcher.                                                             *)

\* Where n begins in h, with the end of each occurrence.
ExactEnds(h, n) ==
    [s \in 1 .. Len(h) |-> IF s + Len(n) - 1 <= Len(h) /\ Slice(h, s, s + Len(n)) = n THEN s + Len(n) ELSE 0]

\* match_ci_at: the fewest whole characters whose lower case begins with n.
FoldedEnds(h, n) ==
    [s \in 1 .. Len(h) |->
        LET ends == {e \in s + 1 .. Len(h) + 1 : IsPrefix(n, Folded(Slice(h, s, e)))} IN
        IF ends = {} THEN 0 ELSE Min(ends)]

\* scan_literal and find_ci_unicode: from the left, past every occurrence,
\* those that are no whole word included.
Scan(h, ends, whole) ==
    LET from[c \in 1 .. Len(h) + 1] ==
          LET starts == {s \in c .. Len(h) : ends[s] # 0} IN
          IF starts = {} THEN <<>>
          ELSE LET r == [start |-> Min(starts), end |-> ends[Min(starts)]] IN
               (IF whole /\ ~Bounded(h, r) THEN <<>> ELSE <<r>>) \o from[r.end]
    IN from[1]

\* Matcher::find.  A lower-cased copy has the same offsets only in ASCII.
Find(h, q) ==
    Scan(h, IF q.sensitive THEN ExactEnds(h, q.needle)
            ELSE IF Ascii(h) THEN ExactEnds(Folded(h), Folded(q.needle))
            ELSE FoldedEnds(h, Folded(q.needle)), q.whole)

-----------------------------------------------------------------------------
(* Search and replace.                                                      *)

\* str::lines, which search uses: a line feed ends a line, with the carriage
\* return before it.
Lines(text) ==
    LET ends == {i \in DOMAIN text : text[i] = "LF"}
        start(e) == Max({0} \union {d \in ends : d < e}) + 1
        body(e) == IF e \in ends /\ e > start(e) /\ text[e - 1] = "CR" THEN e - 1 ELSE e
        all == IF text = <<>> \/ Last(text) = "LF" THEN ends ELSE ends \union {Len(text) + 1}
    IN [k \in 1 .. Cardinality(all) |->
          LET e == SetToSortSeq(all, <)[k] IN [at |-> start(e), text |-> Slice(text, start(e), body(e))]]

\* search, in one file.
Search(text, q) ==
    LET hits(k) == LET rs == Find(Lines(text)[k].text, q) IN
                   [i \in DOMAIN rs |-> [line |-> k, column |-> rs[i].start]]
        all == FlattenSeq([k \in DOMAIN Lines(text) |-> hits(k)])
    IN SubSeq(all, 1, Min({Len(all), MaxHits}))

\* split_lines_with_endings
SplitLines(text) ==
    LET from[c \in 1 .. Len(text) + 1] ==
          IF c > Len(text) THEN <<>>
          ELSE LET feeds == {i \in c .. Len(text) : text[i] = "LF"} IN
               IF feeds = {} THEN <<[text |-> Slice(text, c, Len(text) + 1), ending |-> <<>>]>>
               ELSE LET lf == Min(feeds)
                        end == IF lf > c /\ text[lf - 1] = "CR" THEN lf - 1 ELSE lf
                    IN <<[text |-> Slice(text, c, end), ending |-> Slice(text, end, lf + 1)]>> \o from[lf + 1]
    IN from[1]

\* apply_preserve_case
Recased(matched, new) ==
    LET upper == matched[1] \in {"A", "I", "I."}
        rest == Tail(matched)
    IN IF upper /\ (\A c \in Range(rest) : c \notin {"a", "i"}) /\ (\E c \in Range(rest) : c \in {"A", "I", "I."})
       THEN [i \in DOMAIN new |-> Upper(new[i])]
       ELSE IF upper /\ new # <<>> THEN <<Upper(new[1])>> \o Tail(new) ELSE new

New(q, matched) == IF q.preserve THEN Recased(matched, q.new) ELSE q.new

\* Mutant: a pinned match is looked for on every line.
SelectAnywhere(ranges, k, target) ==
    IF target = <<>> THEN ranges ELSE SelectSeq(ranges, LAMBDA r : r.start = target[1].column)

\* select_ranges: every range, or the one that is pinned.
Selected(ranges, k, target) ==
    IF target = <<>> THEN ranges
    ELSE SelectSeq(ranges, LAMBDA r : k = target[1].line /\ r.start = target[1].column)

\* splice_replacements
SpliceLine(line, ranges, q) ==
    LET from[i \in 1 .. Len(ranges) + 1] ==
          LET cursor == IF i = 1 THEN 1 ELSE ranges[i - 1].end IN
          IF i > Len(ranges) THEN Slice(line, cursor, Len(line) + 1)
          ELSE Slice(line, cursor, ranges[i].start)
               \o New(q, Slice(line, ranges[i].start, ranges[i].end)) \o from[i + 1]
    IN from[1]

\* compute_file_replacement
Replace(text, q, target) ==
    LET lines == SplitLines(text)
        spliced(k) == SpliceLine(lines[k].text, Selected(Find(lines[k].text, q), k, target), q)
    IN FlattenSeq([k \in DOMAIN lines |-> spliced(k) \o lines[k].ending])

-----------------------------------------------------------------------------
(* Edits of the language server.                                            *)

\* position_to_byte_offset: a line that is not there is refused (0); a unit
\* beyond the line is its end, and one inside a character is the next.
Offset(text, pos) ==
    LET feeds == SetToSortSeq({i \in DOMAIN text : text[i] = "LF"}, <)
        first == IF pos[1] = 0 THEN 1 ELSE feeds[pos[1]] + 1
        end   == IF pos[1] < Len(feeds) THEN feeds[pos[1] + 1] ELSE Len(text) + 1
        units(i) == FoldLeft(LAMBDA n, c : n + Units(c), 0, Slice(text, first, i))
    IN IF pos[1] > Len(feeds) THEN 0
       ELSE Min({i \in first .. end : i = end \/ units(i) >= pos[2]})

Resolved(text, edits) ==
    [i \in DOMAIN edits |-> [start |-> Offset(text, edits[i].from), end |-> Offset(text, edits[i].to), new |-> edits[i].new]]

\* The last start first; of those that start together the one that ends
\* last, and equal ones as they came: the sort is stable.
Backwards(es) ==
    LET before(i, j) == \/ es[i].start > es[j].start
                        \/ es[i].start = es[j].start /\ es[i].end > es[j].end
                        \/ es[i].start = es[j].start /\ es[i].end = es[j].end /\ i < j
        order == SetToSortSeq(DOMAIN es, before)
    IN [k \in DOMAIN es |-> es[order[k]]]

Overlap(es) == \E k \in 2 .. Len(es) : es[k].end > es[k - 1].start

\* apply_text_edits
ApplyEdits(text, edits) ==
    LET es == Backwards(Resolved(text, edits))
        step(out, e) == Slice(out, 1, e.start) \o e.new \o Slice(out, e.end, Len(out) + 1)
    IN IF (\E e \in Range(es) : e.start = 0 \/ e.end < e.start) \/ Overlap(es)
       THEN [ok |-> FALSE, text |-> text]
       ELSE [ok |-> TRUE, text |-> FoldLeft(step, text, es)]

-----------------------------------------------------------------------------
(* One question each.                                                       *)

Texts == UNION {[1 .. n -> Alphabet] : n \in 0 .. MaxLength}
Queries == [needle : Needles, sensitive : BOOLEAN, whole : BOOLEAN, preserve : BOOLEAN, new : NewTexts]
TextEdits == UNION {[1 .. n -> [from : Positions, to : Positions, new : NewTexts]] : n \in 1 .. 2}

AskSearch == question \in [kind : {"search"}, text : Texts, query : Queries] /\ answer = <<>>
AskEdits  == question \in [kind : {"edits"}, text : Texts, edits : TextEdits] /\ answer = <<>>

AnswerSearch ==
    /\ question.kind = "search" /\ answer = <<>>
    /\ LET hits == Search(question.text, question.query) IN
       answer' = <<[hits |-> hits,
                    all |-> Replace(question.text, question.query, <<>>),
                    pinned |-> [i \in DOMAIN hits |-> Replace(question.text, question.query, <<hits[i]>>)]]>>
    /\ UNCHANGED question

AnswerEdits ==
    /\ question.kind = "edits" /\ answer = <<>>
    /\ answer' = <<ApplyEdits(question.text, question.edits)>>
    /\ UNCHANGED question

TextNext == AnswerSearch \/ AnswerEdits

-----------------------------------------------------------------------------
(* Properties.                                                              *)

\* The text with each edit's range exchanged, character by character.  What
\* goes in at a place stands before what replaces the text from there, and
\* insertions at one place stand in the opposite order of the edits.
Spliced(text, es) ==
    LET insertion(i, k) == es[k].start = i /\ es[k].end = i
        replacement(i, k) == es[k].start = i /\ es[k].end > i
    IN FlattenSeq([i \in 1 .. Len(text) + 1 |->
        FlattenSeq(Reverse([k \in DOMAIN es |-> IF insertion(i, k) THEN es[k].new ELSE <<>>]))
        \o FlattenSeq([k \in DOMAIN es |-> IF replacement(i, k) THEN es[k].new ELSE <<>>])
        \o IF i > Len(text) \/ \E k \in DOMAIN es : es[k].start <= i /\ i < es[k].end THEN <<>> ELSE <<text[i]>>])

\* Whether s is the pattern, up to case where that is asked for.
Fits(s) ==
    LET q == question.query IN
    IF q.sensitive THEN s = q.needle ELSE IsPrefix(Folded(q.needle), Folded(s))

\* Where a hit lies in the whole text, and what belongs there.
HitEdit(hit) ==
    LET line == Lines(question.text)[hit.line]
        end == Min({e \in hit.column .. Len(line.text) + 1 : Fits(Slice(line.text, hit.column, e))})
    IN [start |-> line.at + hit.column - 1, end |-> line.at + end - 1,
        new |-> New(question.query, Slice(line.text, hit.column, end))]

\* Where the pattern occurs within a line.
Occurrences ==
    {s \in DOMAIN question.text : \E e \in s + 1 .. Len(question.text) + 1 :
        /\ Fits(Slice(question.text, s, e))
        /\ "LF" \notin Range(Slice(question.text, s, e))}

\* Every hit is an occurrence of the pattern at the place it names; replacing
\* one hit changes the text there and nowhere else, and replacing all changes
\* it at every hit, in texts where lower case is longer than upper case, with
\* either line ending: search and replace split lines in two ways.  No
\* occurrence is missed, but one that begins inside a hit.
ReplaceIsExact ==
    question.kind = "search" /\ answer # <<>> =>
        LET a == answer[1]
            edits == [i \in DOMAIN a.hits |-> HitEdit(a.hits[i])]
        IN /\ \A i \in DOMAIN a.hits : a.pinned[i] = Spliced(question.text, <<edits[i]>>)
           /\ Len(a.hits) < MaxHits =>
                /\ a.all = Spliced(question.text, edits)
                /\ ~question.query.whole => \A o \in Occurrences :
                      \E i \in DOMAIN edits : edits[i].start <= o /\ o < edits[i].end

\* Edits that are applied are disjoint and do to the text what each says,
\* however they are ordered, a replacement and insertions at its start
\* included; and disjoint edits are not refused.
EditsAreExact ==
    question.kind = "edits" /\ answer # <<>> =>
        LET es == Resolved(question.text, question.edits)
            disjoint == \A j, k \in DOMAIN es : j # k => es[j].end <= es[k].start \/ es[k].end <= es[j].start
            sound == \A e \in Range(es) : 0 < e.start /\ e.start <= e.end
        IN /\ answer[1].ok => sound /\ disjoint /\ answer[1].text = Spliced(question.text, es)
           /\ sound /\ disjoint => answer[1].ok

\* What is replaced or edited is what was named, and nothing else.
SplicesAreExact == ReplaceIsExact /\ EditsAreExact
=============================================================================
