----------------------------- MODULE MCExports -----------------------------
(* One document with all that can happen to it, exported alone or, through  *)
(* links to it, several times in a batch whose names sanitize to colliding  *)
(* stems; and, with one edit less, exported together with a document that   *)
(* only has its first text compiled, before all else.                       *)
EXTENDS Exports

CONSTANT Still      \* the documents of the second kind

MCStem == [n \in {"x*", "x?", "x_-2"} |-> IF n = "x_-2" THEN <<"x_", 2>> ELSE <<"x_">>]
MCBatches == {<<"x*", "x?">>}

AtRest(d) == pc[<<d, 1>>] = "idle" /\ ~req[<<d, 1>>]
Compiles(d) == pc'[<<d, 1>>] # pc[<<d, 1>>] /\ outcome'[<<d, 1>>] = "ok"
Kept(d) == AtRest(d)' /\ UNCHANGED <<open[d], gen[d], text[<<d, 1>>]>>

Together == \E i \in DOMAIN job.items : job.items[i].doc \in Still
Mixed == job.kind = "batch" /\ \E i \in DOMAIN job.items : job.items[i].doc \notin Still

MCExportsSpec ==
    /\ Init /\ ExportsInit
    /\ [][ /\ ExportsNext
           /\ \A d \in Still : IF AtRest(d) THEN Kept(d) ELSE Compiles(d)
           /\ Together' => Mixed' /\ \A w \in Workers : text'[w] < MaxText ]_<<vars, exportVars>>
=============================================================================
