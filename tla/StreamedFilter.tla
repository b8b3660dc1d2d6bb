--------------------------- MODULE StreamedFilter ---------------------------
(***************************************************************************)
(* A text that is fed line by line is filtered as one that is fed at once: *)
(* what is not fed yet, and what an inline has read without coming to its  *)
(* end, counts as not read.                                                *)
(***************************************************************************)
EXTENDS TextFilter

Unfed == Skip(source, fed)

\* What the filter would be if the text had been fed at once.
Ahead(f, text) ==
    IF f.buf \o text = <<>> THEN f ELSE [f EXCEPT !.acc = <<>>, !.buf = f.acc \o f.buf \o text]

Whole == INSTANCE TextFilter WITH
    Markdowns <- {[m EXCEPT !.cuts = {}] : m \in Markdowns},
    cuts <- {},
    fed <- IF fed = 0 THEN 0 ELSE Len(source),
    filter <- IF fed = 0 THEN filter ELSE Ahead(filter, Unfed)

\* Inline code is the one inline that a line's end may close, and it is closed by a tick
\* in a later line when that line is there already.
CodeGoesOn ==
    /\ filter.inline = "Code"
    /\ Find(<<Tick>>, filter.acc \o filter.buf) = 0
    /\ Find(<<Tick>>, Unfed) # 0

\* A filter that is fed a text line by line does what one that is fed it at once does,
\* step by step, but for inline code that is not closed within its line.
LinesStreamAsOne == [][LinesFed /\ ~CodeGoesOn => Whole!FilterNext]_(Whole!filterVars)
=============================================================================
