--------------------------- MODULE MarkdownFilter ---------------------------
(***************************************************************************)
(* StreamingMarkdownFilter: what the text of a message becomes.  Text is a *)
(* sequence of bytes; the filter is a record of what it has not looked at  *)
(* yet (buf), whether it is in a fence, whether it is at the start of a    *)
(* line (sol), which inline it is in and what has been read of it (acc).   *)
(*                                                                         *)
(* Every step consumes something of buf or changes the state, or the loop  *)
(* ends.  A table row of blanks alone makes the program panic.             *)
(***************************************************************************)
EXTENDS Naturals, Sequences, SequencesExt, FiniteSets, FiniteSetsExt

NL == "\n"
Tick == "tick"
Blanks == {" ", "\t"}

Start == [buf |-> <<>>, fence |-> FALSE, sol |-> TRUE, inline |-> "none", acc |-> <<>>]

-----------------------------------------------------------------------------
(* Positions in a text *)

\* What is after the last byte.
End == "end"

At(s, i) == IF i \in DOMAIN s THEN s[i] ELSE End
Take(s, n) == SubSeq(s, 1, n)
Skip(s, n) == SubSeq(s, n + 1, Len(s))

\* The first place where p occurs in s, 0 if there is none.
Find(p, s) ==
    LET places == {i \in 1..(Len(s) + 1 - Len(p)) : SubSeq(s, i, i + Len(p) - 1) = p}
    IN  IF places = {} THEN 0 ELSE Min(places)

\* How many bytes at the head of s are in S.
RunOf(S, s) == Min({i \in 1..(Len(s) + 1) : At(s, i) \notin S}) - 1

\* What follows the line that s is in.
AfterLine(s) == IF Find(<<NL>>, s) = 0 THEN <<>> ELSE Skip(s, Find(<<NL>>, s))

-----------------------------------------------------------------------------
(* Steps: the filter after it, what it puts out, and whether the program panics *)

Step(f, out) == [f |-> f, out |-> out, panics |-> FALSE]
Panic(f) == [f |-> f, out |-> <<>>, panics |-> TRUE]
Wait(f) == Step(f, <<>>)
LeaveStart(f) == Step([f EXCEPT !.sol = FALSE], <<>>)
Drop(f, n, sol) == Step([f EXCEPT !.buf = Skip(@, n), !.sol = sol], <<>>)

Ticks == <<Tick, Tick, Tick>>

\* A fence opens or closes; the rest of its line is dropped.
Toggle(f) ==
    Step([f EXCEPT !.fence = ~@, !.buf = AfterLine(Skip(@, 3)), !.sol = TRUE], <<>>)

\* pump_fence: lines pass as they are.
PumpFence(f, eof) ==
    LET nl == Find(<<NL>>, f.buf)
        n == IF nl = 0 THEN Len(f.buf) ELSE nl
    IN  IF f.sol /\ Len(f.buf) < 3 /\ ~eof THEN Wait(f)
        ELSE IF f.sol /\ IsPrefix(Ticks, f.buf) THEN Toggle(f)
        ELSE Step([f EXCEPT !.buf = Skip(@, n), !.sol = (nl # 0)], Take(f.buf, n))

\* A fence, or a tick like any other.
PumpTick(f, eof) ==
    IF Len(f.buf) < 3 /\ ~eof THEN Wait(f)
    ELSE IF IsPrefix(Ticks, f.buf) THEN Toggle(f)
    ELSE LeaveStart(f)

\* The mark of a quotation is dropped, with the blank after it.
PumpQuotation(f, eof) ==
    IF Len(f.buf) < 2 /\ ~eof THEN Wait(f)
    ELSE Drop(f, IF At(f.buf, 2) = " " THEN 2 ELSE 1, FALSE)

\* A heading of level five or six loses its marks, higher ones keep them.
PumpHeading(f, eof) ==
    LET n == RunOf({"#"}, f.buf)
    IN  IF n = Len(f.buf) /\ ~eof THEN Wait(f)
        ELSE IF n \in 5..6 /\ At(f.buf, n + 1) = " " THEN Drop(f, n + 1, FALSE)
        ELSE LeaveStart(f)

PumpBlanks(f, eof) ==
    IF RunOf(Blanks, f.buf) = Len(f.buf) /\ ~eof THEN Wait(f) ELSE LeaveStart(f)

\* A rule of three marks or more is dropped with its line.
PumpRule(f, eof) ==
    LET n == RunOf({f.buf[1], " "}, f.buf)
        marks == {i \in 1..n : f.buf[i] = f.buf[1]}
    IN  IF n = Len(f.buf) /\ ~eof THEN Wait(f)
        ELSE IF At(f.buf, n + 1) \in {End, NL} /\ Cardinality(marks) >= 3
        THEN Drop(f, n + 1, TRUE)
        ELSE LeaveStart(f)

OpenTable(f) == Step([f EXCEPT !.buf = Tail(@), !.sol = FALSE, !.inline = "Table"], <<>>)

\* pump_sol: what a line starts with.
PumpStart(f, eof) ==
    LET first == f.buf[1]
    IN  CASE first = NL -> Step([f EXCEPT !.buf = Tail(@)], <<NL>>)
          [] first = Tick -> PumpTick(f, eof)
          [] first = ">" -> PumpQuotation(f, eof)
          [] first = "#" -> PumpHeading(f, eof)
          [] first = "|" -> OpenTable(f)
          [] first \in Blanks -> PumpBlanks(f, eof)
          [] first \in {"-", "*", "_"} -> PumpRule(f, eof)
          [] OTHER -> LeaveStart(f)

-----------------------------------------------------------------------------
(* Inlines *)

Inlines == {"Code", "Image", "Strike", "Bold3", "Italic", "UBold3", "UItalic", "Table"}

\* inline_marker
Marker(kind) ==
    CASE kind = "Code" -> <<Tick>>
      [] kind = "Image" -> <<"!", "[">>
      [] kind = "Strike" -> <<"~", "~">>
      [] kind = "Bold3" -> <<"*", "*", "*">>
      [] kind = "Italic" -> <<"*">>
      [] kind = "UBold3" -> <<"_", "_", "_">>
      [] kind = "UItalic" -> <<"_">>
      [] OTHER -> <<>>

\* Two marks of emphasis in a row stand for themselves.
Doubled(s, i) == s[i] \in {"*", "_"} /\ At(s, i + 1) = s[i]

\* The inlines whose marker begins at i; emphasis is not followed by a blank.
Opening(s, i) ==
    {kind \in {"Code", "Image", "Strike", "Bold3", "UBold3"} :
        IsPrefix(Marker(kind), Skip(s, i - 1))}
    \cup {kind \in {"Italic", "UItalic"} :
        <<s[i]>> = Marker(kind) /\ ~Doubled(s, i) /\ At(s, i + 1) \notin {End, " ", NL}}

\* Reading from the left, two marks of emphasis at a time, one comes to i: an even
\* number of the same marks is before it.
Reached(s, i) ==
    s[i] \in {"*", "_"} => (i - Max({0} \cup {k \in 1..i : s[k] # s[i]})) % 2 = 1

\* The first place in stops that one comes to, or the end.
Scan(s, stops) == Min({i \in stops : Reached(s, i)} \cup {Len(s) + 1})

\* What is kept back because it may become a marker.
Hold(s, eof) ==
    LET last == At(s, Len(s))
    IN  IF eof \/ last \notin {"*", "_", "~", "!"} THEN 0
        ELSE IF last \in {"*", "_"} /\ At(s, Len(s) - 1) = last THEN 2
        ELSE 1

\* pump_body: up to the end of the line, the next inline or the end of buf.
PumpBody(f, eof) ==
    LET s == f.buf
        i == Scan(s, {k \in DOMAIN s : s[k] = NL \/ Opening(s, k) # {}})
        n == Len(s) - Hold(s, eof)
    IN  IF i > Len(s) THEN Step([f EXCEPT !.buf = Skip(s, n)], Take(s, n))
        ELSE IF s[i] = NL THEN Step([f EXCEPT !.buf = Skip(s, i), !.sol = TRUE], Take(s, i))
        ELSE LET kind == CHOOSE k \in Opening(s, i) : TRUE
             IN  Step([f EXCEPT !.buf = Skip(s, i - 1 + Len(Marker(kind))), !.inline = kind],
                      Take(s, i - 1))

\* The inline ends: rest is what follows it.
Closed(f, rest, sol) == [f EXCEPT !.buf = rest, !.sol = sol, !.inline = "none", !.acc = <<>>]
Close(f, out, rest, sol) == Step(Closed(f, rest, sol), out)

\* It does not end yet.
Stay(f, s) == Step([f EXCEPT !.buf = <<>>, !.acc = s], <<>>)

\* A line's end in the middle of code or of emphasis: the mark stands for itself.
CloseAtLine(f, s, nl) == Close(f, Marker(f.inline) \o Take(s, nl), Skip(s, nl), TRUE)

\* close_simple_inline
CloseSimple(f, s) ==
    LET mark == Marker(f.inline)
        i == Find(mark, s)
    IN  Close(f, Take(s, i - 1), Skip(s, i - 1 + Len(mark)), f.sol)

\* close_em_inline: a single mark closes emphasis, the line's end leaves it open.
CloseEm(f, s) ==
    LET mark == Marker(f.inline)[1]
        i == Scan(s, {k \in DOMAIN s : s[k] = NL \/ (s[k] = mark /\ ~Doubled(s, k))})
    IN  IF i > Len(s) THEN Stay(f, s)
        ELSE IF s[i] = NL THEN CloseAtLine(f, s, i)
        ELSE Close(f, Take(s, i - 1), Skip(s, i), f.sol)

\* close_image_inline: an image is dropped, what only looks like one is kept.
CloseImage(f, s) ==
    LET alt == Find(<<"]">>, s)
        url == Find(<<")">>, Skip(s, alt + 1))
    IN  IF alt = 0 \/ alt = Len(s) THEN Stay(f, s)
        ELSE IF s[alt + 1] # "("
        THEN Close(f, Marker("Image") \o Take(s, alt), Skip(s, alt), f.sol)
        ELSE IF url = 0 THEN Stay(f, s)
        ELSE Close(f, <<>>, Skip(s, alt + 1 + url), f.sol)

\* The cells of a row are what is before, between and after its bars.
Bars(line) == {i \in DOMAIN line : line[i] = "|"}
BlankFromTo(line, i, j) == \A k \in i..j : line[k] \in Blanks

\* The cells that are put out: not the first and not the last one when they are empty.
FirstCell(line) ==
    IF \E i \in Bars(line) \cup {Len(line) + 1} : BlankFromTo(line, 1, i - 1) THEN 2 ELSE 1
LastCell(line) ==
    Cardinality(Bars(line))
    + (IF \E i \in Bars(line) \cup {0} : BlankFromTo(line, i + 1, Len(line)) THEN 0 ELSE 1)

\* What is put out of a row: the bars between those cells, and of a cell all from the
\* first to the last that is no blank.
Kept(line) ==
    {i \in Bars(line) : Cardinality({j \in Bars(line) : j <= i}) \in FirstCell(line)..(LastCell(line) - 1)}
    \cup {i \in DOMAIN line \ Bars(line) :
             \E h \in 1..i, j \in i..Len(line) :
                 /\ line[h] \notin Blanks /\ line[j] \notin Blanks
                 /\ Bars(line) \cap (h..j) = {}}

Nth(S, n) == CHOOSE i \in S : Cardinality({j \in S : j <= i}) = n

\* extract_table_row: rows that separate are dropped, the others have tabs for bars.
ExtractTableRow(line) ==
    IF "-" \in Range(line) /\ Range(line) \subseteq Blanks \cup {"|", ":", "-"} THEN <<>>
    ELSE [n \in 1..Cardinality(Kept(line)) |->
             LET b == line[Nth(Kept(line), n)] IN IF b = "|" THEN "\t" ELSE b]

\* Mutant: the first and the last cell are dropped, empty or not.
OverrunsWithoutBar(line) == Bars(line) = {}

\* A row of one empty cell takes the same cell away twice: the slice panics.
Overruns(line) == FirstCell(line) > LastCell(line) + 1

PutRow(f, line, end) ==
    IF Overruns(line) THEN Panic(f)
    ELSE Step(f, IF ExtractTableRow(line) = <<>> THEN <<>> ELSE ExtractTableRow(line) \o end)

\* A row is put out at the end of its line.
CloseTable(f, s) ==
    LET nl == Find(<<NL>>, s)
    IN  IF nl = 0 THEN Stay(f, s)
        ELSE PutRow(Closed(f, Skip(s, nl), TRUE), Take(s, nl - 1), <<NL>>)

\* pump_inline
PumpInline(f) ==
    LET s == f.acc \o f.buf
    IN  CASE f.inline = "Table" -> CloseTable(f, s)
          [] f.inline = "Image" -> CloseImage(f, s)
          [] f.inline \in {"Italic", "UItalic"} -> CloseEm(f, s)
          [] OTHER ->
               IF Find(Marker(f.inline), s) # 0 THEN CloseSimple(f, s)
               ELSE IF f.inline = "Code" /\ Find(<<NL>>, s) # 0
               THEN CloseAtLine(f, s, Find(<<NL>>, s))
               ELSE Stay(f, s)

-----------------------------------------------------------------------------
PumpStep(f, eof) ==
    IF f.fence THEN PumpFence(f, eof)
    ELSE IF f.inline # "none" THEN PumpInline(f)
    ELSE IF f.sol THEN PumpStart(f, eof)
    ELSE PumpBody(f, eof)

\* Mutant: an inline that is still open at the end is dropped.
EndDropsInline(f) == Step([f EXCEPT !.inline = "none", !.acc = <<>>], <<>>)

\* The end of the text: an open inline is put out with its mark, a row as a row.
EndInline(f) ==
    LET g == [f EXCEPT !.inline = "none", !.acc = <<>>]
    IN  IF f.inline = "Table" THEN PutRow(g, f.acc, <<>>)
        ELSE Step(g, Marker(f.inline) \o f.acc)
=============================================================================
