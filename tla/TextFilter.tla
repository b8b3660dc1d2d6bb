----------------------------- MODULE TextFilter -----------------------------
(***************************************************************************)
(* filter_markdown, and the filter it uses: a text is fed to the filter,   *)
(* at once or in pieces, and the filter is flushed.  One step feeds a      *)
(* piece, is one pass of the filter's loop, or is the end of the loop.     *)
(***************************************************************************)
EXTENDS MarkdownFilter

CONSTANTS
    Letters,   \* bytes that the filter does not look for
    Markdowns  \* texts to filter, with the places where they are cut into pieces

\* Bytes that may begin, end or separate something.
Signs ==
    {"*", "_", "~", "!", "[", "]", "(", ")", "|", "-", ":", "#", ">", Tick, " ", "\t", NL}

Symbols == Signs \cup Letters

ASSUME LettersAssumption == Letters \cap (Signs \cup {End}) = {}
ASSUME MarkdownsAssumption ==
    \A m \in Markdowns :
        m \in [text : Seq(Symbols), cuts : SUBSET Nat] /\ m.cuts \subseteq DOMAIN m.text

VARIABLES
    source,   \* the text
    cuts,     \* the bytes that end a piece; the last byte does, too
    fed,      \* how much of the text has been fed
    filter,   \* the filter
    stage,    \* which loop it is in, or how it ended
    filtered  \* what the filter has put out

filterVars == <<source, cuts, fed, filter, stage, filtered>>

Stages == {"feed", "flush", "done", "panicked"}

Filters ==
    [buf : Seq(Symbols), fence : BOOLEAN, sol : BOOLEAN, inline : Inlines \cup {"none"},
     acc : Seq(Symbols)]

\* What an inline has read is what it may not put out yet; it begins within a line.
IsFilter(f) ==
    /\ f \in Filters
    /\ f.inline = "none" => f.acc = <<>>
    /\ f.inline # "none" => ~f.fence /\ ~f.sol

-----------------------------------------------------------------------------
FilterInit ==
    /\ \E m \in Markdowns : source = m.text /\ cuts = m.cuts
    /\ fed = 0
    /\ filter = Start
    /\ stage = "feed"
    /\ filtered = <<>>

\* What a pass makes of the filter.
Pumped == PumpStep(filter, stage = "flush")

\* The loop goes on.
Moves == filter.buf # <<>> /\ Pumped.f # filter

Put(step, next) ==
    /\ filter' = step.f
    /\ filtered' = filtered \o step.out
    /\ stage' = IF step.panics THEN "panicked" ELSE next
    /\ UNCHANGED <<source, cuts>>

\* Mutant: every piece of text starts a line.
FeedAsLine ==
    /\ stage = "feed"
    /\ ~Moves
    /\ \E to \in cuts \cup {Len(source)} :
          /\ fed < to /\ \A c \in cuts : c <= fed \/ to <= c
          /\ fed' = to
          /\ Put(Wait([filter EXCEPT !.buf = @ \o SubSeq(source, fed + 1, to), !.sol = TRUE]), "feed")

\* feed: the next piece comes to what the loop has left.
Feed ==
    /\ stage = "feed"
    /\ ~Moves
    /\ \E to \in cuts \cup {Len(source)} :
          /\ fed < to /\ \A c \in cuts : c <= fed \/ to <= c
          /\ fed' = to
          /\ Put(Wait([filter EXCEPT !.buf = @ \o SubSeq(source, fed + 1, to)]), "feed")

Pass ==
    /\ stage \in {"feed", "flush"}
    /\ Moves
    /\ Put(Pumped, stage)
    /\ UNCHANGED fed

\* All is fed: what the loop has left is flushed.
BeginFlush ==
    /\ stage = "feed"
    /\ fed = Len(source)
    /\ ~Moves
    /\ Put(Wait(filter), "flush")
    /\ UNCHANGED fed

EndFlush ==
    /\ stage = "flush"
    /\ ~Moves
    /\ Put(EndInline(filter), "done")
    /\ UNCHANGED fed

FilterNext == Feed \/ Pass \/ BeginFlush \/ EndFlush

FilterSpec == FilterInit /\ [][FilterNext]_filterVars

-----------------------------------------------------------------------------
(* Properties *)

\* Every variable stays in its domain.
FilterTypeOK ==
    /\ source \in Seq(Symbols) /\ cuts \subseteq DOMAIN source /\ fed \in 0..Len(source)
    /\ IsFilter(filter)
    /\ stage \in Stages
    /\ filtered \in Seq(Symbols)

Count(t, b) == Cardinality({i \in DOMAIN t : t[i] = b})

\* The filter takes marks away and never words: every letter comes out as often as it
\* went in, unless the text has an image or a fence, whose address and language are
\* dropped; and none is made up.
LettersKept ==
    stage = "done" =>
        \A b \in Letters :
            /\ Count(filtered, b) <= Count(source, b)
            /\ \/ Find(Marker("Image"), source) # 0
               \/ Find(Ticks, source) # 0
               \/ Count(filtered, b) = Count(source, b)

\* Every piece but the last one is whole lines, as when a text is fed at once.
LinesFed == \A c \in cuts : source[c] = NL

\* The filter of whole lines panics, and with it the send, at nothing but a line that is
\* a bar and blanks.
PanicsOnlyAtEmptyRows ==
    stage = "panicked" /\ LinesFed =>
        \E i \in DOMAIN source : \E n \in i..Len(source) :
            /\ i = 1 \/ source[i - 1] = NL
            /\ source[i] = "|"
            /\ \A k \in (i + 1)..n : source[k] \in Blanks
            /\ n = Len(source) \/ source[n + 1] = NL
=============================================================================
