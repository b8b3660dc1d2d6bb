---------------------------- MODULE OutgoingText ----------------------------
(***************************************************************************)
(* chunk_text: a text that is too long for a message is cut into chunks,   *)
(* after a paragraph, a line or a word when there is one that is not too   *)
(* close to the chunk's start.  Text is a sequence of UTF-8 bytes: what    *)
(* matters of a byte is whether it is a line's end, a blank, another       *)
(* character of one byte, or the first or a later byte of a longer one.    *)
(* A chunk is the interval of positions <<first, last>> of its bytes; one  *)
(* step is one pass of the loop.                                           *)
(***************************************************************************)
EXTENDS Naturals, Sequences

CONSTANTS
    Limit,  \* bytes of a message: 4000 in send_text
    Texts   \* texts that may be sent

Bytes == {"\n", "blank", "a", "lead", "tail"}

\* A position between two bytes is a character's boundary, as both ends are.
IsCharBoundary(t, n) ==
    \/ n = 0
    \/ n = Len(t)
    \/ n \in 1..(Len(t) - 1) /\ t[n + 1] # "tail"

\* UTF-8: no more than three bytes follow a character's first one, and they follow
\* no character of one byte.
IsText(t) ==
    /\ t \in Seq(Bytes)
    /\ \A n \in 1..(Len(t) - 1) : t[n + 1] = "tail" => t[n] \in {"lead", "tail"}
    /\ \A n \in 0..(Len(t) - 4) : \E e \in 1..4 : IsCharBoundary(t, n + e)

ASSUME LimitAssumption == Limit \in Nat /\ Limit >= 4
ASSUME TextsAssumption == \A t \in Texts : IsText(t)

VARIABLES
    text,    \* what is sent
    at,      \* how many of its bytes are in chunks
    chunks,  \* the chunks so far
    whole    \* chunk_text has returned

textVars == <<text, at, chunks, whole>>

-----------------------------------------------------------------------------
Largest(S) == CHOOSE n \in S : \A m \in S : m <= n

\* char_boundary_at_or_before: where the window ends.
WindowEnd == Largest({n \in 0..Limit : IsCharBoundary(text, at + n)})

ParagraphEnd == <<"\n", "\n">>
LineEnd == <<"\n">>
WordEnd == <<"blank">>

\* Where a separator begins in the window, further than 3/10 of it.
Late(sep) ==
    {i \in 0..(WindowEnd - Len(sep)) :
        /\ i > (WindowEnd * 3) \div 10
        /\ \A k \in DOMAIN sep : text[at + i + k] = sep[k]}

CutAfter(sep) == Largest(Late(sep)) + Len(sep)

\* Mutant: the cut is at the end of the window, wherever that is.
CutAnywhere == Limit

\* The length of the next chunk.
Cut ==
    CASE Late(ParagraphEnd) # {} -> CutAfter(ParagraphEnd)
      [] Late(ParagraphEnd) = {} /\ Late(LineEnd) # {} -> CutAfter(LineEnd)
      [] Late(ParagraphEnd) = {} /\ Late(LineEnd) = {} /\ Late(WordEnd) # {} ->
           CutAfter(WordEnd)
      [] OTHER -> WindowEnd

Rest == Len(text) - at

-----------------------------------------------------------------------------
TextInit ==
    /\ text \in Texts
    /\ at = 0
    /\ chunks = <<>>
    /\ whole = FALSE

\* Mutant: the separator goes to neither chunk.
CutChunkTrimmed ==
    /\ ~whole
    /\ Rest > Limit
    /\ chunks' = Append(chunks, <<at + 1, at + Cut - (IF Cut = WindowEnd THEN 0 ELSE 1)>>)
    /\ at' = at + Cut
    /\ UNCHANGED <<text, whole>>

CutChunk ==
    /\ ~whole
    /\ Rest > Limit
    /\ chunks' = Append(chunks, <<at + 1, at + Cut>>)
    /\ at' = at + Cut
    /\ UNCHANGED <<text, whole>>

\* Mutant: the last chunk is taken for a full one.
LastChunkFull ==
    /\ ~whole
    /\ Rest <= Limit
    /\ chunks' = Append(chunks, <<at + 1, Len(text)>>)
    /\ at' = at + Limit
    /\ whole' = TRUE
    /\ UNCHANGED text

\* The rest fits: it is the last chunk, and an empty text's only one.
LastChunk ==
    /\ ~whole
    /\ Rest <= Limit
    /\ chunks' = Append(chunks, <<at + 1, Len(text)>>)
    /\ at' = Len(text)
    /\ whole' = TRUE
    /\ UNCHANGED text

TextNext == CutChunk \/ LastChunk

TextSpec == TextInit /\ [][TextNext]_textVars

-----------------------------------------------------------------------------
(* Properties *)

\* Every variable stays in its domain.
TextTypeOK ==
    /\ IsText(text)
    /\ at \in 0..Len(text)
    /\ chunks \in Seq(Nat \X Nat)
    /\ whole \in BOOLEAN

\* The chunks are the text: each begins where the one before it ends, the first at
\* the text's start and, when chunk_text returns, the last at its end.
ChunksTile ==
    /\ \A i \in DOMAIN chunks :
          chunks[i][1] = 1 + (IF i = 1 THEN 0 ELSE chunks[i - 1][2])
    /\ at = IF chunks = <<>> THEN 0 ELSE chunks[Len(chunks)][2]
    /\ whole => at = Len(text)

\* Every chunk fits a message, is empty only when the text is, and is whole
\* characters.
ChunksFit ==
    \A i \in DOMAIN chunks :
        /\ chunks[i][2] + 1 - chunks[i][1] \in (IF text = <<>> THEN 0 ELSE 1)..Limit
        /\ IsCharBoundary(text, chunks[i][1] - 1)
        /\ IsCharBoundary(text, chunks[i][2])
=============================================================================
