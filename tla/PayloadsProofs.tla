--------------------------- MODULE PayloadsProofs ---------------------------
(***************************************************************************)
(* Theorems about what is made of an input: a text of any length is cut    *)
(* into chunks that are the text, fit messages of any limit of four bytes  *)
(* or more, and are whole characters; an agent of any words is sane when   *)
(* it is sent, and stable; and what holds of each part holds of Payloads,  *)
(* which composes them.                                                    *)
(***************************************************************************)
EXTENDS Payloads, TextFilterProofs, ExchangesProofs, FiniteSetTheorems,
        SequenceTheorems, WellFoundedInduction, TLAPS

-----------------------------------------------------------------------------
(* The chunks of a text *)

\* A set of bounded numbers that is not empty has a largest one: of its distances to
\* the bound one is the least.
LEMMA LargestOf ==
    ASSUME NEW B \in Nat, NEW S \in SUBSET (0..B), S # {}
    PROVE  Largest(S) \in S /\ \A m \in S : m <= Largest(S)
<1> DEFINE T == {B - n : n \in S}
<1>1. T \subseteq Nat /\ T # {}
  <2>1. T \subseteq Nat
    BY DEF T
  <2>2. PICK n \in S : TRUE
    OBVIOUS
  <2>3. B - n \in T
    BY <2>2 DEF T
  <2>4. QED
    BY <2>1, <2>3
<1>2. PICK x \in T : \A y \in T : ~ (<<y, x>> \in OpToRel(<, Nat))
  BY <1>1, NatLessThanWellFounded, WFMin
<1>3. \A y \in T : ~ (y < x)
  BY <1>1, <1>2 DEF OpToRel
<1>4. PICK n \in S : x = B - n
  BY DEF T
<1>5. \A m \in S : m <= n
  <2>1. SUFFICES ASSUME NEW m \in S, n < m PROVE FALSE
    OBVIOUS
  <2>2. B - m \in T /\ B - m < B - n
    BY <2>1 DEF T
  <2>3. QED
    BY <1>3, <1>4, <2>2
<1>6. QED
  BY <1>5 DEF Largest

\* A text is a sequence.
LEMMA TextIsSequence ==
    ASSUME NEW t, IsText(t)
    PROVE  t \in Seq(Bytes) /\ Len(t) \in Nat /\ (t # <<>> => Len(t) > 0)
<1>1. t \in Seq(Bytes)
  BY DEF IsText
<1>2. QED
  BY <1>1

\* The window ends at a character's boundary, past its start: a character has at most
\* four bytes, and so does the least limit.
LEMMA WindowEndsAtBoundary ==
    ASSUME IsText(text), at \in Nat, Rest > Limit
    PROVE  WindowEnd \in 1..Limit /\ IsCharBoundary(text, at + WindowEnd)
<1> DEFINE S == {n \in 0..Limit : IsCharBoundary(text, at + n)}
<1>1. Len(text) \in Nat /\ Limit \in Nat /\ Limit >= 4
  BY LimitAssumption DEF IsText
<1>2. at \in 0..(Len(text) - 4)
  BY <1>1 DEF Rest
<1>3. PICK e \in 1..4 : IsCharBoundary(text, at + e)
  BY <1>2 DEF IsText
<1>4. S \in SUBSET (0..Limit) /\ e \in S
  BY <1>1, <1>3 DEF S
<1>5. Largest(S) \in S /\ \A m \in S : m <= Largest(S)
  BY <1>1, <1>4, LargestOf
<1>6. WindowEnd = Largest(S)
  BY DEF WindowEnd, S
<1>7. WindowEnd >= e
  BY <1>4, <1>5, <1>6
<1>8. WindowEnd \in 0..Limit /\ IsCharBoundary(text, at + WindowEnd)
  <2>. HIDE DEF S
  <2>1. WindowEnd \in S
    BY <1>5, <1>6
  <2>2. QED
    BY <2>1 DEF S
<1>9. QED
  BY <1>1, <1>7, <1>8

\* A position after a line's end or a blank is a boundary.
LEMMA BoundaryAfterSeparator ==
    ASSUME IsText(text), NEW n \in 1..Len(text), text[n] \in {"\n", "blank"}
    PROVE  IsCharBoundary(text, n)
<1>0. Len(text) \in Nat
  BY TextIsSequence
<1>1. CASE n = Len(text)
  BY <1>1 DEF IsCharBoundary
<1>2. CASE n # Len(text)
  <2>1. n \in 1..(Len(text) - 1)
    BY <1>0, <1>2
  <2>2. text[n + 1] # "tail"
    BY <2>1 DEF IsText
  <2>3. QED
    BY <2>1, <2>2 DEF IsCharBoundary
<1>3. QED
  BY <1>1, <1>2

\* A cut after a separator is in the window and at a boundary.
LEMMA CutAfterFits ==
    ASSUME IsText(text), at \in Nat, Rest > Limit,
           NEW sep \in {ParagraphEnd, LineEnd, WordEnd}, Late(sep) # {}
    PROVE  CutAfter(sep) \in 1..Limit /\ IsCharBoundary(text, at + CutAfter(sep))
<1> DEFINE i == Largest(Late(sep))
           k == Len(sep)
<1>1. Len(text) \in Nat /\ Limit \in Nat
  BY LimitAssumption DEF IsText
<1>2. WindowEnd \in 1..Limit
  BY WindowEndsAtBoundary
<1>3. k \in 1..2 /\ k \in DOMAIN sep /\ sep[k] \in {"\n", "blank"}
  <2>1. CASE sep = ParagraphEnd
    BY <2>1 DEF ParagraphEnd, k
  <2>2. CASE sep = LineEnd
    BY <2>2 DEF LineEnd, k
  <2>3. CASE sep = WordEnd
    BY <2>3 DEF WordEnd, k
  <2>4. QED
    BY <2>1, <2>2, <2>3
<1>4. Late(sep) \in SUBSET (0..Limit)
  <2>1. \A j \in Late(sep) : j \in 0..(WindowEnd - Len(sep))
    BY DEF Late
  <2>2. Len(sep) \in 1..2
    BY <1>3 DEF k
  <2>. HIDE DEF WindowEnd
  <2>3. 0..(WindowEnd - Len(sep)) \subseteq 0..Limit
    BY <1>1, <1>2, <2>2
  <2>4. QED
    BY <2>1, <2>3
<1>5. i \in Late(sep)
  BY <1>1, <1>4, LargestOf
<1>6. i \in 0..(WindowEnd - k) /\ text[at + i + k] = sep[k]
  BY <1>3, <1>5 DEF Late, k
<1>7. CutAfter(sep) = i + k
  BY DEF CutAfter, i, k
<1>. HIDE DEF i, k
<1>8. i + k \in 1..Limit
  <2>1. i \in 0..(WindowEnd - k) /\ k \in 1..2
    BY <1>3, <1>6
  <2>. HIDE DEF WindowEnd
  <2>2. QED
    BY <1>1, <1>2, <2>1
<1>9. at + (i + k) \in 1..Len(text) /\ at + (i + k) = at + i + k
  <2>1. i \in Nat /\ k \in Nat /\ at \in Nat
    BY <1>2, <1>3, <1>6
  <2>2. Len(text) - at > Limit
    BY DEF Rest
  <2>3. QED
    BY <1>1, <1>8, <2>1, <2>2
<1>10. IsCharBoundary(text, at + (i + k))
  BY <1>3, <1>6, <1>9, BoundaryAfterSeparator
<1>11. QED
  BY <1>7, <1>8, <1>10

\* Whatever the cut is after, the chunk is neither empty nor too long, and whole.
LEMMA CutFits ==
    ASSUME IsText(text), at \in Nat, Rest > Limit
    PROVE  Cut \in 1..Limit /\ IsCharBoundary(text, at + Cut)
<1>1. CASE Late(ParagraphEnd) # {}
  <2>1. Cut = CutAfter(ParagraphEnd)
    BY <1>1 DEF Cut
  <2>2. QED
    BY <1>1, <2>1, CutAfterFits
<1>2. CASE Late(ParagraphEnd) = {} /\ Late(LineEnd) # {}
  <2>1. Cut = CutAfter(LineEnd)
    BY <1>2 DEF Cut
  <2>2. QED
    BY <1>2, <2>1, CutAfterFits
<1>3. CASE Late(ParagraphEnd) = {} /\ Late(LineEnd) = {} /\ Late(WordEnd) # {}
  <2>1. Cut = CutAfter(WordEnd)
    BY <1>3 DEF Cut
  <2>2. QED
    BY <1>3, <2>1, CutAfterFits
<1>4. CASE Late(ParagraphEnd) = {} /\ Late(LineEnd) = {} /\ Late(WordEnd) = {}
  <2>1. Cut = WindowEnd
    BY <1>4 DEF Cut
  <2>2. QED
    BY <2>1, WindowEndsAtBoundary
<1>5. QED
  BY <1>1, <1>2, <1>3, <1>4

-----------------------------------------------------------------------------
(* The inductive invariant: what is cut so far ends at a boundary, short of a text  *)
(* that is not empty, and nothing is cut of one that is.                            *)

Uncut ==
    /\ IsCharBoundary(text, at)
    /\ text = <<>> => chunks = <<>> \/ whole
    /\ ~whole /\ text # <<>> => at < Len(text)

TextInv == TextTypeOK /\ Uncut /\ ChunksTile /\ ChunksFit

LEMMA TextInitInv == TextInit => TextInv
<1>1. SUFFICES ASSUME TextInit PROVE TextInv
  OBVIOUS
<1>2. IsText(text)
  BY <1>1, TextsAssumption DEF TextInit
<1>3. Len(text) \in Nat /\ (text # <<>> => Len(text) > 0)
  BY <1>2 DEF IsText
<1>4. TextTypeOK
  <2>1. at \in 0..Len(text)
    BY <1>1, <1>3 DEF TextInit
  <2>2. whole \in BOOLEAN
    BY <1>1 DEF TextInit
  <2>3. chunks \in Seq(Nat \X Nat)
    BY <1>1 DEF TextInit
  <2>4. QED
    BY <1>2, <2>1, <2>2, <2>3 DEF TextTypeOK
<1>5. Uncut
  BY <1>1, <1>3 DEF TextInit, Uncut, IsCharBoundary
<1>6. ChunksTile /\ ChunksFit
  BY <1>1 DEF TextInit, ChunksTile, ChunksFit
<1>7. QED
  BY <1>4, <1>5, <1>6 DEF TextInv

\* A chunk that begins where the last one ends, is whole and fits, keeps the chunks a
\* tiling of whole characters.
LEMMA AppendChunk ==
    ASSUME TextInv, text' = text, NEW e \in at..Len(text),
           chunks' = Append(chunks, <<at + 1, e>>), at' = e,
           whole' => e = Len(text),
           e - at \in (IF text = <<>> THEN 0 ELSE 1)..Limit,
           IsCharBoundary(text, e)
    PROVE  ChunksTile' /\ ChunksFit'
<1>1. at \in Nat /\ chunks \in Seq(Nat \X Nat) /\ Len(text) \in Nat /\ Limit \in Nat
  BY LimitAssumption DEF TextInv, TextTypeOK, IsText
<1> DEFINE n == Len(chunks)
<1>2. /\ n \in Nat /\ Len(chunks') = n + 1 /\ DOMAIN chunks' = 1..(n + 1)
      /\ chunks'[n + 1] = <<at + 1, e>>
      /\ \A i \in 1..n : chunks'[i] = chunks[i]
      /\ DOMAIN chunks = 1..n
      /\ chunks' # <<>>
      /\ chunks = <<>> <=> n = 0
  BY <1>1
<1>. HIDE DEF n
<1>3. ChunksTile'
  <2>1. \A i \in DOMAIN chunks' :
          chunks'[i][1] = 1 + (IF i = 1 THEN 0 ELSE chunks'[i - 1][2])
    <3>1. SUFFICES ASSUME NEW i \in 1..(n + 1)
                   PROVE chunks'[i][1] = 1 + (IF i = 1 THEN 0 ELSE chunks'[i - 1][2])
      BY <1>2
    <3>2. CASE i \in 1..n
      <4>1. i = 1 \/ i - 1 \in 1..n
        BY <1>2, <3>2
      <4>2. chunks[i][1] = 1 + (IF i = 1 THEN 0 ELSE chunks[i - 1][2])
        BY <1>2, <3>2 DEF TextInv, ChunksTile
      <4>3. QED
        BY <1>2, <3>2, <4>1, <4>2
    <3>3. CASE i = n + 1
      <4>1. at = IF n = 0 THEN 0 ELSE chunks[n][2]
        BY <1>2 DEF TextInv, ChunksTile, n
      <4>2. chunks'[i][1] = at + 1
        BY <1>2, <3>3
      <4>3. n = 0 \/ chunks'[i - 1][2] = chunks[n][2]
        BY <1>2, <3>3
      <4>4. QED
        BY <1>1, <1>2, <3>3, <4>1, <4>2, <4>3
    <3>4. QED
      BY <1>2, <3>1, <3>2, <3>3
  <2>2. at' = IF chunks' = <<>> THEN 0 ELSE chunks'[Len(chunks')][2]
    BY <1>2
  <2>3. QED
    BY <2>1, <2>2 DEF ChunksTile
<1>4. ChunksFit'
  <2>1. SUFFICES ASSUME NEW i \in 1..(n + 1)
                 PROVE /\ chunks'[i][2] + 1 - chunks'[i][1]
                             \in (IF text = <<>> THEN 0 ELSE 1)..Limit
                       /\ IsCharBoundary(text, chunks'[i][1] - 1)
                       /\ IsCharBoundary(text, chunks'[i][2])
    BY <1>2 DEF ChunksFit, IsCharBoundary
  <2>2. CASE i \in 1..n
    BY <1>2, <2>2 DEF TextInv, ChunksFit
  <2>3. CASE i = n + 1
    <3>1. chunks'[i][1] = at + 1 /\ chunks'[i][2] = e
      BY <1>2, <2>3
    <3>2. e + 1 - (at + 1) = e - at /\ at + 1 - 1 = at
      BY <1>1
    <3>3. IsCharBoundary(text, at)
      BY DEF TextInv, Uncut
    <3>4. QED
      <4>1. chunks'[i][2] + 1 - chunks'[i][1] = e - at
        BY <3>1, <3>2
      <4>2. chunks'[i][1] - 1 = at
        <5>1. chunks'[i][1] = at + 1
          BY <3>1
        <5>2. \A x : x = at + 1 => x - 1 = at
          BY <1>1
        <5>3. QED
          BY <5>1, <5>2, Zenon
      <4>3. QED
        BY <3>1, <3>3, <4>1, <4>2
  <2>4. QED
    BY <1>2, <2>1, <2>2, <2>3
<1>5. QED
  BY <1>3, <1>4

LEMMA TextStepInv == TextInv /\ [TextNext]_textVars => TextInv'
<1>1. SUFFICES ASSUME TextInv, [TextNext]_textVars PROVE TextInv'
  OBVIOUS
<1>2. /\ IsText(text) /\ at \in Nat /\ at <= Len(text) /\ Len(text) \in Nat
      /\ chunks \in Seq(Nat \X Nat) /\ Limit \in Nat /\ Limit >= 4
  BY <1>1, LimitAssumption DEF TextInv, TextTypeOK, IsText
<1>3. CASE CutChunk
  <2>1. Cut \in 1..Limit /\ IsCharBoundary(text, at + Cut)
    BY <1>2, <1>3, CutFits DEF CutChunk
  <2>2. at + Cut \in at..Len(text) /\ at + Cut < Len(text) /\ text # <<>>
    BY <1>2, <1>3, <2>1 DEF CutChunk, Rest
  <2>3. ChunksTile' /\ ChunksFit'
    <3>1. (at + Cut) - at = Cut
      BY <1>2, <2>1
    <3>2. (at + Cut) - at \in (IF text = <<>> THEN 0 ELSE 1)..Limit
      BY <2>1, <2>2, <3>1
    <3>3. ~whole'
      BY <1>3 DEF CutChunk
    <3>4. QED
      BY <1>1, <1>3, <2>1, <2>2, <3>2, <3>3, AppendChunk DEF CutChunk
  <2>4. TextTypeOK'
    <3>1. <<at + 1, at + Cut>> \in Nat \X Nat
      BY <1>2, <2>1
    <3>2. chunks' \in Seq(Nat \X Nat)
      BY <1>2, <1>3, <3>1 DEF CutChunk
    <3>3. IsText(text')
      BY <1>2, <1>3 DEF CutChunk
    <3>4. at' \in 0..Len(text')
      BY <1>2, <1>3, <2>2 DEF CutChunk
    <3>5. whole' \in BOOLEAN
      BY <1>1, <1>3 DEF CutChunk, TextInv, TextTypeOK
    <3>6. QED
      BY <3>2, <3>3, <3>4, <3>5 DEF TextTypeOK
  <2>5. Uncut'
    BY <1>3, <2>1, <2>2 DEF CutChunk, Uncut, IsCharBoundary
  <2>6. QED
    BY <2>3, <2>4, <2>5 DEF TextInv
<1>4. CASE LastChunk
  <2>1. /\ Len(text) \in at..Len(text)
        /\ Len(text) - at \in (IF text = <<>> THEN 0 ELSE 1)..Limit
    BY <1>1, <1>2, <1>4 DEF LastChunk, Rest, TextInv, Uncut
  <2>2. IsCharBoundary(text, Len(text))
    BY DEF IsCharBoundary
  <2>3. ChunksTile' /\ ChunksFit'
    BY <1>1, <1>4, <2>1, <2>2, AppendChunk DEF LastChunk
  <2>4. TextTypeOK'
    <3>1. <<at + 1, Len(text)>> \in Nat \X Nat
      BY <1>2
    <3>2. chunks' \in Seq(Nat \X Nat)
      BY <1>2, <1>4, <3>1 DEF LastChunk
    <3>3. IsText(text')
      BY <1>2, <1>4 DEF LastChunk
    <3>4. at' \in 0..Len(text') /\ whole' \in BOOLEAN
      BY <1>2, <1>4 DEF LastChunk
    <3>5. QED
      BY <3>2, <3>3, <3>4 DEF TextTypeOK
  <2>5. Uncut'
    BY <1>4, <2>2 DEF LastChunk, Uncut, IsCharBoundary
  <2>6. QED
    BY <2>3, <2>4, <2>5 DEF TextInv
<1>5. CASE UNCHANGED textVars
  BY <1>1, <1>5 DEF textVars, TextInv, TextTypeOK, Uncut, ChunksTile, ChunksFit,
     IsCharBoundary
<1>6. QED
  BY <1>1, <1>3, <1>4, <1>5 DEF TextNext

LEMMA TextInvariant == TextSpec => []TextInv
BY TextInitInv, TextStepInv, PTL DEF TextSpec

-----------------------------------------------------------------------------
(* What holds of the chunks *)

\* Every variable stays in its domain.
THEOREM TextTypeCorrect == TextSpec => []TextTypeOK
<1>1. TextInv => TextTypeOK
  BY DEF TextInv
<1>2. QED
  BY <1>1, TextInvariant, PTL

\* The chunks are the text, none of its bytes left out or repeated.
THEOREM ChunksTileHolds == TextSpec => []ChunksTile
<1>1. TextInv => ChunksTile
  BY DEF TextInv
<1>2. QED
  BY <1>1, TextInvariant, PTL

\* Every chunk fits a message and is whole characters.
THEOREM ChunksFitHolds == TextSpec => []ChunksFit
<1>1. TextInv => ChunksFit
  BY DEF TextInv
<1>2. QED
  BY <1>1, TextInvariant, PTL

-----------------------------------------------------------------------------
(* The agent's length. *)

\* What comes first of some words is a sequence of words.
LEMMA FirstWords ==
    ASSUME NEW words \in Seq(Words), NEW n \in 0..Len(words)
    PROVE  /\ SubSeq(words, 1, n) \in Seq(Words)
           /\ Len(SubSeq(words, 1, n)) = n
           /\ \A i \in 1..n : SubSeq(words, 1, n)[i] = words[i]
<1>1. Len(words) \in Nat /\ 1 \in Int /\ n \in Int /\ (n < 1 => n = 0)
  OBVIOUS
<1>2. \A i \in 1..n : words[i] \in Words
  BY <1>1
<1>3. /\ SubSeq(words, 1, n) \in Seq(Words)
      /\ Len(SubSeq(words, 1, n)) = IF 1 <= n THEN n - 1 + 1 ELSE 0
      /\ \A i \in 1..(n - 1 + 1) : SubSeq(words, 1, n)[i] = words[1 + i - 1]
  BY <1>1, <1>2, SubSeqProperties
<1>4. n - 1 + 1 = n /\ \A i \in 1..n : 1 + i - 1 = i
  BY <1>1
<1> QED
  BY <1>1, <1>3, <1>4

\* Words take finitely many columns: as many as the words before the last one and, of
\* the last one, one more than it is long.
LEMMA ColumnsFinite ==
    ASSUME NEW words \in Seq(Words)
    PROVE  IsFiniteSet(Columns(words))
<1> DEFINE upto(n) == UNION {{i} \X (0..words[i].len) : i \in 1..n}
           T == {n \in 0..Len(words) : ~IsFiniteSet(upto(n))}
<1>1. Len(words) \in Nat /\ DOMAIN words = 1..Len(words)
  OBVIOUS
<1>2. IsFiniteSet(upto(0))
  <2>1. upto(0) = {}
    OBVIOUS
  <2> HIDE DEF upto
  <2> QED
    BY <2>1, FS_EmptySet
<1>3. ASSUME NEW n \in 1..Len(words), IsFiniteSet(upto(n - 1))
      PROVE  IsFiniteSet(upto(n))
  <2>1. words[n].len \in Nat
    BY <1>1 DEF Words
  <2>2. IsFiniteSet(0..words[n].len)
    <3> DEFINE k == words[n].len
    <3>1. k \in Int /\ 0 \in Int
      BY <2>1
    <3> HIDE DEF k
    <3> QED
      BY <3>1, FS_Interval DEF k
  <2>3. IsFiniteSet({n} \X (0..words[n].len))
    BY <2>2, FS_Singleton, FS_Product
  <2>4. 1..n = (1..(n - 1)) \cup {n}
    BY <1>1
  <2>5. upto(n) = upto(n - 1) \cup ({n} \X (0..words[n].len))
    BY <2>4
  <2> DEFINE before == upto(n - 1)
             last == {n} \X (0..words[n].len)
  <2>6. IsFiniteSet(before) /\ IsFiniteSet(last) /\ upto(n) = before \cup last
    BY <1>3, <2>3, <2>5
  <2> HIDE DEF upto, before, last
  <2> QED
    BY <2>6, FS_Union
<1>4. T = {}
  <2> HIDE DEF upto
  <2>1. SUFFICES ASSUME T # {} PROVE FALSE
    OBVIOUS
  <2>2. T \subseteq Nat
    OBVIOUS
  <2>3. PICK m \in T : \A n \in T : m <= n
    BY <2>1, <2>2, LeastNatural
  <2>4. m \in 1..Len(words) /\ m - 1 \in 0..Len(words) /\ ~ (m <= m - 1)
    BY <1>1, <1>2, <2>3
  <2>5. IsFiniteSet(upto(m - 1))
    BY <2>3, <2>4
  <2> QED
    BY <1>3, <2>3, <2>4, <2>5
<1>5. Columns(words) = upto(Len(words))
  BY <1>1 DEF Columns
<1> HIDE DEF upto
<1> QED
  BY <1>1, <1>4, <1>5

\* Some of the first words are no longer than all of them.
LEMMA FirstWordsFit ==
    ASSUME NEW words \in Seq(Words), NEW n \in 0..Len(words)
    PROVE  Size(SubSeq(words, 1, n)) <= Size(words)
<1> DEFINE first == SubSeq(words, 1, n)
<1>1. first \in Seq(Words) /\ Len(first) = n /\ \A i \in 1..n : first[i] = words[i]
  BY FirstWords
<1>2. DOMAIN first = 1..n /\ DOMAIN words = 1..Len(words) /\ 1..n \subseteq 1..Len(words)
  BY <1>1
<1> HIDE DEF first
<1>3. Columns(first) \subseteq Columns(words)
  BY <1>1, <1>2 DEF Columns
<1>4. IsFiniteSet(Columns(words)) /\ IsFiniteSet(Columns(first))
  BY <1>1, ColumnsFinite
<1>5. Cardinality(Columns(first)) <= Cardinality(Columns(words))
  BY <1>3, <1>4, FS_Subset
<1>6. Cardinality(Columns(first)) \in Nat /\ Cardinality(Columns(words)) \in Nat
  BY <1>4, FS_CardinalityType
<1>7. \A a, b \in Nat : a <= b => a - 1 <= b - 1
  OBVIOUS
<1> QED
  BY <1>5, <1>6, <1>7 DEF Size, first

-----------------------------------------------------------------------------
(* The agent that is sent. *)

\* A product, with a comment or without.
IsItem(item) ==
    /\ item \in Seq(Words) /\ item # <<>> /\ item[1].product
    /\ \/ Len(item) = 1
       \/ /\ IsComment(SubSeq(item, 2, Len(item)))
          /\ IsBotAgentComment(SubSeq(item, 2, Len(item)))

\* Every word is a product or in a comment that belongs to one.
Covered(words) ==
    \A i \in DOMAIN words :
        words[i].product \/ \E a \in 2..i : \E b \in i..Len(words) : Comments(words, a, b)

\* Some words of a sequence are the same words of one that it begins or ends.
LEMMA CommentsKept ==
    ASSUME NEW s \in Seq(Words), NEW t \in Seq(Words), NEW a \in 2..Len(s),
           NEW b \in a..Len(s), Comments(s, a, b)
    PROVE  Comments(s \o t, a, b)
<1>1. Len(s) \in Nat /\ a \in 1..Len(s) /\ b \in 1..Len(s) /\ a - 1 \in 1..Len(s)
  OBVIOUS
<1>2. SubSeq(s \o t, a, b) = SubSeq(s, a, b)
  BY <1>1, SubSeqOfConcat1
<1>3. (s \o t)[a - 1] = s[a - 1]
  BY <1>1, ConcatProperties
<1> QED
  BY <1>2, <1>3 DEF Comments

\* A product and its comment, put behind words that are covered, are covered.
LEMMA ItemCovers ==
    ASSUME NEW s \in Seq(Words), Covered(s), NEW item, IsItem(item)
    PROVE  Covered(s \o item) /\ s \o item # <<>> /\ s \o item \in Seq(Words)
<1> DEFINE n == Len(s)
           k == Len(item)
           r == s \o item
<1>1. item \in Seq(Words) /\ n \in Nat /\ k \in Nat /\ k # 0
  BY DEF IsItem
<1>2. /\ r \in Seq(Words) /\ Len(r) = n + k
      /\ \A i \in 1..(n + k) : r[i] = IF i <= n THEN s[i] ELSE item[i - n]
  BY <1>1, ConcatProperties
<1>3. DOMAIN r = 1..(n + k) /\ DOMAIN s = 1..n
  BY <1>2
<1>4. ASSUME NEW i \in 1..n
      PROVE  r[i].product \/ \E a \in 2..i : \E b \in i..Len(r) : Comments(r, a, b)
  <2>1. CASE s[i].product
    <3>1. r[i] = s[i]
      BY <1>1, <1>2
    <3> QED
      BY <2>1, <3>1
  <2>2. CASE ~s[i].product
    <3>1. PICK a \in 2..i : \E b \in i..Len(s) : Comments(s, a, b)
      BY <1>3, <2>2 DEF Covered
    <3>2. PICK b \in i..Len(s) : Comments(s, a, b)
      BY <3>1
    <3>3. a \in 2..Len(s) /\ b \in a..Len(s)
      BY <1>1, <3>1, <3>2
    <3>4. Comments(r, a, b)
      BY <1>1, <3>2, <3>3, CommentsKept
    <3>5. b \in i..Len(r)
      BY <1>1, <1>2, <3>2
    <3> QED
      BY <3>1, <3>4, <3>5
  <2> QED
    BY <2>1, <2>2
<1>5. r[n + 1] = item[1]
  <2>1. n + 1 \in 1..(n + k) /\ ~ (n + 1 <= n) /\ n + 1 - n = 1
    BY <1>1
  <2> QED
    BY <1>2, <2>1
<1>6. r[n + 1].product
  BY <1>5 DEF IsItem
<1>7. ASSUME NEW i \in (n + 2)..(n + k)
      PROVE  Comments(r, n + 2, n + k)
  <2>1. k # 1 /\ k >= 2 /\ n + 2 \in (n + 1)..(n + k) /\ n + k \in (n + 1)..(n + k)
    <3> HIDE DEF n, k
    <3> QED
      BY <1>1
  <2>2. IsComment(SubSeq(item, 2, k)) /\ IsBotAgentComment(SubSeq(item, 2, k))
    BY <2>1 DEF IsItem
  <2>3. n + 2 - n = 2 /\ n + k - n = k /\ (n + 2) - 1 = n + 1
    BY <1>1
  <2>4. SubSeq(r, n + 2, n + k) = SubSeq(item, n + 2 - n, n + k - n)
    BY <1>1, <2>1, SubSeqOfConcat2
  <2> HIDE DEF r, n, k
  <2>5. SubSeq(r, n + 2, n + k) = SubSeq(item, 2, k)
    BY <2>3, <2>4
  <2>6. r[(n + 2) - 1].product
    BY <1>6, <2>3
  <2> QED
    BY <2>2, <2>5, <2>6 DEF Comments
<1>8. Covered(r)
  <2> HIDE DEF r, n, k
  <2>1. SUFFICES ASSUME NEW i \in 1..(n + k)
                 PROVE  \/ r[i].product
                        \/ \E a \in 2..i : \E b \in i..Len(r) : Comments(r, a, b)
    BY <1>3 DEF Covered
  <2>2. CASE i \in 1..n
    BY <1>4, <2>2
  <2>3. CASE i = n + 1
    BY <1>6, <2>3
  <2>4. CASE i \in (n + 2)..(n + k)
    <3>1. Comments(r, n + 2, n + k)
      BY <1>7, <2>4
    <3>2. n + 2 \in 2..i /\ n + k \in i..Len(r)
      BY <1>1, <1>2, <2>4
    <3> QED
      BY <3>1, <3>2
  <2> QED
    BY <1>1, <2>2, <2>3, <2>4
<1>9. r # <<>>
  BY <1>1, <1>2
<1> QED
  BY <1>2, <1>8, <1>9

\* Products whose length is not above the limit, with their comments.
Admitted(words) == Covered(words) /\ (words # <<>> => Size(words) <= MaxAgent)

LEMMA ExtendedIsAdmitted ==
    ASSUME agent \in Seq(Words), Admitted(agent), NEW item, item = <<>> \/ IsItem(item)
    PROVE  Extended(item) \in Seq(Words) /\ Admitted(Extended(item))
<1>1. CASE item # <<>> /\ ~full /\ Fits(item)
  <2>1. Extended(item) = agent \o item
    BY <1>1 DEF Extended
  <2>2. Covered(agent \o item) /\ agent \o item \in Seq(Words)
    BY <1>1, ItemCovers DEF Admitted
  <2> QED
    BY <1>1, <2>1, <2>2 DEF Admitted, Fits
<1>2. CASE ~ (item # <<>> /\ ~full /\ Fits(item))
  BY <1>2 DEF Extended
<1> QED
  BY <1>1, <1>2

-----------------------------------------------------------------------------
(* Tokens. *)

\* A pending product is an item.
LEMMA PendingIsItem ==
    ASSUME AgentTypeOK
    PROVE  /\ pending = <<>> \/ IsItem(pending)
           /\ pending # <<>> => Len(pending) = 1
<1>1. pending \in Seq(Words) /\ Len(pending) <= 1 /\ \A i \in DOMAIN pending : pending[i].product
  BY DEF AgentTypeOK
<1>2. Len(pending) \in Nat /\ DOMAIN pending = 1..Len(pending)
  BY <1>1
<1>3. pending # <<>> => Len(pending) # 0
  BY <1>1
<1>4. pending # <<>> => Len(pending) = 1 /\ 1 \in DOMAIN pending
  BY <1>1, <1>2, <1>3
<1> QED
  BY <1>1, <1>4 DEF IsItem

\* The token is what it says of the agent's words.
LEMMA TokenIs ==
    ASSUME AgentTypeOK, read < Len(named)
    PROVE  /\ TokenEnd \in (read + 1)..Len(named)
           /\ Token \in Seq(Words)
           /\ Len(Token) = TokenEnd - read
           /\ Token[1] = named[read + 1]
<1>1. named \in Seq(Words) /\ read \in Nat /\ Len(named) \in Nat
  BY DEF AgentTypeOK
<1> DEFINE closing == {i \in (read + 1)..Len(named) : named[i].closes}
<1>2. TokenEnd \in (read + 1)..Len(named)
  <2>1. CASE ~named[read + 1].opens
    BY <1>1, <2>1 DEF TokenEnd
  <2>2. CASE named[read + 1].opens /\ closing = {}
    BY <1>1, <2>2 DEF TokenEnd
  <2>3. CASE named[read + 1].opens /\ closing # {}
    <3>1. TokenEnd = CHOOSE i \in closing : \A j \in closing : i <= j
      BY <2>3 DEF TokenEnd
    <3>2. closing \subseteq Nat /\ closing \subseteq (read + 1)..Len(named)
      BY <1>1
    <3> HIDE DEF closing
    <3>3. \E i \in closing : \A j \in closing : i <= j
      BY <2>3, <3>2, LeastNatural
    <3>4. TokenEnd \in closing
      BY <3>1, <3>3
    <3> QED
      BY <3>2, <3>4
  <2> QED
    BY <2>1, <2>2, <2>3
<1> DEFINE e == TokenEnd
<1>3. Token = SubSeq(named, read + 1, e)
  BY DEF Token
<1> HIDE DEF e
<1>4. e \in (read + 1)..Len(named)
  BY <1>2 DEF e
<1>5. \A i \in (read + 1)..e : named[i] \in Words
  BY <1>1, <1>4
<1>6. read + 1 \in Int /\ e \in Int /\ read + 1 <= e
  BY <1>1, <1>4
<1>7. /\ SubSeq(named, read + 1, e) \in Seq(Words)
      /\ Len(SubSeq(named, read + 1, e)) = e - (read + 1) + 1
      /\ \A i \in 1..(e - (read + 1) + 1) :
            SubSeq(named, read + 1, e)[i] = named[read + 1 + i - 1]
  BY <1>5, <1>6, SubSeqProperties
<1>8. /\ e - (read + 1) + 1 = e - read
      /\ 1 \in 1..(e - (read + 1) + 1)
      /\ read + 1 + 1 - 1 = read + 1
  BY <1>1, <1>4
<1> QED
  BY <1>3, <1>4, <1>7, <1>8 DEF e

\* A token ends at the first word that closes it.
LEMMA TokenEndsFirst ==
    ASSUME AgentTypeOK, named[read + 1].opens, NEW b \in (read + 1)..Len(named),
           named[b].closes, \A j \in (read + 1)..b : named[j].closes => j = b
    PROVE  TokenEnd = b
<1>1. read \in Nat /\ Len(named) \in Nat
  BY DEF AgentTypeOK
<1> DEFINE closing == {i \in (read + 1)..Len(named) : named[i].closes}
           Least(i) == i \in closing /\ \A j \in closing : i <= j
<1>2. b \in closing
  OBVIOUS
<1>3. TokenEnd = CHOOSE i \in closing : \A j \in closing : i <= j
  <2>1. closing # {}
    BY <1>2
  <2> QED
    BY <2>1 DEF TokenEnd
<1>4. \A j \in closing : b <= j
  BY <1>1
<1>5. \A i \in closing : (\A j \in closing : i <= j) => i = b
  <2>1. \A i \in closing : i \in Nat
    BY <1>1
  <2> HIDE DEF closing
  <2> QED
    BY <1>2, <1>4, <2>1
<1> HIDE DEF closing
<1> QED
  BY <1>2, <1>3, <1>4, <1>5

\* A comment opens with its first word and closes with its last one, and with no other.
LEMMA CommentWords ==
    ASSUME NEW words \in Seq(Words), NEW a \in 2..Len(words), NEW b \in a..Len(words),
           Comments(words, a, b)
    PROVE  /\ words[a - 1].product
           /\ words[a].opens
           /\ words[b].closes
           /\ \A j \in a..b : (words[j].opens => j = a) /\ (words[j].closes => j = b)
<1>1. Len(words) \in Nat /\ a \in Int /\ b \in Int /\ a <= b
  OBVIOUS
<1> DEFINE c == SubSeq(words, a, b)
           k == b - a + 1
<1>2. \A i \in a..b : words[i] \in Words
  BY <1>1
<1>3. /\ c \in Seq(Words) /\ Len(c) = k
      /\ \A i \in 1..(b - a + 1) : c[i] = words[a + i - 1]
  BY <1>1, <1>2, SubSeqProperties
<1>4. IsComment(c) /\ IsBotAgentComment(c) /\ words[a - 1].product
  BY DEF Comments
<1>5. k \in Nat /\ 1 \in 1..k /\ k \in 1..k /\ a + 1 - 1 = a /\ a + k - 1 = b
  BY <1>1
<1>6. c[1] = words[a] /\ c[k] = words[b]
  <2> HIDE DEF c
  <2>1. \A i \in 1..k : c[i] = words[a + i - 1]
    BY <1>3
  <2> HIDE DEF k
  <2> QED
    BY <1>5, <2>1
<1>7. words[a].opens /\ words[b].closes
  <2> HIDE DEF c, k
  <2> QED
    BY <1>3, <1>4, <1>6 DEF IsComment
<1>8. ASSUME NEW j \in a..b
      PROVE  (words[j].opens => j = a) /\ (words[j].closes => j = b)
  <2> DEFINE i == j - a + 1
  <2>1. i \in 1..k /\ a + i - 1 = j /\ (i = 1 <=> j = a) /\ (i = k <=> j = b)
    BY <1>1
  <2>2. DOMAIN c = 1..k
    BY <1>3
  <2>3. c[i] = words[j]
    <3> HIDE DEF c
    <3>1. \A x \in 1..k : c[x] = words[a + x - 1]
      BY <1>3
    <3> HIDE DEF k, i
    <3> QED
      BY <2>1, <3>1
  <2> HIDE DEF c, k, i
  <2>4. (c[i].opens => i = 1) /\ (c[i].closes => i = Len(c))
    BY <1>4, <2>1, <2>2 DEF IsBotAgentComment
  <2> QED
    BY <1>3, <2>1, <2>3, <2>4
<1> QED
  BY <1>4, <1>7, <1>8

\* The next word of a sane agent, when it is in no comment that has been read, is a
\* product, or a comment begins with it.
LEMMA NextOfSane ==
    ASSUME AgentTypeOK, Sane(named), named # Default, read < Len(named),
           \A a \in 2..read : \A b \in a..Len(named) : Comments(named, a, b) => b <= read
    PROVE  \/ named[read + 1].product
           \/ /\ read >= 1
              /\ \E b \in (read + 1)..Len(named) :
                    /\ Comments(named, read + 1, b)
                    /\ TokenEnd = b
                    /\ IsComment(Token) /\ IsBotAgentComment(Token)
<1>1. named \in Seq(Words) /\ read \in Nat /\ Len(named) \in Nat /\ DOMAIN named = 1..Len(named)
  BY DEF AgentTypeOK
<1> DEFINE n == read + 1
<1>2. n \in DOMAIN named /\ n \in Nat
  BY <1>1
<1>3. SUFFICES ASSUME ~named[n].product
               PROVE  /\ read >= 1
                      /\ \E b \in n..Len(named) :
                            /\ Comments(named, n, b)
                            /\ TokenEnd = b
                            /\ IsComment(Token) /\ IsBotAgentComment(Token)
  OBVIOUS
<1>4. PICK a \in 2..n : \E b \in n..Len(named) : Comments(named, a, b)
  BY <1>2, <1>3 DEF Sane
<1>5. PICK b \in n..Len(named) : Comments(named, a, b)
  BY <1>4
<1>6. a = n /\ read >= 1
  <2>1. a \notin 2..read
    <3>1. SUFFICES ASSUME a \in 2..read PROVE FALSE
      OBVIOUS
    <3>2. b \in a..Len(named)
      BY <1>1, <1>5, <3>1
    <3>3. b <= read
      BY <1>5, <3>1, <3>2
    <3> QED
      BY <1>1, <1>5, <3>3
  <2> QED
    BY <1>1, <1>4, <2>1
<1>7. a \in 2..Len(named) /\ b \in a..Len(named)
  BY <1>1, <1>4, <1>5, <1>6
<1>8. /\ named[a].opens /\ named[b].closes
      /\ \A j \in a..b : named[j].closes => j = b
  BY <1>1, <1>5, <1>7, CommentWords
<1>9. TokenEnd = b
  BY <1>5, <1>6, <1>8, TokenEndsFirst
<1>10. Token = SubSeq(named, a, b)
  BY <1>6, <1>9 DEF Token
<1>11. IsComment(Token) /\ IsBotAgentComment(Token)
  BY <1>5, <1>10 DEF Comments
<1> QED
  BY <1>5, <1>6, <1>9, <1>11

-----------------------------------------------------------------------------
(* The inductive invariant: what is made so far may be sent; and a sane agent is copied *)
(* word for word, up to a product that a comment may follow, and never cut within a     *)
(* comment.                                                                             *)

Copied ==
    /\ named = Default => agent = <<>> /\ pending = <<>>
    /\ Sane(named) /\ named # Default =>
          /\ full = FALSE
          /\ agent \o pending = SubSeq(named, 1, read)
          /\ read > 0 /\ named[read].product => pending = <<named[read]>>
          /\ \A a \in 2..read : \A b \in a..Len(named) : Comments(named, a, b) => b <= read

AgentInv ==
    /\ AgentTypeOK
    /\ sent => AgentStable /\ read = Len(named)
    /\ ~sent => Admitted(agent) /\ Copied

\* The first words of a sane agent are never too long.
LEMMA FirstOfSaneFit ==
    ASSUME AgentTypeOK, Sane(named), named # Default, full = FALSE,
           NEW item, NEW n \in 0..Len(named), agent \o item = SubSeq(named, 1, n)
    PROVE  /\ item # <<>> => Extended(item) = agent \o item
           /\ Overflows(item) = FALSE
<1>1. named \in Seq(Words) /\ Size(named) <= MaxAgent
  BY DEF AgentTypeOK, Sane
<1>2. Size(SubSeq(named, 1, n)) <= Size(named)
  BY <1>1, FirstWordsFit
<1>3. Size(SubSeq(named, 1, n)) \in Int /\ Size(named) \in Int
  <2>1. SubSeq(named, 1, n) \in Seq(Words)
    BY <1>1, FirstWords
  <2>2. \A s \in Seq(Words) : Size(s) \in Int
    <3>1. SUFFICES ASSUME NEW s \in Seq(Words) PROVE Cardinality(Columns(s)) \in Nat
      BY DEF Size
    <3> QED
      BY ColumnsFinite, FS_CardinalityType
  <2> QED
    BY <1>1, <2>1, <2>2
<1>4. Size(agent \o item) <= MaxAgent
  <2> DEFINE x == Size(SubSeq(named, 1, n))
             y == Size(named)
  <2>1. x <= y /\ y <= MaxAgent /\ x \in Int /\ y \in Int /\ MaxAgent \in Nat
    BY <1>1, <1>2, <1>3, LengthsAssumption
  <2>2. Size(agent \o item) = x
    OBVIOUS
  <2> HIDE DEF x, y
  <2> QED
    BY <2>1, <2>2
<1>5. Fits(item)
  BY <1>4 DEF Fits
<1> QED
  BY <1>5 DEF Extended, Overflows

LEMMA AgentInitInv == AgentInit => AgentInv
<1>1. SUFFICES ASSUME AgentInit PROVE AgentInv
  OBVIOUS
<1>2. named \in Seq(Words) /\ Len(named) \in Nat
  BY <1>1, AgentsAssumption DEF AgentInit
<1>3. <<>> \in Seq(Words) /\ Len(<<>>) = 0 /\ DOMAIN <<>> = {}
  OBVIOUS
<1>4. AgentTypeOK
  <2>1. read \in 0..Len(named)
    BY <1>1, <1>2 DEF AgentInit
  <2>2. pending = <<>> /\ agent = <<>> /\ full \in BOOLEAN /\ sent \in BOOLEAN
    BY <1>1 DEF AgentInit
  <2>3. Len(pending) <= 1 /\ DOMAIN pending = {}
    BY <1>3, <2>2
  <2>4. pending \in Seq(Words) /\ agent \in Seq(Words)
    BY <1>3, <2>2
  <2> QED
    BY <1>2, <2>1, <2>2, <2>3, <2>4 DEF AgentTypeOK
<1>5. Admitted(agent)
  BY <1>1, <1>3 DEF AgentInit, Admitted, Covered
<1>6. agent \o pending = SubSeq(named, 1, read)
  BY <1>1, <1>2, SubSeqEmpty DEF AgentInit
<1>7. Copied
  BY <1>1, <1>6 DEF AgentInit, Copied
<1> QED
  BY <1>1, <1>4, <1>5, <1>7 DEF AgentInit, AgentInv

\* What a step needs of the types.
LEMMA AgentTypes ==
    ASSUME AgentInv
    PROVE  /\ AgentTypeOK
           /\ named \in Seq(Words) /\ Len(named) \in Nat /\ read \in 0..Len(named)
           /\ pending \in Seq(Words) /\ agent \in Seq(Words)
           /\ full \in BOOLEAN /\ sent \in BOOLEAN
BY DEF AgentInv, AgentTypeOK

\* An item that is put out leaves an agent that may be sent.
LEMMA PutOut ==
    ASSUME AgentInv, sent = FALSE, NEW item, item = <<>> \/ IsItem(item)
    PROVE  /\ Extended(item) \in Seq(Words)
           /\ Admitted(Extended(item))
           /\ Overflows(item) \in BOOLEAN
<1>1. agent \in Seq(Words) /\ Admitted(agent)
  BY AgentTypes DEF AgentInv
<1> QED
  BY <1>1, ExtendedIsAdmitted DEF Overflows

\* What is put behind one word is what follows the first one.
LEMMA BehindOne ==
    ASSUME NEW s \in Seq(Words), NEW t \in Seq(Words), Len(s) = 1
    PROVE  /\ s \o t \in Seq(Words)
           /\ Len(s \o t) = 1 + Len(t)
           /\ (s \o t)[1] = s[1]
           /\ SubSeq(s \o t, 2, 1 + Len(t)) = t
<1> DEFINE k == Len(t)
           r == s \o t
<1>1. /\ r \in Seq(Words) /\ Len(r) = Len(s) + Len(t)
      /\ \A i \in 1..(Len(s) + Len(t)) : r[i] = IF i <= Len(s) THEN s[i] ELSE t[i - Len(s)]
  BY ConcatProperties
<1>2. k \in Nat
  OBVIOUS
<1>3. r \in Seq(Words) /\ Len(r) = 1 + k /\ r[1] = s[1]
  BY <1>1, <1>2
<1>4. \A i \in 1..k : r[i + 1] = t[i]
  <2>1. \A i \in 1..k : i + 1 \in 1..(1 + k) /\ ~ (i + 1 <= 1) /\ (i + 1) - 1 = i
    BY <1>2
  <2> QED
    BY <1>1, <2>1
<1> DEFINE u == SubSeq(r, 2, 1 + k)
<1>5. /\ u \in Seq(Words) /\ Len(u) = IF 2 <= 1 + k THEN 1 + k - 2 + 1 ELSE 0
      /\ \A i \in 1..(1 + k - 2 + 1) : u[i] = r[2 + i - 1]
  <2> DEFINE b == 1 + k
  <2>1. b \in Int /\ 2 \in Int /\ \A i \in 2..b : i \in 1..(1 + k)
    BY <1>2
  <2>2. \A i \in 2..b : r[i] \in Words
    BY <1>3, <2>1
  <2> HIDE DEF b, r
  <2>3. /\ SubSeq(r, 2, b) \in Seq(Words) /\ Len(SubSeq(r, 2, b)) = IF 2 <= b THEN b - 2 + 1 ELSE 0
        /\ \A i \in 1..(b - 2 + 1) : SubSeq(r, 2, b)[i] = r[2 + i - 1]
    BY <2>1, <2>2, SubSeqProperties
  <2> QED
    BY <2>3 DEF b
<1> HIDE DEF u, r
<1>6. Len(u) = k /\ \A i \in 1..k : u[i] = t[i]
  <2>1. 1 + k - 2 + 1 = k /\ \A i \in 1..k : 2 + i - 1 = i + 1
    BY <1>2
  <2>2. Len(u) = k
    <3> HIDE DEF k
    <3> QED
      BY <1>2, <1>5, <2>1
  <2> QED
    BY <1>4, <1>5, <2>1, <2>2
<1>7. u = t
  BY <1>5, <1>6, SeqEqual
<1> QED
  BY <1>3, <1>7 DEF r, u

\* A product and the comment behind it are an item.
LEMMA CommentedIsItem ==
    ASSUME NEW s, IsItem(s), Len(s) = 1, NEW comment \in Seq(Words),
           IsComment(comment), IsBotAgentComment(comment)
    PROVE  IsItem(s \o comment)
<1> DEFINE item == s \o comment
           k == 1 + Len(comment)
<1>1. s \in Seq(Words)
  BY DEF IsItem
<1>2. item \in Seq(Words) /\ Len(item) = k /\ item[1] = s[1] /\ SubSeq(item, 2, k) = comment
  BY <1>1, BehindOne
<1>3. item[1].product /\ item # <<>>
  <2>1. item # <<>>
    BY <1>1, ConcatEqualIffEmpty
  <2> QED
    BY <1>2, <2>1 DEF IsItem
<1> HIDE DEF item, k
<1>4. IsItem(item)
  BY <1>2, <1>3 DEF IsItem
<1> QED
  BY <1>4 DEF item

\* A comment, whatever becomes of it, leaves the invariant true.
LEMMA TakeCommentInv ==
    ASSUME AgentInv, TakeComment
    PROVE  AgentInv'
<1> DEFINE item == IF pending = <<>> THEN <<>>
                   ELSE pending \o (IF IsBotAgentComment(Token) THEN Token ELSE <<>>)
           e == TokenEnd
<1>1. /\ read < Len(named) /\ IsComment(Token)
      /\ agent' = Extended(item) /\ full' = Overflows(item)
      /\ pending' = <<>> /\ read' = e /\ named' = named /\ sent' = sent
  BY DEF TakeComment
<1>2. /\ AgentTypeOK
      /\ named \in Seq(Words) /\ Len(named) \in Nat /\ read \in 0..Len(named)
      /\ pending \in Seq(Words) /\ agent \in Seq(Words)
      /\ full \in BOOLEAN /\ sent \in BOOLEAN
  BY AgentTypes
<1>0. sent = FALSE
  BY <1>1, <1>2 DEF AgentInv
<1>3. /\ TokenEnd \in (read + 1)..Len(named)
      /\ Token \in Seq(Words)
      /\ Token[1] = named[read + 1]
  BY <1>1, <1>2, TokenIs
<1>4. item = <<>> \/ IsItem(item)
  <2>1. CASE pending = <<>>
    BY <2>1
  <2>2. CASE pending # <<>>
    <3>1. IsItem(pending) /\ Len(pending) = 1
      BY <1>2, <2>2, PendingIsItem
    <3>2. CASE IsBotAgentComment(Token)
      BY <1>1, <1>3, <2>2, <3>1, <3>2, CommentedIsItem
    <3>3. CASE ~IsBotAgentComment(Token)
      <4>1. item = pending
        BY <1>2, <2>2, <3>3, ConcatEmptySeq
      <4> QED
        BY <3>1, <4>1
    <3> QED
      BY <3>2, <3>3
  <2> QED
    BY <2>1, <2>2
<1> HIDE DEF item
<1>5. AgentTypeOK'
  <2>1. agent' \in Seq(Words) /\ full' \in BOOLEAN
    BY <1>0, <1>1, <1>4, PutOut
  <2>2. read' \in 0..Len(named)
    BY <1>1, <1>2, <1>3
  <2>3. pending' \in Seq(Words) /\ Len(pending') <= 1 /\ DOMAIN pending' = {}
    BY <1>1
  <2> QED
    BY <1>1, <1>2, <2>1, <2>2, <2>3 DEF AgentTypeOK
<1>6. Admitted(agent)'
  <2>1. Admitted(agent')
    BY <1>0, <1>1, <1>4, PutOut
  <2> QED
    BY <2>1 DEF Admitted, Covered, Comments, IsComment, IsBotAgentComment
<1>7. ASSUME named = Default
      PROVE  agent' = <<>>
  <2>1. agent = <<>> /\ pending = <<>>
    BY <1>0, <1>7 DEF AgentInv, Copied
  <2> QED
    BY <1>1, <2>1 DEF Extended, item
<1>8. ASSUME Sane(named), named # Default
      PROVE  /\ full' = FALSE
             /\ agent' = SubSeq(named, 1, e)
             /\ ~named[e].product
             /\ \A a \in 2..e : \A b \in a..Len(named) : Comments(named, a, b) => b <= e
  <2>1. /\ full = FALSE
        /\ agent \o pending = SubSeq(named, 1, read)
        /\ read > 0 /\ named[read].product => pending = <<named[read]>>
        /\ \A a \in 2..read : \A b \in a..Len(named) : Comments(named, a, b) => b <= read
    BY <1>0, <1>8 DEF AgentInv, Copied
  <2>2. ~named[read + 1].product
    <3>1. named[read + 1].opens
      BY <1>1, <1>3 DEF IsComment
    <3>2. named[read + 1] \in Words
      BY <1>1, <1>2
    <3> QED
      BY <3>1, <3>2 DEF Words
  <2>3. /\ read >= 1
        /\ Comments(named, read + 1, e) /\ IsBotAgentComment(Token)
    BY <1>1, <1>2, <1>8, <2>1, <2>2, NextOfSane
  <2> DEFINE n == read + 1
  <2>4. n \in 2..Len(named) /\ e \in n..Len(named)
    BY <1>1, <1>2, <1>3, <2>3
  <2>5. /\ named[n - 1].product /\ named[e].closes
        /\ \A j \in n..e : (named[j].opens => j = n) /\ (named[j].closes => j = e)
    BY <1>2, <2>3, <2>4, CommentWords
  <2>6. pending = <<named[read]>>
    <3>1. n - 1 = read /\ read > 0
      BY <1>2, <2>3
    <3> QED
      BY <2>1, <2>5, <3>1
  <2>7. item = pending \o Token /\ item # <<>>
    <3>1. pending # <<>>
      BY <2>6
    <3>2. item = pending \o Token
      BY <2>3, <3>1 DEF item
    <3> QED
      BY <1>2, <1>3, <3>1, <3>2, ConcatEqualIffEmpty
  <2>8. agent \o item = SubSeq(named, 1, e)
    <3>0. agent \in Seq(Words) /\ pending \in Seq(Words) /\ Token \in Seq(Words)
      BY <1>2, <1>3
    <3>1. agent \o item = (agent \o pending) \o Token
      <4>1. (agent \o pending) \o Token = agent \o (pending \o Token)
        BY <3>0, ConcatAssociative
      <4> QED
        BY <2>7, <4>1
    <3>2. Token = SubSeq(named, read + 1, e)
      BY DEF Token
    <3>3. 1 \in 1..(Len(named) + 1) /\ read \in (1 - 1)..Len(named) /\ e \in read..Len(named)
      BY <1>2, <1>3
    <3> HIDE DEF e
    <3>4. SubSeq(named, 1, read) \o SubSeq(named, read + 1, e) = SubSeq(named, 1, e)
      BY <1>2, <3>3, ConcatAdjacentSubSeq
    <3> QED
      BY <2>1, <3>1, <3>2, <3>4
  <2>9. Extended(item) = agent \o item /\ Overflows(item) = FALSE
    <3>1. e \in 0..Len(named)
      BY <1>2, <1>3
    <3> HIDE DEF e
    <3> QED
      BY <1>2, <1>8, <2>1, <2>7, <2>8, <3>1, FirstOfSaneFit
  <2>10. ~named[e].product
    <3>1. named[e] \in Words
      BY <1>2, <2>4
    <3> QED
      BY <2>5, <3>1 DEF Words
  <2>11. ASSUME NEW a \in 2..e, NEW b \in a..Len(named), Comments(named, a, b), ~ (b <= e)
         PROVE  FALSE
    <3>1. /\ named[a].opens /\ \A j \in a..b : named[j].closes => j = b
      <4>1. a \in 2..Len(named)
        BY <1>2, <2>4
      <4> QED
        BY <1>2, <2>11, <4>1, CommentWords
    <3>2. e \in a..b /\ e # b
      <4> HIDE DEF e
      <4> QED
        BY <1>2, <2>4, <2>11
    <3> QED
      BY <2>5, <3>1, <3>2
  <2> QED
    BY <1>1, <2>8, <2>9, <2>10, <2>11
<1>9. Copied'
  <2>1. Sane(named)' = Sane(named')
    BY DEF Sane, Comments, IsComment, IsBotAgentComment, Size, Columns
  <2>2. named = Default => agent' = <<>> /\ pending' = <<>>
    BY <1>1, <1>7
  <2>3. agent' \o pending' = agent'
    BY <1>0, <1>1, <1>4, PutOut, ConcatEmptySeq
  <2>4. Sane(named) /\ named # Default =>
          /\ full' = FALSE
          /\ agent' \o pending' = SubSeq(named', 1, read')
          /\ ~named'[read'].product
          /\ \A a \in 2..read' : \A b \in a..Len(named') :
                Comments(named', a, b) => b <= read'
    <3> HIDE DEF e
    <3> QED
      BY <1>1, <1>8, <2>3
  <2>5. \A a, b : Comments(named, a, b)' = Comments(named', a, b)
    BY DEF Comments, IsComment, IsBotAgentComment, Size, Columns
  <2>6. Default' = Default
    BY DEF Default
  <2> QED
    BY <1>1, <2>1, <2>2, <2>4, <2>5, <2>6 DEF Copied
<1> QED
  BY <1>0, <1>1, <1>5, <1>6, <1>9 DEF AgentInv

\* A word that begins no comment is the next product, or is dropped.
LEMMA TakeWordInv ==
    ASSUME AgentInv, TakeWord
    PROVE  AgentInv'
<1> DEFINE e == TokenEnd
<1>1. /\ read < Len(named) /\ ~IsComment(Token)
      /\ agent' = Extended(pending) /\ full' = Overflows(pending)
      /\ pending' = (IF Token[1].product THEN Token ELSE <<>>)
      /\ read' = e /\ named' = named /\ sent' = sent
  BY DEF TakeWord
<1>2. /\ AgentTypeOK
      /\ named \in Seq(Words) /\ Len(named) \in Nat /\ read \in 0..Len(named)
      /\ pending \in Seq(Words) /\ agent \in Seq(Words)
      /\ full \in BOOLEAN /\ sent \in BOOLEAN
  BY AgentTypes
<1>3. /\ TokenEnd \in (read + 1)..Len(named)
      /\ Token \in Seq(Words)
      /\ Len(Token) = TokenEnd - read
      /\ Token[1] = named[read + 1]
  BY <1>1, <1>2, TokenIs
<1>4. sent = FALSE
  BY <1>1, <1>2 DEF AgentInv
<1>5. pending = <<>> \/ IsItem(pending)
  BY <1>2, PendingIsItem
<1>6. named[read + 1] \in Words
  BY <1>1, <1>2
<1>7. ASSUME named[read + 1].product
      PROVE  e = read + 1 /\ Token = <<named[read + 1]>> /\ pending' = <<named[read + 1]>>
  <2>1. ~named[read + 1].opens
    BY <1>6, <1>7 DEF Words
  <2>2. e = read + 1
    BY <2>1 DEF TokenEnd
  <2>3. Len(Token) = 1
    <3> HIDE DEF e
    <3>1. Len(Token) = e - read
      BY <1>3 DEF e
    <3> QED
      BY <1>2, <2>2, <3>1
  <2>4. Token = <<named[read + 1]>>
    <3> DEFINE w == named[read + 1]
               t == Token
    <3>1. t \in Seq(Words) /\ Len(t) = 1 /\ t[1] = w /\ w \in Words
      BY <1>3, <1>6, <2>3
    <3> HIDE DEF t, w
    <3>2. <<w>> \in Seq(Words) /\ Len(<<w>>) = 1 /\ <<w>>[1] = w
      BY <3>1
    <3>3. \A i \in 1..1 : t[i] = <<w>>[i]
      BY <3>1, <3>2
    <3>4. t = <<w>>
      BY <3>1, <3>2, <3>3, SeqEqual
    <3> QED
      BY <3>4 DEF t, w
  <2> QED
    BY <1>1, <1>3, <1>7, <2>2, <2>4
<1>8. AgentTypeOK'
  <2>1. agent' \in Seq(Words) /\ full' \in BOOLEAN
    BY <1>1, <1>4, <1>5, PutOut
  <2>2. read' \in 0..Len(named)
    BY <1>1, <1>2, <1>3
  <2>3. pending' \in Seq(Words) /\ Len(pending') <= 1 /\ \A i \in DOMAIN pending' : pending'[i].product
    <3>1. CASE named[read + 1].product
      <4>1. pending' = <<named[read + 1]>>
        BY <1>7, <3>1
      <4>2. Len(pending') = 1 /\ DOMAIN pending' = 1..1 /\ pending'[1] = named[read + 1]
        BY <4>1
      <4>3. \A i \in 1..1 : i = 1
        OBVIOUS
      <4> QED
        BY <1>6, <3>1, <4>1, <4>2, <4>3
    <3>2. CASE ~named[read + 1].product
      <4>1. pending' = <<>>
        BY <1>1, <1>3, <3>2
      <4> QED
        BY <4>1
    <3> QED
      BY <3>1, <3>2
  <2> QED
    BY <1>1, <1>2, <2>1, <2>2, <2>3 DEF AgentTypeOK
<1>9. Admitted(agent)'
  <2>1. Admitted(agent')
    BY <1>1, <1>4, <1>5, PutOut
  <2> QED
    BY <2>1 DEF Admitted, Covered, Comments, IsComment, IsBotAgentComment
<1>10. ASSUME named = Default
       PROVE  agent' = <<>> /\ pending' = <<>>
  <2>1. agent = <<>> /\ pending = <<>>
    BY <1>4, <1>10 DEF AgentInv, Copied
  <2>2. agent' = <<>>
    BY <1>1, <2>1 DEF Extended
  <2>3. ~named[read + 1].product
    <3>1. Len(named) = 1 /\ ~named[1].product
      BY <1>10 DEF Default
    <3>2. read = 0
      BY <1>1, <1>2, <3>1
    <3> QED
      BY <3>1, <3>2
  <2> QED
    BY <1>1, <1>3, <2>2, <2>3
<1>11. ASSUME Sane(named), named # Default
       PROVE  /\ full' = FALSE
              /\ agent' \o pending' = SubSeq(named, 1, e)
              /\ pending' = <<named[e]>>
              /\ \A a \in 2..e : \A b \in a..Len(named) : Comments(named, a, b) => b <= e
  <2>1. /\ full = FALSE
        /\ agent \o pending = SubSeq(named, 1, read)
        /\ \A a \in 2..read : \A b \in a..Len(named) : Comments(named, a, b) => b <= read
    BY <1>4, <1>11 DEF AgentInv, Copied
  <2>2. named[read + 1].product
    BY <1>1, <1>2, <1>11, <2>1, NextOfSane
  <2>3. e = read + 1 /\ Token = <<named[read + 1]>> /\ pending' = <<named[read + 1]>>
    BY <1>7, <2>2
  <2>4. (pending # <<>> => Extended(pending) = agent \o pending) /\ Overflows(pending) = FALSE
    BY <1>2, <1>11, <2>1, FirstOfSaneFit
  <2>5. agent' = agent \o pending /\ full' = FALSE
    <3>1. CASE pending # <<>>
      BY <1>1, <2>4, <3>1
    <3>2. CASE pending = <<>>
      <4>1. Extended(pending) = agent
        BY <3>2 DEF Extended
      <4>2. agent \o pending = agent
        BY <1>2, <3>2, ConcatEmptySeq
      <4> QED
        BY <1>1, <2>4, <4>1, <4>2
    <3> QED
      BY <3>1, <3>2
  <2>6. agent' \o pending' = SubSeq(named, 1, read + 1)
    <3> DEFINE n == read + 1
    <3>1. n \in 1..Len(named) /\ 1 \in 1..Len(named) /\ n - 1 = read
      BY <1>1, <1>2
    <3> HIDE DEF n
    <3>2. SubSeq(named, 1, n) = SubSeq(named, 1, n - 1) \o <<named[n]>>
      BY <1>2, <3>1, SubSeqRecursiveSecond
    <3>3. SubSeq(named, 1, n) = SubSeq(named, 1, read) \o <<named[n]>>
      BY <3>1, <3>2
    <3> QED
      BY <2>1, <2>3, <2>5, <3>3 DEF n
  <2>7. ASSUME NEW a \in 2..(read + 1), NEW b \in a..Len(named), Comments(named, a, b)
        PROVE  b <= read + 1
    <3>1. a \in 2..Len(named)
      BY <1>1, <1>2
    <3>2. named[a].opens
      BY <1>2, <2>7, <3>1, CommentWords
    <3>3. a # read + 1
      BY <1>6, <2>2, <3>2 DEF Words
    <3>4. a \in 2..read
      BY <1>2, <3>3
    <3>5. b <= read
      BY <2>1, <2>7, <3>4
    <3> QED
      BY <1>2, <3>1, <3>5
  <2> HIDE DEF e
  <2>8. pending' = <<named[e]>>
    BY <2>3
  <2> QED
    BY <2>3, <2>5, <2>6, <2>7, <2>8
<1>12. Copied'
  <2>1. Sane(named)' = Sane(named')
    BY DEF Sane, Comments, IsComment, IsBotAgentComment, Size, Columns
  <2>2. \A a, b : Comments(named, a, b)' = Comments(named', a, b)
    BY DEF Comments, IsComment, IsBotAgentComment, Size, Columns
  <2>3. Default' = Default
    BY DEF Default
  <2> HIDE DEF e
  <2>4. named' = Default => agent' = <<>> /\ pending' = <<>>
    BY <1>1, <1>10
  <2>5. Sane(named') /\ named' # Default =>
          /\ full' = FALSE
          /\ agent' \o pending' = SubSeq(named', 1, read')
          /\ pending' = <<named'[read']>>
          /\ \A a \in 2..read' : \A b \in a..Len(named') :
                Comments(named', a, b) => b <= read'
    BY <1>1, <1>11
  <2> QED
    BY <2>1, <2>2, <2>3, <2>4, <2>5 DEF Copied
<1> QED
  BY <1>1, <1>4, <1>8, <1>9, <1>12 DEF AgentInv

\* The agent is complete: a sane one is what was named.
LEMMA EndAgentInv ==
    ASSUME AgentInv, EndAgent
    PROVE  AgentInv'
<1> DEFINE last == Extended(pending)
<1>1. /\ read = Len(named) /\ sent = FALSE
      /\ agent' = (IF last = <<>> THEN Default ELSE last)
      /\ full' = Overflows(pending)
      /\ pending' = <<>> /\ sent' = TRUE /\ named' = named /\ read' = read
  BY AgentTypes DEF EndAgent
<1>2. /\ AgentTypeOK
      /\ named \in Seq(Words) /\ Len(named) \in Nat /\ read \in 0..Len(named)
      /\ pending \in Seq(Words) /\ agent \in Seq(Words)
  BY AgentTypes
<1>3. last \in Seq(Words) /\ Admitted(last) /\ Overflows(pending) \in BOOLEAN
  <2>1. pending = <<>> \/ IsItem(pending)
    BY <1>2, PendingIsItem
  <2> QED
    BY <1>1, <2>1, PutOut
<1>4. AgentTypeOK'
  <2>1. Default \in Seq(Words)
    BY DEF Default, Words
  <2>2. agent' \in Seq(Words) /\ full' \in BOOLEAN
    <3> HIDE DEF last
    <3> QED
      BY <1>1, <1>3, <2>1
  <2>3. pending' \in Seq(Words) /\ Len(pending') <= 1 /\ DOMAIN pending' = {}
    BY <1>1
  <2> QED
    BY <1>1, <1>2, <2>2, <2>3 DEF AgentTypeOK
<1>5. Sane(agent')
  <2> HIDE DEF last
  <2> QED
    BY <1>1, <1>3 DEF Sane, Admitted, Covered
<1>6. ASSUME Sane(named)
      PROVE  agent' = named
  <2>1. CASE named = Default
    <3>1. agent = <<>> /\ pending = <<>>
      BY <1>1, <2>1 DEF AgentInv, Copied
    <3>2. last = <<>>
      BY <3>1 DEF Extended
    <3> HIDE DEF last
    <3> QED
      BY <1>1, <2>1, <3>2
  <2>2. CASE named # Default
    <3>1. full = FALSE /\ agent \o pending = SubSeq(named, 1, read)
      BY <1>1, <1>6, <2>2 DEF AgentInv, Copied
    <3>2. SubSeq(named, 1, read) = named
      BY <1>1, <1>2, SubSeqFull
    <3>3. (pending # <<>> => last = agent \o pending) /\ named # <<>>
      BY <1>2, <1>6, <2>2, <3>1, FirstOfSaneFit DEF Sane
    <3>4. pending = <<>> => last = agent /\ agent \o pending = agent
      BY <1>2, ConcatEmptySeq DEF Extended
    <3> HIDE DEF last
    <3> QED
      BY <1>1, <3>1, <3>2, <3>3, <3>4
  <2> QED
    BY <2>1, <2>2
<1>7. AgentStable'
  <2>1. Sane(named)' = Sane(named') /\ Sane(agent)' = Sane(agent')
    BY DEF Sane, Comments, IsComment, IsBotAgentComment, Size, Columns
  <2> QED
    BY <1>1, <1>5, <1>6, <2>1 DEF AgentStable
<1> QED
  BY <1>1, <1>4, <1>7 DEF AgentInv

LEMMA AgentStepInv == AgentInv /\ [AgentNext]_agentVars => AgentInv'
<1>1. SUFFICES ASSUME AgentInv, [AgentNext]_agentVars PROVE AgentInv'
  OBVIOUS
<1>2. CASE TakeComment
  BY <1>1, <1>2, TakeCommentInv
<1>3. CASE TakeWord
  BY <1>1, <1>3, TakeWordInv
<1>4. CASE EndAgent
  BY <1>1, <1>4, EndAgentInv
<1>5. CASE UNCHANGED agentVars
  <2>1. /\ named' = named /\ read' = read /\ pending' = pending
        /\ agent' = agent /\ full' = full /\ sent' = sent
    BY <1>5 DEF agentVars
  <2>2. /\ Sane(named)' = Sane(named') /\ Sane(agent)' = Sane(agent')
        /\ \A a, b : Comments(named, a, b)' = Comments(named', a, b)
    BY DEF Sane, Comments, IsComment, IsBotAgentComment, Size, Columns
  <2>3. Admitted(agent)' = Admitted(agent')
    BY DEF Admitted, Covered, Comments, IsComment, IsBotAgentComment, Size, Columns
  <2>4. AgentTypeOK'
    BY <1>1, <2>1 DEF AgentInv, AgentTypeOK
  <2>5. sent' => AgentStable' /\ read' = Len(named')
    BY <1>1, <2>1, <2>2 DEF AgentInv, AgentStable
  <2>6. ~sent' => Admitted(agent')
    BY <1>1, <2>1 DEF AgentInv
  <2>7. ~sent' => Copied'
    <3>1. Default' = Default
      BY DEF Default
    <3>2. ~sent => Copied
      BY <1>1 DEF AgentInv
    <3> QED
      BY <2>1, <2>2, <3>1, <3>2 DEF Copied
  <2> QED
    BY <2>3, <2>4, <2>5, <2>6, <2>7 DEF AgentInv
<1> QED
  BY <1>1, <1>2, <1>3, <1>4, <1>5 DEF AgentNext

LEMMA AgentInvariant == AgentSpec => []AgentInv
BY AgentInitInv, AgentStepInv, PTL DEF AgentSpec

\* sanitize_bot_agent: every variable stays in its domain, whatever agent is named.
THEOREM AgentTypeCorrect == AgentSpec => []AgentTypeOK
<1>1. AgentInv => AgentTypeOK
  BY DEF AgentInv
<1>2. QED
  BY <1>1, AgentInvariant, PTL

\* sanitize_bot_agent: what is sent is products, each with a comment or without, of no
\* more bytes than the limit, or the default; and sanitizing that again changes nothing,
\* for words of any length and any limits.
THEOREM AgentStableHolds == AgentSpec => []AgentStable
<1>1. AgentInv => AgentStable
  BY DEF AgentInv, AgentStable
<1>2. QED
  BY <1>1, AgentInvariant, PTL

-----------------------------------------------------------------------------
(* All of it: what is not at work is in its invariant, and stays as it is. *)

Idle == input = [kind |-> "none", value |-> <<>>] /\ done = FALSE

PayloadsInv ==
    /\ TextInv
    /\ FilterInv
    /\ AgentInv
    /\ ExchangeInv \/ Idle
    /\ done \in BOOLEAN

LEMMA NoTextInv == NoText => TextInv
<1>1. SUFFICES ASSUME NoText PROVE TextInv
  OBVIOUS
<1>2. text = <<>> /\ at = 0 /\ chunks = <<>> /\ whole = TRUE
  BY <1>1 DEF NoText
<1>3. Len(text) = 0 /\ text \in Seq(Bytes) /\ chunks \in Seq(Nat \X Nat) /\ DOMAIN chunks = {}
  BY <1>2
<1>4. IsText(text)
  BY <1>3 DEF IsText
<1>5. at \in 0..Len(text) /\ at = Len(text)
  BY <1>2, <1>3
<1>6. TextTypeOK
  BY <1>2, <1>3, <1>4, <1>5 DEF TextTypeOK
<1>7. Uncut
  BY <1>2 DEF Uncut, IsCharBoundary
<1>8. ChunksTile /\ ChunksFit
  BY <1>2, <1>3, <1>5 DEF ChunksTile, ChunksFit
<1> QED
  BY <1>6, <1>7, <1>8 DEF TextInv

LEMMA NoFilterInv == NoFilter => FilterInv
<1>1. SUFFICES ASSUME NoFilter PROVE FilterInv
  OBVIOUS
<1>2. /\ source \in Seq(Symbols) /\ cuts \subseteq DOMAIN source /\ fed = 0
      /\ filter = Start /\ stage = "done" /\ source = <<>> /\ filtered = <<>>
  BY <1>1 DEF NoFilter
<1> QED
  BY <1>2, FreshFilterInv

LEMMA NoAgentInv == NoAgent => AgentInv
<1>1. SUFFICES ASSUME NoAgent PROVE AgentInv
  OBVIOUS
<1>2. /\ named = <<>> /\ read = 0 /\ pending = <<>>
      /\ agent = Default /\ full = FALSE /\ sent = TRUE
  BY <1>1 DEF NoAgent
<1>3. <<>> \in Seq(Words) /\ Len(<<>>) = 0 /\ DOMAIN <<>> = {} /\ Default \in Seq(Words)
  BY DEF Default, Words
<1>4. AgentTypeOK
  <2>1. read \in 0..Len(named)
    BY <1>2, <1>3
  <2>2. Len(pending) <= 1 /\ DOMAIN pending = {}
    BY <1>2, <1>3
  <2> QED
    BY <1>2, <1>3, <2>1, <2>2 DEF AgentTypeOK
<1>5. ~Sane(named) /\ Sane(agent)
  <2>1. Default # <<>>
    BY DEF Default
  <2> QED
    BY <1>2, <2>1 DEF Sane
<1> QED
  BY <1>2, <1>3, <1>4, <1>5 DEF AgentInv, AgentStable

LEMMA PayloadsInitInv == Init => PayloadsInv
<1>1. SUFFICES ASSUME Init PROVE PayloadsInv
  OBVIOUS
<1>2. TextInv /\ FilterInv /\ AgentInv
  BY <1>1, TextInitInv, FilterInitInv, AgentInitInv, NoTextInv, NoFilterInv, NoAgentInv
  DEF Init
<1>3. ExchangeInit \/ NoExchange
  BY <1>1 DEF Init
<1>4. (ExchangeInv \/ Idle) /\ done \in BOOLEAN
  BY <1>3, ExchangeInitInv DEF ExchangeInit, NoExchange, Idle
<1> QED
  BY <1>2, <1>4 DEF PayloadsInv

\* A step of one part is one of each of the others that changes nothing.
LEMMA EachSteps ==
    ASSUME [Next]_vars
    PROVE  /\ [TextNext]_textVars
           /\ [FilterNext]_filterVars
           /\ [AgentNext]_agentVars
           /\ [ExchangeNext]_exchangeVars
<1>1. CASE ChunkText
  BY <1>1 DEF ChunkText
<1>2. CASE FilterText
  BY <1>2 DEF FilterText
<1>3. CASE NameAgent
  BY <1>3 DEF NameAgent
<1>4. CASE Exchange
  BY <1>4 DEF Exchange
<1>5. CASE UNCHANGED vars
  BY <1>5 DEF vars
<1> QED
  BY <1>1, <1>2, <1>3, <1>4, <1>5 DEF Next

LEMMA PayloadsStepInv == PayloadsInv /\ [Next]_vars => PayloadsInv'
<1>1. SUFFICES ASSUME PayloadsInv, [Next]_vars PROVE PayloadsInv'
  OBVIOUS
<1>2. /\ [TextNext]_textVars /\ [FilterNext]_filterVars
      /\ [AgentNext]_agentVars /\ [ExchangeNext]_exchangeVars
  BY <1>1, EachSteps
<1>3. TextInv' /\ FilterInv' /\ AgentInv'
  BY <1>1, <1>2, TextStepInv, FilterNextInv, AgentStepInv DEF PayloadsInv
<1>4. (ExchangeInv \/ Idle)'
  <2>1. CASE ExchangeInv
    BY <1>2, <2>1, ExchangeNextInv
  <2>2. CASE Idle
    <3>1. ~ExchangeNext
      <4>1. input.kind = "none"
        BY <2>2 DEF Idle
      <4> QED
        BY <4>1 DEF ExchangeNext, UploadAndDownload, DownloadOfMessage, SendAndQuote,
                    TakeAnswer, Given
    <3>2. UNCHANGED exchangeVars
      BY <1>2, <3>1
    <3> QED
      BY <2>2, <3>2 DEF exchangeVars, Idle
  <2> QED
    BY <1>1, <2>1, <2>2 DEF PayloadsInv
<1>5. done' \in BOOLEAN
  <2>1. CASE ExchangeNext
    <3>1. done' = TRUE
      BY <2>1 DEF ExchangeNext, UploadAndDownload, DownloadOfMessage, SendAndQuote,
                  TakeAnswer, Finish
    <3> QED
      BY <3>1
  <2>2. CASE UNCHANGED exchangeVars
    BY <1>1, <2>2 DEF exchangeVars, PayloadsInv
  <2> QED
    BY <1>2, <2>1, <2>2
<1> QED
  BY <1>3, <1>4, <1>5 DEF PayloadsInv

LEMMA PayloadsInvariant == Spec => []PayloadsInv
BY PayloadsInitInv, PayloadsStepInv, PTL DEF Spec

\* Every variable of what is made of an input stays in its domain.
THEOREM PayloadsTypeCorrect == Spec => []TypeOK
<1>1. PayloadsInv => TypeOK
  BY DEF PayloadsInv, TypeOK, TextInv, FilterInv, AgentInv
<1> QED
  BY <1>1, PayloadsInvariant, PTL

\* What holds of each part that makes something of an input holds of all of them together:
\* the chunks are the text, the filter keeps the letters and panics at nothing but empty
\* rows, media come back, quotes lead to receipts, errors are told, and the agent is sane.
THEOREM PayloadsKeepTheirPromises ==
    Spec => [](/\ ChunksTile /\ ChunksFit
               /\ LettersKept /\ PanicsOnlyAtEmptyRows
               /\ MediaRoundTrip /\ NoCiphertextHandedOut /\ QuotesResolve /\ ErrorsTold
               /\ AgentStable)
<1>1. PayloadsInv => ChunksTile /\ ChunksFit
  BY DEF PayloadsInv, TextInv
<1>2. PayloadsInv => LettersKept /\ PanicsOnlyAtEmptyRows
  BY LettersOfInv, PanicsOfInv DEF PayloadsInv
<1>3. PayloadsInv =>
        MediaRoundTrip /\ NoCiphertextHandedOut /\ QuotesResolve /\ ErrorsTold
  <2>1. ExchangeInv =>
          MediaRoundTrip /\ NoCiphertextHandedOut /\ QuotesResolve /\ ErrorsTold
    BY DEF ExchangeInv
  <2>2. Idle => MediaRoundTrip /\ NoCiphertextHandedOut /\ QuotesResolve /\ ErrorsTold
    BY DEF Idle, MediaRoundTrip, NoCiphertextHandedOut, QuotesResolve, ErrorsTold, Result
  <2> QED
    BY <2>1, <2>2 DEF PayloadsInv
<1>4. PayloadsInv => AgentStable
  BY DEF PayloadsInv, AgentInv, AgentStable
<1> QED
  BY <1>1, <1>2, <1>3, <1>4, PayloadsInvariant, PTL

\* In the whole, too, a filter that is fed lines steps as one that is fed the text at once.
THEOREM PayloadsStreamAsOne == Spec => LinesStreamAsOne
<1>1. PayloadsInv /\ [Next]_vars
      => [LinesFed /\ ~CodeGoesOn => Whole!FilterNext]_(Whole!filterVars)
  BY EachSteps, StepsStreamAsOne DEF PayloadsInv
<1> QED
  BY <1>1, PayloadsInvariant, PTL DEF Spec, LinesStreamAsOne
=============================================================================
