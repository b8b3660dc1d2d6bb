-------------------------- MODULE TextFilterProofs --------------------------
(***************************************************************************)
(* The filter of any text, in whatever pieces it is fed, ends, keeps every *)
(* letter, panics at nothing but a row without a cell when the pieces are  *)
(* lines, and then does what the filter that is fed the text at once does. *)
(***************************************************************************)
EXTENDS StreamedFilter, FiniteSetTheorems, SequenceTheorems, TLAPS

-----------------------------------------------------------------------------
(* The inductive invariant *)

Unread(f) == f.acc \o f.buf

\* What has been fed, and how much of it the filter has gone past.
Fed == Take(source, fed)
Read == Len(Fed) - Len(Unread(filter))

LineStart(t, n) == n = 0 \/ t[n] = NL
RowStart(t, n) == n > 0 /\ t[n] = "|" /\ LineStart(t, n - 1)

\* A text with an image or a fence.
Lossy(t) == Find(Marker("Image"), t) # 0 \/ Find(Ticks, t) # 0

\* A text with a line that is a bar and blanks.
EmptyRow(t) ==
    \E i \in DOMAIN t : \E n \in i..Len(t) :
        /\ i = 1 \/ t[i - 1] = NL
        /\ t[i] = "|"
        /\ \A k \in (i + 1)..n : t[k] \in Blanks
        /\ n = Len(t) \/ t[n + 1] = NL

FilterInv ==
    /\ FilterTypeOK
    /\ fed \in cuts \cup {0, Len(source)}
    /\ Read >= 0 /\ Unread(filter) = Skip(Fed, Read)
    /\ LinesFed /\ filter.sol /\ Unread(filter) # <<>> => LineStart(Fed, Read)
    /\ LinesFed /\ filter.inline = "Table" => RowStart(Fed, Read)
    /\ filter.fence \/ filter.inline = "Image" => Lossy(Fed)
    /\ stage \in {"flush", "done"} => fed = Len(source)
    /\ stage = "done" => Unread(filter) = <<>>
    /\ \A b \in Letters :
         /\ Count(filtered, b) + Count(Unread(filter), b) <= Count(Fed, b)
         /\ \/ Lossy(Fed) \/ stage = "panicked"
            \/ Count(filtered, b) + Count(Unread(filter), b) = Count(Fed, b)
    /\ stage = "panicked" /\ LinesFed => EmptyRow(Fed)

Weight(f) ==
    2 * Len(Unread(f)) + (IF f.sol THEN 1 ELSE 0) + (IF f.buf = <<>> THEN 0 ELSE 1)

FilterLeft ==
    4 * (Len(source) - fed) + Weight(filter)
    + (CASE stage = "feed" -> 2 [] stage = "flush" -> 1 [] OTHER -> 0)

FilterAdvances == [][FilterLeft' \in Nat /\ FilterLeft' < FilterLeft]_filterVars
FilterBound == FilterLeft <= 4 * Len(source) + 4

-----------------------------------------------------------------------------
(* Texts and their parts *)

\* The head of a text.
LEMMA TakeIsHead ==
    ASSUME NEW S, NEW s \in Seq(S), NEW n \in 0..Len(s)
    PROVE  /\ Take(s, n) \in Seq(S)
           /\ Len(Take(s, n)) = n
           /\ \A i \in 1..n : Take(s, n)[i] = s[i]
<1>1. Len(s) \in Nat /\ \A i \in 1..n : s[i] \in S
  BY LenProperties, ElementOfSeq
<1>2. 1 \in Int /\ n \in Int
  BY <1>1
<1>3. QED
  BY <1>1, <1>2, SubSeqProperties DEF Take

\* What is left of it.
LEMMA SkipIsRest ==
    ASSUME NEW S, NEW s \in Seq(S), NEW n \in 0..Len(s)
    PROVE  /\ Skip(s, n) \in Seq(S)
           /\ Len(Skip(s, n)) = Len(s) - n
           /\ \A i \in 1..(Len(s) - n) : Skip(s, n)[i] = s[n + i]
<1>1. Len(s) \in Nat /\ \A i \in (n + 1)..Len(s) : s[i] \in S
  BY LenProperties, ElementOfSeq
<1>2. n + 1 \in Int /\ Len(s) \in Int
  BY <1>1
<1>3. /\ SubSeq(s, n + 1, Len(s)) \in Seq(S)
      /\ Len(SubSeq(s, n + 1, Len(s))) = IF n + 1 <= Len(s) THEN Len(s) - (n + 1) + 1 ELSE 0
      /\ \A i \in 1..(Len(s) - (n + 1) + 1) : SubSeq(s, n + 1, Len(s))[i] = s[n + 1 + i - 1]
  BY <1>1, <1>2, SubSeqProperties
<1>4. QED
  BY <1>1, <1>3 DEF Skip

\* Both together are the text.
LEMMA TakeThenSkip ==
    ASSUME NEW S, NEW s \in Seq(S), NEW n \in 0..Len(s)
    PROVE  s = Take(s, n) \o Skip(s, n)
<1> DEFINE t == Take(s, n)
           u == Skip(s, n)
<1>1. /\ t \in Seq(S) /\ Len(t) = n /\ \A i \in 1..n : t[i] = s[i]
  BY TakeIsHead
<1>2. /\ u \in Seq(S) /\ Len(u) = Len(s) - n /\ \A i \in 1..(Len(s) - n) : u[i] = s[n + i]
  BY SkipIsRest
<1>3. Len(s) \in Nat
  BY LenProperties
<1>. HIDE DEF t, u
<1>4. /\ t \o u \in Seq(S)
      /\ Len(t \o u) = Len(t) + Len(u)
      /\ \A i \in 1..(Len(t) + Len(u)) :
            (t \o u)[i] = IF i <= Len(t) THEN t[i] ELSE u[i - Len(t)]
  BY <1>1, <1>2, ConcatProperties, ZenonT(40)
<1>5. Len(t \o u) = Len(s)
  BY <1>1, <1>2, <1>3, <1>4
<1>6. ASSUME NEW i \in 1..Len(s) PROVE s[i] = (t \o u)[i]
  <2>0. i \in Nat /\ n \in Nat
    BY <1>3
  <2>1. (t \o u)[i] = IF i <= n THEN t[i] ELSE u[i - n]
    BY <1>1, <1>2, <1>3, <1>4
  <2>2. CASE i <= n
    BY <1>1, <1>3, <2>1, <2>2
  <2>3. CASE i > n
    <3>1. i - n \in 1..(Len(s) - n) /\ n + (i - n) = i
      BY <1>3, <2>3
    <3>2. QED
      BY <1>2, <1>3, <2>1, <2>3, <3>1
  <2>4. i <= n \/ i > n
    BY <2>0
  <2>5. QED
    BY <2>2, <2>3, <2>4
<1>7. s = t \o u
  BY <1>4, <1>5, <1>6, SeqEqual
<1>8. QED
  BY <1>7 DEF t, u

\* Going on from where one is.
LEMMA SkipAgain ==
    ASSUME NEW S, NEW s \in Seq(S), NEW m \in 0..Len(s), NEW n \in 0..(Len(s) - m)
    PROVE  Skip(Skip(s, m), n) = Skip(s, m + n)
<1> DEFINE t == Skip(s, m)
           u == Skip(t, n)
           v == Skip(s, m + n)
<1>1. Len(s) \in Nat
  BY LenProperties
<1>2. t \in Seq(S) /\ Len(t) = Len(s) - m /\ \A i \in 1..(Len(s) - m) : t[i] = s[m + i]
  BY SkipIsRest
<1>3. m + n \in 0..Len(s)
  BY <1>1
<1>4. v \in Seq(S) /\ Len(v) = Len(s) - (m + n) /\ \A i \in 1..(Len(s) - (m + n)) : v[i] = s[m + n + i]
  BY <1>3, SkipIsRest
<1>. HIDE DEF t
<1>5. u \in Seq(S) /\ Len(u) = Len(t) - n /\ \A i \in 1..(Len(t) - n) : u[i] = t[n + i]
  <2>1. n \in 0..Len(t)
    BY <1>1, <1>2
  <2>2. QED
    BY <1>2, <2>1, SkipIsRest, ZenonT(40)
<1>. HIDE DEF u, v
<1>6. ASSUME NEW i \in 1..Len(u) PROVE u[i] = v[i]
  <2>1. n + i \in 1..(Len(s) - m) /\ i \in 1..(Len(s) - (m + n)) /\ m + (n + i) = m + n + i
    BY <1>1, <1>2, <1>5
  <2>2. u[i] = t[n + i] /\ t[n + i] = s[m + (n + i)] /\ v[i] = s[m + n + i]
    BY <1>2, <1>4, <1>5, <2>1
  <2>3. QED
    BY <2>1, <2>2
<1>7. Len(u) = Len(v)
  BY <1>1, <1>2, <1>4, <1>5
<1>8. QED
  BY <1>4, <1>5, <1>6, <1>7, SeqEqual DEF t, u, v

\* Going nowhere, and to the end.
LEMMA SkipEnds ==
    ASSUME NEW S, NEW s \in Seq(S)
    PROVE  Skip(s, 0) = s /\ Skip(s, Len(s)) = <<>>
<1>1. Len(s) \in Nat
  BY LenProperties
<1>2. Skip(s, 0) = s
  BY SubSeqFull DEF Skip
<1>3. Skip(s, Len(s)) = <<>>
  BY <1>1, SubSeqEmpty DEF Skip
<1>4. QED
  BY <1>2, <1>3

\* The tail is what one byte is skipped of.
LEMMA TailIsSkip ==
    ASSUME NEW S, NEW s \in Seq(S), s # <<>>
    PROVE  Tail(s) = Skip(s, 1)
BY TailIsSubSeq DEF Skip

-----------------------------------------------------------------------------
(* Places *)

\* A set of positions that is not empty has a first and, bounded, a last one.
LEMMA FirstOf ==
    ASSUME NEW S \in SUBSET Nat, S # {}
    PROVE  Min(S) \in S /\ \A m \in S : Min(S) <= m
<1>1. PICK x \in S : \A y \in S : ~ (<<y, x>> \in OpToRel(<, Nat))
  BY NatLessThanWellFounded, WFMin
<1>2. \A y \in S : ~ (y < x)
  BY <1>1 DEF OpToRel
<1>3. \A y \in S : x <= y
  BY <1>2
<1>4. QED
  BY <1>3 DEF Min

LEMMA LastOf ==
    ASSUME NEW B \in Nat, NEW S \in SUBSET (0..B), S # {}
    PROVE  Max(S) \in S /\ \A m \in S : m <= Max(S)
<1> DEFINE T == {B - n : n \in S}
<1>1. T \subseteq Nat /\ T # {}
  <2>1. PICK n \in S : TRUE
    OBVIOUS
  <2>2. B - n \in T
    BY <2>1
  <2>3. T \subseteq Nat
    OBVIOUS
  <2>4. QED
    BY <2>2, <2>3
<1>. HIDE DEF T
<1>2. Min(T) \in T /\ \A m \in T : Min(T) <= m
  BY <1>1, FirstOf
<1>3. PICK x \in S : Min(T) = B - x
  BY <1>2 DEF T
<1>4. ASSUME NEW m \in S PROVE x >= m
  <2>1. B - m \in T
    BY DEF T
  <2>2. B - x <= B - m
    BY <1>2, <1>3, <2>1
  <2>3. QED
    BY <2>2
<1>5. QED
  BY <1>4 DEF Max

\* What is found is there, and what is there is found.
LEMMA FindMatches ==
    ASSUME NEW S, NEW s \in Seq(S), NEW p, Len(p) \in Nat \ {0}
    PROVE  /\ Find(p, s) \in 0..(Len(s) + 1)
           /\ Find(p, s) # 0 =>
                 /\ Find(p, s) \in 1..(Len(s) + 1 - Len(p))
                 /\ SubSeq(s, Find(p, s), Find(p, s) + Len(p) - 1) = p
           /\ \A i \in 1..(Len(s) + 1 - Len(p)) :
                 SubSeq(s, i, i + Len(p) - 1) = p => Find(p, s) # 0
<1> DEFINE places == {i \in 1..(Len(s) + 1 - Len(p)) : SubSeq(s, i, i + Len(p) - 1) = p}
<1>1. Len(s) \in Nat
  BY LenProperties
<1>2. Find(p, s) = IF places = {} THEN 0 ELSE Min(places)
  BY DEF Find
<1>3. CASE places = {}
  <2>1. Find(p, s) = 0
    BY <1>2, <1>3
  <2>2. \A i \in 1..(Len(s) + 1 - Len(p)) : SubSeq(s, i, i + Len(p) - 1) # p
    BY <1>3
  <2>3. Find(p, s) \in 0..(Len(s) + 1)
    BY <1>1, <2>1
  <2>4. QED
    BY <2>1, <2>2, <2>3
<1>4. CASE places # {}
  <2>1. places \subseteq Nat
    BY <1>1
  <2>2. Min(places) \in places
    BY <1>4, <2>1, FirstOf
  <2>3. Find(p, s) \in places
    BY <1>2, <1>4, <2>2
  <2>4. QED
    BY <1>1, <2>3
<1>5. QED
  BY <1>3, <1>4

\* A part of a text begins with the byte it begins at.
LEMMA FirstOfPart ==
    ASSUME NEW S, NEW s \in Seq(S), NEW m \in 1..Len(s), NEW n \in m..Len(s)
    PROVE  SubSeq(s, m, n)[1] = s[m]
<1>1. Len(s) \in Nat
  BY LenProperties
<1>2. m \in Int /\ n \in Int /\ \A j \in m..n : s[j] \in S
  BY <1>1, ElementOfSeq
<1>3. \A j \in 1..(n - m + 1) : SubSeq(s, m, n)[j] = s[m + j - 1]
  BY <1>2, SubSeqProperties
<1>4. 1 \in 1..(n - m + 1) /\ m + 1 - 1 = m
  BY <1>1
<1>5. QED
  BY <1>3, <1>4

\* Of a single byte.
LEMMA FindByte ==
    ASSUME NEW S, NEW s \in Seq(S), NEW b
    PROVE  /\ Find(<<b>>, s) \in 0..Len(s)
           /\ Find(<<b>>, s) # 0 => s[Find(<<b>>, s)] = b
<1>1. Len(<<b>>) = 1 /\ <<b>>[1] = b /\ Len(s) \in Nat
  BY LenProperties
<1> DEFINE i == Find(<<b>>, s)
<1>2. /\ i \in 0..(Len(s) + 1)
      /\ i # 0 => i \in 1..Len(s) /\ SubSeq(s, i, i) = <<b>>
  <2> DEFINE p == <<b>>
  <2>1. Len(p) = 1 /\ Len(p) \in Nat \ {0}
    BY <1>1
  <2>. HIDE DEF p
  <2>2. /\ Find(p, s) \in 0..(Len(s) + 1)
        /\ Find(p, s) # 0 =>
              /\ Find(p, s) \in 1..(Len(s) + 1 - Len(p))
              /\ SubSeq(s, Find(p, s), Find(p, s) + Len(p) - 1) = p
    BY <2>1, FindMatches
  <2>3. Find(p, s) + 1 - 1 = Find(p, s) /\ Len(s) + 1 - 1 = Len(s)
    BY <1>1, <2>2
  <2>4. QED
    BY <2>1, <2>2, <2>3 DEF i, p
<1>. HIDE DEF i
<1>3. CASE i = 0
  BY <1>1, <1>3 DEF i
<1>4. CASE i # 0
  <2>1. i \in 1..Len(s) /\ SubSeq(s, i, i) = <<b>>
    BY <1>2, <1>4
  <2>2. SubSeq(s, i, i)[1] = s[i]
    <3>1. i \in 1..Len(s) /\ i \in i..Len(s)
      BY <1>1, <2>1
    <3>2. \A m \in 1..Len(s) : \A n \in m..Len(s) : SubSeq(s, m, n)[1] = s[m]
      BY FirstOfPart
    <3>3. QED
      BY <3>1, <3>2
  <2>3. s[i] = b
    BY <1>1, <2>1, <2>2
  <2>4. QED
    BY <1>1, <2>1, <2>3 DEF i
<1>5. QED
  BY <1>3, <1>4

\* What a rest of a text has, the text has.
LEMMA RestHas ==
    ASSUME NEW S, NEW s \in Seq(S), NEW n \in 0..Len(s), NEW p, Len(p) \in Nat \ {0},
           Find(p, Skip(s, n)) # 0
    PROVE  Find(p, s) # 0
<1> DEFINE t == Skip(s, n)
           i == Find(p, t)
           k == Len(p)
<1>1. Len(s) \in Nat
  BY LenProperties
<1>2. t \in Seq(S) /\ Len(t) = Len(s) - n /\ \A j \in 1..(Len(s) - n) : t[j] = s[n + j]
  BY SkipIsRest
<1>. HIDE DEF t
<1>3. i \in 1..(Len(t) + 1 - k) /\ SubSeq(t, i, i + k - 1) = p
  BY <1>2, FindMatches DEF t
<1>. HIDE DEF i
<1>4. n + i \in 1..(Len(s) + 1 - k)
  BY <1>1, <1>2, <1>3
<1>5. SubSeq(s, n + i, n + i + k - 1) = SubSeq(t, i, i + k - 1)
  <2> DEFINE u == SubSeq(s, n + i, n + i + k - 1)
             v == SubSeq(t, i, i + k - 1)
  <2>1. /\ u \in Seq(S) /\ Len(u) = k /\ \A j \in 1..k : u[j] = s[n + i + j - 1]
    <3>1. \A j \in (n + i)..(n + i + k - 1) : s[j] \in S
      BY <1>1, <1>4, ElementOfSeq
    <3>2. n + i \in Int /\ n + i + k - 1 \in Int
      BY <1>1, <1>3
    <3>3. /\ u \in Seq(S)
          /\ Len(u) = IF n + i <= n + i + k - 1 THEN n + i + k - 1 - (n + i) + 1 ELSE 0
          /\ \A j \in 1..(n + i + k - 1 - (n + i) + 1) : u[j] = s[n + i + j - 1]
      BY <3>1, <3>2, SubSeqProperties
    <3>4. QED
      BY <1>1, <1>3, <3>3
  <2>2. /\ v \in Seq(S) /\ Len(v) = k /\ \A j \in 1..k : v[j] = t[i + j - 1]
    <3>1. \A j \in i..(i + k - 1) : t[j] \in S
      BY <1>1, <1>2, <1>3, ElementOfSeq
    <3>2. i \in Int /\ i + k - 1 \in Int
      BY <1>1, <1>3
    <3>3. /\ v \in Seq(S)
          /\ Len(v) = IF i <= i + k - 1 THEN i + k - 1 - i + 1 ELSE 0
          /\ \A j \in 1..(i + k - 1 - i + 1) : v[j] = t[i + j - 1]
      BY <3>1, <3>2, SubSeqProperties
    <3>4. QED
      BY <1>1, <1>3, <3>3
  <2>. HIDE DEF u, v
  <2>3. ASSUME NEW j \in 1..k PROVE u[j] = v[j]
    <3>1. i + j - 1 \in 1..(Len(s) - n) /\ n + (i + j - 1) = n + i + j - 1
      BY <1>1, <1>2, <1>3
    <3>2. v[j] = t[i + j - 1] /\ t[i + j - 1] = s[n + (i + j - 1)] /\ u[j] = s[n + i + j - 1]
      BY <1>2, <2>1, <2>2, <3>1
    <3>3. QED
      BY <3>1, <3>2
  <2>4. u = v
    BY <2>1, <2>2, <2>3, SeqEqual
  <2>5. QED
    BY <2>4 DEF u, v
<1>6. QED
  BY <1>3, <1>4, <1>5, FindMatches

-----------------------------------------------------------------------------
(* How often a byte occurs *)

Places(t, b) == {i \in 1..Len(t) : t[i] = b}

LEMMA CountIsNatural ==
    ASSUME NEW S, NEW s \in Seq(S), NEW b
    PROVE  /\ Count(s, b) = Cardinality(Places(s, b))
           /\ IsFiniteSet(Places(s, b))
           /\ Count(s, b) \in Nat
<1>1. DOMAIN s = 1..Len(s) /\ Len(s) \in Nat
  BY LenProperties
<1>2. IsFiniteSet(1..Len(s))
  BY <1>1, FS_Interval
<1>3. Places(s, b) \in SUBSET (1..Len(s))
  BY DEF Places
<1>4. IsFiniteSet(Places(s, b))
  BY <1>2, <1>3, FS_Subset
<1>5. Count(s, b) = Cardinality(Places(s, b))
  BY <1>1 DEF Count, Places
<1>6. QED
  BY <1>4, <1>5, FS_CardinalityType

\* A byte is counted in both parts of a text.
LEMMA CountConcat ==
    ASSUME NEW S, NEW s \in Seq(S), NEW t \in Seq(S), NEW b
    PROVE  Count(s \o t, b) = Count(s, b) + Count(t, b)
<1> DEFINE m == Len(s)
           A == Places(s, b)
           B == Places(t, b)
           C == {i + m : i \in B}
           D == Places(s \o t, b)
<1>1. m \in Nat /\ Len(t) \in Nat
  BY LenProperties
<1>2. /\ s \o t \in Seq(S)
      /\ Len(s \o t) = m + Len(t)
      /\ \A i \in 1..(m + Len(t)) : (s \o t)[i] = IF i <= m THEN s[i] ELSE t[i - m]
  BY ConcatProperties
<1>3. D = A \cup C
  <2>1. ASSUME NEW i \in D PROVE i \in A \cup C
    <3>1. i \in 1..(m + Len(t)) /\ (s \o t)[i] = b
      BY <1>2 DEF Places
    <3>2. CASE i <= m
      <4>1. i \in 1..m /\ s[i] = b
        BY <1>1, <1>2, <3>1, <3>2
      <4>2. QED
        BY <4>1 DEF Places
    <3>3. CASE i > m
      <4>1. i - m \in 1..Len(t) /\ t[i - m] = b /\ (i - m) + m = i
        BY <1>1, <1>2, <3>1, <3>3
      <4>2. i - m \in B
        BY <4>1 DEF Places
      <4>3. (i - m) + m \in C
        BY <4>2
      <4>4. QED
        BY <4>1, <4>3
    <3>4. QED
      BY <1>1, <3>1, <3>2, <3>3
  <2>2. ASSUME NEW i \in A PROVE i \in D
    <3>1. i \in 1..m /\ s[i] = b
      BY DEF Places
    <3>2. i \in 1..(m + Len(t)) /\ (s \o t)[i] = b
      BY <1>1, <1>2, <3>1
    <3>3. QED
      BY <1>2, <3>2 DEF Places
  <2>3. ASSUME NEW i \in B PROVE i + m \in D
    <3>1. i \in 1..Len(t) /\ t[i] = b
      BY DEF Places
    <3>2. i + m \in 1..(m + Len(t)) /\ ~(i + m <= m) /\ (i + m) - m = i
      BY <1>1, <3>1
    <3>3. (s \o t)[i + m] = t[(i + m) - m]
      BY <1>2, <3>2
    <3>4. (s \o t)[i + m] = b
      BY <3>1, <3>2, <3>3
    <3>5. QED
      BY <1>2, <3>2, <3>4 DEF Places
  <2>. HIDE DEF A, B, D
  <2>4. QED
    BY <2>1, <2>2, <2>3
<1>4. A \cap C = {}
  BY <1>1 DEF Places
<1>5. IsFiniteSet(A) /\ IsFiniteSet(B)
  BY CountIsNatural
<1>6. IsFiniteSet(C) /\ Cardinality(C) = Cardinality(B)
  <2> DEFINE f == [i \in B |-> i + m]
  <2>1. \A i \in B : i \in Nat
    BY <1>1 DEF Places
  <2>. HIDE DEF B
  <2>2. f \in Bijection(B, C)
    <3>1. f \in [B -> C] /\ \A c \in C : \E i \in B : f[i] = c
      OBVIOUS
    <3>2. \A i, j \in B : f[i] = f[j] => i = j
      BY <1>1, <2>1
    <3>. HIDE DEF f, C
    <3>3. QED
      BY <3>1, <3>2 DEF Bijection, Injection, Surjection, IsInjective
  <2>3. ExistsBijection(B, C)
    BY <2>2 DEF ExistsBijection
  <2>4. QED
    BY <1>5, <2>3, FS_Bijection
<1>. HIDE DEF A, B, C, D
<1>7. Cardinality(D) = Cardinality(A) + Cardinality(C) - Cardinality(A \cap C)
  BY <1>3, <1>5, <1>6, FS_Union
<1>8. Cardinality(D) = Cardinality(A) + Cardinality(B)
  <2>1. Cardinality(A \cap C) = 0
    BY <1>4, FS_EmptySet
  <2>2. Cardinality(A) \in Nat /\ Cardinality(B) \in Nat
    BY <1>5, FS_CardinalityType
  <2>3. QED
    BY <1>6, <1>7, <2>1, <2>2
<1>9. Count(s \o t, b) = Cardinality(D) /\ Count(s, b) = Cardinality(A) /\ Count(t, b) = Cardinality(B)
  BY <1>2, CountIsNatural DEF A, B, D
<1>10. QED
  BY <1>8, <1>9

\* What does not occur is not counted.
LEMMA CountNone ==
    ASSUME NEW S, NEW s \in Seq(S), NEW b, \A i \in 1..Len(s) : s[i] # b
    PROVE  Count(s, b) = 0
<1>1. Places(s, b) = {}
  BY DEF Places
<1>2. QED
  BY <1>1, CountIsNatural, FS_EmptySet

\* A text is counted in two parts.
LEMMA CountParts ==
    ASSUME NEW S, NEW s \in Seq(S), NEW n \in 0..Len(s), NEW b
    PROVE  /\ Count(s, b) = Count(Take(s, n), b) + Count(Skip(s, n), b)
           /\ Count(Take(s, n), b) \in Nat /\ Count(Skip(s, n), b) \in Nat
<1>1. Take(s, n) \in Seq(S) /\ Skip(s, n) \in Seq(S)
  BY TakeIsHead, SkipIsRest
<1>2. s = Take(s, n) \o Skip(s, n)
  BY TakeThenSkip
<1>3. Count(Take(s, n) \o Skip(s, n), b) = Count(Take(s, n), b) + Count(Skip(s, n), b)
  BY <1>1, CountConcat
<1>4. QED
  BY <1>1, <1>2, <1>3, CountIsNatural

\* To take some more adds nothing when what is more is another byte.
LEMMA CountMore ==
    ASSUME NEW S, NEW s \in Seq(S), NEW n \in 0..Len(s), NEW m \in 0..n, NEW b,
           \A i \in (m + 1)..n : s[i] # b
    PROVE  Count(Take(s, m), b) = Count(Take(s, n), b)
<1>1. Len(s) \in Nat
  BY LenProperties
<1>2. m \in 0..Len(s)
  BY <1>1
<1>3. /\ Take(s, m) \in Seq(S) /\ Len(Take(s, m)) = m /\ \A i \in 1..m : Take(s, m)[i] = s[i]
      /\ Take(s, n) \in Seq(S) /\ Len(Take(s, n)) = n /\ \A i \in 1..n : Take(s, n)[i] = s[i]
  BY <1>2, TakeIsHead
<1>4. \A i \in 1..n : s[i] = b => i \in 1..m
  BY <1>1, <1>2
<1>5. \A i \in 1..m : i \in 1..n
  BY <1>1, <1>2
<1>6. Places(Take(s, m), b) = Places(Take(s, n), b)
  BY <1>3, <1>4, <1>5 DEF Places
<1>7. QED
  BY <1>3, <1>6, CountIsNatural

-----------------------------------------------------------------------------
(* Rows of tables *)

\* The numbered elements of a finite set of numbers are all its elements.
LEMMA NthEnumerates ==
    ASSUME NEW S \in SUBSET Nat, IsFiniteSet(S)
    PROVE  [n \in 1..Cardinality(S) |-> Nth(S, n)] \in Bijection(1..Cardinality(S), S)
<1> DEFINE N == Cardinality(S)
           upTo(i) == {j \in S : j <= i}
           rank == [i \in S |-> Cardinality(upTo(i))]
           f == [n \in 1..N |-> Nth(S, n)]
<1>1. N \in Nat
  BY FS_CardinalityType
<1>2. \A i \in S : upTo(i) \in SUBSET S /\ i \in upTo(i)
  OBVIOUS
<1>3. \A i \in S : IsFiniteSet(upTo(i)) /\ Cardinality(upTo(i)) <= N /\ Cardinality(upTo(i)) \in Nat
  BY <1>2, FS_Subset, FS_CardinalityType
<1>4. \A i \in S : Cardinality(upTo(i)) # 0
  BY <1>2, <1>3, FS_EmptySet
<1>5. rank \in [S -> 1..N]
  <2>. HIDE DEF N, upTo
  <2>1. \A i \in S : Cardinality(upTo(i)) \in 1..N
    BY <1>1, <1>3, <1>4
  <2>2. QED
    BY <2>1
<1>6. \A i, k \in S : i < k => rank[i] # rank[k]
  <2>1. SUFFICES ASSUME NEW i \in S, NEW k \in S, i < k PROVE Cardinality(upTo(i)) # Cardinality(upTo(k))
    OBVIOUS
  <2>2. upTo(i) \in SUBSET upTo(k) /\ k \in upTo(k) /\ k \notin upTo(i)
    <3>1. \A j \in S : j <= i => j <= k
      BY <2>1
    <3>2. k <= k /\ ~(k <= i)
      BY <2>1
    <3>3. QED
      BY <3>1, <3>2
  <2>3. IsFiniteSet(upTo(k))
    BY <1>3
  <2>. HIDE DEF upTo
  <2>4. QED
    BY <2>2, <2>3, FS_Subset
<1>7. \A i, k \in S : rank[i] = rank[k] => i = k
  <2>1. \A i, k \in S : i < k \/ i = k \/ k < i
    OBVIOUS
  <2>. HIDE DEF rank
  <2>2. QED
    BY <1>6, <2>1
<1>8. \A n \in 1..N : \E i \in S : rank[i] = n
  <2>. HIDE DEF N, rank
  <2>1. rank \in Injection(S, 1..N)
    BY <1>5, <1>7 DEF Injection, IsInjective
  <2>2. IsFiniteSet(1..N) /\ Cardinality(1..N) = N
    BY <1>1, FS_Interval
  <2>3. rank \in Surjection(S, 1..N)
    BY <2>1, <2>2, FS_Injection DEF N
  <2>4. QED
    BY <2>3 DEF Surjection
<1>9. \A n \in 1..N : Nth(S, n) \in S /\ rank[Nth(S, n)] = n
  <2>1. SUFFICES ASSUME NEW n \in 1..N PROVE Nth(S, n) \in S /\ rank[Nth(S, n)] = n
    OBVIOUS
  <2>2. PICK i \in S : Cardinality({j \in S : j <= i}) = n
    BY <1>8
  <2>3. Nth(S, n) \in S /\ Cardinality({j \in S : j <= Nth(S, n)}) = n
    BY <2>2 DEF Nth
  <2>4. QED
    BY <2>3
<1>. HIDE DEF N, rank
<1>10. f \in [1..N -> S] /\ \A n \in 1..N : f[n] = Nth(S, n)
  BY <1>9
<1>11. \A m, n \in 1..N : f[m] = f[n] => m = n
  BY <1>9, <1>10
<1>12. \A i \in S : \E n \in 1..N : f[n] = i
  <2>1. SUFFICES ASSUME NEW i \in S PROVE f[rank[i]] = i /\ rank[i] \in 1..N
    BY <1>5
  <2>2. rank[i] \in 1..N
    BY <1>5
  <2>3. QED
    BY <1>7, <1>9, <1>10, <2>2
<1>. HIDE DEF f
<1>13. f \in Bijection(1..N, S)
  BY <1>10, <1>11, <1>12 DEF Bijection, Injection, Surjection, IsInjective
<1>14. QED
  BY <1>13 DEF f, N

\* A letter is no sign.
LEMMA LettersAreNoSigns ==
    ASSUME NEW b \in Letters
    PROVE  b \notin Signs /\ b # End /\ b \in Symbols
BY LettersAssumption DEF Symbols

\* A row is put out with all its letters.
LEMMA RowKeepsLetters ==
    ASSUME NEW line \in Seq(Symbols)
    PROVE  /\ ExtractTableRow(line) \in Seq(Symbols)
           /\ \A b \in Letters : Count(ExtractTableRow(line), b) = Count(line, b)
<1> DEFINE K == Kept(line)
           N == Cardinality(K)
           g == [n \in 1..N |-> Nth(K, n)]
           row == [n \in 1..N |-> IF line[g[n]] = "|" THEN "\t" ELSE line[g[n]]]
<1>1. Len(line) \in Nat /\ DOMAIN line = 1..Len(line) /\ \A i \in 1..Len(line) : line[i] \in Symbols
  BY LenProperties, ElementOfSeq
<1>2. CASE "-" \in Range(line) /\ Range(line) \subseteq Blanks \cup {"|", ":", "-"}
  <2>1. ExtractTableRow(line) = <<>>
    BY <1>2 DEF ExtractTableRow
  <2>2. <<>> \in Seq(Symbols) /\ Len(<<>>) = 0
    BY EmptySeq
  <2>3. ASSUME NEW b \in Letters PROVE Count(<<>>, b) = Count(line, b)
    <3>1. \A i \in 1..Len(line) : line[i] \in Signs
      BY <1>1, <1>2 DEF Range, Blanks, Signs
    <3>2. \A i \in 1..Len(line) : line[i] # b
      BY <3>1, LettersAreNoSigns
    <3>3. Count(line, b) = 0
      BY <3>2, CountNone
    <3>4. Count(<<>>, b) = 0
      <4>1. \A i \in 1..Len(<<>>) : <<>>[i] # b
        BY <2>2
      <4>2. QED
        BY <2>2, <4>1, CountNone
    <3>5. QED
      BY <3>3, <3>4
  <2>4. QED
    BY <2>1, <2>2, <2>3
<1>3. CASE ~("-" \in Range(line) /\ Range(line) \subseteq Blanks \cup {"|", ":", "-"})
  <2>1. K \in SUBSET (1..Len(line))
    BY <1>1 DEF Kept, Bars
  <2>2. IsFiniteSet(K) /\ K \in SUBSET Nat
    <3>1. IsFiniteSet(1..Len(line))
      BY <1>1, FS_Interval
    <3>2. QED
      BY <1>1, <2>1, <3>1, FS_Subset
  <2>3. g \in Bijection(1..N, K) /\ N \in Nat
    BY <2>2, NthEnumerates, FS_CardinalityType
  <2>4. ExtractTableRow(line) = row
    BY <1>3 DEF ExtractTableRow
  <2>. HIDE DEF K, N, g
  <2>5. g \in [1..N -> K] /\ (\A m, n \in 1..N : g[m] = g[n] => m = n) /\ \A i \in K : \E n \in 1..N : g[n] = i
    BY <2>3 DEF Bijection, Injection, Surjection, IsInjective
  <2>6. \A n \in 1..N : line[g[n]] \in Symbols
    BY <1>1, <2>1, <2>5
  <2>7. row \in [1..N -> Symbols]
    BY <2>6 DEF Symbols, Signs
  <2>8. row \in Seq(Symbols) /\ Len(row) = N
    BY <2>3, <2>7
  <2>9. ASSUME NEW b \in Letters PROVE Count(row, b) = Count(line, b)
    <3> DEFINE A == Places(row, b)
               B == Places(line, b)
               h == [n \in A |-> g[n]]
    <3>1. b # "\t" /\ b # "|" /\ b \notin Blanks
      BY LettersAreNoSigns DEF Signs, Blanks
    <3>2. \A n \in 1..N : row[n] = b <=> line[g[n]] = b
      BY <3>1
    <3>. HIDE DEF row
    <3>3. \A i \in 1..Len(line) : line[i] = b => i \in K
      <4>1. SUFFICES ASSUME NEW i \in 1..Len(line), line[i] = b PROVE i \in K
        OBVIOUS
      <4>2. i \in DOMAIN line \ Bars(line)
        BY <1>1, <3>1, <4>1 DEF Bars
      <4>3. Bars(line) \cap (i..i) = {}
        BY <4>2
      <4>4. i \in 1..i /\ i \in i..Len(line) /\ line[i] \notin Blanks
        BY <1>1, <3>1, <4>1
      <4>5. QED
        BY <4>2, <4>3, <4>4 DEF K, Kept
    <3>4. \A n \in A : n \in 1..N /\ g[n] \in B
      <4>1. SUFFICES ASSUME NEW n \in A PROVE n \in 1..N /\ g[n] \in B
        OBVIOUS
      <4>2. n \in 1..N /\ row[n] = b
        BY <2>8 DEF Places
      <4>3. g[n] \in 1..Len(line) /\ line[g[n]] = b
        BY <2>1, <2>5, <3>2, <4>2
      <4>4. QED
        BY <4>2, <4>3 DEF Places
    <3>5. \A i \in B : \E n \in A : g[n] = i
      <4>1. SUFFICES ASSUME NEW i \in B PROVE \E n \in A : g[n] = i
        OBVIOUS
      <4>2. i \in 1..Len(line) /\ line[i] = b
        BY DEF Places
      <4>3. PICK n \in 1..N : g[n] = i
        BY <2>5, <3>3, <4>2
      <4>4. row[n] = b
        BY <3>2, <4>2, <4>3
      <4>5. QED
        BY <2>8, <4>3, <4>4 DEF Places
    <3>6. IsFiniteSet(A) /\ Count(row, b) = Cardinality(A) /\ Count(line, b) = Cardinality(B)
      BY <2>8, CountIsNatural
    <3>. HIDE DEF A, B
    <3>7. h \in [A -> B] /\ \A n \in A : h[n] = g[n]
      BY <3>4
    <3>. HIDE DEF h
    <3>8. (\A m, n \in A : h[m] = h[n] => m = n) /\ \A i \in B : \E n \in A : h[n] = i
      BY <2>5, <3>4, <3>5, <3>7
    <3>9. ExistsBijection(A, B)
      BY <3>7, <3>8 DEF ExistsBijection, Bijection, Injection, Surjection, IsInjective
    <3>10. QED
      BY <3>6, <3>9, FS_Bijection
  <2>10. QED
    BY <2>4, <2>8, <2>9
<1>4. QED
  BY <1>2, <1>3

\* What makes the program panic is blank.
LEMMA OverrunsAreBlank ==
    ASSUME NEW line \in Seq(Symbols), Overruns(line)
    PROVE  \A i \in 1..Len(line) : line[i] \in Blanks
<1>1. Len(line) \in Nat /\ DOMAIN line = 1..Len(line)
  BY LenProperties
<1>2. Bars(line) \in SUBSET (1..Len(line))
  BY <1>1 DEF Bars
<1>3. IsFiniteSet(Bars(line)) /\ Cardinality(Bars(line)) \in Nat
  <2>1. IsFiniteSet(1..Len(line))
    BY <1>1, FS_Interval
  <2>2. QED
    BY <1>2, <2>1, FS_Subset, FS_CardinalityType
<1>4. FirstCell(line) = 2 /\ Cardinality(Bars(line)) = 0
  BY <1>3 DEF Overruns, FirstCell, LastCell
<1>5. Bars(line) = {}
  BY <1>3, <1>4, FS_EmptySet
<1>6. \E i \in Bars(line) \cup {Len(line) + 1} : BlankFromTo(line, 1, i - 1)
  BY <1>4 DEF FirstCell
<1>7. BlankFromTo(line, 1, Len(line) + 1 - 1)
  BY <1>5, <1>6
<1>8. QED
  BY <1>1, <1>7 DEF BlankFromTo

-----------------------------------------------------------------------------
(* What a step reads *)

Discards(f) == f.fence \/ f.inline = "Image"

\* The step reads n bytes of what the filter has not put out: it goes on after them,
\* starts a line only where one starts and a row only at its bar, keeps every letter of
\* them unless it is in what is dropped, and panics only at a row of blanks.
Reads(f, step, n) ==
    /\ n \in 0..Len(Unread(f))
    /\ IsFilter(step.f) /\ step.out \in Seq(Symbols) /\ step.panics \in BOOLEAN
    /\ Unread(step.f) = Skip(Unread(f), n)
    /\ step.f.sol /\ n < Len(Unread(f)) => IF n = 0 THEN f.sol ELSE Unread(f)[n] = NL
    /\ step.f.inline = "Table" =>
          \/ n = 0 /\ f.inline = "Table"
          \/ n = 1 /\ f.inline # "Table" /\ f.sol /\ Unread(f)[1] = "|"
    /\ Discards(step.f) => Discards(f) \/ Lossy(Unread(f))
    /\ \A b \in Letters :
          /\ Count(step.out, b) <= Count(Take(Unread(f), n), b)
          /\ \/ step.panics \/ Discards(f) \/ step.f.fence
             \/ Count(step.out, b) = Count(Take(Unread(f), n), b)
    /\ step.panics =>
          /\ f.inline = "Table"
          /\ \E m \in 0..Len(Unread(f)) :
                /\ \A i \in 1..m : Unread(f)[i] \in Blanks
                /\ m = Len(Unread(f)) \/ Unread(f)[m + 1] = NL

\* A step that is a step forward.
Advances(f, step) ==
    /\ Weight(step.f) < Weight(f)
    /\ \E n \in 0..Len(Unread(f)) : Reads(f, step, n)

LEMMA FilterParts ==
    ASSUME NEW f, IsFilter(f)
    PROVE  /\ f.buf \in Seq(Symbols) /\ f.acc \in Seq(Symbols)
           /\ f.fence \in BOOLEAN /\ f.sol \in BOOLEAN /\ f.inline \in Inlines \cup {"none"}
           /\ f \in Filters
           /\ Unread(f) \in Seq(Symbols)
           /\ Len(Unread(f)) = Len(f.acc) + Len(f.buf)
           /\ Len(f.acc) \in Nat /\ Len(f.buf) \in Nat
           /\ f.inline = "none" => Unread(f) = f.buf
           /\ f.buf # <<>> => Len(f.buf) > 0
           /\ Weight(f) \in Nat
<1>1. /\ f.buf \in Seq(Symbols) /\ f.acc \in Seq(Symbols)
      /\ f.fence \in BOOLEAN /\ f.sol \in BOOLEAN /\ f.inline \in Inlines \cup {"none"}
      /\ f \in Filters
  BY DEF IsFilter, Filters
<1>2. Unread(f) \in Seq(Symbols) /\ Len(Unread(f)) = Len(f.acc) + Len(f.buf)
  BY <1>1, ConcatProperties DEF Unread
<1>3. Len(f.acc) \in Nat /\ Len(f.buf) \in Nat /\ (f.buf # <<>> => Len(f.buf) > 0)
  <2>1. f.buf # <<>> => Len(f.buf) \in Nat \ {0}
    BY <1>1, EmptySeq
  <2>2. QED
    BY <1>1, <2>1, LenProperties
<1>4. f.inline = "none" => Unread(f) = f.buf
  BY <1>1, ConcatEmptySeq DEF IsFilter, Unread
<1>5. Weight(f) \in Nat
  <2>1. Len(Unread(f)) \in Nat
    BY <1>2, LenProperties
  <2>2. QED
    BY <2>1 DEF Weight
<1>6. QED
  BY <1>1, <1>2, <1>3, <1>4, <1>5

\* The filter after n bytes, in no inline or at the head of one.
LEMMA AfterReading ==
    ASSUME NEW f, IsFilter(f), f.buf # <<>>, NEW n \in 0..Len(Unread(f)),
           NEW g \in Filters, g.buf = Skip(Unread(f), n), g.acc = <<>>,
           g.inline # "none" => ~g.fence /\ ~g.sol,
           n > 0 \/ (f.sol /\ ~g.sol)
    PROVE  /\ IsFilter(g)
           /\ Unread(g) = Skip(Unread(f), n)
           /\ Weight(g) < Weight(f)
<1> DEFINE s == Unread(f)
           r == Skip(s, n)
<1>1. s \in Seq(Symbols) /\ Len(s) \in Nat
  BY FilterParts, LenProperties
<1>2. r \in Seq(Symbols) /\ Len(r) = Len(s) - n
  BY <1>1, SkipIsRest
<1>3. IsFilter(g)
  BY DEF IsFilter
<1>4. Unread(g) = r
  BY <1>2, ConcatEmptySeq DEF Unread
<1>5. g.buf = r
  OBVIOUS
<1>6. Weight(g) < Weight(f)
  <2>1. Weight(g) = 2 * Len(r) + (IF g.sol THEN 1 ELSE 0) + (IF r = <<>> THEN 0 ELSE 1)
    BY <1>4, <1>5 DEF Weight
  <2>2. Weight(f) = 2 * Len(s) + (IF f.sol THEN 1 ELSE 0) + 1
    BY DEF Weight
  <2>3. Len(r) \in Nat /\ n \in Nat
    BY <1>1, <1>2
  <2>. HIDE DEF s, r
  <2>4. CASE n > 0
    BY <1>1, <1>2, <2>1, <2>2, <2>3, <2>4
  <2>5. CASE n = 0 /\ f.sol /\ ~g.sol
    BY <1>1, <1>2, <2>1, <2>2, <2>3, <2>5
  <2>6. QED
    BY <2>3, <2>4, <2>5
<1>7. QED
  BY <1>3, <1>4, <1>6

\* Nothing is put out, and of what is read nothing is a letter.
LEMMA SignsAreDropped ==
    ASSUME NEW s \in Seq(Symbols), NEW n \in 0..Len(s), \A i \in 1..n : s[i] \in Signs,
           NEW b \in Letters
    PROVE  Count(<<>>, b) = Count(Take(s, n), b)
<1>1. Take(s, n) \in Seq(Symbols) /\ Len(Take(s, n)) = n /\ \A i \in 1..n : Take(s, n)[i] = s[i]
  BY TakeIsHead
<1>2. Count(Take(s, n), b) = 0
  BY <1>1, LettersAreNoSigns, CountNone
<1>3. <<>> \in Seq(Symbols) /\ \A i \in 1..Len(<<>>) : <<>>[i] # b
  BY EmptySeq
<1>4. Count(<<>>, b) = 0
  BY <1>3, CountNone
<1>5. QED
  BY <1>2, <1>4

\* Nothing is counted in nothing.
LEMMA NothingCounted ==
    ASSUME NEW s \in Seq(Symbols), NEW n \in 0..Len(s), NEW b \in Letters
    PROVE  Count(<<>>, b) <= Count(Take(s, n), b)
<1>1. <<>> \in Seq(Symbols) /\ \A i \in 1..Len(<<>>) : <<>>[i] # b
  BY EmptySeq
<1>2. Count(<<>>, b) = 0
  BY <1>1, CountNone
<1>3. Count(Take(s, n), b) \in Nat
  BY CountParts
<1>4. QED
  BY <1>2, <1>3

-----------------------------------------------------------------------------
(* Steps within fences and at the start of a line *)

LEMMA RunIsOf ==
    ASSUME NEW S, NEW s \in Seq(S), NEW C, End \notin C
    PROVE  /\ RunOf(C, s) \in 0..Len(s)
           /\ \A i \in 1..RunOf(C, s) : s[i] \in C
<1> DEFINE stops == {i \in 1..(Len(s) + 1) : At(s, i) \notin C}
<1>1. Len(s) \in Nat /\ DOMAIN s = 1..Len(s)
  BY LenProperties
<1>2. Len(s) + 1 \in stops
  <2>1. Len(s) + 1 \in 1..(Len(s) + 1) /\ Len(s) + 1 \notin DOMAIN s
    BY <1>1
  <2>2. At(s, Len(s) + 1) = End
    BY <2>1 DEF At
  <2>3. QED
    BY <2>1, <2>2
<1>3. stops \in SUBSET Nat /\ stops # {}
  BY <1>2
<1>4. Min(stops) \in stops /\ \A m \in stops : Min(stops) <= m
  BY <1>3, FirstOf
<1>5. RunOf(C, s) = Min(stops) - 1
  BY DEF RunOf
<1>6. Min(stops) \in 1..(Len(s) + 1)
  BY <1>4
<1>. HIDE DEF stops
<1>7. ASSUME NEW i \in 1..(Min(stops) - 1) PROVE s[i] \in C
  <2>1. i \in 1..Len(s) /\ ~(Min(stops) <= i)
    BY <1>1, <1>6
  <2>2. i \notin stops
    BY <1>4, <2>1
  <2>3. At(s, i) \in C
    BY <1>1, <2>1, <2>2 DEF stops
  <2>4. QED
    BY <1>1, <2>1, <2>3 DEF At
<1>8. QED
  BY <1>1, <1>5, <1>6, <1>7

\* To leave the start of a line.
LEMMA LeaveStartAdvances ==
    ASSUME NEW f, IsFilter(f), f.buf # <<>>, f.inline = "none", f.sol
    PROVE  Advances(f, LeaveStart(f))
<1> DEFINE g == [f EXCEPT !.sol = FALSE]
<1>1. /\ Unread(f) = f.buf /\ Unread(f) \in Seq(Symbols) /\ f.acc = <<>> /\ f.fence \in BOOLEAN
      /\ f \in Filters /\ 0 \in 0..Len(Unread(f))
  <2>1. Len(f.buf) \in Nat /\ Unread(f) = f.buf /\ Unread(f) \in Seq(Symbols)
    BY FilterParts
  <2>2. f.acc = <<>> /\ f.fence \in BOOLEAN /\ f \in Filters
    BY FilterParts DEF IsFilter
  <2>3. QED
    BY <2>1, <2>2
<1>2. Skip(Unread(f), 0) = Unread(f)
  BY <1>1, SkipEnds
<1>3. /\ g \in Filters
      /\ g.buf = f.buf /\ g.fence = f.fence /\ g.sol = FALSE /\ g.inline = "none" /\ g.acc = <<>>
  BY <1>1 DEF Filters
<1>4. g.buf = Skip(Unread(f), 0)
  BY <1>1, <1>2, <1>3
<1>. HIDE DEF g
<1>5. IsFilter(g) /\ Unread(g) = Skip(Unread(f), 0) /\ Weight(g) < Weight(f)
  BY <1>1, <1>3, <1>4, AfterReading
<1>6. \A b \in Letters : Count(<<>>, b) = Count(Take(Unread(f), 0), b)
  BY <1>1, SignsAreDropped
<1>7. <<>> \in Seq(Symbols)
  BY EmptySeq
<1>9. \A b \in Letters : Count(<<>>, b) <= Count(Take(Unread(f), 0), b)
  BY <1>1, NothingCounted
<1>10. Reads(f, [f |-> g, out |-> <<>>, panics |-> FALSE], 0)
  BY <1>1, <1>3, <1>5, <1>6, <1>7, <1>9 DEF Reads, Discards
<1>11. LeaveStart(f) = [f |-> g, out |-> <<>>, panics |-> FALSE]
  BY DEF LeaveStart, Step, g
<1>12. QED
  BY <1>1, <1>5, <1>10, <1>11 DEF Advances

\* To drop signs.
LEMMA DropAdvances ==
    ASSUME NEW f, IsFilter(f), f.buf # <<>>, f.inline = "none", NEW n \in 1..Len(f.buf),
           NEW sol \in BOOLEAN, \A i \in 1..n : f.buf[i] \in Signs,
           sol /\ n < Len(f.buf) => f.buf[n] = NL
    PROVE  Advances(f, Drop(f, n, sol))
<1> DEFINE g == [f EXCEPT !.buf = Skip(@, n), !.sol = sol]
<1>1. /\ Unread(f) = f.buf /\ Unread(f) \in Seq(Symbols) /\ f.acc = <<>> /\ f.fence \in BOOLEAN
      /\ f \in Filters
  BY FilterParts DEF IsFilter
<1>2. n \in 0..Len(Unread(f)) /\ n > 0
  BY <1>1, LenProperties
<1>3. /\ g \in Filters
      /\ g.buf = Skip(Unread(f), n) /\ g.fence = f.fence /\ g.sol = sol /\ g.inline = "none"
      /\ g.acc = <<>>
  <2>1. Skip(f.buf, n) \in Seq(Symbols)
    BY <1>1, <1>2, SkipIsRest
  <2>2. QED
    BY <1>1, <2>1 DEF Filters
<1>. HIDE DEF g
<1>4. IsFilter(g) /\ Unread(g) = Skip(Unread(f), n) /\ Weight(g) < Weight(f)
  BY <1>1, <1>2, <1>3, AfterReading
<1>5. \A b \in Letters : Count(<<>>, b) = Count(Take(Unread(f), n), b)
  BY <1>1, <1>2, SignsAreDropped
<1>6. \A b \in Letters : Count(<<>>, b) <= Count(Take(Unread(f), n), b)
  BY <1>1, <1>2, NothingCounted
<1>7. <<>> \in Seq(Symbols)
  BY EmptySeq
<1>9. Reads(f, [f |-> g, out |-> <<>>, panics |-> FALSE], n)
  BY <1>1, <1>2, <1>3, <1>4, <1>5, <1>6, <1>7 DEF Reads, Discards
<1>10. Drop(f, n, sol) = [f |-> g, out |-> <<>>, panics |-> FALSE]
  BY DEF Drop, Step, g
<1>11. QED
  BY <1>2, <1>4, <1>9, <1>10 DEF Advances

\* Three ticks are found where a text begins with them.
LEMMA TicksAreFound ==
    ASSUME NEW s \in Seq(Symbols), IsPrefix(Ticks, s)
    PROVE  Lossy(s) /\ 3 \in 0..Len(s)
<1>1. Len(Ticks) = 3 /\ SubSeq(Ticks, 1, 3) = Ticks
  <2>1. Ticks \in Seq({Tick}) /\ Len(Ticks) = 3
    BY DEF Ticks
  <2>2. QED
    BY <2>1, SubSeqFull
<1>2. Len(s) \in Nat
  BY LenProperties
<1>3. 3 <= Len(s) /\ SubSeq(s, 1, 3) = Ticks
  BY <1>1 DEF IsPrefix
<1>4. Find(Ticks, s) # 0
  <2>1. 1 \in 1..(Len(s) + 1 - Len(Ticks)) /\ 1 + Len(Ticks) - 1 = 3
    BY <1>1, <1>2, <1>3
  <2>2. SubSeq(s, 1, 1 + Len(Ticks) - 1) = Ticks
    BY <1>3, <2>1
  <2>3. Len(Ticks) \in Nat \ {0}
    BY <1>1
  <2>. HIDE DEF Ticks
  <2>4. QED
    BY <2>1, <2>2, <2>3, FindMatches
<1>5. QED
  BY <1>2, <1>3, <1>4 DEF Lossy

\* What is after a line is after its end.
LEMMA AfterLineIsRest ==
    ASSUME NEW s \in Seq(Symbols)
    PROVE  \E n \in 0..Len(s) : /\ AfterLine(s) = Skip(s, n)
                                /\ n = Len(s) \/ (n > 0 /\ s[n] = NL)
<1> DEFINE nl == Find(<<NL>>, s)
<1>1. nl \in 0..Len(s) /\ (nl # 0 => s[nl] = NL)
  BY FindByte
<1>2. Len(s) \in Nat
  BY LenProperties
<1>3. AfterLine(s) = IF nl = 0 THEN <<>> ELSE Skip(s, nl)
  BY DEF AfterLine
<1>. HIDE DEF nl
<1>4. CASE nl = 0
  <2>1. AfterLine(s) = Skip(s, Len(s))
    BY <1>3, <1>4, SkipEnds
  <2>2. QED
    BY <1>2, <2>1
<1>5. CASE nl # 0
  BY <1>1, <1>2, <1>3, <1>5
<1>6. QED
  BY <1>4, <1>5

\* A fence opens or closes.
LEMMA ToggleAdvances ==
    ASSUME NEW f, IsFilter(f), f.buf # <<>>, f.inline = "none", IsPrefix(Ticks, f.buf)
    PROVE  Advances(f, Toggle(f))
<1> DEFINE s == f.buf
           g == [f EXCEPT !.fence = ~@, !.buf = AfterLine(Skip(@, 3)), !.sol = TRUE]
<1>1. /\ Unread(f) = s /\ s \in Seq(Symbols) /\ f.acc = <<>> /\ f.fence \in BOOLEAN
      /\ Len(s) \in Nat /\ f \in Filters
  BY FilterParts DEF IsFilter
<1>2. Lossy(s) /\ 3 \in 0..Len(s)
  BY <1>1, TicksAreFound
<1>3. /\ Skip(s, 3) \in Seq(Symbols) /\ Len(Skip(s, 3)) = Len(s) - 3
      /\ \A i \in 1..(Len(s) - 3) : Skip(s, 3)[i] = s[3 + i]
  BY <1>1, <1>2, SkipIsRest, ZenonT(40)
<1>4. PICK m \in 0..Len(Skip(s, 3)) : /\ AfterLine(Skip(s, 3)) = Skip(Skip(s, 3), m)
                                      /\ m = Len(Skip(s, 3)) \/ (m > 0 /\ Skip(s, 3)[m] = NL)
  BY <1>3, AfterLineIsRest
<1> DEFINE n == 3 + m
<1>5. m \in 0..(Len(s) - 3) /\ n \in 0..Len(s) /\ n > 0
  BY <1>1, <1>2, <1>3, <1>4
<1>6. AfterLine(Skip(s, 3)) = Skip(s, n)
  BY <1>1, <1>2, <1>4, <1>5, SkipAgain
<1>7. n < Len(s) => s[n] = NL
  <2>1. SUFFICES ASSUME n < Len(s) PROVE s[n] = NL
    OBVIOUS
  <2>2. m # Len(Skip(s, 3)) /\ m \in 1..(Len(s) - 3) /\ Skip(s, 3)[m] = NL
    BY <1>1, <1>3, <1>4, <1>5, <2>1
  <2>3. QED
    BY <1>3, <2>2
<1>. HIDE DEF n
<1>8. /\ g \in Filters
      /\ g.buf = Skip(s, n) /\ g.fence = ~f.fence /\ g.sol = TRUE /\ g.inline = "none"
      /\ g.acc = <<>>
  <2>1. Skip(s, n) \in Seq(Symbols)
    BY <1>1, <1>5, SkipIsRest
  <2>2. QED
    BY <1>1, <1>6, <2>1 DEF Filters
<1>. HIDE DEF g, s
<1>9. IsFilter(g) /\ Unread(g) = Skip(s, n) /\ Weight(g) < Weight(f)
  BY <1>1, <1>5, <1>8, AfterReading
<1>10. \A b \in Letters : Count(<<>>, b) <= Count(Take(s, n), b)
  BY <1>1, <1>5, NothingCounted
<1>11. <<>> \in Seq(Symbols)
  BY EmptySeq
<1>13. Reads(f, [f |-> g, out |-> <<>>, panics |-> FALSE], n)
  <2>1. Unread(f) = s /\ n \in 0..Len(Unread(f)) /\ n # 0
    BY <1>1, <1>5
  <2>2. n < Len(Unread(f)) => Unread(f)[n] = NL
    BY <1>7, <2>1
  <2>3. Discards(f) \/ g.fence
    BY <1>1, <1>8 DEF Discards
  <2>4. Lossy(Unread(f)) /\ g.inline # "Table"
    BY <1>2, <1>8, <2>1
  <2>. HIDE DEF Discards
  <2>5. QED
    BY <1>9, <1>10, <1>11, <2>1, <2>2, <2>3, <2>4 DEF Reads
<1>14. Toggle(f) = [f |-> g, out |-> <<>>, panics |-> FALSE]
  BY DEF Toggle, Step, g
<1>15. QED
  BY <1>1, <1>5, <1>9, <1>13, <1>14 DEF Advances

\* To put out what is read.
LEMMA PutOutAdvances ==
    ASSUME NEW f, IsFilter(f), f.buf # <<>>, f.inline = "none", NEW n \in 1..Len(f.buf),
           NEW g \in Filters, g.buf = Skip(f.buf, n), g.acc = <<>>, g.inline = "none",
           g.fence = f.fence, g.sol /\ n < Len(f.buf) => f.buf[n] = NL
    PROVE  Advances(f, Step(g, Take(f.buf, n)))
<1>1. Unread(f) = f.buf /\ Unread(f) \in Seq(Symbols) /\ f.fence \in BOOLEAN /\ Len(f.buf) \in Nat
  BY FilterParts
<1>2. n \in 0..Len(Unread(f)) /\ n > 0
  BY <1>1
<1>3. IsFilter(g) /\ Unread(g) = Skip(Unread(f), n) /\ Weight(g) < Weight(f)
  BY <1>1, <1>2, AfterReading
<1>4. Take(f.buf, n) \in Seq(Symbols)
  BY <1>1, <1>2, TakeIsHead
<1>5. \A b \in Letters : Count(Take(f.buf, n), b) \in Nat
  BY <1>1, <1>2, CountParts
<1>6. Reads(f, [f |-> g, out |-> Take(f.buf, n), panics |-> FALSE], n)
  BY <1>1, <1>2, <1>3, <1>4, <1>5 DEF Reads, Discards
<1>7. QED
  BY <1>2, <1>3, <1>6 DEF Advances, Step

\* To begin an inline after its mark.
LEMMA OpenAdvances ==
    ASSUME NEW f, IsFilter(f), f.buf # <<>>, f.inline = "none", ~f.fence,
           NEW n \in 1..Len(f.buf), NEW m \in 0..n, \A i \in (m + 1)..n : f.buf[i] \in Signs,
           NEW g \in Filters, g.buf = Skip(f.buf, n), g.acc = <<>>, g.fence = FALSE, g.sol = FALSE,
           g.inline = "Table" => f.sol /\ n = 1 /\ f.buf[1] = "|",
           g.inline = "Image" => Lossy(f.buf)
    PROVE  Advances(f, Step(g, Take(f.buf, m)))
<1>1. Unread(f) = f.buf /\ Unread(f) \in Seq(Symbols) /\ Len(f.buf) \in Nat
  BY FilterParts
<1>2. n \in 0..Len(Unread(f)) /\ n > 0 /\ m \in 0..Len(f.buf)
  BY <1>1
<1>3. IsFilter(g) /\ Unread(g) = Skip(Unread(f), n) /\ Weight(g) < Weight(f)
  BY <1>1, <1>2, AfterReading
<1>4. Take(f.buf, m) \in Seq(Symbols)
  BY <1>1, <1>2, TakeIsHead
<1>5. ASSUME NEW b \in Letters
      PROVE  Count(Take(f.buf, m), b) = Count(Take(f.buf, n), b) /\ Count(Take(f.buf, m), b) \in Nat
  <2>1. \A i \in (m + 1)..n : f.buf[i] # b
    BY LettersAreNoSigns
  <2>2. QED
    BY <1>1, <1>2, <2>1, CountMore, CountParts, SMTT(40)
<1>6. \A b \in Letters : /\ Count(Take(f.buf, m), b) <= Count(Take(f.buf, n), b)
                         /\ Count(Take(f.buf, m), b) = Count(Take(f.buf, n), b)
  BY <1>5
<1>7. Reads(f, [f |-> g, out |-> Take(f.buf, m), panics |-> FALSE], n)
  BY <1>1, <1>2, <1>3, <1>4, <1>6 DEF Reads, Discards
<1>8. QED
  BY <1>2, <1>3, <1>7 DEF Advances, Step

\* The step goes forward, or the filter waits for more of the text.
AdvancesOrWaits(f, step, eof) == Advances(f, step) \/ (~eof /\ step = Wait(f))

LEMMA PumpFenceAdvances ==
    ASSUME NEW f, IsFilter(f), f.buf # <<>>, f.fence, NEW eof \in BOOLEAN
    PROVE  AdvancesOrWaits(f, PumpFence(f, eof), eof)
<1> DEFINE nl == Find(<<NL>>, f.buf)
           n == IF nl = 0 THEN Len(f.buf) ELSE nl
           g == [f EXCEPT !.buf = Skip(@, n), !.sol = (nl # 0)]
<1>1. f.inline = "none" /\ f.acc = <<>> /\ f.buf \in Seq(Symbols) /\ Len(f.buf) \in Nat
  BY FilterParts DEF IsFilter
<1>2. nl \in 0..Len(f.buf) /\ (nl # 0 => f.buf[nl] = NL) /\ Len(f.buf) > 0 /\ f \in Filters
  BY <1>1, FindByte, FilterParts
<1>3. PumpFence(f, eof) = IF f.sol /\ Len(f.buf) < 3 /\ ~eof THEN Wait(f)
                          ELSE IF f.sol /\ IsPrefix(Ticks, f.buf) THEN Toggle(f)
                          ELSE Step(g, Take(f.buf, n))
  BY DEF PumpFence
<1>. HIDE DEF nl
<1>4. n \in 1..Len(f.buf) /\ (nl # 0 => f.buf[n] = NL) /\ (nl = 0 => n = Len(f.buf))
  BY <1>1, <1>2
<1>. HIDE DEF n
<1>5. /\ g \in Filters
      /\ g.buf = Skip(f.buf, n) /\ g.acc = <<>> /\ g.inline = "none" /\ g.fence = f.fence
      /\ g.sol = (nl # 0)
  <2>1. Skip(f.buf, n) \in Seq(Symbols)
    BY <1>1, <1>4, SkipIsRest
  <2>2. QED
    BY <1>1, <1>2, <2>1 DEF Filters
<1>. HIDE DEF g
<1>6. g.sol /\ n < Len(f.buf) => f.buf[n] = NL
  BY <1>1, <1>4, <1>5
<1>7. Advances(f, Step(g, Take(f.buf, n)))
  BY <1>1, <1>4, <1>5, <1>6, PutOutAdvances
<1>8. f.sol /\ IsPrefix(Ticks, f.buf) => Advances(f, Toggle(f))
  BY <1>1, ToggleAdvances
<1>9. QED
  BY <1>3, <1>7, <1>8 DEF AdvancesOrWaits

LEMMA PumpHeadingAdvances ==
    ASSUME NEW f, IsFilter(f), f.buf # <<>>, f.inline = "none", f.sol, NEW eof \in BOOLEAN
    PROVE  AdvancesOrWaits(f, PumpHeading(f, eof), eof)
<1> DEFINE n == RunOf({"#"}, f.buf)
<1>1. f.buf \in Seq(Symbols) /\ Len(f.buf) \in Nat /\ DOMAIN f.buf = 1..Len(f.buf)
  BY FilterParts, LenProperties
<1>2. End \notin {"#"} /\ {"#", " "} \subseteq Signs /\ End # " "
  BY DEF End, Signs
<1>3. n \in 0..Len(f.buf) /\ \A i \in 1..n : f.buf[i] \in {"#"}
  BY <1>1, <1>2, RunIsOf
<1>4. PumpHeading(f, eof) = IF n = Len(f.buf) /\ ~eof THEN Wait(f)
                            ELSE IF n \in 5..6 /\ At(f.buf, n + 1) = " " THEN Drop(f, n + 1, FALSE)
                            ELSE LeaveStart(f)
  BY DEF PumpHeading
<1>. HIDE DEF n
<1>5. ASSUME n \in 5..6, At(f.buf, n + 1) = " " PROVE Advances(f, Drop(f, n + 1, FALSE))
  <2>1. n + 1 \in 1..Len(f.buf) /\ f.buf[n + 1] = " "
    BY <1>1, <1>2, <1>3, <1>5 DEF At
  <2>2. \A i \in 1..(n + 1) : f.buf[i] \in Signs
    <3>1. \A i \in 1..(n + 1) : i \in 1..n \/ i = n + 1
      BY <1>3
    <3>2. f.buf[n + 1] \in Signs /\ \A i \in 1..n : f.buf[i] \in Signs
      BY <1>2, <1>3, <2>1
    <3>3. QED
      BY <3>1, <3>2
  <2>3. QED
    BY <2>1, <2>2, DropAdvances
<1>6. Advances(f, LeaveStart(f))
  BY LeaveStartAdvances
<1>7. QED
  BY <1>4, <1>5, <1>6 DEF AdvancesOrWaits

LEMMA PumpRuleAdvances ==
    ASSUME NEW f, IsFilter(f), f.buf # <<>>, f.inline = "none", f.sol,
           f.buf[1] \in Signs, NEW eof \in BOOLEAN
    PROVE  AdvancesOrWaits(f, PumpRule(f, eof), eof)
<1> DEFINE n == RunOf({f.buf[1], " "}, f.buf)
           many == Cardinality({i \in 1..n : f.buf[i] = f.buf[1]}) >= 3
<1>1. f.buf \in Seq(Symbols) /\ Len(f.buf) \in Nat /\ DOMAIN f.buf = 1..Len(f.buf)
      /\ Len(f.buf) > 0
  BY FilterParts, LenProperties
<1>2. End \notin {f.buf[1], " "} /\ {f.buf[1], " ", NL} \subseteq Signs /\ End # NL
  <2>1. End \notin Signs /\ " " \in Signs /\ NL \in Signs /\ End # NL /\ End # " "
    BY DEF End, Signs, NL, Tick
  <2>2. QED
    BY <2>1
<1>3. n \in 0..Len(f.buf) /\ \A i \in 1..n : f.buf[i] \in {f.buf[1], " "}
  BY <1>1, <1>2, RunIsOf
<1>4. PumpRule(f, eof) = IF n = Len(f.buf) /\ ~eof THEN Wait(f)
                         ELSE IF At(f.buf, n + 1) \in {End, NL} /\ many THEN Drop(f, n + 1, TRUE)
                         ELSE LeaveStart(f)
  BY DEF PumpRule
<1>. HIDE DEF n, many
<1>5. ASSUME At(f.buf, n + 1) \in {End, NL} PROVE Advances(f, Drop(f, n + 1, TRUE))
  <2>1. CASE n = Len(f.buf)
    <3>1. n \in 1..Len(f.buf) /\ \A i \in 1..n : f.buf[i] \in Signs
      <4>1. n \in 1..Len(f.buf)
        BY <1>1, <2>1
      <4>2. QED
        BY <1>2, <1>3, <4>1
    <3>2. Advances(f, Drop(f, n, TRUE))
      <4>1. TRUE \in BOOLEAN /\ ~(n < Len(f.buf))
        BY <1>1, <2>1
      <4>2. QED
        BY <3>1, <4>1, DropAdvances
    <3>3. Skip(f.buf, n + 1) = Skip(f.buf, n)
      <4>1. n + 1 + 1 \in Int /\ Len(f.buf) \in Int /\ Len(f.buf) < n + 1 + 1
        BY <1>1, <2>1
      <4>2. Skip(f.buf, n + 1) = <<>>
        BY <4>1, SubSeqEmpty DEF Skip
      <4>3. QED
        BY <1>1, <2>1, <4>2, SkipEnds
    <3>4. Drop(f, n + 1, TRUE) = Drop(f, n, TRUE)
      BY <3>3 DEF Drop
    <3>5. QED
      BY <3>2, <3>4
  <2>2. CASE n # Len(f.buf)
    <3>1. n + 1 \in 1..Len(f.buf) /\ n \in Nat
      <4>1. n \in 0..Len(f.buf)
        BY <1>3
      <4>2. QED
        BY <1>1, <2>2, <4>1
    <3>2. f.buf[n + 1] \in Symbols /\ f.buf[n + 1] = At(f.buf, n + 1)
      BY <1>1, <3>1, ElementOfSeq DEF At
    <3>3. End \notin Symbols
      BY LettersAssumption DEF Symbols, Signs, End, NL, Tick
    <3>4. f.buf[n + 1] = NL
      BY <1>5, <3>2, <3>3
    <3>5. \A i \in 1..(n + 1) : f.buf[i] \in Signs
      <4>1. \A i \in 1..(n + 1) : i \in 1..n \/ i = n + 1
        BY <3>1
      <4>2. f.buf[n + 1] \in Signs /\ \A i \in 1..n : f.buf[i] \in Signs
        BY <1>2, <1>3, <3>4
      <4>3. QED
        BY <4>1, <4>2
    <3>6. QED
      BY <3>1, <3>4, <3>5, DropAdvances
  <2>3. QED
    BY <2>1, <2>2
<1>6. Advances(f, LeaveStart(f))
  BY LeaveStartAdvances
<1>7. QED
  BY <1>4, <1>5, <1>6 DEF AdvancesOrWaits

LEMMA PumpStartAdvances ==
    ASSUME NEW f, IsFilter(f), f.buf # <<>>, f.inline = "none", ~f.fence, f.sol,
           NEW eof \in BOOLEAN
    PROVE  AdvancesOrWaits(f, PumpStart(f, eof), eof)
<1> DEFINE first == f.buf[1]
<1>1. /\ f.buf \in Seq(Symbols) /\ Len(f.buf) \in Nat /\ DOMAIN f.buf = 1..Len(f.buf)
      /\ Len(f.buf) > 0 /\ f.acc = <<>> /\ f \in Filters
  BY FilterParts, LenProperties DEF IsFilter
<1>2. /\ Tail(f.buf) = Skip(f.buf, 1) /\ Skip(f.buf, 1) \in Seq(Symbols)
      /\ 1 \in 1..Len(f.buf) /\ 1 \in 0..Len(f.buf)
  <2>1. 1 \in 1..Len(f.buf) /\ 1 \in 0..Len(f.buf)
    BY <1>1
  <2>2. QED
    BY <1>1, <2>1, TailIsSkip, SkipIsRest
<1>3. Advances(f, LeaveStart(f))
  BY LeaveStartAdvances
<1>4. CASE first = NL
  <2> DEFINE g == [f EXCEPT !.buf = Tail(@)]
  <2>1. /\ g \in Filters
        /\ g.buf = Skip(f.buf, 1) /\ g.acc = <<>> /\ g.inline = "none" /\ g.fence = f.fence
    BY <1>1, <1>2 DEF Filters
  <2>2. Take(f.buf, 1) = <<NL>>
    <3>1. Take(f.buf, 1) \in Seq(Symbols) /\ Len(Take(f.buf, 1)) = 1 /\ Take(f.buf, 1)[1] = NL
      <4>1. /\ Take(f.buf, 1) \in Seq(Symbols) /\ Len(Take(f.buf, 1)) = 1
            /\ \A i \in 1..1 : Take(f.buf, 1)[i] = f.buf[i]
        BY <1>1, <1>2, TakeIsHead
      <4>2. 1 \in 1..1
        OBVIOUS
      <4>. HIDE DEF Take
      <4>3. QED
        BY <1>4, <4>1, <4>2
    <3>. HIDE DEF Take
    <3>2. QED
      BY <3>1
  <2>3. PumpStart(f, eof) = Step(g, <<NL>>)
    BY <1>4 DEF PumpStart, NL, Tick, Blanks
  <2>. HIDE DEF g
  <2>4. Advances(f, Step(g, Take(f.buf, 1)))
    BY <1>2, <1>4, <2>1, PutOutAdvances
  <2>5. QED
    BY <2>2, <2>3, <2>4 DEF AdvancesOrWaits
<1>5. CASE first = Tick
  <2>1. PumpStart(f, eof) = PumpTick(f, eof)
    BY <1>5 DEF PumpStart, NL, Tick, Blanks
  <2>2. IsPrefix(Ticks, f.buf) => Advances(f, Toggle(f))
    BY ToggleAdvances
  <2>3. QED
    BY <1>3, <2>1, <2>2 DEF PumpTick, AdvancesOrWaits
<1>6. CASE first = ">"
  <2> DEFINE n == IF At(f.buf, 2) = " " THEN 2 ELSE 1
  <2>1. PumpStart(f, eof) = PumpQuotation(f, eof)
    BY <1>6 DEF PumpStart, NL, Tick, Blanks
  <2>2. n \in 1..Len(f.buf) /\ \A i \in 1..n : f.buf[i] \in Signs
    <3>1. CASE At(f.buf, 2) = " "
      <4>1. 2 \in 1..Len(f.buf) /\ f.buf[2] = " "
        BY <1>1, <3>1 DEF At, End
      <4>2. f.buf[1] \in Signs /\ f.buf[2] \in Signs
        BY <1>6, <4>1 DEF Signs
      <4>3. \A i \in 1..2 : i = 1 \/ i = 2
        OBVIOUS
      <4>4. \A i \in 1..2 : f.buf[i] \in Signs
        BY <4>2, <4>3
      <4>5. QED
        BY <3>1, <4>1, <4>4
    <3>2. CASE At(f.buf, 2) # " "
      <4>1. f.buf[1] \in Signs
        BY <1>6 DEF Signs
      <4>2. \A i \in 1..1 : f.buf[i] \in Signs
        BY <4>1
      <4>3. QED
        BY <1>2, <3>2, <4>2
    <3>3. QED
      BY <3>1, <3>2
  <2>3. PumpQuotation(f, eof) = IF Len(f.buf) < 2 /\ ~eof THEN Wait(f) ELSE Drop(f, n, FALSE)
    BY DEF PumpQuotation
  <2>. HIDE DEF n
  <2>4. Advances(f, Drop(f, n, FALSE))
    BY <2>2, DropAdvances
  <2>5. QED
    BY <2>1, <2>3, <2>4 DEF AdvancesOrWaits
<1>7. CASE first = "#"
  <2>1. PumpStart(f, eof) = PumpHeading(f, eof)
    BY <1>7 DEF PumpStart, NL, Tick, Blanks
  <2>2. QED
    BY <2>1, PumpHeadingAdvances
<1>8. CASE first = "|"
  <2> DEFINE g == [f EXCEPT !.buf = Tail(@), !.sol = FALSE, !.inline = "Table"]
  <2>1. /\ g \in Filters
        /\ g.buf = Skip(f.buf, 1) /\ g.acc = <<>> /\ g.fence = FALSE /\ g.sol = FALSE
        /\ g.inline = "Table"
    BY <1>1, <1>2, FilterParts DEF Filters, Inlines
  <2>2. Take(f.buf, 0) = <<>>
    <3>1. 1 \in Int /\ 0 \in Int /\ 0 < 1
      OBVIOUS
    <3>2. QED
      BY <3>1, SubSeqEmpty DEF Take
  <2>3. PumpStart(f, eof) = Step(g, <<>>)
    BY <1>8 DEF PumpStart, OpenTable, NL, Tick, Blanks
  <2>. HIDE DEF g
  <2>4. \A i \in (0 + 1)..1 : f.buf[i] \in Signs
    <3>1. f.buf[1] \in Signs
      BY <1>8 DEF Signs
    <3>2. QED
      BY <3>1
  <2>5. Advances(f, Step(g, Take(f.buf, 0)))
    <3>1. 0 \in 0..1 /\ "Table" # "Image"
      OBVIOUS
    <3>2. QED
      BY <1>2, <1>8, <2>1, <2>4, <3>1, OpenAdvances
  <2>6. QED
    BY <2>2, <2>3, <2>5 DEF AdvancesOrWaits
<1>9. CASE first \in Blanks
  <2>1. PumpStart(f, eof) = PumpBlanks(f, eof)
    BY <1>9 DEF PumpStart, NL, Tick, Blanks
  <2>2. QED
    BY <1>3, <2>1 DEF PumpBlanks, AdvancesOrWaits
<1>10. CASE first \in {"-", "*", "_"}
  <2>1. PumpStart(f, eof) = PumpRule(f, eof)
    BY <1>10 DEF PumpStart, NL, Tick, Blanks
  <2>2. first \in Signs
    BY <1>10 DEF Signs
  <2>3. QED
    BY <2>1, <2>2, PumpRuleAdvances
<1>11. CASE /\ first # NL /\ first # Tick /\ first # ">" /\ first # "#" /\ first # "|"
            /\ first \notin Blanks /\ first \notin {"-", "*", "_"}
  <2>1. PumpStart(f, eof) = LeaveStart(f)
    BY <1>11 DEF PumpStart
  <2>2. QED
    BY <1>3, <2>1 DEF AdvancesOrWaits
<1>12. QED
  BY <1>4, <1>5, <1>6, <1>7, <1>8, <1>9, <1>10, <1>11

-----------------------------------------------------------------------------
(* Steps within a line *)

\* Nothing is passed over that is not put out: a text stops at a stop or at its end.
LEMMA ScanStops ==
    ASSUME NEW S, NEW s \in Seq(S), NEW stops \in SUBSET (1..Len(s))
    PROVE  /\ Scan(s, stops) \in 1..(Len(s) + 1)
           /\ Scan(s, stops) <= Len(s) => Scan(s, stops) \in stops
<1> DEFINE here == {i \in stops : Reached(s, i)}
           D == here \cup {Len(s) + 1}
<1>1. Len(s) \in Nat
  BY LenProperties
<1>2. D \in SUBSET (1..(Len(s) + 1)) /\ D # {}
  <2>1. here \in SUBSET (1..Len(s))
    OBVIOUS
  <2>. HIDE DEF here
  <2>2. Len(s) + 1 \in 1..(Len(s) + 1)
    BY <1>1
  <2>3. \A i \in here : i \in 1..(Len(s) + 1)
    BY <1>1, <2>1
  <2>4. QED
    BY <2>2, <2>3
<1>3. D \in SUBSET Nat
  BY <1>1, <1>2
<1>4. Scan(s, stops) = Min(D)
  BY DEF Scan
<1>. HIDE DEF D
<1>5. Min(D) \in D
  BY <1>2, <1>3, FirstOf
<1>6. Min(D) = Len(s) + 1 \/ Min(D) \in stops
  BY <1>5 DEF D
<1>7. Min(D) \in 1..(Len(s) + 1)
  BY <1>2, <1>5
<1>8. QED
  BY <1>1, <1>4, <1>6, <1>7

LEMMA HoldIsBounded ==
    ASSUME NEW s \in Seq(Symbols), s # <<>>, NEW eof \in BOOLEAN
    PROVE  Hold(s, eof) \in 0..Len(s) /\ (eof => Hold(s, eof) = 0)
<1> DEFINE last == At(s, Len(s))
           before == At(s, Len(s) - 1)
           two == last \in {"*", "_"} /\ before = last
<1>1. Len(s) \in Nat /\ Len(s) > 0 /\ DOMAIN s = 1..Len(s)
  BY LenProperties, EmptySeq
<1>2. two => Len(s) >= 2
  <2>1. SUFFICES ASSUME two, ~(Len(s) >= 2) PROVE FALSE
    OBVIOUS
  <2>2. Len(s) - 1 \notin DOMAIN s
    <3>1. ~(Len(s) >= 2)
      BY <2>1
    <3>. HIDE DEF two
    <3>2. QED
      BY <1>1, <3>1
  <2>3. before = End
    BY <2>2 DEF At
  <2>4. QED
    BY <2>1, <2>3 DEF End
<1>3. Hold(s, eof) \in {0, 1, 2} /\ (Hold(s, eof) = 2 => two) /\ (eof => Hold(s, eof) = 0)
  <2>1. CASE eof \/ last \notin {"*", "_", "~", "!"}
    <3>1. Hold(s, eof) = 0
      BY <2>1 DEF Hold
    <3>. HIDE DEF two
    <3>2. QED
      BY <3>1
  <2>2. CASE ~(eof \/ last \notin {"*", "_", "~", "!"}) /\ two
    <3>1. Hold(s, eof) = 2
      BY <2>2 DEF Hold
    <3>. HIDE DEF two
    <3>2. QED
      BY <2>2, <3>1
  <2>3. CASE ~(eof \/ last \notin {"*", "_", "~", "!"}) /\ ~two
    <3>1. Hold(s, eof) = 1
      BY <2>3 DEF Hold
    <3>2. ~eof
      BY <2>3
    <3>. HIDE DEF two
    <3>3. QED
      BY <3>1, <3>2
  <2>4. QED
    BY <2>1, <2>2, <2>3
<1>. HIDE DEF two
<1>4. QED
  BY <1>1, <1>2, <1>3

\* A prefix is at the head, and found.
LEMMA PrefixIsFound ==
    ASSUME NEW S, NEW s \in Seq(S), NEW p \in Seq(S), Len(p) > 0, IsPrefix(p, s)
    PROVE  /\ Len(p) \in 1..Len(s)
           /\ \A i \in 1..Len(p) : s[i] = p[i]
           /\ Find(p, s) # 0
<1> DEFINE k == Len(p)
<1>1. k \in Nat \ {0} /\ Len(s) \in Nat
  BY LenProperties
<1>2. k <= Len(s) /\ SubSeq(p, 1, k) = SubSeq(s, 1, k)
  BY DEF IsPrefix
<1>3. SubSeq(p, 1, k) = p
  BY SubSeqFull
<1>. HIDE DEF k
<1>4. 1 \in 1..(Len(s) + 1 - k) /\ 1 + k - 1 = k /\ k \in 0..Len(s) /\ k \in 1..Len(s)
  BY <1>1, <1>2
<1>5. \A i \in 1..k : Take(s, k)[i] = s[i]
  BY <1>4, TakeIsHead
<1>6. Take(s, k) = p
  BY <1>2, <1>3 DEF Take
<1>7. SubSeq(s, 1, 1 + k - 1) = p
  BY <1>2, <1>3, <1>4
<1>8. Find(p, s) # 0
  BY <1>1, <1>4, <1>7, FindMatches DEF k
<1>9. QED
  BY <1>4, <1>5, <1>6, <1>8 DEF k

\* Marks are signs.
LEMMA MarkersAreSigns ==
    ASSUME NEW kind \in Inlines \ {"Table"}
    PROVE  /\ Marker(kind) \in Seq(Symbols)
           /\ Len(Marker(kind)) \in Nat \ {0}
           /\ \A i \in 1..Len(Marker(kind)) : Marker(kind)[i] \in Signs
<1> DEFINE Good(m) == /\ m \in Seq(Symbols) /\ Len(m) \in Nat \ {0}
                      /\ \A i \in 1..Len(m) : m[i] \in Signs
<1>1. ASSUME NEW a \in Signs PROVE Good(<<a>>)
  <2>1. a \in Symbols
    BY DEF Symbols
  <2>2. QED
    BY <2>1
<1>2. ASSUME NEW a \in Signs, NEW b \in Signs PROVE Good(<<a, b>>)
  <2>1. a \in Symbols /\ b \in Symbols
    BY DEF Symbols
  <2>2. \A i \in 1..2 : i = 1 \/ i = 2
    OBVIOUS
  <2>3. QED
    BY <2>1, <2>2
<1>3. ASSUME NEW a \in Signs PROVE Good(<<a, a, a>>)
  <2>1. a \in Symbols
    BY DEF Symbols
  <2>2. \A i \in 1..3 : i = 1 \/ i = 2 \/ i = 3
    OBVIOUS
  <2>3. QED
    BY <2>1, <2>2
<1>4. Tick \in Signs /\ "!" \in Signs /\ "[" \in Signs /\ "~" \in Signs /\ "*" \in Signs /\ "_" \in Signs
  BY DEF Signs
<1>. HIDE DEF Good
<1>5. Good(Marker(kind))
  <2>1. CASE kind = "Code"
    BY <1>1, <1>4, <2>1 DEF Marker
  <2>2. CASE kind = "Image"
    BY <1>2, <1>4, <2>2 DEF Marker
  <2>3. CASE kind = "Strike"
    BY <1>2, <1>4, <2>3 DEF Marker
  <2>4. CASE kind = "Bold3"
    BY <1>3, <1>4, <2>4 DEF Marker
  <2>5. CASE kind = "Italic"
    BY <1>1, <1>4, <2>5 DEF Marker
  <2>6. CASE kind = "UBold3"
    BY <1>3, <1>4, <2>6 DEF Marker
  <2>7. CASE kind = "UItalic"
    BY <1>1, <1>4, <2>7 DEF Marker
  <2>8. QED
    BY <2>1, <2>2, <2>3, <2>4, <2>5, <2>6, <2>7 DEF Inlines
<1>6. QED
  BY <1>5 DEF Good

\* What opens an inline is its mark, all signs.
LEMMA OpeningIsMark ==
    ASSUME NEW s \in Seq(Symbols), NEW i \in 1..Len(s), NEW kind \in Opening(s, i)
    PROVE  /\ kind \in Inlines \ {"Table"}
           /\ i - 1 + Len(Marker(kind)) \in i..Len(s)
           /\ \A j \in i..(i - 1 + Len(Marker(kind))) : s[j] \in Signs
           /\ kind = "Image" => Lossy(s)
<1> DEFINE rest == Skip(s, i - 1)
           k == Len(Marker(kind))
<1>1. kind \in Inlines \ {"Table"}
  BY DEF Opening, Inlines
<1>2. /\ Marker(kind) \in Seq(Symbols) /\ k \in Nat \ {0}
      /\ \A j \in 1..k : Marker(kind)[j] \in Signs
  BY <1>1, MarkersAreSigns
<1>3. Len(s) \in Nat /\ i - 1 \in 0..Len(s) /\ i \in Nat
  BY LenProperties
<1>4. /\ rest \in Seq(Symbols) /\ Len(rest) = Len(s) - (i - 1)
      /\ \A j \in 1..(Len(s) - (i - 1)) : rest[j] = s[i - 1 + j]
  BY <1>3, SkipIsRest
<1>5. CASE IsPrefix(Marker(kind), rest)
  <2>1. k \in 1..Len(rest) /\ (\A j \in 1..k : rest[j] = Marker(kind)[j]) /\ Find(Marker(kind), rest) # 0
    BY <1>2, <1>4, <1>5, PrefixIsFound
  <2>2. Find(Marker(kind), s) # 0
    BY <1>2, <1>3, <2>1, RestHas
  <2>. HIDE DEF rest, k
  <2>3. i - 1 + k \in i..Len(s)
    BY <1>3, <1>4, <2>1
  <2>4. ASSUME NEW j \in i..(i - 1 + k) PROVE s[j] \in Signs
    <3>1. j - (i - 1) \in 1..k /\ j - (i - 1) \in 1..(Len(s) - (i - 1)) /\ i - 1 + (j - (i - 1)) = j
      BY <1>2, <1>3, <1>4, <2>1
    <3>2. QED
      BY <1>2, <1>4, <2>1, <3>1
  <2>5. QED
    BY <1>1, <2>2, <2>3, <2>4 DEF Lossy, k
<1>6. CASE kind \in {"Italic", "UItalic"} /\ <<s[i]>> = Marker(kind)
  <2>1. k = 1 /\ Marker(kind)[1] = s[i]
    <3>1. Len(<<s[i]>>) = 1 /\ <<s[i]>>[1] = s[i]
      OBVIOUS
    <3>2. QED
      BY <1>6, <3>1
  <2>2. s[i] \in Signs
    <3>1. 1 \in 1..k
      BY <2>1
    <3>2. QED
      BY <1>2, <2>1, <3>1
  <2>3. kind # "Image"
    BY <1>6
  <2>. HIDE DEF k
  <2>4. i - 1 + k = i
    BY <1>3, <2>1
  <2>5. i \in i..Len(s) /\ \A j \in i..i : j = i
    BY <1>3
  <2>6. QED
    BY <1>1, <2>2, <2>3, <2>4, <2>5 DEF k
<1>7. QED
  BY <1>5, <1>6 DEF Opening

\* Within a line the filter goes forward, or keeps back all it has.
LEMMA PumpBodyAdvances ==
    ASSUME NEW f, IsFilter(f), f.buf # <<>>, f.inline = "none", ~f.fence, ~f.sol,
           NEW eof \in BOOLEAN
    PROVE  AdvancesOrWaits(f, PumpBody(f, eof), eof)
<1> DEFINE s == f.buf
           stops == {k \in DOMAIN s : s[k] = NL \/ Opening(s, k) # {}}
           i == Scan(s, stops)
           n == Len(s) - Hold(s, eof)
           kind == CHOOSE k \in Opening(s, i) : TRUE
           g1 == [f EXCEPT !.buf = Skip(s, n)]
           g2 == [f EXCEPT !.buf = Skip(s, i), !.sol = TRUE]
           g3 == [f EXCEPT !.buf = Skip(s, i - 1 + Len(Marker(kind))), !.inline = kind]
<1>1. /\ s \in Seq(Symbols) /\ Len(s) \in Nat /\ DOMAIN s = 1..Len(s) /\ Len(s) > 0
      /\ f.acc = <<>> /\ f \in Filters
  BY FilterParts, LenProperties DEF IsFilter
<1>2. i \in 1..(Len(s) + 1) /\ (i <= Len(s) => s[i] = NL \/ Opening(s, i) # {})
  <2>1. stops \in SUBSET (1..Len(s))
    BY <1>1
  <2>2. i \in 1..(Len(s) + 1) /\ (i <= Len(s) => i \in stops)
    BY <1>1, <2>1, ScanStops
  <2>3. QED
    BY <2>2
<1>3. Hold(s, eof) \in 0..Len(s) /\ (eof => Hold(s, eof) = 0)
  BY <1>1, HoldIsBounded
<1>4. n \in 0..Len(s) /\ (eof => n > 0)
  <2>. HIDE DEF s
  <2>1. QED
    BY <1>1, <1>3
<1>5. PumpBody(f, eof) = IF i > Len(s) THEN Step(g1, Take(s, n))
                         ELSE IF s[i] = NL THEN Step(g2, Take(s, i))
                         ELSE Step(g3, Take(s, i - 1))
  BY DEF PumpBody
<1>. HIDE DEF i, n, kind, stops
<1>6. AdvancesOrWaits(f, Step(g1, Take(s, n)), eof)
  <2>1. Skip(s, n) \in Seq(Symbols)
    BY <1>1, <1>4, SkipIsRest
  <2>2. /\ g1 \in Filters
        /\ g1.buf = Skip(s, n) /\ g1.acc = <<>> /\ g1.inline = "none" /\ g1.fence = f.fence
        /\ g1.sol = f.sol
    BY <1>1, <2>1 DEF Filters
  <2>3. CASE n = 0
    <3>1. Skip(s, n) = s /\ Take(s, n) = <<>>
      <4>1. Skip(s, 0) = s
        BY <1>1, SkipEnds
      <4>2. 1 \in Int /\ 0 \in Int /\ 0 < 1
        OBVIOUS
      <4>3. Take(s, 0) = <<>>
        BY <4>2, SubSeqEmpty DEF Take
      <4>4. QED
        BY <2>3, <4>1, <4>3
    <3>2. g1 = f
      BY <1>1, <2>2, <3>1 DEF Filters
    <3>3. ~eof
      BY <1>4, <2>3
    <3>4. QED
      BY <3>1, <3>2, <3>3 DEF AdvancesOrWaits, Wait
  <2>4. CASE n # 0
    <3>1. n \in 1..Len(s)
      <4>. HIDE DEF s
      <4>1. QED
        BY <1>1, <1>4, <2>4
    <3>2. Advances(f, Step(g1, Take(s, n)))
      <4>. HIDE DEF g1
      <4>1. QED
        BY <2>2, <3>1, PutOutAdvances
    <3>3. QED
      BY <3>2 DEF AdvancesOrWaits
  <2>5. QED
    BY <2>3, <2>4
<1>7. ASSUME i <= Len(s), s[i] = NL PROVE Advances(f, Step(g2, Take(s, i)))
  <2>1. i \in 1..Len(s) /\ i \in 0..Len(s)
    <3>. HIDE DEF s
    <3>1. QED
      BY <1>1, <1>2, <1>7
  <2>2. Skip(s, i) \in Seq(Symbols)
    BY <1>1, <2>1, SkipIsRest
  <2>3. /\ g2 \in Filters
        /\ g2.buf = Skip(s, i) /\ g2.acc = <<>> /\ g2.inline = "none" /\ g2.fence = f.fence
    BY <1>1, <2>2 DEF Filters
  <2>. HIDE DEF g2
  <2>4. QED
    BY <1>7, <2>1, <2>3, PutOutAdvances
<1>8. ASSUME i <= Len(s), s[i] # NL PROVE Advances(f, Step(g3, Take(s, i - 1)))
  <2> DEFINE m == i - 1 + Len(Marker(kind))
  <2>1. i \in 1..Len(s) /\ i \in Nat
    <3>. HIDE DEF s
    <3>1. QED
      BY <1>1, <1>2, <1>8
  <2>2. kind \in Opening(s, i)
    BY <1>2, <1>8 DEF kind
  <2>3. /\ kind \in Inlines \ {"Table"}
        /\ m \in i..Len(s)
        /\ \A j \in i..m : s[j] \in Signs
        /\ kind = "Image" => Lossy(s)
    BY <1>1, <2>1, <2>2, OpeningIsMark
  <2>. HIDE DEF m
  <2>4. m \in 1..Len(s) /\ i - 1 \in 0..m /\ i - 1 + 1 = i /\ m \in 0..Len(s)
    <3>. HIDE DEF s
    <3>1. QED
      BY <1>1, <2>1, <2>3
  <2>5. Skip(s, m) \in Seq(Symbols)
    BY <1>1, <2>4, SkipIsRest
  <2>6. /\ g3 \in Filters
        /\ g3.buf = Skip(s, m) /\ g3.acc = <<>> /\ g3.inline = kind /\ g3.fence = FALSE
        /\ g3.sol = FALSE
    BY <1>1, <2>3, <2>5 DEF Filters, m
  <2>7. g3.inline # "Table" /\ (g3.inline = "Image" => Lossy(s))
    BY <2>3, <2>6
  <2>. HIDE DEF g3
  <2>8. \A j \in (i - 1 + 1)..m : s[j] \in Signs
    BY <2>3, <2>4
  <2>9. QED
    BY <2>4, <2>6, <2>7, <2>8, OpenAdvances
<1>9. i > Len(s) \/ i <= Len(s)
  <2>. HIDE DEF s
  <2>1. QED
    BY <1>1, <1>2
<1>10. QED
  BY <1>5, <1>6, <1>7, <1>8, <1>9 DEF AdvancesOrWaits

-----------------------------------------------------------------------------
(* Steps within an inline *)

LEMMA CountOfNothing ==
    ASSUME NEW b
    PROVE  Count(<<>>, b) = 0
<1>1. <<>> \in Seq({b}) /\ \A i \in 1..Len(<<>>) : <<>>[i] # b
  OBVIOUS
<1>2. QED
  BY <1>1, CountNone

\* A mark in front of a text adds no letter to it.
LEMMA MarkIsNotCounted ==
    ASSUME NEW kind \in Inlines \ {"Table"}, NEW s \in Seq(Symbols), NEW b \in Letters
    PROVE  /\ Marker(kind) \o s \in Seq(Symbols)
           /\ Count(Marker(kind) \o s, b) = Count(s, b)
<1>1. /\ Marker(kind) \in Seq(Symbols)
      /\ \A i \in 1..Len(Marker(kind)) : Marker(kind)[i] \in Signs
  BY MarkersAreSigns
<1>2. \A i \in 1..Len(Marker(kind)) : Marker(kind)[i] # b
  BY <1>1, LettersAreNoSigns
<1>3. Count(Marker(kind), b) = 0
  BY <1>1, <1>2, CountNone
<1>4. Count(s, b) \in Nat
  BY CountIsNatural
<1>5. Count(Marker(kind) \o s, b) = Count(Marker(kind), b) + Count(s, b)
  BY <1>1, CountConcat
<1>6. Marker(kind) \o s \in Seq(Symbols)
  BY <1>1, ConcatProperties
<1>7. QED
  BY <1>3, <1>4, <1>5, <1>6

LEMMA StayAdvances ==
    ASSUME NEW f, IsFilter(f), f.buf # <<>>, f.inline # "none"
    PROVE  Advances(f, Stay(f, Unread(f)))
<1> DEFINE s == Unread(f)
           g == [f EXCEPT !.buf = <<>>, !.acc = s]
<1>1. s \in Seq(Symbols) /\ Len(s) \in Nat /\ f \in Filters /\ 0 \in 0..Len(s)
  <2>1. s \in Seq(Symbols) /\ f \in Filters
    BY FilterParts
  <2>2. Len(s) \in Nat
    BY <2>1, LenProperties
  <2>3. 0 \in 0..Len(s)
    BY <2>2
  <2>4. QED
    BY <2>1, <2>2, <2>3
<1>2. ~f.fence /\ ~f.sol
  BY DEF IsFilter
<1>. HIDE DEF s
<1>3. /\ g \in Filters
      /\ g.buf = <<>> /\ g.acc = s /\ g.inline = f.inline /\ g.fence = f.fence /\ g.sol = f.sol
  <2>1. <<>> \in Seq(Symbols)
    OBVIOUS
  <2>2. QED
    BY <1>1, <2>1 DEF Filters
<1>. HIDE DEF g
<1>4. IsFilter(g)
  BY <1>2, <1>3 DEF IsFilter
<1>5. Unread(g) = s
  BY <1>1, <1>3, ConcatEmptySeq DEF Unread
<1>6. Skip(s, 0) = s
  BY <1>1, SkipEnds
<1>7. Take(s, 0) = <<>>
  <2>1. 1 \in Int /\ 0 \in Int /\ 0 < 1
    OBVIOUS
  <2>2. QED
    BY <2>1, SubSeqEmpty DEF Take
<1>8. Weight(g) < Weight(f)
  BY <1>1, <1>2, <1>3, <1>5 DEF Weight, s
<1>9. <<>> \in Seq(Symbols)
  OBVIOUS
<1>10. \A b \in Letters : Count(<<>>, b) <= Count(<<>>, b)
  BY CountOfNothing
<1>11. Reads(f, [f |-> g, out |-> <<>>, panics |-> FALSE], 0)
  BY <1>1, <1>2, <1>3, <1>4, <1>5, <1>6, <1>7, <1>9, <1>10 DEF Reads, Discards, s
<1>12. QED
  BY <1>1, <1>8, <1>11 DEF Advances, Stay, Step, s, g

\* The inline ends after n bytes.
LEMMA CloseAdvances ==
    ASSUME NEW f, IsFilter(f), f.buf # <<>>, f.inline # "none",
           NEW n \in 1..Len(Unread(f)), NEW out \in Seq(Symbols), NEW sol \in BOOLEAN,
           NEW panics \in BOOLEAN,
           sol /\ n < Len(Unread(f)) => Unread(f)[n] = NL,
           \A b \in Letters :
              /\ Count(out, b) <= Count(Take(Unread(f), n), b)
              /\ \/ panics \/ f.inline = "Image"
                 \/ Count(out, b) = Count(Take(Unread(f), n), b),
           panics => /\ f.inline = "Table" /\ Unread(f)[n] = NL
                     /\ \A i \in 1..(n - 1) : Unread(f)[i] \in Blanks
    PROVE  Advances(f, [f |-> Closed(f, Skip(Unread(f), n), sol), out |-> out, panics |-> panics])
<1> DEFINE s == Unread(f)
           g == [f EXCEPT !.buf = Skip(s, n), !.sol = sol, !.inline = "none", !.acc = <<>>]
<1>1. s \in Seq(Symbols) /\ Len(s) \in Nat /\ f \in Filters
  BY FilterParts, LenProperties
<1>2. ~f.fence
  BY DEF IsFilter
<1>. HIDE DEF s
<1>3. n \in 0..Len(s) /\ n > 0
  BY <1>1 DEF s
<1>4. Skip(s, n) \in Seq(Symbols)
  BY <1>1, <1>3, SkipIsRest
<1>5. /\ g \in Filters
      /\ g.buf = Skip(s, n) /\ g.acc = <<>> /\ g.inline = "none" /\ g.fence = FALSE
      /\ g.sol = sol
  <2>1. <<>> \in Seq(Symbols)
    OBVIOUS
  <2>2. QED
    BY <1>1, <1>2, <1>4, <2>1 DEF Filters
<1>6. Closed(f, Skip(s, n), sol) = g
  BY DEF Closed
<1>. HIDE DEF g
<1>7. IsFilter(g) /\ Unread(g) = Skip(s, n) /\ Weight(g) < Weight(f)
  BY <1>3, <1>5, AfterReading DEF s
<1>8. panics => /\ f.inline = "Table"
                /\ \E m \in 0..Len(s) :
                      (\A i \in 1..m : s[i] \in Blanks) /\ (m = Len(s) \/ s[m + 1] = NL)
  <2>1. n - 1 \in 0..Len(s) /\ n - 1 + 1 = n
    BY <1>1, <1>3
  <2>2. QED
    BY <2>1 DEF s
<1>9. Reads(f, [f |-> g, out |-> out, panics |-> panics], n)
  BY <1>2, <1>3, <1>5, <1>7, <1>8 DEF Reads, Discards, s
<1>10. QED
  BY <1>3, <1>6, <1>7, <1>9 DEF Advances, s

\* What is within a pair of marks is put out.
LEMMA CloseAtMarkAdvances ==
    ASSUME NEW f, IsFilter(f), f.buf # <<>>, f.inline # "none",
           NEW n \in 1..Len(Unread(f)), NEW m \in 0..n,
           \A i \in (m + 1)..n : Unread(f)[i] \in Signs
    PROVE  Advances(f, Close(f, Take(Unread(f), m), Skip(Unread(f), n), f.sol))
<1> DEFINE s == Unread(f)
<1>1. s \in Seq(Symbols) /\ Len(s) \in Nat /\ f.sol = FALSE
  BY FilterParts, LenProperties DEF IsFilter, Filters
<1>. HIDE DEF s
<1>2. n \in 0..Len(s) /\ m \in 0..Len(s)
  BY <1>1 DEF s
<1>3. Take(s, m) \in Seq(Symbols)
  BY <1>1, <1>2, TakeIsHead
<1>4. ASSUME NEW b \in Letters
      PROVE  /\ Count(Take(s, m), b) <= Count(Take(s, n), b)
             /\ Count(Take(s, m), b) = Count(Take(s, n), b)
  <2>1. \A i \in (m + 1)..n : s[i] # b
    BY LettersAreNoSigns DEF s
  <2>2. Count(Take(s, m), b) \in Nat
    BY <1>1, <1>2, CountParts
  <2>3. Count(Take(s, m), b) = Count(Take(s, n), b)
    BY <1>1, <1>2, <2>1, CountMore
  <2>4. QED
    BY <2>2, <2>3
<1>5. Advances(f, [f |-> Closed(f, Skip(s, n), f.sol), out |-> Take(s, m), panics |-> FALSE])
  BY <1>1, <1>3, <1>4, CloseAdvances DEF s
<1>6. QED
  BY <1>5 DEF Close, Step, s

\* A mark that stands for itself is put out with what follows it.
LEMMA CloseWithMarkAdvances ==
    ASSUME NEW f, IsFilter(f), f.buf # <<>>, f.inline \in Inlines \ {"Table"},
           NEW n \in 1..Len(Unread(f)), NEW sol \in BOOLEAN, sol => Unread(f)[n] = NL
    PROVE  Advances(f, Close(f, Marker(f.inline) \o Take(Unread(f), n), Skip(Unread(f), n), sol))
<1> DEFINE s == Unread(f)
           out == Marker(f.inline) \o Take(s, n)
<1>1. s \in Seq(Symbols) /\ Len(s) \in Nat
  BY FilterParts, LenProperties
<1>. HIDE DEF s
<1>2. n \in 0..Len(s) /\ f.inline # "none"
  BY <1>1 DEF s, Inlines
<1>3. Take(s, n) \in Seq(Symbols)
  BY <1>1, <1>2, TakeIsHead
<1>4. out \in Seq(Symbols)
  BY <1>3, MarkersAreSigns, ConcatProperties
<1>5. ASSUME NEW b \in Letters
      PROVE  Count(out, b) <= Count(Take(s, n), b) /\ Count(out, b) = Count(Take(s, n), b)
  <2>1. Count(Take(s, n), b) \in Nat
    BY <1>1, <1>2, CountParts
  <2>2. Count(out, b) = Count(Take(s, n), b)
    BY <1>3, MarkIsNotCounted
  <2>3. QED
    BY <2>1, <2>2
<1>. HIDE DEF out
<1>6. Advances(f, [f |-> Closed(f, Skip(s, n), sol), out |-> out, panics |-> FALSE])
  BY <1>2, <1>4, <1>5, CloseAdvances DEF s
<1>7. QED
  BY <1>6 DEF Close, Step, s, out

LEMMA CloseSimpleAdvances ==
    ASSUME NEW f, IsFilter(f), f.buf # <<>>, f.inline \in Inlines \ {"Table"},
           Find(Marker(f.inline), Unread(f)) # 0
    PROVE  Advances(f, CloseSimple(f, Unread(f)))
<1> DEFINE s == Unread(f)
           mark == Marker(f.inline)
           k == Len(mark)
           i == Find(mark, s)
           n == i - 1 + k
<1>1. s \in Seq(Symbols) /\ Len(s) \in Nat /\ f.inline # "none"
  BY FilterParts, LenProperties DEF Inlines
<1>2. k \in Nat \ {0} /\ \A j \in 1..k : mark[j] \in Signs
  BY MarkersAreSigns
<1>3. i \in 1..(Len(s) + 1 - k) /\ SubSeq(s, i, i + k - 1) = mark
  BY <1>1, <1>2, FindMatches
<1>4. CloseSimple(f, s) = Close(f, Take(s, i - 1), Skip(s, n), f.sol)
  BY DEF CloseSimple
<1>. HIDE DEF s, i, k
<1>5. n \in 1..Len(s) /\ i - 1 \in 0..n /\ i \in 1..n /\ n = i + k - 1
  BY <1>1, <1>2, <1>3
<1>6. ASSUME NEW j \in (i - 1 + 1)..n PROVE s[j] \in Signs
  <2>1. \A h \in 1..(n - i + 1) : SubSeq(s, i, n)[h] = s[i + h - 1]
    <3>1. i \in 1..(Len(s) + 1) /\ n \in (i - 1)..Len(s)
      BY <1>1, <1>5
    <3>2. QED
      BY <1>1, <3>1, SubSeqProperties
  <2>2. j - i + 1 \in 1..(n - i + 1) /\ j - i + 1 \in 1..k /\ i + (j - i + 1) - 1 = j
    <3>1. i \in Nat /\ k \in Nat /\ n = i + k - 1
      BY <1>1, <1>2, <1>3, <1>5
    <3>. HIDE DEF n
    <3>2. j \in Nat /\ i <= j /\ j <= n
      BY <3>1
    <3>3. QED
      BY <3>1, <3>2
  <2>3. QED
    BY <1>2, <1>3, <1>5, <2>1, <2>2
<1>. HIDE DEF n
<1>7. QED
  BY <1>1, <1>4, <1>5, <1>6, CloseAtMarkAdvances DEF s

LEMMA CloseAtLineAdvances ==
    ASSUME NEW f, IsFilter(f), f.buf # <<>>, f.inline \in Inlines \ {"Table"},
           NEW n \in 1..Len(Unread(f)), Unread(f)[n] = NL
    PROVE  Advances(f, CloseAtLine(f, Unread(f), n))
<1>1. TRUE \in BOOLEAN
  OBVIOUS
<1>2. QED
  BY <1>1, CloseWithMarkAdvances DEF CloseAtLine

LEMMA CloseEmAdvances ==
    ASSUME NEW f, IsFilter(f), f.buf # <<>>, f.inline \in {"Italic", "UItalic"}
    PROVE  Advances(f, CloseEm(f, Unread(f)))
<1> DEFINE s == Unread(f)
           mark == Marker(f.inline)[1]
           stops == {k \in DOMAIN s : s[k] = NL \/ (s[k] = mark /\ ~Doubled(s, k))}
           i == Scan(s, stops)
<1>1. /\ s \in Seq(Symbols) /\ Len(s) \in Nat /\ DOMAIN s = 1..Len(s)
      /\ f.inline # "none" /\ f.inline \in Inlines \ {"Table"}
  BY FilterParts, LenProperties DEF Inlines
<1>2. i \in 1..(Len(s) + 1) /\ (i <= Len(s) => s[i] = NL \/ s[i] = mark)
  <2>1. stops \in SUBSET (1..Len(s))
    BY <1>1
  <2>2. i \in 1..(Len(s) + 1) /\ (i <= Len(s) => i \in stops)
    BY <1>1, <2>1, ScanStops
  <2>3. QED
    BY <2>2
<1>3. mark \in Signs
  <2>1. Len(Marker(f.inline)) \in Nat \ {0}
    BY <1>1, MarkersAreSigns
  <2>2. 1 \in 1..Len(Marker(f.inline))
    BY <2>1
  <2>3. QED
    BY <1>1, <2>2, MarkersAreSigns
<1>4. CloseEm(f, s) = IF i > Len(s) THEN Stay(f, s)
                      ELSE IF s[i] = NL THEN CloseAtLine(f, s, i)
                      ELSE Close(f, Take(s, i - 1), Skip(s, i), f.sol)
  BY DEF CloseEm
<1>5. Advances(f, Stay(f, s))
  BY <1>1, StayAdvances
<1>. HIDE DEF s, i, mark, stops
<1>6. ASSUME i <= Len(s)
      PROVE  i \in 1..Len(s) /\ i - 1 \in 0..i /\ \A j \in (i - 1 + 1)..i : j = i
  BY <1>1, <1>2, <1>6
<1>7. ASSUME i <= Len(s), s[i] = NL PROVE Advances(f, CloseAtLine(f, s, i))
  BY <1>1, <1>6, <1>7, CloseAtLineAdvances DEF s
<1>8. ASSUME i <= Len(s), s[i] # NL PROVE Advances(f, Close(f, Take(s, i - 1), Skip(s, i), f.sol))
  <2>1. s[i] \in Signs
    BY <1>2, <1>3, <1>8
  <2>2. \A j \in (i - 1 + 1)..i : s[j] \in Signs
    BY <1>6, <1>8, <2>1
  <2>3. QED
    BY <1>1, <1>6, <1>8, <2>2, CloseAtMarkAdvances DEF s
<1>9. i > Len(s) \/ i <= Len(s)
  BY <1>1, <1>2
<1>10. QED
  BY <1>4, <1>5, <1>7, <1>8, <1>9 DEF s

LEMMA CloseImageAdvances ==
    ASSUME NEW f, IsFilter(f), f.buf # <<>>, f.inline = "Image"
    PROVE  Advances(f, CloseImage(f, Unread(f)))
<1> DEFINE s == Unread(f)
           alt == Find(<<"]">>, s)
           url == Find(<<")">>, Skip(s, alt + 1))
           n == alt + 1 + url
<1>1. /\ s \in Seq(Symbols) /\ Len(s) \in Nat /\ f.inline # "none" /\ f.inline # "Table"
      /\ f.inline \in Inlines \ {"Table"} /\ f.sol = FALSE
  BY FilterParts, LenProperties DEF Inlines, IsFilter, Filters
<1>2. alt \in 0..Len(s)
  BY <1>1, FindByte
<1>3. CloseImage(f, s) =
        IF alt = 0 \/ alt = Len(s) THEN Stay(f, s)
        ELSE IF s[alt + 1] # "("
        THEN Close(f, Marker("Image") \o Take(s, alt), Skip(s, alt), f.sol)
        ELSE IF url = 0 THEN Stay(f, s)
        ELSE Close(f, <<>>, Skip(s, n), f.sol)
  BY DEF CloseImage
<1>4. Advances(f, Stay(f, s))
  BY <1>1, StayAdvances
<1>. HIDE DEF s, alt, n, url
<1>5. ASSUME alt # 0, alt # Len(s)
      PROVE  Advances(f, Close(f, Marker("Image") \o Take(s, alt), Skip(s, alt), f.sol))
  <2>1. alt \in 1..Len(s)
    BY <1>1, <1>2, <1>5
  <2>2. FALSE \in BOOLEAN
    OBVIOUS
  <2>3. QED
    BY <1>1, <2>1, <2>2, CloseWithMarkAdvances DEF s
<1>6. ASSUME alt # 0, alt # Len(s), url # 0
      PROVE  Advances(f, Close(f, <<>>, Skip(s, n), f.sol))
  <2>1. alt + 1 \in 0..Len(s) /\ alt \in Nat
    BY <1>1, <1>2, <1>6
  <2>2. Skip(s, alt + 1) \in Seq(Symbols) /\ Len(Skip(s, alt + 1)) = Len(s) - (alt + 1)
    BY <1>1, <2>1, SkipIsRest
  <2>3. url \in 0..(Len(s) - (alt + 1))
    BY <2>2, FindByte DEF url
  <2>4. n \in 1..Len(s) /\ n \in 0..Len(s)
    BY <1>1, <1>6, <2>1, <2>3 DEF n
  <2>5. \A b \in Letters : Count(<<>>, b) <= Count(Take(s, n), b)
    BY <1>1, <2>4, NothingCounted
  <2>6. <<>> \in Seq(Symbols) /\ FALSE \in BOOLEAN
    OBVIOUS
  <2>7. Advances(f, [f |-> Closed(f, Skip(s, n), f.sol), out |-> <<>>, panics |-> FALSE])
    BY <1>1, <2>4, <2>5, <2>6, CloseAdvances DEF s
  <2>8. QED
    BY <2>7 DEF Close, Step
<1>7. QED
  BY <1>3, <1>4, <1>5, <1>6 DEF s

LEMMA CloseTableAdvances ==
    ASSUME NEW f, IsFilter(f), f.buf # <<>>, f.inline = "Table"
    PROVE  Advances(f, CloseTable(f, Unread(f)))
<1> DEFINE s == Unread(f)
           nl == Find(<<NL>>, s)
           line == Take(s, nl - 1)
           row == ExtractTableRow(line)
           out == IF row = <<>> THEN <<>> ELSE row \o <<NL>>
           g == Closed(f, Skip(s, nl), TRUE)
<1>1. s \in Seq(Symbols) /\ Len(s) \in Nat /\ f.inline # "none" /\ f.inline # "Image"
  BY FilterParts, LenProperties
<1>2. nl \in 0..Len(s) /\ (nl # 0 => s[nl] = NL)
  BY <1>1, FindByte
<1>3. CloseTable(f, s) = IF nl = 0 THEN Stay(f, s)
                         ELSE IF Overruns(line) THEN Panic(g) ELSE Step(g, out)
  BY DEF CloseTable, PutRow
<1>4. Advances(f, Stay(f, s))
  BY <1>1, StayAdvances
<1>. HIDE DEF s, nl
<1>5. ASSUME nl # 0 PROVE Advances(f, IF Overruns(line) THEN Panic(g) ELSE Step(g, out))
  <2>1. nl \in 1..Len(s) /\ nl \in 0..Len(s) /\ nl - 1 \in 0..Len(s) /\ nl - 1 \in 0..nl
        /\ s[nl] = NL /\ \A i \in (nl - 1 + 1)..nl : i = nl
    BY <1>1, <1>2, <1>5
  <2>2. /\ line \in Seq(Symbols) /\ Len(line) = nl - 1
        /\ \A i \in 1..(nl - 1) : line[i] = s[i]
    BY <1>1, <2>1, TakeIsHead
  <2>3. NL \in Signs
    BY DEF Signs
  <2>4. ASSUME NEW b \in Letters
        PROVE  Count(line, b) = Count(Take(s, nl), b) /\ Count(line, b) \in Nat
    <3>1. \A i \in (nl - 1 + 1)..nl : s[i] # b
      BY <2>1, <2>3, LettersAreNoSigns
    <3>2. QED
      BY <1>1, <2>1, <3>1, CountMore, CountParts
  <2>5. row \in Seq(Symbols) /\ \A b \in Letters : Count(row, b) = Count(line, b)
    BY <2>2, RowKeepsLetters
  <2>. HIDE DEF line, row
  <2>6. <<NL>> \in Seq(Symbols)
    BY <2>3 DEF Symbols
  <2>7. out \in Seq(Symbols)
    BY <2>5, <2>6, ConcatProperties
  <2>8. ASSUME NEW b \in Letters PROVE Count(out, b) = Count(Take(s, nl), b)
    <3>1. CASE row = <<>>
      BY <2>4, <2>5, <3>1
    <3>2. CASE row # <<>>
      <4>1. Count(<<NL>>, b) = 0
        <5>1. b # NL
          BY <2>3, LettersAreNoSigns
        <5>2. \A i \in 1..Len(<<NL>>) : <<NL>>[i] # b
          <6>1. Len(<<NL>>) = 1 /\ <<NL>>[1] = NL /\ \A i \in 1..1 : i = 1
            OBVIOUS
          <6>2. QED
            BY <5>1, <6>1
        <5>3. QED
          BY <2>6, <5>2, CountNone
      <4>2. Count(out, b) = Count(row, b) + Count(<<NL>>, b)
        <5>1. out = row \o <<NL>>
          BY <3>2
        <5>2. QED
          <6> DEFINE end == <<NL>>
          <6>1. end \in Seq(Symbols) /\ out = row \o end
            BY <2>6, <5>1
          <6>. HIDE DEF end, out
          <6>2. Count(out, b) = Count(row, b) + Count(end, b)
            BY <2>5, <6>1, CountConcat
          <6>3. QED
            BY <6>2 DEF end
      <4>3. QED
        BY <2>4, <2>5, <4>1, <4>2
    <3>3. QED
      BY <3>1, <3>2
  <2>9. <<>> \in Seq(Symbols) /\ FALSE \in BOOLEAN /\ TRUE \in BOOLEAN
    OBVIOUS
  <2>. HIDE DEF out
  <2>10. CASE Overruns(line)
    <3>1. \A i \in 1..(nl - 1) : s[i] \in Blanks
      BY <2>2, <2>10, OverrunsAreBlank
    <3>2. \A b \in Letters : Count(<<>>, b) <= Count(Take(s, nl), b)
      BY <1>1, <2>1, NothingCounted
    <3>3. Advances(f, [f |-> g, out |-> <<>>, panics |-> TRUE])
      BY <1>1, <2>1, <2>9, <3>1, <3>2, CloseAdvances DEF s
    <3>4. QED
      BY <2>10, <3>3 DEF Panic
  <2>11. CASE ~Overruns(line)
    <3>1. \A b \in Letters : /\ Count(out, b) <= Count(Take(s, nl), b)
                             /\ Count(out, b) = Count(Take(s, nl), b)
      BY <2>4, <2>8
    <3>2. Advances(f, [f |-> g, out |-> out, panics |-> FALSE])
      BY <1>1, <2>1, <2>7, <2>9, <3>1, CloseAdvances DEF s
    <3>3. QED
      BY <2>11, <3>2 DEF Step
  <2>12. QED
    BY <2>10, <2>11
<1>6. QED
  BY <1>3, <1>4, <1>5 DEF s

\* Within an inline every pass reads, or takes buf to what has been read of it.
LEMMA PumpInlineAdvances ==
    ASSUME NEW f, IsFilter(f), f.buf # <<>>, f.inline # "none"
    PROVE  Advances(f, PumpInline(f))
<1> DEFINE s == Unread(f)
           nl == Find(<<NL>>, s)
<1>1. f.inline \in Inlines /\ s \in Seq(Symbols) /\ Len(s) \in Nat
  BY FilterParts, LenProperties
<1>2. PumpInline(f) =
        CASE f.inline = "Table" -> CloseTable(f, s)
          [] f.inline = "Image" -> CloseImage(f, s)
          [] f.inline \in {"Italic", "UItalic"} -> CloseEm(f, s)
          [] OTHER ->
               IF Find(Marker(f.inline), s) # 0 THEN CloseSimple(f, s)
               ELSE IF f.inline = "Code" /\ nl # 0 THEN CloseAtLine(f, s, nl)
               ELSE Stay(f, s)
  BY DEF PumpInline, Unread
<1>3. nl \in 0..Len(s) /\ (nl # 0 => s[nl] = NL)
  BY <1>1, FindByte
<1>4. f.inline = "Table" => Advances(f, CloseTable(f, s))
  BY CloseTableAdvances
<1>5. f.inline = "Image" => Advances(f, CloseImage(f, s))
  BY CloseImageAdvances
<1>6. f.inline \in {"Italic", "UItalic"} => Advances(f, CloseEm(f, s))
  BY CloseEmAdvances
<1>7. Advances(f, Stay(f, s))
  BY StayAdvances
<1>8. ASSUME f.inline \in Inlines \ {"Table"}, Find(Marker(f.inline), s) # 0
      PROVE  Advances(f, CloseSimple(f, s))
  BY <1>8, CloseSimpleAdvances
<1>9. ASSUME f.inline = "Code", nl # 0 PROVE Advances(f, CloseAtLine(f, s, nl))
  <2>1. f.inline \in Inlines \ {"Table"}
    BY <1>1, <1>9
  <2>. HIDE DEF s, nl
  <2>2. nl \in 1..Len(s) /\ s[nl] = NL
    BY <1>1, <1>3, <1>9
  <2>3. QED
    BY <2>1, <2>2, CloseAtLineAdvances DEF s
<1>. HIDE DEF s, nl
<1>10. QED
  BY <1>1, <1>2, <1>4, <1>5, <1>6, <1>7, <1>8, <1>9

-----------------------------------------------------------------------------
(* The steps of the filter *)

\* With all of the text at hand, or within an inline, a pass goes forward.
LEMMA PumpAdvances ==
    ASSUME NEW f, IsFilter(f), f.buf # <<>>, NEW eof \in BOOLEAN
    PROVE  AdvancesOrWaits(f, PumpStep(f, eof), eof)
<1>1. CASE f.fence
  BY <1>1, PumpFenceAdvances DEF PumpStep
<1>2. CASE ~f.fence /\ f.inline # "none"
  <2>1. PumpStep(f, eof) = PumpInline(f)
    BY <1>2 DEF PumpStep
  <2>2. Advances(f, PumpInline(f))
    BY <1>2, PumpInlineAdvances
  <2>3. QED
    BY <2>1, <2>2 DEF AdvancesOrWaits
<1>3. CASE ~f.fence /\ f.inline = "none" /\ f.sol
  BY <1>3, PumpStartAdvances DEF PumpStep
<1>4. CASE ~f.fence /\ f.inline = "none" /\ ~f.sol
  BY <1>4, PumpBodyAdvances DEF PumpStep
<1>5. QED
  BY <1>1, <1>2, <1>3, <1>4

\* A pass that changes the filter goes forward; the flush ends when nothing is left.
LEMMA MovesAdvance ==
    ASSUME IsFilter(filter)
    PROVE  /\ Moves => Advances(filter, Pumped)
           /\ ~Moves /\ stage = "flush" => filter.buf = <<>>
<1>1. ASSUME filter.buf # <<>> PROVE AdvancesOrWaits(filter, Pumped, stage = "flush")
  <2>1. (stage = "flush") \in BOOLEAN
    OBVIOUS
  <2>2. QED
    BY <1>1, <2>1, PumpAdvances DEF Pumped
<1>2. Moves => Advances(filter, Pumped)
  BY <1>1 DEF Moves, AdvancesOrWaits, Wait, Step
<1>3. ASSUME ~Moves, stage = "flush", filter.buf # <<>> PROVE FALSE
  <2>1. Advances(filter, Pumped)
    BY <1>1, <1>3 DEF AdvancesOrWaits
  <2>2. Pumped.f = filter
    BY <1>3 DEF Moves
  <2>3. Weight(filter) < Weight(filter) /\ Weight(filter) \in Nat
    BY <2>1, <2>2, FilterParts DEF Advances
  <2>4. QED
    BY <2>3
<1>4. QED
  BY <1>2, <1>3

\* What is left of an inline is put out at the end.
LEMMA EndReads ==
    ASSUME NEW f, IsFilter(f), f.buf = <<>>
    PROVE  /\ Reads(f, EndInline(f), Len(Unread(f)))
           /\ Weight(EndInline(f).f) <= Weight(f)
<1> DEFINE s == f.acc
           n == Len(s)
           g == [f EXCEPT !.inline = "none", !.acc = <<>>]
           row == ExtractTableRow(s)
           out == IF row = <<>> THEN <<>> ELSE row \o <<>>
           text == Marker(f.inline) \o s
<1>1. /\ s \in Seq(Symbols) /\ n \in Nat /\ f \in Filters /\ Unread(f) = s
      /\ f.inline \in Inlines \cup {"none"}
  <2>1. /\ s \in Seq(Symbols) /\ n \in Nat /\ f \in Filters
        /\ f.inline \in Inlines \cup {"none"}
    BY FilterParts
  <2>2. QED
    BY <2>1, ConcatEmptySeq DEF Unread
<1>2. /\ g \in Filters
      /\ g.buf = <<>> /\ g.acc = <<>> /\ g.inline = "none" /\ g.fence = f.fence /\ g.sol = f.sol
  <2>1. <<>> \in Seq(Symbols)
    OBVIOUS
  <2>2. QED
    BY <1>1, <2>1 DEF Filters
<1>3. EndInline(f) = IF f.inline = "Table"
                     THEN IF Overruns(s) THEN Panic(g) ELSE Step(g, out)
                     ELSE Step(g, text)
  BY DEF EndInline, PutRow
<1>. HIDE DEF g
<1>4. IsFilter(g)
  BY <1>2 DEF IsFilter
<1>5. Unread(g) = <<>>
  BY <1>2, ConcatEmptySeq DEF Unread
<1>6. Skip(s, n) = <<>> /\ Take(s, n) = s /\ n \in 0..n
  <2>1. n \in 0..n
    BY <1>1
  <2>2. QED
    BY <1>1, <2>1, SkipEnds, SubSeqFull DEF Take
<1>. HIDE DEF s
<1>7. Weight(g) <= Weight(f)
  <2>1. Len(<<>>) = 0
    OBVIOUS
  <2>. HIDE DEF n
  <2>2. Len(Unread(f)) = n /\ Len(Unread(g)) = 0
    BY <1>1, <1>5, <2>1 DEF n
  <2>3. QED
    BY <1>1, <1>2, <2>2 DEF Weight
<1>8. \A b \in Letters : Count(s, b) \in Nat /\ Count(<<>>, b) = 0
  BY <1>1, CountIsNatural, CountOfNothing
<1>9. ASSUME NEW o \in Seq(Symbols), NEW panics \in BOOLEAN,
             \A b \in Letters : Count(o, b) <= Count(s, b) /\ (panics \/ Count(o, b) = Count(s, b)),
             panics => f.inline = "Table" /\ \A i \in 1..n : s[i] \in Blanks
      PROVE  Reads(f, [f |-> g, out |-> o, panics |-> panics], Len(Unread(f)))
  <2>. HIDE DEF n
  <2>1. n = Len(Unread(f)) /\ ~(n < n)
    BY <1>1 DEF n
  <2>2. panics => /\ f.inline = "Table"
                  /\ \E m \in 0..n : (\A i \in 1..m : s[i] \in Blanks) /\ (m = n \/ s[m + 1] = NL)
    BY <1>6, <1>9
  <2>3. \A b \in Letters : /\ Count(o, b) <= Count(Take(s, n), b)
                           /\ (panics \/ Count(o, b) = Count(Take(s, n), b))
    BY <1>6, <1>9
  <2>4. n \in 0..Len(s) /\ Len(s) = n /\ Unread(g) = Skip(s, n)
    BY <1>1, <1>5, <1>6, <2>1
  <2>5. g.inline # "Table" /\ (Discards(g) => Discards(f))
    BY <1>2 DEF Discards
  <2>6. Reads(f, [f |-> g, out |-> o, panics |-> panics], n)
    BY <1>1, <1>4, <2>1, <2>2, <2>3, <2>4, <2>5 DEF Reads
  <2>7. QED
    BY <2>1, <2>6
<1>10. CASE f.inline = "Table" /\ Overruns(s)
  <2>1. \A i \in 1..n : s[i] \in Blanks
    BY <1>1, <1>10, OverrunsAreBlank
  <2>2. \A b \in Letters : Count(<<>>, b) <= Count(s, b)
    BY <1>8
  <2>3. <<>> \in Seq(Symbols) /\ TRUE \in BOOLEAN
    OBVIOUS
  <2>4. Reads(f, [f |-> g, out |-> <<>>, panics |-> TRUE], Len(Unread(f)))
    BY <1>9, <1>10, <2>1, <2>2, <2>3
  <2>5. EndInline(f) = [f |-> g, out |-> <<>>, panics |-> TRUE]
    BY <1>3, <1>10 DEF Panic
  <2>6. QED
    BY <1>7, <2>4, <2>5
<1>11. CASE f.inline = "Table" /\ ~Overruns(s)
  <2>1. row \in Seq(Symbols) /\ \A b \in Letters : Count(row, b) = Count(s, b)
    BY <1>1, RowKeepsLetters
  <2>2. out = row
    BY <2>1, ConcatEmptySeq
  <2>. HIDE DEF row, out
  <2>3. \A b \in Letters : Count(out, b) <= Count(s, b) /\ Count(out, b) = Count(s, b)
    BY <1>8, <2>1, <2>2
  <2>4. FALSE \in BOOLEAN /\ out \in Seq(Symbols)
    BY <2>1, <2>2
  <2>5. Reads(f, [f |-> g, out |-> out, panics |-> FALSE], Len(Unread(f)))
    BY <1>9, <2>3, <2>4
  <2>6. EndInline(f) = [f |-> g, out |-> out, panics |-> FALSE]
    BY <1>3, <1>11 DEF Step
  <2>7. QED
    BY <1>7, <2>5, <2>6
<1>12. CASE f.inline # "Table"
  <2>1. text \in Seq(Symbols) /\ \A b \in Letters : Count(text, b) = Count(s, b)
    <3>1. CASE f.inline = "none"
      <4>1. Marker(f.inline) = <<>>
        BY <3>1 DEF Marker
      <4>2. text = s
        BY <1>1, <4>1, ConcatEmptySeq
      <4>3. QED
        BY <1>1, <4>2
    <3>2. CASE f.inline # "none"
      <4>1. f.inline \in Inlines \ {"Table"}
        BY <1>1, <1>12, <3>2
      <4>2. text \in Seq(Symbols)
        BY <1>1, <4>1, MarkersAreSigns, ConcatProperties
      <4>3. ASSUME NEW b \in Letters PROVE Count(text, b) = Count(s, b)
        BY <1>1, <4>1, MarkIsNotCounted
      <4>4. QED
        BY <4>2, <4>3
    <3>3. QED
      BY <3>1, <3>2
  <2>. HIDE DEF text
  <2>2. \A b \in Letters : Count(text, b) <= Count(s, b) /\ Count(text, b) = Count(s, b)
    BY <1>8, <2>1
  <2>3. FALSE \in BOOLEAN
    OBVIOUS
  <2>4. Reads(f, [f |-> g, out |-> text, panics |-> FALSE], Len(Unread(f)))
    BY <1>9, <2>1, <2>2, <2>3
  <2>5. EndInline(f) = [f |-> g, out |-> text, panics |-> FALSE]
    BY <1>3, <1>12 DEF Step
  <2>6. QED
    BY <1>7, <2>4, <2>5
<1>13. QED
  BY <1>10, <1>11, <1>12

-----------------------------------------------------------------------------
(* Texts that grow *)

\* A text and what comes after it.
LEMMA Grown ==
    ASSUME NEW S, NEW s \in Seq(S), NEW e \in Seq(S)
    PROVE  /\ s \o e \in Seq(S) /\ Len(s \o e) = Len(s) + Len(e)
           /\ \A i \in 1..Len(s) : (s \o e)[i] = s[i]
           /\ \A i \in 1..Len(e) : (s \o e)[Len(s) + i] = e[i]
           /\ \A n \in 0..Len(s) : /\ Take(s \o e, n) = Take(s, n)
                                   /\ Skip(s \o e, n) = Skip(s, n) \o e
<1> DEFINE w == s \o e
<1>1. /\ Len(s) \in Nat /\ Len(e) \in Nat
      /\ w \in Seq(S) /\ Len(w) = Len(s) + Len(e)
      /\ \A i \in 1..(Len(s) + Len(e)) : w[i] = IF i <= Len(s) THEN s[i] ELSE e[i - Len(s)]
  BY LenProperties, ConcatProperties
<1>. HIDE DEF w
<1>2. \A i \in 1..Len(s) : w[i] = s[i]
  BY <1>1
<1>3. ASSUME NEW i \in 1..Len(e) PROVE w[Len(s) + i] = e[i]
  <2>1. /\ Len(s) + i \in 1..(Len(s) + Len(e)) /\ ~(Len(s) + i <= Len(s))
        /\ Len(s) + i - Len(s) = i
    BY <1>1
  <2>2. QED
    BY <1>1, <2>1
<1>4. ASSUME NEW n \in 0..Len(s) PROVE Take(w, n) = Take(s, n)
  <2>1. n \in 0..Len(w)
    BY <1>1
  <2>2. /\ Take(w, n) \in Seq(S) /\ Len(Take(w, n)) = n /\ \A i \in 1..n : Take(w, n)[i] = w[i]
        /\ Take(s, n) \in Seq(S) /\ Len(Take(s, n)) = n /\ \A i \in 1..n : Take(s, n)[i] = s[i]
    BY <1>1, <2>1, TakeIsHead
  <2>3. ASSUME NEW i \in 1..n PROVE Take(w, n)[i] = Take(s, n)[i]
    <3>1. i \in 1..Len(s)
      BY <1>1
    <3>2. QED
      BY <1>2, <2>2, <3>1
  <2>4. QED
    BY <2>2, <2>3, SeqEqual
<1>5. ASSUME NEW n \in 0..Len(s) PROVE Skip(w, n) = Skip(s, n) \o e
  <2> DEFINE t == Skip(s, n)
             u == Skip(w, n)
  <2>1. n \in 0..Len(w)
    BY <1>1
  <2>2. /\ u \in Seq(S) /\ Len(u) = Len(w) - n /\ \A i \in 1..(Len(w) - n) : u[i] = w[n + i]
        /\ t \in Seq(S) /\ Len(t) = Len(s) - n /\ \A i \in 1..(Len(s) - n) : t[i] = s[n + i]
    BY <1>1, <2>1, SkipIsRest, ZenonT(40)
  <2>. HIDE DEF t, u
  <2>3. /\ t \o e \in Seq(S) /\ Len(t \o e) = Len(t) + Len(e)
        /\ \A i \in 1..(Len(t) + Len(e)) : (t \o e)[i] = IF i <= Len(t) THEN t[i] ELSE e[i - Len(t)]
    BY <2>2, ConcatProperties
  <2>4. Len(u) = Len(t \o e)
    BY <1>1, <2>2, <2>3
  <2>5. ASSUME NEW i \in 1..Len(u) PROVE u[i] = (t \o e)[i]
    <3>1. /\ i \in 1..(Len(w) - n) /\ i \in 1..(Len(t) + Len(e)) /\ n + i \in 1..(Len(s) + Len(e))
          /\ i \in Nat /\ n \in Nat
      BY <1>1, <2>2
    <3>2. CASE i <= Len(t)
      <4>1. i \in 1..(Len(s) - n) /\ n + i <= Len(s)
        BY <1>1, <2>2, <3>1, <3>2
      <4>2. QED
        BY <1>1, <2>2, <2>3, <3>1, <3>2, <4>1
    <3>3. CASE ~(i <= Len(t))
      <4>1. ~(n + i <= Len(s)) /\ n + i - Len(s) = i - Len(t)
        BY <1>1, <2>2, <3>1, <3>3
      <4>2. QED
        BY <1>1, <2>2, <2>3, <3>1, <3>3, <4>1, SMTT(40)
    <3>4. QED
      BY <3>2, <3>3
  <2>6. u = t \o e
    BY <2>2, <2>3, <2>4, <2>5, SeqEqual
  <2>7. QED
    BY <2>6 DEF t, u
<1>6. QED
  BY <1>1, <1>2, <1>3, <1>4, <1>5 DEF w

LEMMA SkipOfConcat ==
    ASSUME NEW S, NEW s \in Seq(S), NEW e \in Seq(S), NEW n \in 0..Len(s)
    PROVE  Skip(s \o e, n) = Skip(s, n) \o e
BY Grown

\* A part of a text is the same in the text that has grown.
LEMMA PartOfGrown ==
    ASSUME NEW S, NEW s \in Seq(S), NEW e \in Seq(S), NEW m \in 1..Len(s), NEW n \in 0..Len(s)
    PROVE  SubSeq(s \o e, m, n) = SubSeq(s, m, n)
<1> DEFINE w == s \o e
           t == SubSeq(s, m, n)
           u == SubSeq(w, m, n)
<1>1. /\ Len(s) \in Nat /\ Len(e) \in Nat /\ w \in Seq(S) /\ Len(w) = Len(s) + Len(e)
      /\ \A i \in 1..Len(s) : w[i] = s[i]
  BY Grown, LenProperties
<1>. HIDE DEF w
<1>2. m \in Int /\ n \in Int /\ \A i \in m..n : s[i] \in S /\ w[i] \in S
  BY <1>1, ElementOfSeq
<1>3. /\ t \in Seq(S) /\ Len(t) = (IF m <= n THEN n - m + 1 ELSE 0)
      /\ \A i \in 1..(n - m + 1) : t[i] = s[m + i - 1]
      /\ u \in Seq(S) /\ Len(u) = (IF m <= n THEN n - m + 1 ELSE 0)
      /\ \A i \in 1..(n - m + 1) : u[i] = w[m + i - 1]
  BY <1>2, SubSeqProperties
<1>. HIDE DEF t, u
<1>4. ASSUME NEW i \in 1..Len(t) PROVE t[i] = u[i]
  <2>1. i \in 1..(n - m + 1) /\ m + i - 1 \in 1..Len(s)
    BY <1>1, <1>2, <1>3
  <2>2. QED
    BY <1>1, <1>3, <2>1
<1>5. t = u
  BY <1>3, <1>4, SeqEqual
<1>6. QED
  BY <1>5 DEF t, u, w

\* What has been found is found, there, in the text that has grown.
LEMMA FoundInGrown ==
    ASSUME NEW S, NEW s \in Seq(S), NEW e \in Seq(S), NEW p, Len(p) \in Nat \ {0}, Find(p, s) # 0
    PROVE  Find(p, s \o e) = Find(p, s)
<1> DEFINE w == s \o e
           k == Len(p)
           here == {i \in 1..(Len(s) + 1 - k) : SubSeq(s, i, i + k - 1) = p}
           there == {i \in 1..(Len(w) + 1 - k) : SubSeq(w, i, i + k - 1) = p}
           i == Min(here)
           j == Min(there)
<1>1. /\ Len(s) \in Nat /\ Len(e) \in Nat /\ w \in Seq(S) /\ Len(w) = Len(s) + Len(e)
  BY Grown, LenProperties
<1>2. /\ Find(p, s) = IF here = {} THEN 0 ELSE i
      /\ Find(p, w) = IF there = {} THEN 0 ELSE j
  BY DEF Find
<1>3. here # {}
  BY <1>2
<1>4. ASSUME NEW n \in 1..(Len(s) + 1 - k) PROVE SubSeq(w, n, n + k - 1) = SubSeq(s, n, n + k - 1)
  <2>1. n \in 1..Len(s) /\ n + k - 1 \in 0..Len(s)
    BY <1>1
  <2>2. QED
    BY <2>1, PartOfGrown
<1>5. here \subseteq Nat /\ there \subseteq Nat
  BY <1>1
<1>0. k \in Nat \ {0}
  OBVIOUS
<1>. HIDE DEF w, k
<1>6. ASSUME NEW n \in here PROVE n \in there
  <2>1. n \in 1..(Len(s) + 1 - k) /\ SubSeq(s, n, n + k - 1) = p
    OBVIOUS
  <2>2. n \in 1..(Len(w) + 1 - k)
    BY <1>0, <1>1, <2>1
  <2>3. QED
    BY <1>4, <2>1, <2>2
<1>7. i \in here /\ \A m \in here : i <= m
  BY <1>3, <1>5, FirstOf
<1>8. j \in there /\ \A m \in there : j <= m
  BY <1>3, <1>5, <1>6, FirstOf
<1>9. j <= i /\ i \in 1..(Len(s) + 1 - k) /\ j \in 1..(Len(w) + 1 - k) /\ SubSeq(w, j, j + k - 1) = p
  BY <1>6, <1>7, <1>8
<1>10. j \in 1..(Len(s) + 1 - k)
  <2>. HIDE DEF i, j
  <2>1. QED
    BY <1>0, <1>1, <1>9
<1>11. j \in here
  BY <1>4, <1>9, <1>10
<1>12. i <= j
  BY <1>7, <1>11
<1>13. there # {} /\ here # {}
  BY <1>3, <1>8
<1>14. Find(p, s) = i /\ Find(p, w) = j
  BY <1>2, <1>13
<1>. HIDE DEF i, j, here, there
<1>15. i = j
  BY <1>0, <1>1, <1>9, <1>10, <1>12
<1>16. QED
  BY <1>14, <1>15 DEF w

LEMMA FindExtends ==
    ASSUME NEW S, NEW s \in Seq(S), NEW e \in Seq(S), NEW p, Len(p) \in Nat \ {0}, Find(p, s) # 0
    PROVE  Find(p, s \o e) # 0
BY FoundInGrown

LEMMA MarksHaveLength == Len(Marker("Image")) \in Nat \ {0} /\ Len(Ticks) \in Nat \ {0}
<1>1. "Image" \in Inlines \ {"Table"}
  BY DEF Inlines
<1>2. Len(Ticks) = 3
  BY DEF Ticks
<1>3. QED
  BY <1>1, <1>2, MarkersAreSigns

-----------------------------------------------------------------------------
(* The invariant *)

\* What has been fed is a text.
LEMMA FedIsText ==
    ASSUME NEW s \in Seq(Symbols), NEW n \in 0..Len(s)
    PROVE  /\ Take(s, n) \in Seq(Symbols) /\ Len(Take(s, n)) = n
           /\ \A i \in 1..n : Take(s, n)[i] = s[i]
           /\ n = Len(s) => Take(s, n) = s
<1>1. n = Len(s) => Take(s, n) = s
  BY SubSeqFull DEF Take
<1>2. QED
  BY <1>1, TakeIsHead

\* A filter that has been fed nothing.
LEMMA FreshFilterInv ==
    ASSUME source \in Seq(Symbols), cuts \subseteq DOMAIN source, fed = 0, filter = Start,
           stage = "feed" \/ (stage = "done" /\ source = <<>>), filtered = <<>>
    PROVE  FilterInv
<1>2. /\ source \in Seq(Symbols) /\ Len(source) \in Nat /\ cuts \subseteq DOMAIN source
      /\ fed = 0 /\ filter = Start /\ filtered = <<>>
      /\ stage \in {"feed", "done"} /\ (stage = "done" => fed = Len(source))
  BY LenProperties
<1>3. /\ filter \in Filters
      /\ filter.buf = <<>> /\ filter.acc = <<>> /\ filter.inline = "none"
      /\ filter.fence = FALSE /\ filter.sol = TRUE
  <2>1. <<>> \in Seq(Symbols)
    OBVIOUS
  <2>2. QED
    BY <1>2, <2>1 DEF Filters, Start
<1>4. FilterTypeOK
  <2>1. <<>> \in Seq(Symbols)
    OBVIOUS
  <2>2. QED
    BY <1>2, <1>3, <2>1 DEF FilterTypeOK, IsFilter, Stages
<1>5. Fed = <<>>
  <2>1. Fed \in Seq(Symbols) /\ Len(Fed) = 0
    BY <1>2, FedIsText DEF Fed
  <2>2. QED
    BY <2>1, EmptySeq
<1>6. Unread(filter) = <<>> /\ Read = 0
  <2>1. Unread(filter) = <<>>
    BY <1>3, ConcatEmptySeq DEF Unread
  <2>2. QED
    BY <1>5, <2>1 DEF Read
<1>7. Skip(<<>>, 0) = <<>>
  <2>1. <<>> \in Seq(Symbols)
    OBVIOUS
  <2>2. QED
    BY <2>1, SkipEnds
<1>8. \A b \in Letters : Count(<<>>, b) = 0
  BY CountOfNothing
<1>9. QED
  BY <1>2, <1>3, <1>4, <1>5, <1>6, <1>7, <1>8 DEF FilterInv

LEMMA FilterInitInv == FilterInit => FilterInv
<1>1. SUFFICES ASSUME FilterInit PROVE FilterInv
  OBVIOUS
<1>2. /\ source \in Seq(Symbols) /\ cuts \subseteq DOMAIN source
      /\ fed = 0 /\ filter = Start /\ stage = "feed" /\ filtered = <<>>
  BY <1>1, MarkdownsAssumption DEF FilterInit
<1>3. QED
  BY <1>2, FreshFilterInv

\* A step that reads leaves the invariant as it was; at the end all is read.
LEMMA ReadsKeepsInv ==
    ASSUME FilterInv, stage \in {"feed", "flush"}, NEW step, NEW n, Reads(filter, step, n),
           NEW next \in {"feed", "flush", "done"}, next = "done" => n = Len(Unread(filter)),
           Put(step, next), UNCHANGED fed, next = "feed" \/ fed = Len(source)
    PROVE  FilterInv'
<1> DEFINE s == Unread(filter)
           g == step.f
           r == Read
<1>1. /\ Fed \in Seq(Symbols) /\ Len(Fed) \in Nat /\ IsFilter(filter) /\ filtered \in Seq(Symbols)
      /\ s \in Seq(Symbols) /\ Len(s) \in Nat /\ stage \in {"feed", "flush"} /\ stage # "panicked"
  <2>1. Fed \in Seq(Symbols) /\ IsFilter(filter) /\ filtered \in Seq(Symbols)
    BY FedIsText DEF FilterInv, FilterTypeOK, Fed
  <2>2. s \in Seq(Symbols)
    BY <2>1, FilterParts
  <2>3. QED
    BY <2>1, <2>2, LenProperties
<1>2. /\ filter' = g /\ filtered' = filtered \o step.out /\ Fed' = Fed
      /\ source' = source /\ cuts' = cuts /\ fed' = fed /\ (LinesFed' <=> LinesFed)
      /\ stage' = IF step.panics THEN "panicked" ELSE next
  BY DEF Put, Fed, LinesFed
<1>3. /\ n \in 0..Len(s) /\ IsFilter(g) /\ step.out \in Seq(Symbols) /\ step.panics \in BOOLEAN
      /\ Unread(g) = Skip(s, n)
  BY DEF Reads
<1>4. r \in 0..Len(Fed) /\ s = Skip(Fed, r) /\ Len(s) = Len(Fed) - r
  <2>1. s = Skip(Fed, r) /\ r >= 0
    BY DEF FilterInv
  <2>. HIDE DEF s
  <2>2. r = Len(Fed) - Len(s)
    BY DEF Read, s
  <2>3. QED
    BY <1>1, <2>1, <2>2
<1>5. /\ \A i \in 1..Len(s) : s[i] = Fed[r + i]
      /\ Unread(g) = Skip(Fed, r + n) /\ Unread(g) \in Seq(Symbols)
      /\ Len(Unread(g)) = Len(Fed) - (r + n)
  <2>. HIDE DEF s, r
  <2>1. \A i \in 1..Len(s) : s[i] = Fed[r + i]
    BY <1>1, <1>4, SkipIsRest
  <2>2. n \in 0..(Len(Fed) - r) /\ r + n \in 0..Len(Fed)
    BY <1>1, <1>3, <1>4
  <2>3. Skip(s, n) = Skip(Fed, r + n)
    BY <1>1, <1>4, <2>2, SkipAgain
  <2>4. Skip(Fed, r + n) \in Seq(Symbols) /\ Len(Skip(Fed, r + n)) = Len(Fed) - (r + n)
    BY <1>1, <2>2, SkipIsRest
  <2>5. QED
    BY <1>3, <2>1, <2>3, <2>4
<1>6. Read' = r + n /\ Unread(filter)' = Unread(g)
  <2>1. Unread(filter)' = Unread(g)
    BY <1>2 DEF Unread
  <2>2. Read' = Len(Fed) - Len(Unread(g))
    BY <1>2, <2>1 DEF Read
  <2>. HIDE DEF s, r, g
  <2>3. QED
    BY <1>1, <1>3, <1>4, <1>5, <2>1, <2>2
<1>7. Lossy(s) => Lossy(Fed)
  <2>1. Len(Marker("Image")) \in Nat \ {0} /\ Len(Ticks) \in Nat \ {0}
    <3>1. "Image" \in Inlines \ {"Table"}
      BY DEF Inlines
    <3>2. Len(Ticks) = 3
      BY DEF Ticks
    <3>3. QED
      BY <3>1, <3>2, MarkersAreSigns
  <2>. HIDE DEF s, r
  <2>2. QED
    BY <1>1, <1>4, <2>1, RestHas DEF Lossy
<1>8. Discards(g) => Lossy(Fed)
  <2>1. Discards(filter) => Lossy(Fed)
    BY DEF FilterInv, Discards
  <2>2. QED
    BY <1>7, <2>1 DEF Reads
<1>9. FilterTypeOK'
  <2>1. filtered \o step.out \in Seq(Symbols)
    BY <1>1, <1>3, ConcatProperties
  <2>2. stage' \in Stages
    BY <1>2 DEF Stages
  <2>3. QED
    BY <1>2, <1>3, <2>1, <2>2 DEF FilterInv, FilterTypeOK
<1>10. Read' >= 0 /\ Unread(filter)' = Skip(Fed', Read')
  <2>. HIDE DEF s, r, g
  <2>1. Read' >= 0
    BY <1>1, <1>3, <1>4, <1>6
  <2>2. QED
    BY <1>2, <1>5, <1>6, <2>1
<1>11. LinesFed /\ g.sol /\ Unread(g) # <<>> => LineStart(Fed, r + n)
  <2>1. SUFFICES ASSUME LinesFed, g.sol, Unread(g) # <<>> PROVE LineStart(Fed, r + n)
    OBVIOUS
  <2>2. n < Len(s) /\ n \in Nat
    <3>1. Len(Unread(g)) \in Nat \ {0}
      BY <1>5, <2>1, LenProperties, EmptySeq
    <3>. HIDE DEF s, r, g
    <3>2. QED
      BY <1>1, <1>3, <1>4, <1>5, <3>1
  <2>3. IF n = 0 THEN filter.sol ELSE s[n] = NL
    BY <2>1, <2>2 DEF Reads
  <2>4. CASE n = 0
    <3>1. s # <<>>
      BY <1>1, <2>2, <2>4, EmptySeq
    <3>2. LineStart(Fed, r)
      BY <2>1, <2>3, <2>4, <3>1 DEF FilterInv
    <3>. HIDE DEF s, r, g
    <3>3. r + n = r
      BY <1>1, <1>4, <2>4
    <3>4. QED
      BY <3>2, <3>3
  <2>5. CASE n # 0
    <3>. HIDE DEF s, r, g
    <3>1. n \in 1..Len(s)
      BY <1>1, <1>3, <2>5
    <3>2. QED
      BY <1>5, <2>3, <2>5, <3>1 DEF LineStart
  <2>6. QED
    BY <2>4, <2>5
<1>12. LinesFed /\ filter.inline = "Table" => RowStart(Fed, r)
  BY DEF FilterInv
<1>13. LinesFed /\ g.inline = "Table" => RowStart(Fed, r + n)
  <2>1. SUFFICES ASSUME LinesFed, g.inline = "Table" PROVE RowStart(Fed, r + n)
    OBVIOUS
  <2>2. \/ n = 0 /\ filter.inline = "Table"
        \/ n = 1 /\ filter.sol /\ s[1] = "|"
    BY <2>1 DEF Reads
  <2>3. CASE n = 0 /\ filter.inline = "Table"
    <3>. HIDE DEF s, r, g
    <3>1. r + n = r
      BY <1>1, <1>4, <2>3
    <3>2. QED
      BY <1>12, <2>1, <2>3, <3>1
  <2>4. CASE n = 1 /\ filter.sol /\ s[1] = "|"
    <3>1. s # <<>>
      <4>1. s = <<>> => Len(s) = 0
        OBVIOUS
      <4>. HIDE DEF s
      <4>2. QED
        BY <1>1, <1>3, <2>4, <4>1
    <3>2. LineStart(Fed, r)
      BY <2>1, <2>4, <3>1 DEF FilterInv
    <3>. HIDE DEF s, r, g
    <3>3. (r + n) - 1 = r /\ r + n > 0 /\ 1 \in 1..Len(s)
      BY <1>1, <1>3, <1>4, <2>4
    <3>4. Fed[r + n] = "|"
      BY <1>5, <2>4, <3>3
    <3>5. QED
      BY <3>2, <3>3, <3>4 DEF RowStart
  <2>5. QED
    BY <2>2, <2>3, <2>4
<1>14. stage' = "done" => Unread(g) = <<>>
  <2>1. SUFFICES ASSUME stage' = "done" PROVE Unread(g) = <<>>
    OBVIOUS
  <2>2. n = Len(s)
    BY <1>2, <2>1
  <2>3. QED
    BY <1>1, <1>3, <2>2, SkipEnds
<1>15. ASSUME NEW b \in Letters
       PROVE  /\ Count(filtered', b) + Count(Unread(g), b) <= Count(Fed, b)
              /\ \/ Lossy(Fed) \/ stage' = "panicked"
                 \/ Count(filtered', b) + Count(Unread(g), b) = Count(Fed, b)
  <2> DEFINE out == Count(step.out, b)
             head == Count(Take(s, n), b)
             rest == Count(Unread(g), b)
             done == Count(filtered, b)
             left == Count(s, b)
             all == Count(Fed, b)
  <2>1. left = head + rest /\ head \in Nat /\ rest \in Nat
    BY <1>1, <1>3, CountParts
  <2>2. Count(filtered', b) = done + out
    BY <1>1, <1>2, <1>3, CountConcat
  <2>3. done \in Nat /\ out \in Nat /\ all \in Nat
    BY <1>1, <1>3, CountIsNatural
  <2>4. done + left <= all /\ (Lossy(Fed) \/ done + left = all)
    BY <1>1 DEF FilterInv
  <2>5. out <= head /\ (step.panics \/ Discards(filter) \/ g.fence \/ out = head)
    BY DEF Reads
  <2>6. \/ Lossy(Fed) \/ stage' = "panicked" \/ out = head
    <3>1. Discards(filter) => Lossy(Fed)
      BY DEF FilterInv, Discards
    <3>2. g.fence => Lossy(Fed)
      BY <1>8 DEF Discards
    <3>3. step.panics => stage' = "panicked"
      BY <1>2
    <3>4. QED
      BY <2>5, <3>1, <3>2, <3>3
  <2>. HIDE DEF out, head, rest, done, left, all
  <2>7. done + out + rest <= all
    BY <2>1, <2>3, <2>4, <2>5
  <2>8. out = head => done + out + rest = done + left
    BY <2>1, <2>3
  <2>9. QED
    BY <2>2, <2>4, <2>6, <2>7, <2>8 DEF rest, all
<1>16. stage' = "panicked" /\ LinesFed => EmptyRow(Fed)
  <2>1. SUFFICES ASSUME stage' = "panicked", LinesFed PROVE EmptyRow(Fed)
    OBVIOUS
  <2>2. step.panics
    BY <1>2, <2>1
  <2>3. PICK m \in 0..Len(s) : /\ \A i \in 1..m : s[i] \in Blanks
                               /\ m = Len(s) \/ s[m + 1] = NL
    BY <2>2 DEF Reads
  <2>4. r > 0 /\ Fed[r] = "|" /\ LineStart(Fed, r - 1)
    BY <1>12, <2>1, <2>2 DEF Reads, RowStart
  <2>. HIDE DEF s, r, g
  <2>5. r \in 1..Len(Fed) /\ r + m \in r..Len(Fed) /\ m \in Nat /\ r \in Nat
    BY <1>1, <1>4, <2>4
  <2>6. r = 1 \/ Fed[r - 1] = NL
    BY <2>4, <2>5 DEF LineStart
  <2>7. ASSUME NEW k \in (r + 1)..(r + m) PROVE Fed[k] \in Blanks
    <3>1. k - r \in 1..m /\ k - r \in 1..Len(s) /\ r + (k - r) = k
      BY <1>1, <2>5
    <3>2. QED
      BY <1>5, <2>3, <3>1
  <2>8. r + m = Len(Fed) \/ Fed[r + m + 1] = NL
    <3>1. CASE m = Len(s)
      BY <1>1, <1>4, <2>5, <3>1
    <3>2. CASE m # Len(s)
      <4>1. m + 1 \in 1..Len(s) /\ r + (m + 1) = r + m + 1
        BY <1>1, <2>5, <3>2
      <4>2. QED
        BY <1>5, <2>3, <3>2, <4>1
    <3>3. QED
      BY <3>1, <3>2
  <2>9. DOMAIN Fed = 1..Len(Fed)
    BY <1>1, LenProperties
  <2>10. QED
    BY <1>2, <2>4, <2>5, <2>6, <2>7, <2>8, <2>9 DEF EmptyRow
<1>17. (\/ filter.fence \/ filter.inline = "Image")' => Lossy(Fed)
  BY <1>2, <1>8 DEF Discards
<1>. HIDE DEF s, r, g
<1>18. (LinesFed /\ filter.sol /\ Unread(filter) # <<>> => LineStart(Fed, Read))'
  BY <1>2, <1>6, <1>11
<1>19. (LinesFed /\ filter.inline = "Table" => RowStart(Fed, Read))'
  BY <1>2, <1>6, <1>13
<1>20. (filter.fence \/ filter.inline = "Image" => Lossy(Fed))'
  BY <1>2, <1>17
<1>21. (stage = "done" => Unread(filter) = <<>>)'
  BY <1>6, <1>14
<1>22. (\A b \in Letters :
           /\ Count(filtered, b) + Count(Unread(filter), b) <= Count(Fed, b)
           /\ \/ Lossy(Fed) \/ stage = "panicked"
              \/ Count(filtered, b) + Count(Unread(filter), b) = Count(Fed, b))'
  BY <1>2, <1>6, <1>15
<1>23. (fed \in cuts \cup {0, Len(source)})' /\ (stage \in {"flush", "done"} => fed = Len(source))'
  <2>1. fed \in cuts \cup {0, Len(source)}
    BY DEF FilterInv
  <2>2. stage' \in {"flush", "done"} => next # "feed"
    BY <1>2
  <2>3. QED
    BY <1>2, <2>1, <2>2
<1>24. (stage = "panicked" /\ LinesFed => EmptyRow(Fed))'
  BY <1>2, <1>16
<1>25. QED
  BY <1>9, <1>10, <1>18, <1>19, <1>20, <1>21, <1>22, <1>23, <1>24 DEF FilterInv

\* A piece that is fed is a part of the text that is not read yet.
LEMMA FeedKeepsInv ==
    ASSUME FilterInv, Feed
    PROVE  /\ FilterInv'
           /\ fed < fed' /\ fed' <= Len(source) /\ source' = source /\ stage' = "feed"
           /\ Weight(filter') <= Weight(filter) + 2 * (fed' - fed) + 1
<1>1. PICK to \in cuts \cup {Len(source)} :
        /\ fed < to /\ \A c \in cuts : c <= fed \/ to <= c
        /\ fed' = to
        /\ Put(Wait([filter EXCEPT !.buf = @ \o SubSeq(source, fed + 1, to)]), "feed")
  BY DEF Feed
<1> DEFINE piece == SubSeq(source, fed + 1, to)
           g == [filter EXCEPT !.buf = @ \o piece]
           s == Unread(filter)
           r == Read
           t == Take(source, to)
<1>2. /\ source \in Seq(Symbols) /\ Len(source) \in Nat /\ DOMAIN source = 1..Len(source)
      /\ cuts \subseteq DOMAIN source
      /\ fed \in 0..Len(source) /\ to \in 1..Len(source) /\ IsFilter(filter)
      /\ filtered \in Seq(Symbols) /\ stage = "feed"
  <2>1. /\ source \in Seq(Symbols) /\ cuts \subseteq DOMAIN source /\ fed \in 0..Len(source)
        /\ IsFilter(filter) /\ filtered \in Seq(Symbols)
    BY DEF FilterInv, FilterTypeOK
  <2>2. Len(source) \in Nat /\ DOMAIN source = 1..Len(source)
    BY <2>1, LenProperties
  <2>3. stage = "feed"
    BY DEF Feed
  <2>4. QED
    BY <1>1, <2>1, <2>2, <2>3
<1>3. /\ Fed \in Seq(Symbols) /\ Len(Fed) = fed
      /\ t \in Seq(Symbols) /\ Len(t) = to
      /\ \A i \in 1..to : t[i] = source[i]
      /\ \A i \in 1..fed : Fed[i] = source[i]
  <2>1. to \in 0..Len(source)
    BY <1>2
  <2>2. QED
    BY <1>2, <2>1, FedIsText DEF Fed
<1>4. piece \in Seq(Symbols) /\ Len(piece) = to - fed /\ t = Fed \o piece
  <2>1. /\ piece \in Seq(Symbols) /\ Len(piece) = to - fed
        /\ \A i \in 1..(to - fed) : piece[i] = source[fed + i]
    <3>1. fed + 1 \in Int /\ to \in Int /\ \A i \in (fed + 1)..to : source[i] \in Symbols
      BY <1>2, ElementOfSeq
    <3>2. /\ piece \in Seq(Symbols)
          /\ Len(piece) = IF fed + 1 <= to THEN to - (fed + 1) + 1 ELSE 0
          /\ \A i \in 1..(to - (fed + 1) + 1) : piece[i] = source[fed + 1 + i - 1]
      BY <3>1, SubSeqProperties
    <3>. HIDE DEF piece
    <3>3. to - (fed + 1) + 1 = to - fed /\ fed + 1 <= to
      BY <1>1, <1>2
    <3>4. ASSUME NEW i \in 1..(to - fed) PROVE piece[i] = source[fed + i]
      <4>1. fed + 1 + i - 1 = fed + i /\ i \in 1..(to - (fed + 1) + 1)
        BY <1>2, <3>3
      <4>2. QED
        BY <3>2, <4>1
    <3>5. QED
      BY <3>2, <3>3, <3>4
  <2>. HIDE DEF piece, t
  <2>2. /\ Fed \o piece \in Seq(Symbols) /\ Len(Fed \o piece) = fed + (to - fed)
        /\ \A i \in 1..(fed + (to - fed)) :
             (Fed \o piece)[i] = IF i <= fed THEN Fed[i] ELSE piece[i - fed]
    BY <1>3, <2>1, ConcatProperties
  <2>3. fed + (to - fed) = to
    BY <1>2
  <2>4. ASSUME NEW i \in 1..to PROVE t[i] = (Fed \o piece)[i]
    <3>1. CASE i <= fed
      <4>1. i \in 1..fed
        BY <1>2, <3>1
      <4>2. QED
        BY <1>3, <2>2, <2>3, <3>1, <4>1
    <3>2. CASE ~(i <= fed)
      <4>1. i - fed \in 1..(to - fed) /\ fed + (i - fed) = i
        BY <1>2, <3>2
      <4>2. QED
        BY <1>3, <2>1, <2>2, <2>3, <3>2, <4>1, ZenonT(40)
    <3>3. QED
      BY <3>1, <3>2
  <2>5. t = Fed \o piece
    BY <1>3, <2>2, <2>3, <2>4, SeqEqual
  <2>6. QED
    BY <2>1, <2>5
<1>5. /\ filter' = g /\ filtered' = filtered \o <<>> /\ stage' = "feed" /\ source' = source
      /\ cuts' = cuts /\ fed' = to /\ Fed' = t /\ (LinesFed' <=> LinesFed)
  <2>1. Put(Wait(g), "feed")
    BY <1>1
  <2>. HIDE DEF g
  <2>2. /\ filter' = g /\ filtered' = filtered \o <<>> /\ stage' = "feed" /\ source' = source
        /\ cuts' = cuts
    BY <2>1 DEF Put, Wait, Step
  <2>3. QED
    BY <1>1, <2>2 DEF Fed, LinesFed
<1>6. filtered' = filtered
  BY <1>2, <1>5, ConcatEmptySeq
<1>7. /\ g \in Filters
      /\ g.buf = filter.buf \o piece /\ g.acc = filter.acc /\ g.sol = filter.sol
      /\ g.fence = filter.fence /\ g.inline = filter.inline
      /\ IsFilter(g)
  <2>1. /\ filter \in Filters /\ filter.buf \in Seq(Symbols)
    BY <1>2, FilterParts
  <2>. HIDE DEF piece
  <2>2. filter.buf \o piece \in Seq(Symbols)
    BY <1>4, <2>1, ConcatProperties
  <2>3. /\ g \in Filters
        /\ g.buf = filter.buf \o piece /\ g.acc = filter.acc /\ g.sol = filter.sol
        /\ g.fence = filter.fence /\ g.inline = filter.inline
    BY <2>1, <2>2 DEF Filters
  <2>. HIDE DEF g
  <2>4. QED
    BY <1>2, <2>3 DEF IsFilter
<1>8. s \in Seq(Symbols) /\ Len(s) \in Nat /\ Unread(g) = s \o piece
  <2>1. /\ s \in Seq(Symbols) /\ filter.acc \in Seq(Symbols) /\ filter.buf \in Seq(Symbols)
    BY <1>2, FilterParts
  <2>. HIDE DEF piece, g
  <2>2. filter.acc \o (filter.buf \o piece) = (filter.acc \o filter.buf) \o piece
    <3> DEFINE acc == filter.acc
               buf == filter.buf
    <3>1. acc \in Seq(Symbols) /\ buf \in Seq(Symbols)
      BY <2>1
    <3>. HIDE DEF acc, buf
    <3>2. acc \o (buf \o piece) = (acc \o buf) \o piece
      BY <1>4, <3>1, ConcatAssociative, SMTT(40)
    <3>3. QED
      BY <3>2 DEF acc, buf
  <2>3. QED
    BY <1>7, <2>1, <2>2, LenProperties DEF Unread
<1>9. /\ r \in 0..fed /\ s = Skip(Fed, r) /\ Len(s) = fed - r
  <2>1. s = Skip(Fed, r) /\ r >= 0
    BY DEF FilterInv
  <2>2. r = Len(Fed) - Len(s)
    BY DEF Read
  <2>. HIDE DEF s, r
  <2>3. QED
    BY <1>2, <1>3, <1>8, <2>1, <2>2
<1>10. Unread(g) \in Seq(Symbols) /\ Len(Unread(g)) = to - r /\ Unread(g) = Skip(t, r)
  <2>. HIDE DEF piece, g, s, r, t
  <2>1. Unread(g) \in Seq(Symbols) /\ Len(Unread(g)) = Len(s) + Len(piece)
    BY <1>4, <1>8, ConcatProperties
  <2>2. Len(s) + Len(piece) = to - r
    BY <1>2, <1>4, <1>9
  <2>3. r \in 0..Len(Fed)
    BY <1>3, <1>9
  <2>4. Skip(Fed \o piece, r) = Skip(Fed, r) \o piece
    BY <1>3, <1>4, <2>3, SkipOfConcat
  <2>5. QED
    BY <1>4, <1>8, <1>9, <2>1, <2>2, <2>4
<1>11. Read' = r /\ Unread(filter)' = Unread(g)
  <2>1. Unread(filter)' = Unread(g)
    BY <1>5 DEF Unread
  <2>2. Read' = Len(t) - Len(Unread(g))
    BY <1>5, <2>1 DEF Read
  <2>. HIDE DEF piece, g, s, r, t
  <2>3. Len(t) - Len(Unread(g)) = r
    BY <1>2, <1>3, <1>9, <1>10
  <2>4. QED
    BY <2>1, <2>2, <2>3
<1>12. LinesFed => LineStart(t, fed)
  <2>1. SUFFICES ASSUME LinesFed, fed # 0 PROVE t[fed] = NL
    BY DEF LineStart
  <2>2. fed \in cuts
    <3>1. fed \in cuts \cup {0, Len(source)}
      BY DEF FilterInv
    <3>2. fed # Len(source)
      BY <1>1, <1>2
    <3>3. QED
      BY <2>1, <3>1, <3>2
  <2>3. source[fed] = NL
    BY <2>1, <2>2 DEF LinesFed
  <2>4. fed \in 1..to
    BY <1>1, <1>2, <2>1
  <2>. HIDE DEF t
  <2>5. QED
    BY <1>3, <2>3, <2>4
<1>13. ASSUME NEW n \in 0..fed PROVE LineStart(Fed, n) <=> LineStart(t, n)
  <2>. HIDE DEF t
  <2>1. n # 0 => n \in 1..fed /\ n \in 1..to
    BY <1>1, <1>2
  <2>2. QED
    BY <1>3, <2>1 DEF LineStart
<1>14. (LinesFed /\ filter.sol /\ Unread(filter) # <<>> => LineStart(Fed, Read))'
  <2>1. SUFFICES ASSUME LinesFed, filter.sol PROVE LineStart(t, r)
    BY <1>5, <1>7, <1>11
  <2>2. CASE s # <<>>
    <3>1. LineStart(Fed, r)
      BY <2>1, <2>2 DEF FilterInv
    <3>. HIDE DEF r, t
    <3>2. QED
      BY <1>9, <1>13, <3>1
  <2>3. CASE s = <<>>
    <3>. HIDE DEF r, t, s
    <3>1. r = fed
      BY <1>2, <1>9, <2>3
    <3>2. QED
      BY <1>12, <2>1, <3>1
  <2>4. QED
    BY <2>2, <2>3
<1>15. (LinesFed /\ filter.inline = "Table" => RowStart(Fed, Read))'
  <2>1. SUFFICES ASSUME LinesFed, filter.inline = "Table" PROVE RowStart(t, r)
    BY <1>5, <1>7, <1>11
  <2>2. RowStart(Fed, r)
    BY <2>1 DEF FilterInv
  <2>. HIDE DEF r, t
  <2>3. r > 0 /\ Fed[r] = "|" /\ LineStart(Fed, r - 1)
    BY <2>2 DEF RowStart
  <2>4. r \in 1..fed /\ r \in 1..to /\ r - 1 \in 0..fed
    BY <1>1, <1>2, <1>9, <2>3
  <2>5. Fed[r] = t[r]
    BY <1>3, <2>4
  <2>6. LineStart(t, r - 1)
    BY <1>13, <2>3, <2>4
  <2>7. QED
    BY <2>3, <2>5, <2>6 DEF RowStart
<1>16. (filter.fence \/ filter.inline = "Image" => Lossy(Fed))'
  <2>1. SUFFICES ASSUME Lossy(Fed) PROVE Lossy(t)
    BY <1>5, <1>7 DEF FilterInv
  <2>2. Len(Marker("Image")) \in Nat \ {0} /\ Len(Ticks) \in Nat \ {0}
    BY MarksHaveLength
  <2>. HIDE DEF piece, t
  <2>3. QED
    BY <1>3, <1>4, <2>1, <2>2, FindExtends DEF Lossy
<1>17. (\A b \in Letters :
           /\ Count(filtered, b) + Count(Unread(filter), b) <= Count(Fed, b)
           /\ \/ Lossy(Fed) \/ stage = "panicked"
              \/ Count(filtered, b) + Count(Unread(filter), b) = Count(Fed, b))'
  <2>1. SUFFICES ASSUME NEW b \in Letters
                 PROVE  /\ Count(filtered, b) + Count(Unread(g), b) <= Count(t, b)
                        /\ \/ Lossy(t)
                           \/ Count(filtered, b) + Count(Unread(g), b) = Count(t, b)
    BY <1>5, <1>6, <1>11
  <2>2. Lossy(Fed) => Lossy(t)
    <3>1. Len(Marker("Image")) \in Nat \ {0} /\ Len(Ticks) \in Nat \ {0}
      BY MarksHaveLength
    <3>. HIDE DEF piece, t
    <3>2. QED
      BY <1>3, <1>4, <3>1, FindExtends DEF Lossy
  <2>3. /\ Count(filtered, b) + Count(s, b) <= Count(Fed, b)
        /\ Lossy(Fed) \/ Count(filtered, b) + Count(s, b) = Count(Fed, b)
    BY <1>2 DEF FilterInv
  <2>. HIDE DEF piece, t, s, g
  <2>4. /\ Count(Unread(g), b) = Count(s, b) + Count(piece, b)
        /\ Count(t, b) = Count(Fed, b) + Count(piece, b)
    BY <1>3, <1>4, <1>8, CountConcat
  <2>5. /\ Count(filtered, b) \in Nat /\ Count(s, b) \in Nat /\ Count(piece, b) \in Nat
        /\ Count(Fed, b) \in Nat
    BY <1>2, <1>3, <1>4, <1>8, CountIsNatural
  <2>6. QED
    BY <2>2, <2>3, <2>4, <2>5
<1>18. FilterTypeOK'
  <2>. HIDE DEF g, t, piece
  <2>1. to \in 0..Len(source) /\ "feed" \in Stages
    BY <1>2 DEF Stages
  <2>2. QED
    BY <1>2, <1>5, <1>6, <1>7, <2>1 DEF FilterTypeOK
<1>19. Weight(filter') <= Weight(filter) + 2 * (fed' - fed) + 1
  <2>1. filter.sol \in BOOLEAN
    BY <1>2, FilterParts
  <2>2. Weight(g) <= 2 * Len(Unread(g)) + (IF filter.sol THEN 1 ELSE 0) + 1
    <3>. HIDE DEF g
    <3>1. Len(Unread(g)) \in Nat
      BY <1>10, LenProperties
    <3>2. QED
      BY <1>7, <2>1, <3>1 DEF Weight
  <2>3. Weight(filter) >= 2 * Len(s) + (IF filter.sol THEN 1 ELSE 0)
    BY <1>8, <2>1 DEF Weight
  <2>4. Weight(g) \in Nat /\ Weight(filter) \in Nat
    <3>. HIDE DEF g
    <3>1. QED
      BY <1>2, <1>7, FilterParts
  <2>. HIDE DEF g, s, r, t, piece
  <2>5. Len(Unread(g)) = Len(s) + (to - fed)
    BY <1>2, <1>9, <1>10
  <2>6. \A l, n, w, x, d \in Nat : \A v \in 0..1 :
           w <= 2 * n + v + 1 /\ x >= 2 * l + v /\ n = l + d => w <= x + 2 * d + 1
    OBVIOUS
  <2> DEFINE v == IF filter.sol THEN 1 ELSE 0
  <2>7. v \in 0..1 /\ to - fed \in Nat /\ Len(s) \in Nat /\ Len(Unread(g)) \in Nat
    <3>1. s \in Seq(Symbols) /\ Unread(g) \in Seq(Symbols)
      BY <1>8, <1>10
    <3>2. Len(s) \in Nat /\ Len(Unread(g)) \in Nat
      BY <3>1, LenProperties
    <3>3. v \in 0..1
      OBVIOUS
    <3>4. to - fed \in Nat
      BY <1>1, <1>2
    <3>5. QED
      BY <3>2, <3>3, <3>4
  <2>8. filter' = g /\ fed' = to
    BY <1>5
  <2>. HIDE DEF v
  <2>9. Weight(g) <= 2 * Len(Unread(g)) + v + 1 /\ Weight(filter) >= 2 * Len(s) + v
    BY <2>2, <2>3 DEF v
  <2>10. Weight(g) <= Weight(filter) + 2 * (to - fed) + 1
    BY <2>4, <2>5, <2>6, <2>7, <2>9
  <2>11. QED
    BY <2>8, <2>10
<1>20. Read' >= 0 /\ Unread(filter)' = Skip(Fed', Read')
  <2>. HIDE DEF g, s, r, t, piece
  <2>1. QED
    BY <1>2, <1>5, <1>9, <1>10, <1>11
<1>21. (fed \in cuts \cup {0, Len(source)})'
  BY <1>5
<1>. HIDE DEF g, s, r, t, piece
<1>22. FilterInv'
  BY <1>5, <1>14, <1>15, <1>16, <1>17, <1>18, <1>20, <1>21 DEF FilterInv
<1>23. QED
  BY <1>1, <1>2, <1>5, <1>19, <1>22

LEMMA WaitReads ==
    ASSUME NEW f, IsFilter(f)
    PROVE  Reads(f, Wait(f), 0)
<1> DEFINE s == Unread(f)
<1>1. s \in Seq(Symbols) /\ Len(s) \in Nat
  BY FilterParts, LenProperties
<1>. HIDE DEF s
<1>2. 0 \in 0..Len(s) /\ Skip(s, 0) = s
  BY <1>1, SkipEnds
<1>3. Take(s, 0) = <<>>
  <2>1. 1 \in Int /\ 0 \in Int /\ 0 < 1
    OBVIOUS
  <2>2. QED
    BY <2>1, SubSeqEmpty DEF Take
<1>4. \A b \in Letters : Count(<<>>, b) <= Count(<<>>, b)
  BY CountOfNothing
<1>5. <<>> \in Seq(Symbols)
  OBVIOUS
<1>6. Reads(f, [f |-> f, out |-> <<>>, panics |-> FALSE], 0)
  BY <1>1, <1>2, <1>3, <1>4, <1>5 DEF Reads, s
<1>7. QED
  BY <1>6 DEF Wait, Step

\* Every step of the loop is one that reads.
LEMMA StepsRead ==
    ASSUME FilterInv, Pass \/ BeginFlush \/ EndFlush
    PROVE  \E step, n, next :
              /\ stage \in {"feed", "flush"} /\ Reads(filter, step, n)
              /\ next \in {"feed", "flush", "done"} /\ (next = "done" => n = Len(Unread(filter)))
              /\ Put(step, next) /\ fed' = fed /\ (next = "feed" \/ fed = Len(source))
              /\ Weight(step.f) <= Weight(filter)
              /\ \/ Weight(step.f) < Weight(filter) /\ next = stage
                 \/ stage = "feed" /\ next = "flush" /\ ~step.panics
                 \/ stage = "flush" /\ next = "done"
<1>1. IsFilter(filter) /\ Weight(filter) \in Nat
  BY FilterParts DEF FilterInv, FilterTypeOK
<1>2. CASE Pass
  <2>1. Advances(filter, Pumped)
    BY <1>1, <1>2, MovesAdvance DEF Pass
  <2>2. PICK n : Reads(filter, Pumped, n) /\ Weight(Pumped.f) < Weight(filter)
    BY <2>1 DEF Advances
  <2>3. Weight(Pumped.f) \in Nat
    BY <2>2, FilterParts DEF Reads
  <2>4. Weight(Pumped.f) <= Weight(filter)
    BY <1>1, <2>2, <2>3
  <2>5. /\ stage \in {"feed", "flush"} /\ Put(Pumped, stage) /\ fed' = fed
        /\ (stage = "feed" \/ fed = Len(source))
    BY <1>2 DEF Pass, FilterInv
  <2>6. QED
    BY <2>2, <2>4, <2>5
<1>3. CASE BeginFlush
  <2>1. Wait(filter).f = filter /\ ~Wait(filter).panics
    BY DEF Wait, Step
  <2>2. Reads(filter, Wait(filter), 0)
    BY <1>1, WaitReads
  <2>3. Weight(Wait(filter).f) <= Weight(filter)
    BY <1>1, <2>1
  <2>4. QED
    BY <1>3, <2>1, <2>2, <2>3 DEF BeginFlush
<1>4. CASE EndFlush
  <2>1. filter.buf = <<>>
    BY <1>1, <1>4, MovesAdvance DEF EndFlush
  <2>2. /\ Reads(filter, EndInline(filter), Len(Unread(filter)))
        /\ Weight(EndInline(filter).f) <= Weight(filter)
    BY <1>1, <2>1, EndReads
  <2>3. QED
    BY <1>4, <2>2 DEF EndFlush, FilterInv
<1>5. QED
  BY <1>2, <1>3, <1>4

LEMMA FilterNextInv == FilterInv /\ [FilterNext]_filterVars => FilterInv'
<1>1. ASSUME FilterInv, FilterNext PROVE FilterInv'
  <2>1. CASE Feed
    BY <1>1, <2>1, FeedKeepsInv
  <2>2. CASE Pass \/ BeginFlush \/ EndFlush
    BY <1>1, <2>2, StepsRead, ReadsKeepsInv
  <2>3. QED
    BY <1>1, <2>1, <2>2 DEF FilterNext
<1>2. ASSUME FilterInv, UNCHANGED filterVars PROVE FilterInv'
  BY <1>2 DEF filterVars, FilterInv, FilterTypeOK, Read, Unread, Fed, LinesFed
<1>3. QED
  BY <1>1, <1>2

\* The filter, whatever the text, is always in its invariant.
THEOREM FilterInvHolds == FilterSpec => []FilterInv
<1>1. QED
  BY FilterInitInv, FilterNextInv, PTL DEF FilterSpec

\* Type correctness: the filter's states, and what it puts out, are in their domains.
THEOREM FilterTypeCorrect == FilterSpec => []FilterTypeOK
<1>1. FilterInv => FilterTypeOK
  BY DEF FilterInv
<1>2. QED
  BY <1>1, FilterInvHolds, PTL

\* At the end all is read, and the counts of what was read are those of the text.
LEMMA LettersOfInv == FilterInv => LettersKept
<1>1. SUFFICES ASSUME FilterInv, stage = "done", NEW b \in Letters
               PROVE  /\ Count(filtered, b) <= Count(source, b)
                      /\ \/ Find(Marker("Image"), source) # 0
                         \/ Find(Ticks, source) # 0
                         \/ Count(filtered, b) = Count(source, b)
  BY DEF LettersKept
<1>2. Unread(filter) = <<>> /\ filtered \in Seq(Symbols)
  BY <1>1 DEF FilterInv, FilterTypeOK
<1>3. Count(Unread(filter), b) = 0 /\ Count(filtered, b) \in Nat
  BY <1>2, CountOfNothing, CountIsNatural
<1>4. /\ Count(filtered, b) + Count(Unread(filter), b) <= Count(source, b)
      /\ \/ Lossy(source)
         \/ Count(filtered, b) + Count(Unread(filter), b) = Count(source, b)
  <2>1. fed = Len(source) /\ source \in Seq(Symbols)
    BY <1>1 DEF FilterInv, FilterTypeOK
  <2>2. Len(source) \in 0..Len(source)
    BY <2>1, LenProperties
  <2>3. Fed = source
    BY <2>1, <2>2, FedIsText DEF Fed
  <2>4. QED
    BY <1>1, <2>3 DEF FilterInv
<1>5. QED
  BY <1>3, <1>4 DEF Lossy

\* The filter takes marks away and never words: when the text is done, every letter has
\* come out as often as it went in, unless the text has an image or a fence; and none is
\* made up.
THEOREM LettersKeptHolds == FilterSpec => []LettersKept
<1>1. QED
  BY LettersOfInv, FilterInvHolds, PTL

\* A line that ends where a piece ends, ends in the text.
LEMMA PanicsOfInv == FilterInv => PanicsOnlyAtEmptyRows
<1>1. SUFFICES ASSUME FilterInv, stage = "panicked", LinesFed PROVE EmptyRow(source)
  BY DEF PanicsOnlyAtEmptyRows, EmptyRow
<1>2. /\ source \in Seq(Symbols) /\ Len(source) \in Nat /\ DOMAIN source = 1..Len(source)
      /\ fed \in 0..Len(source) /\ fed \in cuts \cup {0, Len(source)}
  BY <1>1, LenProperties DEF FilterInv, FilterTypeOK
<1>3. /\ Fed \in Seq(Symbols) /\ Len(Fed) = fed /\ DOMAIN Fed = 1..fed
      /\ \A i \in 1..fed : Fed[i] = source[i]
  <2>1. Fed \in Seq(Symbols) /\ Len(Fed) = fed /\ \A i \in 1..fed : Fed[i] = source[i]
    BY <1>2, FedIsText DEF Fed
  <2>2. QED
    BY <2>1, LenProperties
<1>4. PICK i \in DOMAIN Fed : \E n \in i..Len(Fed) :
         /\ i = 1 \/ Fed[i - 1] = NL
         /\ Fed[i] = "|"
         /\ \A k \in (i + 1)..n : Fed[k] \in Blanks
         /\ n = Len(Fed) \/ Fed[n + 1] = NL
  BY <1>1 DEF FilterInv, EmptyRow
<1>0. fed \in Nat /\ i \in 1..fed /\ fed <= Len(source) /\ Len(source) \in Nat
  <2>1. Len(source) \in Nat /\ fed \in 0..Len(source)
    BY <1>2
  <2>2. fed \in Nat /\ fed <= Len(source)
    BY <2>1
  <2>3. i \in 1..fed
    BY <1>3
  <2>4. QED
    BY <2>1, <2>2, <2>3
<1>5. PICK n \in 1..fed :
         /\ i <= n
         /\ i = 1 \/ Fed[i - 1] = NL
         /\ Fed[i] = "|"
         /\ \A k \in (i + 1)..n : Fed[k] \in Blanks
         /\ n = fed \/ Fed[n + 1] = NL
  <2>1. PICK n \in i..fed :
           /\ i = 1 \/ Fed[i - 1] = NL
           /\ Fed[i] = "|"
           /\ \A k \in (i + 1)..n : Fed[k] \in Blanks
           /\ n = fed \/ Fed[n + 1] = NL
    BY <1>3, <1>4
  <2>2. n \in 1..fed /\ i <= n
    BY <1>0
  <2>3. QED
    BY <2>1, <2>2
<1>6. /\ i \in 1..fed /\ i \in 1..Len(source) /\ n \in i..Len(source) /\ n \in 1..fed
      /\ i \in Nat /\ n \in Nat /\ fed \in Nat /\ i <= n /\ n <= fed /\ 1 <= i
  <2>1. i \in Nat /\ n \in Nat /\ 1 <= i /\ i <= n /\ n <= fed
    BY <1>0, <1>5
  <2>2. i <= fed /\ n <= Len(source) /\ i <= Len(source)
    BY <1>0, <2>1
  <2>3. n \in i..Len(source)
    BY <1>0, <2>1, <2>2
  <2>4. QED
    BY <1>0, <2>1, <2>2, <2>3
<1>7. i = 1 \/ source[i - 1] = NL
  <2>1. i # 1 => i - 1 \in 1..fed
    BY <1>6
  <2>2. QED
    BY <1>3, <1>5, <2>1
<1>8. source[i] = "|" /\ \A k \in (i + 1)..n : source[k] \in Blanks
  <2>1. \A k \in (i + 1)..n : k \in 1..fed
    BY <1>6
  <2>2. QED
    BY <1>3, <1>5, <1>6, <2>1
<1>9. n = Len(source) \/ source[n + 1] = NL
  <2>1. CASE n = fed
    <3>1. fed \in cuts => source[fed] = NL
      BY <1>1 DEF LinesFed
    <3>2. NL # "|" /\ NL \notin Blanks
      BY DEF NL, Blanks
    <3>3. source[n] # NL
      <4>1. n = i \/ n \in (i + 1)..n
        BY <1>6
      <4>2. QED
        BY <1>8, <3>2, <4>1
    <3>4. fed # 0
      BY <1>6
    <3>5. QED
      BY <1>2, <2>1, <3>1, <3>3, <3>4
  <2>2. CASE n # fed
    <3>1. n + 1 \in 1..fed
      BY <1>6, <2>2
    <3>2. QED
      BY <1>3, <1>5, <2>2, <3>1
  <2>3. QED
    BY <2>1, <2>2
<1>10. QED
  BY <1>2, <1>6, <1>7, <1>8, <1>9 DEF EmptyRow

\* The filter of whole lines panics at nothing but a line that is a bar and blanks: a
\* line that ends where a piece ends, ends in the text.
THEOREM PanicsOnlyAtEmptyRowsHolds == FilterSpec => []PanicsOnlyAtEmptyRows
<1>1. QED
  BY PanicsOfInv, FilterInvHolds, PTL

-----------------------------------------------------------------------------
(* The loop ends *)

\* Every step leaves less to do: the loop of the filter ends for every text, in
\* whatever pieces it comes.
THEOREM FilterAdvancesHolds == FilterSpec => FilterAdvances
<1> DEFINE v(st) == CASE st = "feed" -> 2 [] st = "flush" -> 1 [] OTHER -> 0
<1>1. v("feed") = 2 /\ v("flush") = 1 /\ v("done") = 0 /\ v("panicked") = 0
  OBVIOUS
<1>2. ASSUME FilterInv
      PROVE  /\ Weight(filter) \in Nat /\ Len(source) \in Nat /\ fed \in 0..Len(source)
             /\ FilterLeft = 4 * (Len(source) - fed) + Weight(filter) + v(stage)
  <2>1. IsFilter(filter) /\ source \in Seq(Symbols) /\ fed \in 0..Len(source)
    BY <1>2 DEF FilterInv, FilterTypeOK
  <2>2. Weight(filter) \in Nat /\ Len(source) \in Nat
    BY <2>1, FilterParts, LenProperties
  <2>3. QED
    BY <2>1, <2>2 DEF FilterLeft
<1>3. FilterLeft' = 4 * (Len(source') - fed') + Weight(filter') + v(stage')
  BY DEF FilterLeft, Weight, Unread
<1>4. ASSUME FilterInv, Feed PROVE FilterLeft' \in Nat /\ FilterLeft' < FilterLeft
  <2>1. /\ FilterInv'
        /\ fed < fed' /\ fed' <= Len(source) /\ source' = source /\ stage' = "feed"
        /\ Weight(filter') <= Weight(filter) + 2 * (fed' - fed) + 1
    BY <1>4, FeedKeepsInv
  <2>2. IsFilter(filter') /\ fed' \in 0..Len(source')
    BY <2>1 DEF FilterInv, FilterTypeOK, IsFilter
  <2>3. Weight(filter') \in Nat
    BY <2>2, FilterParts
  <2>4. stage = "feed"
    BY <1>4 DEF Feed
  <2>5. /\ Weight(filter) \in Nat /\ Len(source) \in Nat /\ fed \in 0..Len(source)
        /\ fed \in Nat /\ fed' \in Nat
    BY <1>2, <1>4, <2>1, <2>2
  <2>6. /\ FilterLeft = 4 * (Len(source) - fed) + Weight(filter) + 2
        /\ FilterLeft' = 4 * (Len(source) - fed') + Weight(filter') + 2
    BY <1>1, <1>2, <1>3, <1>4, <2>1, <2>4
  <2>. HIDE DEF v
  <2>7. \A l, m, n, w, x \in Nat :
           m < n /\ n <= l /\ x <= w + 2 * (n - m) + 1 =>
               /\ 4 * (l - n) + x + 2 \in Nat
               /\ 4 * (l - n) + x + 2 < 4 * (l - m) + w + 2
    OBVIOUS
  <2>8. QED
    BY <2>1, <2>3, <2>5, <2>6, <2>7
<1>5. ASSUME FilterInv, Pass \/ BeginFlush \/ EndFlush
      PROVE  FilterLeft' \in Nat /\ FilterLeft' < FilterLeft
  <2>1. PICK step, n, next :
              /\ stage \in {"feed", "flush"} /\ Reads(filter, step, n)
              /\ next \in {"feed", "flush", "done"}
              /\ Put(step, next) /\ fed' = fed
              /\ Weight(step.f) <= Weight(filter)
              /\ \/ Weight(step.f) < Weight(filter) /\ next = stage
                 \/ stage = "feed" /\ next = "flush" /\ ~step.panics
                 \/ stage = "flush" /\ next = "done"
    BY <1>5, StepsRead
  <2>2. /\ Weight(filter) \in Nat /\ Len(source) \in Nat /\ fed \in 0..Len(source)
        /\ Weight(step.f) \in Nat
    BY <1>2, <1>5, <2>1, FilterParts DEF Reads
  <2>3. /\ FilterLeft = 4 * (Len(source) - fed) + Weight(filter) + v(stage)
        /\ FilterLeft' = 4 * (Len(source) - fed) + Weight(step.f) + v(stage')
    <3>1. source' = source /\ fed' = fed /\ filter' = step.f
      BY <2>1 DEF Put
    <3>2. QED
      BY <1>2, <1>3, <1>5, <3>1
  <2>4. stage' = IF step.panics THEN "panicked" ELSE next
    BY <2>1 DEF Put
  <2>5. /\ v(stage) \in 1..2 /\ v(stage') \in 0..2
        /\ \/ Weight(step.f) < Weight(filter) /\ v(stage') <= v(stage)
           \/ v(stage') < v(stage)
    BY <1>1, <2>1, <2>4
  <2>. HIDE DEF v
  <2>6. QED
    BY <2>1, <2>2, <2>3, <2>5
<1>6. FilterInv /\ [FilterNext]_filterVars => [FilterLeft' \in Nat /\ FilterLeft' < FilterLeft]_filterVars
  BY <1>4, <1>5 DEF FilterNext
<1>7. QED
  BY <1>6, FilterInvHolds, PTL DEF FilterSpec, FilterAdvances

\* It ends after at most four times as many steps as the text has bytes, and four.
THEOREM FilterBoundHolds == FilterSpec => []FilterBound
<1>1. FilterInv => FilterBound
  <2>1. SUFFICES ASSUME FilterInv PROVE FilterLeft <= 4 * Len(source) + 4
    BY DEF FilterBound
  <2>2. /\ source \in Seq(Symbols) /\ fed \in 0..Len(source) /\ Unread(filter) \in Seq(Symbols)
        /\ Read >= 0 /\ filter.sol \in BOOLEAN
    BY <2>1, FilterParts DEF FilterInv, FilterTypeOK
  <2>3. Len(source) \in Nat /\ Len(Unread(filter)) \in Nat /\ Len(Fed) = fed
    BY <2>2, LenProperties, FedIsText DEF Fed
  <2>4. Len(Unread(filter)) <= fed
    BY <2>2, <2>3 DEF Read
  <2>5. Weight(filter) <= 2 * Len(Unread(filter)) + 2 /\ Weight(filter) \in Nat
    BY <2>2, <2>3 DEF Weight
  <2> DEFINE turns == CASE stage = "feed" -> 2 [] stage = "flush" -> 1 [] OTHER -> 0
  <2>6. turns \in 0..2 /\ FilterLeft = 4 * (Len(source) - fed) + Weight(filter) + turns
    BY DEF FilterLeft
  <2>. HIDE DEF turns
  <2>7. QED
    BY <2>2, <2>3, <2>4, <2>5, <2>6
<1>2. QED
  BY <1>1, FilterInvHolds, PTL

-----------------------------------------------------------------------------
(* The operators of the filter that is fed at once are the same *)

LEMMA SamePlaces ==
    /\ \A s, i : Whole!At(s, i) = At(s, i)
    /\ \A s, n : Whole!Take(s, n) = Take(s, n) /\ Whole!Skip(s, n) = Skip(s, n)
    /\ \A p, s : Whole!Find(p, s) = Find(p, s) /\ Whole!IsPrefix(p, s) = IsPrefix(p, s)
    /\ \A S, s : Whole!RunOf(S, s) = RunOf(S, s)
    /\ \A S : Whole!Cardinality(S) = Cardinality(S)
    /\ Whole!NL = NL /\ Whole!Tick = Tick /\ Whole!Blanks = Blanks /\ Whole!End = End
    /\ Whole!Ticks = Ticks
<1>1. \A s, i : Whole!At(s, i) = At(s, i)
  BY DEF At, Whole!At, End, Whole!End
<1>2. \A s, n : Whole!Take(s, n) = Take(s, n) /\ Whole!Skip(s, n) = Skip(s, n)
  BY DEF Take, Whole!Take, Skip, Whole!Skip
<1>3. \A p, s : Whole!Find(p, s) = Find(p, s)
  BY DEF Find, Whole!Find, Min, Whole!Min
<1>4. \A p, s : Whole!IsPrefix(p, s) = IsPrefix(p, s)
  BY DEF IsPrefix, Whole!IsPrefix
<1>5. \A S, s : Whole!RunOf(S, s) = RunOf(S, s)
  BY DEF RunOf, Whole!RunOf, Min, Whole!Min, At, Whole!At, End, Whole!End
<1>6. \A S : Whole!Cardinality(S) = Cardinality(S)
  BY DEF Cardinality, Whole!Cardinality
<1>7. Whole!NL = NL /\ Whole!Tick = Tick /\ Whole!Blanks = Blanks /\ Whole!End = End
  BY DEF NL, Whole!NL, Tick, Whole!Tick, Blanks, Whole!Blanks, End, Whole!End
<1>8. Whole!Ticks = Ticks
  BY <1>7 DEF Ticks, Whole!Ticks
<1>9. QED
  BY <1>1, <1>2, <1>3, <1>4, <1>5, <1>6, <1>7, <1>8

LEMMA SameSteps ==
    /\ \A f, o : Whole!Step(f, o) = Step(f, o)
    /\ \A f : Whole!Panic(f) = Panic(f) /\ Whole!Wait(f) = Wait(f)
    /\ \A f : Whole!LeaveStart(f) = LeaveStart(f) /\ Whole!Toggle(f) = Toggle(f)
    /\ \A f, n, sol : Whole!Drop(f, n, sol) = Drop(f, n, sol)
<1>1. /\ \A f, o : Whole!Step(f, o) = Step(f, o)
      /\ \A f : Whole!Panic(f) = Panic(f)
  BY DEF Step, Whole!Step, Panic, Whole!Panic
<1>2. \A f : Whole!Wait(f) = Wait(f) /\ Whole!LeaveStart(f) = LeaveStart(f)
  BY <1>1 DEF Wait, Whole!Wait, LeaveStart, Whole!LeaveStart
<1>3. \A s : Whole!AfterLine(s) = AfterLine(s)
  BY SamePlaces DEF AfterLine, Whole!AfterLine
<1>4. \A f : Whole!Toggle(f) = Toggle(f)
  BY <1>1, <1>3, SamePlaces DEF Toggle, Whole!Toggle
<1>5. \A f, n, sol : Whole!Drop(f, n, sol) = Drop(f, n, sol)
  BY <1>1, SamePlaces DEF Drop, Whole!Drop
<1>6. QED
  BY <1>1, <1>2, <1>4, <1>5

LEMMA SameStart == \A f, eof : Whole!PumpStart(f, eof) = PumpStart(f, eof)
<1>1. \A f, eof : Whole!PumpTick(f, eof) = PumpTick(f, eof)
  BY SamePlaces, SameSteps DEF PumpTick, Whole!PumpTick
<1>2. \A f, eof : Whole!PumpQuotation(f, eof) = PumpQuotation(f, eof)
  BY SamePlaces, SameSteps DEF PumpQuotation, Whole!PumpQuotation
<1>3. \A f, eof : Whole!PumpHeading(f, eof) = PumpHeading(f, eof)
  BY SamePlaces, SameSteps DEF PumpHeading, Whole!PumpHeading
<1>4. \A f, eof : Whole!PumpBlanks(f, eof) = PumpBlanks(f, eof)
  BY SamePlaces, SameSteps DEF PumpBlanks, Whole!PumpBlanks
<1>5. \A f, eof : Whole!PumpRule(f, eof) = PumpRule(f, eof)
  BY SamePlaces, SameSteps DEF PumpRule, Whole!PumpRule
<1>6. \A f : Whole!OpenTable(f) = OpenTable(f)
  BY SameSteps DEF OpenTable, Whole!OpenTable
<1>7. QED
  BY <1>1, <1>2, <1>3, <1>4, <1>5, <1>6, SamePlaces, SameSteps DEF PumpStart, Whole!PumpStart

LEMMA SameMarks ==
    /\ \A kind : Whole!Marker(kind) = Marker(kind)
    /\ \A s, i : Whole!Doubled(s, i) = Doubled(s, i)
    /\ \A s, i : Whole!Opening(s, i) = Opening(s, i)
    /\ \A s, stops : Whole!Scan(s, stops) = Scan(s, stops)
<1>1. \A kind : Whole!Marker(kind) = Marker(kind)
  BY DEF Marker, Whole!Marker, Tick, Whole!Tick
<1>2. \A s, i : Whole!Doubled(s, i) = Doubled(s, i)
  BY DEF Doubled, Whole!Doubled, At, Whole!At, End, Whole!End
<1>3. ASSUME NEW s, NEW i PROVE Whole!Opening(s, i) = Opening(s, i)
  <2> DEFINE long(k) == IsPrefix(Marker(k), Skip(s, i - 1))
             em(k) == <<s[i]>> = Marker(k) /\ ~Doubled(s, i) /\ At(s, i + 1) \notin {End, " ", NL}
  <2>1. Opening(s, i) = {k \in {"Code", "Image", "Strike", "Bold3", "UBold3"} : long(k)}
                        \cup {k \in {"Italic", "UItalic"} : em(k)}
    BY DEF Opening
  <2>2. \A k : Whole!IsPrefix(Whole!Marker(k), Whole!Skip(s, i - 1)) <=> long(k)
    BY <1>1, SamePlaces
  <2>3. \A k : (/\ <<s[i]>> = Whole!Marker(k) /\ ~Whole!Doubled(s, i)
                /\ Whole!At(s, i + 1) \notin {Whole!End, " ", Whole!NL}) <=> em(k)
    BY <1>1, <1>2, SamePlaces
  <2>. HIDE DEF long, em
  <2>4. QED
    BY <2>1, <2>2, <2>3 DEF Whole!Opening
<1>4. \A s, stops : Whole!Scan(s, stops) = Scan(s, stops)
  BY DEF Scan, Whole!Scan, Reached, Whole!Reached, Min, Whole!Min, Max, Whole!Max
<1>5. QED
  BY <1>1, <1>2, <1>3, <1>4

LEMMA SameBody == \A f, eof : Whole!PumpBody(f, eof) = PumpBody(f, eof)
<1>1. \A s, eof : Whole!Hold(s, eof) = Hold(s, eof)
  BY SamePlaces DEF Hold, Whole!Hold
<1>2. SUFFICES ASSUME NEW f, NEW eof PROVE Whole!PumpBody(f, eof) = PumpBody(f, eof)
  OBVIOUS
<1> DEFINE s == f.buf
           stops == {k \in DOMAIN s : s[k] = NL \/ Opening(s, k) # {}}
           i == Scan(s, stops)
           n == Len(s) - Hold(s, eof)
           step(k, m, o) ==
             IF k > Len(s) THEN Step([f EXCEPT !.buf = Skip(s, m)], Take(s, m))
             ELSE IF s[k] = NL THEN Step([f EXCEPT !.buf = Skip(s, k), !.sol = TRUE], Take(s, k))
             ELSE LET kind == CHOOSE q \in o : TRUE
                  IN  Step([f EXCEPT !.buf = Skip(s, k - 1 + Len(Marker(kind))), !.inline = kind],
                           Take(s, k - 1))
           same(k, m, o) ==
             IF k > Len(s) THEN Whole!Step([f EXCEPT !.buf = Whole!Skip(s, m)], Whole!Take(s, m))
             ELSE IF s[k] = Whole!NL
             THEN Whole!Step([f EXCEPT !.buf = Whole!Skip(s, k), !.sol = TRUE], Whole!Take(s, k))
             ELSE LET kind == CHOOSE q \in o : TRUE
                  IN  Whole!Step([f EXCEPT !.buf = Whole!Skip(s, k - 1 + Len(Whole!Marker(kind))),
                                           !.inline = kind],
                                 Whole!Take(s, k - 1))
           wi == Whole!Scan(s, {k \in DOMAIN s : s[k] = Whole!NL \/ Whole!Opening(s, k) # {}})
<1>3. PumpBody(f, eof) = step(i, n, Opening(s, i))
  BY DEF PumpBody
<1>4. Whole!PumpBody(f, eof) = same(wi, Len(s) - Whole!Hold(s, eof), Whole!Opening(s, wi))
  BY DEF Whole!PumpBody
<1>5. wi = i
  <2>1. {k \in DOMAIN s : s[k] = Whole!NL \/ Whole!Opening(s, k) # {}} = stops
    BY SamePlaces, SameMarks
  <2>2. QED
    BY <2>1, SameMarks
<1>6. ASSUME NEW k, NEW m, NEW o PROVE same(k, m, o) = step(k, m, o)
  <2> DEFINE q == CHOOSE r \in o : TRUE
             on(x) == [f EXCEPT !.buf = x]
             down(x) == [f EXCEPT !.buf = x, !.sol = TRUE]
             into(x) == [f EXCEPT !.buf = x, !.inline = q]
  <2>1. step(k, m, o) = IF k > Len(s) THEN Step(on(Skip(s, m)), Take(s, m))
                        ELSE IF s[k] = NL THEN Step(down(Skip(s, k)), Take(s, k))
                        ELSE Step(into(Skip(s, k - 1 + Len(Marker(q)))), Take(s, k - 1))
    OBVIOUS
  <2>2. same(k, m, o) = IF k > Len(s) THEN Whole!Step(on(Whole!Skip(s, m)), Whole!Take(s, m))
                        ELSE IF s[k] = Whole!NL
                        THEN Whole!Step(down(Whole!Skip(s, k)), Whole!Take(s, k))
                        ELSE Whole!Step(into(Whole!Skip(s, k - 1 + Len(Whole!Marker(q)))),
                                        Whole!Take(s, k - 1))
    OBVIOUS
  <2>. HIDE DEF step, same, q, on, down, into
  <2>3. QED
    BY <2>1, <2>2, SamePlaces, SameSteps, SameMarks
<1>7. Len(s) - Whole!Hold(s, eof) = n /\ Whole!Opening(s, i) = Opening(s, i)
  BY <1>1, SameMarks
<1>. HIDE DEF i, wi, n, step, same
<1>8. QED
  BY <1>3, <1>4, <1>5, <1>6, <1>7

LEMMA SameRows ==
    /\ \A f, line, end : Whole!PutRow(f, line, end) = PutRow(f, line, end)
    /\ \A f, s : Whole!CloseTable(f, s) = CloseTable(f, s)
<1>1. \A line : Whole!ExtractTableRow(line) = ExtractTableRow(line)
  BY DEF ExtractTableRow, Whole!ExtractTableRow, Range, Whole!Range, Blanks, Whole!Blanks,
         Kept, Whole!Kept, Nth, Whole!Nth, Bars, Whole!Bars, FirstCell, Whole!FirstCell,
         LastCell, Whole!LastCell, BlankFromTo, Whole!BlankFromTo, Cardinality, Whole!Cardinality
<1>2. \A line : Whole!Overruns(line) = Overruns(line)
  BY DEF Overruns, Whole!Overruns, Blanks, Whole!Blanks, Bars, Whole!Bars,
         FirstCell, Whole!FirstCell, LastCell, Whole!LastCell, BlankFromTo, Whole!BlankFromTo,
         Cardinality, Whole!Cardinality
<1>3. \A f, line, end : Whole!PutRow(f, line, end) = PutRow(f, line, end)
  BY <1>1, <1>2, SameSteps DEF PutRow, Whole!PutRow
<1>4. \A f, rest, sol : Whole!Closed(f, rest, sol) = Closed(f, rest, sol)
  BY DEF Closed, Whole!Closed
<1>5. \A f, s : Whole!Stay(f, s) = Stay(f, s)
  BY SameSteps DEF Stay, Whole!Stay
<1>6. \A f, s : Whole!CloseTable(f, s) = CloseTable(f, s)
  BY <1>3, <1>4, <1>5, SamePlaces DEF CloseTable, Whole!CloseTable
<1>7. QED
  BY <1>3, <1>6

LEMMA SameInline == \A f : Whole!PumpInline(f) = PumpInline(f)
<1>1. \A f, o, rest, sol : Whole!Close(f, o, rest, sol) = Close(f, o, rest, sol)
  BY SameSteps DEF Close, Whole!Close, Closed, Whole!Closed
<1>2. \A f, s : Whole!Stay(f, s) = Stay(f, s)
  BY SameSteps DEF Stay, Whole!Stay
<1>3. \A f, s, nl : Whole!CloseAtLine(f, s, nl) = CloseAtLine(f, s, nl)
  BY <1>1, SamePlaces, SameMarks DEF CloseAtLine, Whole!CloseAtLine
<1>4. \A f, s : Whole!CloseSimple(f, s) = CloseSimple(f, s)
  BY <1>1, SamePlaces, SameMarks DEF CloseSimple, Whole!CloseSimple
<1>5. ASSUME NEW f, NEW s PROVE Whole!CloseEm(f, s) = CloseEm(f, s)
  <2> DEFINE mark == Marker(f.inline)[1]
             i == Scan(s, {k \in DOMAIN s : s[k] = NL \/ (s[k] = mark /\ ~Doubled(s, k))})
  <2>1. Whole!Marker(f.inline)[1] = mark
    BY SameMarks
  <2>2. {k \in DOMAIN s : s[k] = Whole!NL \/ (s[k] = mark /\ ~Whole!Doubled(s, k))}
        = {k \in DOMAIN s : s[k] = NL \/ (s[k] = mark /\ ~Doubled(s, k))}
    BY SamePlaces, SameMarks
  <2>3. Whole!Scan(s, {k \in DOMAIN s : s[k] = Whole!NL \/ (s[k] = mark /\ ~Whole!Doubled(s, k))}) = i
    BY <2>2, SameMarks
  <2>4. CloseEm(f, s) = IF i > Len(s) THEN Stay(f, s)
                        ELSE IF s[i] = NL THEN CloseAtLine(f, s, i)
                        ELSE Close(f, Take(s, i - 1), Skip(s, i), f.sol)
    BY DEF CloseEm
  <2>5. Whole!CloseEm(f, s) = IF i > Len(s) THEN Whole!Stay(f, s)
                              ELSE IF s[i] = Whole!NL THEN Whole!CloseAtLine(f, s, i)
                              ELSE Whole!Close(f, Whole!Take(s, i - 1), Whole!Skip(s, i), f.sol)
    BY <2>1, <2>3 DEF Whole!CloseEm
  <2>. HIDE DEF i
  <2>6. QED
    BY <1>1, <1>2, <1>3, <2>4, <2>5, SamePlaces
<1>6. \A f, s : Whole!CloseImage(f, s) = CloseImage(f, s)
  BY <1>1, <1>2, SamePlaces, SameMarks DEF CloseImage, Whole!CloseImage
<1>7. QED
  BY <1>2, <1>3, <1>4, <1>5, <1>6, SamePlaces, SameMarks, SameRows DEF PumpInline, Whole!PumpInline

LEMMA SameFilter ==
    /\ Whole!Start = Start
    /\ \A f, eof : Whole!PumpStep(f, eof) = PumpStep(f, eof)
    /\ \A f : Whole!EndInline(f) = EndInline(f)
<1>1. \A f, eof : Whole!PumpFence(f, eof) = PumpFence(f, eof)
  BY SamePlaces, SameSteps DEF PumpFence, Whole!PumpFence
<1>2. \A f, eof : Whole!PumpStep(f, eof) = PumpStep(f, eof)
  BY <1>1, SameStart, SameBody, SameInline DEF PumpStep, Whole!PumpStep
<1>3. \A f : Whole!EndInline(f) = EndInline(f)
  BY SameSteps, SameMarks, SameRows DEF EndInline, Whole!EndInline
<1>4. Whole!Start = Start
  BY DEF Start, Whole!Start
<1>5. QED
  BY <1>2, <1>3, <1>4

-----------------------------------------------------------------------------
(* Whole lines, and what comes after them *)

EndsLine(s) == s # <<>> /\ s[Len(s)] = NL

\* What a text of whole lines begins with is there when more of it has come.
LEMMA LineGrown ==
    ASSUME NEW s \in Seq(Symbols), EndsLine(s), NEW e \in Seq(Symbols)
    PROVE  /\ Len(s) \in Nat \ {0} /\ DOMAIN s = 1..Len(s) /\ Len(s) \in 1..Len(s)
           /\ s \o e \in Seq(Symbols) /\ DOMAIN (s \o e) = 1..Len(s \o e)
           /\ Len(s) <= Len(s \o e) /\ Len(s \o e) \in Nat
           /\ \A i \in 1..Len(s) : (s \o e)[i] = s[i]
           /\ \A i \in 1..Len(s) : At(s \o e, i) = At(s, i) /\ At(s, i) = s[i]
           /\ Find(<<NL>>, s) \in 1..Len(s) /\ Find(<<NL>>, s \o e) = Find(<<NL>>, s)
<1> DEFINE w == s \o e
           nl == <<NL>>
<1>1. Len(s) \in Nat \ {0} /\ DOMAIN s = 1..Len(s) /\ Len(e) \in Nat
  BY LenProperties, EmptySeq DEF EndsLine
<1>2. /\ w \in Seq(Symbols) /\ Len(w) = Len(s) + Len(e)
      /\ \A i \in 1..Len(s) : w[i] = s[i]
  BY Grown
<1>. HIDE DEF w
<1>3. DOMAIN w = 1..Len(w) /\ Len(w) \in Nat /\ Len(s) <= Len(w)
  BY <1>1, <1>2, LenProperties
<1>4. ASSUME NEW i \in 1..Len(s) PROVE At(w, i) = At(s, i) /\ At(s, i) = s[i]
  <2>1. i \in DOMAIN s /\ i \in DOMAIN w
    BY <1>1, <1>3
  <2>2. QED
    BY <1>2, <2>1 DEF At
<1>5. Len(nl) = 1 /\ Len(nl) \in Nat \ {0}
  OBVIOUS
<1>6. SubSeq(s, Len(s), Len(s)) = nl
  <2>1. s[Len(s)] = NL
    BY DEF EndsLine
  <2>2. Len(s) \in Int /\ \A i \in Len(s)..Len(s) : s[i] \in Symbols
    BY <1>1, ElementOfSeq
  <2> DEFINE t == SubSeq(s, Len(s), Len(s))
  <2>3. /\ t \in Seq(Symbols)
        /\ Len(t) = IF Len(s) <= Len(s) THEN Len(s) - Len(s) + 1 ELSE 0
        /\ \A i \in 1..(Len(s) - Len(s) + 1) : t[i] = s[Len(s) + i - 1]
    BY <2>2, SubSeqProperties
  <2>. HIDE DEF t
  <2>4. Len(t) = 1 /\ t[1] = NL
    <3>1. 1 \in 1..(Len(s) - Len(s) + 1) /\ Len(s) + 1 - 1 = Len(s)
      BY <1>1
    <3>2. Len(t) = 1
      BY <1>1, <2>3
    <3>3. QED
      BY <2>1, <2>3, <3>1, <3>2
  <2>5. nl \in Seq(Symbols) /\ \A i \in 1..Len(t) : t[i] = nl[i]
    <3>1. NL \in Symbols
      BY DEF Symbols, Signs
    <3>2. nl[1] = NL /\ \A i \in 1..1 : i = 1
      OBVIOUS
    <3>3. QED
      BY <2>4, <3>1, <3>2
  <2>6. t = nl
    BY <1>5, <2>3, <2>4, <2>5, SeqEqual
  <2>7. QED
    BY <2>6 DEF t
<1>. HIDE DEF nl
<1>7. Find(nl, s) # 0
  <2>1. Len(s) \in 1..(Len(s) + 1 - Len(nl)) /\ Len(s) + Len(nl) - 1 = Len(s)
    BY <1>1, <1>5
  <2>2. QED
    BY <1>5, <1>6, <2>1, FindMatches
<1>8. Find(nl, s) \in 1..Len(s)
  <2>1. Find(nl, s) \in 1..(Len(s) + 1 - Len(nl))
    BY <1>5, <1>7, FindMatches
  <2>2. QED
    BY <1>1, <1>5, <2>1
<1>9. Find(nl, w) = Find(nl, s)
  BY <1>5, <1>7, FoundInGrown DEF w
<1>10. Len(s) \in 1..Len(s)
  BY <1>1
<1>11. QED
  BY <1>1, <1>2, <1>3, <1>4, <1>8, <1>9, <1>10 DEF nl, w

\* What a line begins with, and does not end with, has an end in it.
LEMMA RunGrown ==
    ASSUME NEW s \in Seq(Symbols), EndsLine(s), NEW e \in Seq(Symbols), NEW C, NL \notin C
    PROVE  /\ RunOf(C, s \o e) = RunOf(C, s) /\ RunOf(C, s) \in 0..(Len(s) - 1)
<1> DEFINE w == s \o e
           here == {i \in 1..(Len(s) + 1) : At(s, i) \notin C}
           there == {i \in 1..(Len(w) + 1) : At(w, i) \notin C}
<1>1. /\ Len(s) \in Nat \ {0} /\ Len(w) \in Nat /\ Len(s) <= Len(w) /\ Len(s) \in 1..Len(s)
      /\ \A i \in 1..Len(s) : At(w, i) = At(s, i) /\ At(s, i) = s[i]
  BY LineGrown
<1>. HIDE DEF w
<1>2. Len(s) \in here /\ Len(s) \in there
  <2>1. At(s, Len(s)) = NL /\ At(w, Len(s)) = NL
    BY <1>1 DEF EndsLine
  <2>2. Len(s) \in 1..(Len(s) + 1) /\ Len(s) \in 1..(Len(w) + 1)
    BY <1>1
  <2>3. QED
    BY <2>1, <2>2
<1>3. /\ here \in SUBSET Nat /\ there \in SUBSET Nat
      /\ \A i \in here : i \in 1..(Len(s) + 1)
      /\ \A i \in there : i \in 1..(Len(w) + 1)
  BY <1>1
<1>4. ASSUME NEW i \in 1..Len(s) PROVE i \in here <=> i \in there
  <2>1. i \in 1..(Len(s) + 1) /\ i \in 1..(Len(w) + 1)
    BY <1>1
  <2>2. QED
    BY <1>1, <2>1
<1>5. RunOf(C, s) = Min(here) - 1 /\ RunOf(C, w) = Min(there) - 1
  BY DEF RunOf
<1>. HIDE DEF here, there
<1>6. /\ Min(here) \in here /\ \A m \in here : Min(here) <= m
      /\ Min(there) \in there /\ \A m \in there : Min(there) <= m
  BY <1>2, <1>3, FirstOf
<1>7. Min(here) <= Len(s) /\ Min(there) <= Len(s)
  BY <1>2, <1>6
<1>8. Min(here) \in 1..Len(s) /\ Min(there) \in 1..Len(s)
  <2>1. Min(here) \in 1..(Len(s) + 1) /\ Min(there) \in 1..(Len(w) + 1)
    BY <1>3, <1>6
  <2>2. QED
    BY <1>1, <1>7, <2>1
<1>9. Min(here) <= Min(there) /\ Min(there) <= Min(here)
  BY <1>4, <1>6, <1>8
<1>10. Min(here) = Min(there) /\ Min(here) - 1 \in 0..(Len(s) - 1)
  BY <1>1, <1>8, <1>9
<1>11. QED
  BY <1>5, <1>10 DEF w

\* A prefix is its bytes.
LEMMA PrefixIs ==
    ASSUME NEW S, NEW s \in Seq(S), NEW p \in Seq(S)
    PROVE  IsPrefix(p, s) <=> Len(p) <= Len(s) /\ \A i \in 1..Len(p) : s[i] = p[i]
<1>1. Len(p) \in Nat /\ Len(s) \in Nat
  BY LenProperties
<1>2. SubSeq(p, 1, Len(p)) = p
  BY SubSeqFull
<1>3. ASSUME Len(p) <= Len(s)
      PROVE  SubSeq(s, 1, Len(p)) = p <=> \A i \in 1..Len(p) : s[i] = p[i]
  <2>1. Len(p) \in 0..Len(s)
    BY <1>1, <1>3
  <2>2. /\ Take(s, Len(p)) \in Seq(S) /\ Len(Take(s, Len(p))) = Len(p)
        /\ \A i \in 1..Len(p) : Take(s, Len(p))[i] = s[i]
    BY <2>1, TakeIsHead
  <2>3. Take(s, Len(p)) = p <=> \A i \in 1..Len(p) : s[i] = p[i]
    BY <2>2, SeqEqual
  <2>4. QED
    BY <2>3 DEF Take
<1>4. QED
  BY <1>2, <1>3 DEF IsPrefix

\* A mark without a line's end is not begun by the end of a line.
LEMMA PrefixGrown ==
    ASSUME NEW s \in Seq(Symbols), EndsLine(s), NEW e \in Seq(Symbols),
           NEW p \in Seq(Symbols), \A i \in 1..Len(p) : p[i] # NL
    PROVE  IsPrefix(p, s \o e) <=> IsPrefix(p, s)
<1> DEFINE w == s \o e
<1>1. /\ Len(s) \in Nat \ {0} /\ Len(w) \in Nat /\ Len(s) <= Len(w) /\ w \in Seq(Symbols)
      /\ \A i \in 1..Len(s) : w[i] = s[i]
  BY LineGrown
<1>. HIDE DEF w
<1>2. Len(p) \in Nat
  BY LenProperties
<1>3. /\ IsPrefix(p, s) <=> Len(p) <= Len(s) /\ \A i \in 1..Len(p) : s[i] = p[i]
      /\ IsPrefix(p, w) <=> Len(p) <= Len(w) /\ \A i \in 1..Len(p) : w[i] = p[i]
  BY <1>1, PrefixIs
<1>4. ASSUME IsPrefix(p, w), ~(Len(p) <= Len(s)) PROVE FALSE
  <2>1. Len(s) \in 1..Len(p) /\ Len(s) \in 1..Len(s)
    BY <1>1, <1>2, <1>4
  <2>2. p[Len(s)] = s[Len(s)]
    BY <1>1, <1>3, <1>4, <2>1
  <2>3. QED
    BY <2>1, <2>2 DEF EndsLine
<1>5. Len(p) <= Len(s) => \A i \in 1..Len(p) : w[i] = s[i]
  BY <1>1, <1>2
<1>6. Len(p) <= Len(s) => Len(p) <= Len(w)
  BY <1>1, <1>2
<1>7. QED
  BY <1>3, <1>4, <1>5, <1>6 DEF w

\* The marks of the inlines have no line's end.
LEMMA MarksHaveNoLine ==
    /\ \A kind \in Inlines \ {"Table"} : \A i \in 1..Len(Marker(kind)) : Marker(kind)[i] # NL
    /\ \A i \in 1..Len(Ticks) : Ticks[i] # NL
    /\ Ticks \in Seq(Symbols) /\ Len(Ticks) = 3
<1>1. ASSUME NEW kind \in Inlines \ {"Table"}, NEW i \in 1..Len(Marker(kind))
      PROVE  Marker(kind)[i] # NL
  <2>1. ASSUME NEW a, a # NL PROVE \A j \in 1..Len(<<a>>) : <<a>>[j] # NL
    <3>1. Len(<<a>>) = 1 /\ <<a>>[1] = a /\ \A j \in 1..1 : j = 1
      OBVIOUS
    <3>2. QED
      BY <2>1, <3>1
  <2>2. ASSUME NEW a, NEW b, a # NL, b # NL PROVE \A j \in 1..Len(<<a, b>>) : <<a, b>>[j] # NL
    <3>1. /\ Len(<<a, b>>) = 2 /\ <<a, b>>[1] = a /\ <<a, b>>[2] = b
          /\ \A j \in 1..2 : j = 1 \/ j = 2
      OBVIOUS
    <3>2. QED
      BY <2>2, <3>1
  <2>3. ASSUME NEW a, a # NL PROVE \A j \in 1..Len(<<a, a, a>>) : <<a, a, a>>[j] # NL
    <3>1. /\ Len(<<a, a, a>>) = 3
          /\ <<a, a, a>>[1] = a /\ <<a, a, a>>[2] = a /\ <<a, a, a>>[3] = a
          /\ \A j \in 1..3 : j = 1 \/ j = 2 \/ j = 3
      OBVIOUS
    <3>2. QED
      BY <2>3, <3>1
  <2>4. Tick # NL /\ "!" # NL /\ "[" # NL /\ "~" # NL /\ "*" # NL /\ "_" # NL
    BY DEF Tick, NL
  <2> DEFINE Good(m) == \A j \in 1..Len(m) : m[j] # NL
  <2>5. Good(<<Tick>>) /\ Good(<<"*">>) /\ Good(<<"_">>)
    BY <2>1, <2>4
  <2>6. Good(<<"!", "[">>) /\ Good(<<"~", "~">>)
    BY <2>2, <2>4
  <2>7. Good(<<"*", "*", "*">>) /\ Good(<<"_", "_", "_">>)
    BY <2>3, <2>4
  <2>. HIDE DEF Good
  <2>8. Good(Marker(kind))
    BY <2>5, <2>6, <2>7 DEF Marker, Inlines
  <2>9. QED
    BY <2>8 DEF Good
<1>2. \A i \in 1..Len(Ticks) : Ticks[i] # NL
  <2>1. /\ Len(Ticks) = 3 /\ Ticks[1] = Tick /\ Ticks[2] = Tick /\ Ticks[3] = Tick
        /\ \A j \in 1..3 : j = 1 \/ j = 2 \/ j = 3
    BY DEF Ticks
  <2>2. Tick # NL
    BY DEF Tick, NL
  <2>3. QED
    BY <2>1, <2>2
<1>3. Ticks \in Seq(Symbols) /\ Len(Ticks) = 3
  <2>1. Tick \in Symbols
    BY DEF Symbols, Signs
  <2>2. QED
    BY <2>1 DEF Ticks
<1>4. QED
  BY <1>1, <1>2, <1>3

\* The inlines that open in a text of whole lines.
LEMMA OpeningGrown ==
    ASSUME NEW s \in Seq(Symbols), EndsLine(s), NEW e \in Seq(Symbols), NEW i \in 1..Len(s)
    PROVE  Opening(s \o e, i) = Opening(s, i)
<1> DEFINE w == s \o e
           rest == Skip(s, i - 1)
<1>1. /\ Len(s) \in Nat \ {0} /\ Len(w) \in Nat /\ Len(s) <= Len(w)
      /\ w \in Seq(Symbols) /\ DOMAIN s = 1..Len(s) /\ DOMAIN w = 1..Len(w)
      /\ \A j \in 1..Len(s) : w[j] = s[j]
      /\ \A j \in 1..Len(s) : At(w, j) = At(s, j) /\ At(s, j) = s[j]
  BY LineGrown
<1>2. /\ i \in Nat /\ 1 <= i /\ i <= Len(s) /\ i - 1 \in 0..Len(s) /\ i - 1 < Len(s)
      /\ Len(s) \in Nat
  BY <1>1
<1>3. /\ rest \in Seq(Symbols) /\ Len(rest) = Len(s) - (i - 1)
      /\ \A j \in 1..(Len(s) - (i - 1)) : rest[j] = s[i - 1 + j]
  BY <1>2, SkipIsRest
<1>4. Skip(w, i - 1) = rest \o e
  BY <1>2, Grown
<1>. HIDE DEF w, rest
<1>5. EndsLine(rest)
  <2>1. Len(rest) \in 1..(Len(s) - (i - 1)) /\ i - 1 + Len(rest) = Len(s)
    BY <1>1, <1>2, <1>3
  <2>2. rest[Len(rest)] = s[Len(s)]
    BY <1>3, <2>1
  <2>3. rest # <<>>
    BY <1>3, <2>1, EmptySeq
  <2>4. QED
    BY <2>2, <2>3 DEF EndsLine
<1>6. ASSUME NEW k \in {"Code", "Image", "Strike", "Bold3", "UBold3"}
      PROVE  IsPrefix(Marker(k), Skip(w, i - 1)) <=> IsPrefix(Marker(k), rest)
  <2>1. k \in Inlines \ {"Table"}
    BY DEF Inlines
  <2>2. Marker(k) \in Seq(Symbols) /\ \A j \in 1..Len(Marker(k)) : Marker(k)[j] # NL
    BY <2>1, MarkersAreSigns, MarksHaveNoLine
  <2> DEFINE p == Marker(k)
  <2>3. p \in Seq(Symbols) /\ \A j \in 1..Len(p) : p[j] # NL
    BY <2>2
  <2>. HIDE DEF p
  <2>4. IsPrefix(p, rest \o e) <=> IsPrefix(p, rest)
    BY <1>3, <1>5, <2>3, PrefixGrown
  <2>5. QED
    BY <1>4, <2>4 DEF p
<1> DEFINE em(t, k) == <<t[i]>> = Marker(k) /\ ~Doubled(t, i) /\ At(t, i + 1) \notin {End, " ", NL}
<1>7. ASSUME NEW k \in {"Italic", "UItalic"} PROVE em(w, k) <=> em(s, k)
  <2>1. w[i] = s[i]
    BY <1>1
  <2>2. CASE i = Len(s)
    <3>1. s[i] = NL /\ <<NL>>[1] = NL
      BY <2>2 DEF EndsLine
    <3>2. k \in Inlines \ {"Table"} /\ (Len(Marker(k)) = 1 => Marker(k)[1] # NL)
      <4>1. k \in Inlines \ {"Table"}
        BY DEF Inlines
      <4>2. 1 \in 1..1
        OBVIOUS
      <4>3. QED
        BY <4>1, <4>2, MarksHaveNoLine
    <3>3. <<s[i]>> # Marker(k)
      <4>1. Len(<<s[i]>>) = 1 /\ <<s[i]>>[1] = s[i]
        OBVIOUS
      <4>2. QED
        BY <3>1, <3>2, <4>1
    <3>4. QED
      BY <2>1, <3>3
  <2>3. CASE i # Len(s)
    <3>1. i + 1 \in 1..Len(s)
      BY <1>2, <2>3
    <3>2. At(w, i + 1) = At(s, i + 1)
      BY <1>1, <3>1
    <3>3. QED
      BY <2>1, <3>2 DEF Doubled
  <2>4. QED
    BY <2>2, <2>3
<1>8. Opening(s, i) = {k \in {"Code", "Image", "Strike", "Bold3", "UBold3"} :
                          IsPrefix(Marker(k), rest)}
                      \cup {k \in {"Italic", "UItalic"} : em(s, k)}
  BY DEF Opening, rest
<1>9. Opening(w, i) = {k \in {"Code", "Image", "Strike", "Bold3", "UBold3"} :
                          IsPrefix(Marker(k), Skip(w, i - 1))}
                      \cup {k \in {"Italic", "UItalic"} : em(w, k)}
  BY DEF Opening
<1>. HIDE DEF em
<1>10. Opening(w, i) = Opening(s, i)
  BY <1>6, <1>7, <1>8, <1>9
<1>11. QED
  BY <1>10 DEF w

\* Where one stops in a text of whole lines.
LEMMA ScanGrown ==
    ASSUME NEW s \in Seq(Symbols), EndsLine(s), NEW e \in Seq(Symbols),
           NEW stops \in SUBSET (1..Len(s)), NEW more \in SUBSET (1..Len(s \o e)),
           \A i \in 1..Len(s) : i \in stops <=> i \in more, Len(s) \in stops
    PROVE  /\ Scan(s \o e, more) = Scan(s, stops)
           /\ Scan(s, stops) \in stops /\ Scan(s, stops) \in 1..Len(s)
<1> DEFINE w == s \o e
           here == {i \in stops : Reached(s, i)} \cup {Len(s) + 1}
           there == {i \in more : Reached(w, i)} \cup {Len(w) + 1}
<1>1. /\ Len(s) \in Nat \ {0} /\ Len(w) \in Nat /\ Len(s) <= Len(w) /\ Len(s) \in 1..Len(s)
      /\ w \in Seq(Symbols)
      /\ \A j \in 1..Len(s) : w[j] = s[j]
  BY LineGrown
<1>2. more \in SUBSET (1..Len(w))
  OBVIOUS
<1>3. ASSUME NEW i \in 1..Len(s) PROVE Reached(w, i) <=> Reached(s, i)
  <2>1. w[i] = s[i] /\ \A k \in 1..i : w[k] = s[k]
    BY <1>1
  <2>2. {k \in 1..i : w[k] # w[i]} = {k \in 1..i : s[k] # s[i]}
    BY <2>1
  <2>. HIDE DEF w
  <2>3. QED
    BY <2>1, <2>2 DEF Reached
<1>. HIDE DEF w
<1>4. Reached(s, Len(s))
  <2>1. s[Len(s)] = NL /\ NL \notin {"*", "_"}
    BY DEF EndsLine, NL
  <2>2. QED
    BY <2>1 DEF Reached
<1>5. Len(s) \in here /\ Len(s) \in there
  BY <1>1, <1>3, <1>4
<1>6. ASSUME NEW i \in 1..Len(s) PROVE i \in here <=> i \in there
  <2>1. i # Len(s) + 1 /\ i # Len(w) + 1
    BY <1>1
  <2>2. QED
    BY <1>3, <2>1
<1>7. /\ here \in SUBSET Nat /\ there \in SUBSET Nat
      /\ \A i \in here : i \in 1..(Len(s) + 1)
      /\ \A i \in there : i \in 1..(Len(w) + 1)
      /\ \A i \in here : i # Len(s) + 1 => i \in stops
  <2>1. /\ \A i \in stops : i \in 1..(Len(s) + 1)
        /\ \A i \in more : i \in 1..(Len(w) + 1)
        /\ Len(s) + 1 \in 1..(Len(s) + 1) /\ Len(w) + 1 \in 1..(Len(w) + 1)
    BY <1>1, <1>2
  <2>2. /\ \A i \in here : i \in 1..(Len(s) + 1)
        /\ \A i \in there : i \in 1..(Len(w) + 1)
    BY <2>1
  <2>3. \A i \in here : i # Len(s) + 1 => i \in stops
    OBVIOUS
  <2>. HIDE DEF here, there
  <2>4. here \in SUBSET Nat /\ there \in SUBSET Nat
    BY <1>1, <2>2
  <2>5. QED
    BY <2>2, <2>3, <2>4
<1>8. Scan(s, stops) = Min(here) /\ Scan(w, more) = Min(there)
  BY DEF Scan
<1>. HIDE DEF here, there
<1>9. /\ Min(here) \in here /\ \A m \in here : Min(here) <= m
      /\ Min(there) \in there /\ \A m \in there : Min(there) <= m
  BY <1>5, <1>7, FirstOf
<1>10. Min(here) \in 1..Len(s) /\ Min(there) \in 1..Len(s)
  <2>1. Min(here) \in 1..(Len(s) + 1) /\ Min(there) \in 1..(Len(w) + 1)
    BY <1>7, <1>9
  <2>2. Min(here) <= Len(s) /\ Min(there) <= Len(s)
    BY <1>5, <1>9
  <2>3. QED
    BY <1>1, <2>1, <2>2
<1>11. Min(here) <= Min(there) /\ Min(there) <= Min(here)
  BY <1>6, <1>9, <1>10
<1>12. Min(here) = Min(there) /\ Min(here) # Len(s) + 1
  BY <1>1, <1>10, <1>11
<1>13. QED
  BY <1>7, <1>8, <1>9, <1>10, <1>12 DEF w

-----------------------------------------------------------------------------
(* A pass of the filter that has been fed lines, and of the one that has been fed all *)

LEMMA SameFields ==
    ASSUME NEW g \in Filters, NEW h \in Filters,
           g.buf = h.buf, g.fence = h.fence, g.sol = h.sol, g.inline = h.inline, g.acc = h.acc
    PROVE  g = h
BY DEF Filters

\* What has been read and not put out is not read yet by the filter that is ahead.
LEMMA AheadIs ==
    ASSUME NEW g \in Filters, NEW e \in Seq(Symbols), e # <<>>
    PROVE  /\ Ahead(g, e) \in Filters
           /\ Ahead(g, e).buf = Unread(g) \o e /\ Ahead(g, e).acc = <<>>
           /\ Ahead(g, e).fence = g.fence /\ Ahead(g, e).sol = g.sol
           /\ Ahead(g, e).inline = g.inline
           /\ Unread(g) \in Seq(Symbols) /\ Unread(g) \o e # <<>>
           /\ g.buf \o e # <<>>
<1>1. g.buf \in Seq(Symbols) /\ g.acc \in Seq(Symbols)
  BY DEF Filters
<1>2. ASSUME NEW t \in Seq(Symbols) PROVE t \o e # <<>>
  <2>1. Len(t) \in Nat /\ Len(e) \in Nat \ {0}
    BY LenProperties, EmptySeq
  <2>2. t \o e \in Seq(Symbols) /\ Len(t \o e) = Len(t) + Len(e)
    BY ConcatProperties
  <2>3. Len(t \o e) # 0
    BY <2>1, <2>2
  <2>4. QED
    BY <2>2, <2>3, EmptySeq
<1>3. Unread(g) \in Seq(Symbols) /\ Unread(g) \o e \in Seq(Symbols)
  BY <1>1, ConcatProperties DEF Unread
<1>4. g.buf \o e # <<>> /\ Unread(g) \o e # <<>>
  BY <1>1, <1>2, <1>3
<1>5. Ahead(g, e) = [g EXCEPT !.acc = <<>>, !.buf = Unread(g) \o e]
  BY <1>4 DEF Ahead, Unread
<1>6. <<>> \in Seq(Symbols)
  OBVIOUS
<1> DEFINE t == Unread(g) \o e
<1>7. t \in Seq(Symbols) /\ Ahead(g, e) = [g EXCEPT !.acc = <<>>, !.buf = t]
  BY <1>3, <1>5
<1>. HIDE DEF t
<1>8. /\ Ahead(g, e) \in Filters /\ Ahead(g, e).buf = t /\ Ahead(g, e).acc = <<>>
      /\ Ahead(g, e).fence = g.fence /\ Ahead(g, e).sol = g.sol
      /\ Ahead(g, e).inline = g.inline
  BY <1>6, <1>7 DEF Filters
<1>9. QED
  BY <1>3, <1>4, <1>8 DEF t

\* The filter after n bytes of s, and the one after n bytes of what s is the head of.
LEMMA AheadAfter ==
    ASSUME NEW s \in Seq(Symbols), NEW e \in Seq(Symbols), e # <<>>, NEW n \in 0..Len(s),
           NEW g \in Filters, g.buf = Skip(s, n), g.acc = <<>>,
           NEW h \in Filters, h.buf = Skip(s \o e, n), h.acc = <<>>,
           h.fence = g.fence, h.sol = g.sol, h.inline = g.inline
    PROVE  Ahead(g, e) = h
<1>1. Skip(s \o e, n) = Skip(s, n) \o e /\ Skip(s, n) \in Seq(Symbols)
  BY Grown, SkipIsRest
<1>2. Unread(g) = Skip(s, n)
  BY <1>1, ConcatEmptySeq DEF Unread
<1>3. Ahead(g, e).buf = h.buf
  BY <1>1, <1>2, AheadIs
<1>4. /\ Ahead(g, e) \in Filters /\ Ahead(g, e).acc = <<>> /\ Ahead(g, e).fence = g.fence
      /\ Ahead(g, e).sol = g.sol /\ Ahead(g, e).inline = g.inline
  BY AheadIs
<1>5. QED
  BY <1>3, <1>4, SameFields

Onward(step, e) == [f |-> Ahead(step.f, e), out |-> step.out, panics |-> step.panics]

\* The filter ahead does what this one does.
LEMMA OnwardIs ==
    ASSUME NEW g, NEW h, NEW o, NEW e, Ahead(g, e) = h
    PROVE  Step(h, o) = Onward(Step(g, o), e)
BY DEF Step, Onward

\* Both pass over the same bytes, and do the same with them.
LEMMA BothRead ==
    ASSUME NEW s \in Seq(Symbols), NEW e \in Seq(Symbols), e # <<>>, NEW n \in 0..Len(s),
           NEW g \in Filters, g.buf = Skip(s, n), g.acc = <<>>,
           NEW h \in Filters, h.buf = Skip(s \o e, n), h.acc = <<>>,
           h.fence = g.fence, h.sol = g.sol, h.inline = g.inline
    PROVE  \A o : Step(h, o) = Onward(Step(g, o), e)
<1>1. Ahead(g, e) = h
  BY AheadAfter
<1>2. QED
  BY <1>1, OnwardIs

\* The filter ahead of one that is in no inline.
LEMMA AheadParts ==
    ASSUME NEW f, IsFilter(f), f.inline = "none", NEW e \in Seq(Symbols), e # <<>>
    PROVE  /\ f \in Filters /\ f.buf \in Seq(Symbols) /\ Len(f.buf) \in Nat /\ f.acc = <<>>
           /\ f.fence \in BOOLEAN /\ f.sol \in BOOLEAN /\ Unread(f) = f.buf
           /\ Ahead(f, e) \in Filters /\ Ahead(f, e).buf = f.buf \o e /\ Ahead(f, e).acc = <<>>
           /\ Ahead(f, e).fence = f.fence /\ Ahead(f, e).sol = f.sol
           /\ Ahead(f, e).inline = "none"
           /\ \A n \in 0..Len(f.buf) : n \in 0..Len(f.buf \o e)
<1>1. /\ f \in Filters /\ f.buf \in Seq(Symbols) /\ Len(f.buf) \in Nat /\ f.acc = <<>>
      /\ Unread(f) = f.buf /\ f.fence \in BOOLEAN /\ f.sol \in BOOLEAN
  BY FilterParts DEF IsFilter, Filters
<1>2. /\ Ahead(f, e) \in Filters /\ Ahead(f, e).buf = f.buf \o e /\ Ahead(f, e).acc = <<>>
      /\ Ahead(f, e).fence = f.fence /\ Ahead(f, e).sol = f.sol
      /\ Ahead(f, e).inline = "none"
  BY <1>1, AheadIs, ZenonT(40)
<1>3. Len(f.buf \o e) = Len(f.buf) + Len(e) /\ Len(e) \in Nat
  BY <1>1, ConcatProperties, LenProperties
<1>4. \A n \in 0..Len(f.buf) : n \in 0..Len(f.buf \o e)
  BY <1>1, <1>3
<1>5. QED
  BY <1>1, <1>2, <1>4

\* What both do with the bytes they pass over.
Alike(f, F, e, n, sol, kind, o) ==
    /\ LeaveStart(F) = Onward(LeaveStart(f), e)
    /\ Drop(F, n, sol) = Onward(Drop(f, n, sol), e)
    /\ Step([F EXCEPT !.buf = Skip(F.buf, n)], o)
       = Onward(Step([f EXCEPT !.buf = Skip(f.buf, n)], o), e)
    /\ Step([F EXCEPT !.buf = Skip(F.buf, n), !.sol = sol], o)
       = Onward(Step([f EXCEPT !.buf = Skip(f.buf, n), !.sol = sol], o), e)
    /\ Step([F EXCEPT !.buf = Skip(F.buf, n), !.inline = kind], o)
       = Onward(Step([f EXCEPT !.buf = Skip(f.buf, n), !.inline = kind], o), e)
    /\ Step([F EXCEPT !.buf = Skip(F.buf, n), !.sol = sol, !.inline = kind], o)
       = Onward(Step([f EXCEPT !.buf = Skip(f.buf, n), !.sol = sol, !.inline = kind], o), e)
    /\ Step([F EXCEPT !.fence = ~@, !.buf = Skip(F.buf, n), !.sol = sol], o)
       = Onward(Step([f EXCEPT !.fence = ~@, !.buf = Skip(f.buf, n), !.sol = sol], o), e)

LEMMA BothDo ==
    ASSUME NEW f, IsFilter(f), f.inline = "none", NEW e \in Seq(Symbols), e # <<>>,
           NEW F, F = Ahead(f, e), NEW n \in 0..Len(f.buf), NEW sol \in BOOLEAN,
           NEW kind \in Inlines \cup {"none"}, NEW o
    PROVE  Alike(f, F, e, n, sol, kind, o)
<1> DEFINE s == f.buf
           w == F.buf
           r == Skip(s, n)
           q == Skip(w, n)
<1>1. /\ f \in Filters /\ s \in Seq(Symbols) /\ Len(s) \in Nat /\ f.acc = <<>>
      /\ F \in Filters /\ F.acc = <<>> /\ F.fence = f.fence /\ F.sol = f.sol
      /\ F.inline = f.inline /\ w = s \o e /\ n \in 0..Len(w) /\ n \in 0..Len(s) /\ w \in Seq(Symbols)
      /\ f.fence \in BOOLEAN /\ f.sol \in BOOLEAN /\ f.inline \in Inlines \cup {"none"}
  <2>1. F.buf \in Seq(Symbols)
    BY AheadParts DEF Filters
  <2>2. QED
    BY <2>1, AheadParts
<1>2. /\ r \in Seq(Symbols) /\ q \in Seq(Symbols) /\ <<>> \in Seq(Symbols)
      /\ Skip(s, 0) = s /\ Skip(w, 0) = w /\ 0 \in 0..Len(s)
  <2>1. r \in Seq(Symbols)
    BY <1>1, SkipIsRest
  <2>2. q \in Seq(Symbols)
    BY <1>1, SkipIsRest
  <2>3. Skip(s, 0) = s /\ Skip(w, 0) = w
    BY <1>1, SkipEnds
  <2>. HIDE DEF s, r, q
  <2>4. QED
    BY <1>1, <2>1, <2>2, <2>3
<1> DEFINE
      g1 == [f EXCEPT !.sol = FALSE]
      h1 == [F EXCEPT !.sol = FALSE]
      g2 == [f EXCEPT !.buf = r]
      h2 == [F EXCEPT !.buf = q]
      g3 == [f EXCEPT !.buf = r, !.sol = sol]
      h3 == [F EXCEPT !.buf = q, !.sol = sol]
      g4 == [f EXCEPT !.buf = r, !.inline = kind]
      h4 == [F EXCEPT !.buf = q, !.inline = kind]
      g5 == [f EXCEPT !.buf = r, !.sol = sol, !.inline = kind]
      h5 == [F EXCEPT !.buf = q, !.sol = sol, !.inline = kind]
      g6 == [f EXCEPT !.fence = ~@, !.buf = r, !.sol = sol]
      h6 == [F EXCEPT !.fence = ~@, !.buf = q, !.sol = sol]
<1>3. \A p : Step(h1, p) = Onward(Step(g1, p), e)
  <2>1. /\ g1 \in Filters /\ g1.buf = s /\ g1.fence = f.fence /\ g1.sol = FALSE
        /\ g1.inline = f.inline /\ g1.acc = <<>>
    BY <1>1, <1>2 DEF Filters
  <2>2. /\ h1 \in Filters /\ h1.buf = w /\ h1.fence = f.fence /\ h1.sol = FALSE
        /\ h1.inline = f.inline /\ h1.acc = <<>>
    BY <1>1, <1>2 DEF Filters
  <2>. HIDE DEF g1, h1
  <2>3. g1.buf = Skip(s, 0) /\ h1.buf = Skip(s \o e, 0)
    BY <1>1, <1>2, <2>1, <2>2
  <2>4. h1.fence = g1.fence /\ h1.sol = g1.sol /\ h1.inline = g1.inline
    BY <2>1, <2>2
  <2>. HIDE DEF s, w, r, q
  <2>5. /\ s \in Seq(Symbols) /\ 0 \in 0..Len(s)
        /\ g1 \in Filters /\ g1.acc = <<>> /\ h1 \in Filters /\ h1.acc = <<>>
    BY <1>1, <1>2, <2>1, <2>2
  <2>6. QED
    BY <2>3, <2>4, <2>5, BothRead
<1>4. \A p : Step(h2, p) = Onward(Step(g2, p), e)
  <2>1. /\ g2 \in Filters /\ g2.buf = r /\ g2.fence = f.fence /\ g2.sol = f.sol
        /\ g2.inline = f.inline /\ g2.acc = <<>>
    BY <1>1, <1>2 DEF Filters
  <2>2. /\ h2 \in Filters /\ h2.buf = q /\ h2.fence = f.fence /\ h2.sol = f.sol
        /\ h2.inline = f.inline /\ h2.acc = <<>>
    BY <1>1, <1>2 DEF Filters
  <2>. HIDE DEF g2, h2
  <2>3. g2.buf = Skip(s, n) /\ h2.buf = Skip(s \o e, n)
    BY <1>1, <1>2, <2>1, <2>2
  <2>4. h2.fence = g2.fence /\ h2.sol = g2.sol /\ h2.inline = g2.inline
    BY <2>1, <2>2
  <2>. HIDE DEF s, w, r, q
  <2>5. /\ s \in Seq(Symbols) /\ n \in 0..Len(s)
        /\ g2 \in Filters /\ g2.acc = <<>> /\ h2 \in Filters /\ h2.acc = <<>>
    BY <1>1, <1>2, <2>1, <2>2
  <2>6. QED
    BY <2>3, <2>4, <2>5, BothRead
<1>5. \A p : Step(h3, p) = Onward(Step(g3, p), e)
  <2>1. /\ g3 \in Filters /\ g3.buf = r /\ g3.fence = f.fence /\ g3.sol = sol
        /\ g3.inline = f.inline /\ g3.acc = <<>>
    BY <1>1, <1>2 DEF Filters
  <2>2. /\ h3 \in Filters /\ h3.buf = q /\ h3.fence = f.fence /\ h3.sol = sol
        /\ h3.inline = f.inline /\ h3.acc = <<>>
    BY <1>1, <1>2 DEF Filters
  <2>. HIDE DEF g3, h3
  <2>3. g3.buf = Skip(s, n) /\ h3.buf = Skip(s \o e, n)
    BY <1>1, <1>2, <2>1, <2>2
  <2>4. h3.fence = g3.fence /\ h3.sol = g3.sol /\ h3.inline = g3.inline
    BY <2>1, <2>2
  <2>. HIDE DEF s, w, r, q
  <2>5. /\ s \in Seq(Symbols) /\ n \in 0..Len(s)
        /\ g3 \in Filters /\ g3.acc = <<>> /\ h3 \in Filters /\ h3.acc = <<>>
    BY <1>1, <1>2, <2>1, <2>2
  <2>6. QED
    BY <2>3, <2>4, <2>5, BothRead
<1>6. \A p : Step(h4, p) = Onward(Step(g4, p), e)
  <2>1. /\ g4 \in Filters /\ g4.buf = r /\ g4.fence = f.fence /\ g4.sol = f.sol
        /\ g4.inline = kind /\ g4.acc = <<>>
    BY <1>1, <1>2 DEF Filters
  <2>2. /\ h4 \in Filters /\ h4.buf = q /\ h4.fence = f.fence /\ h4.sol = f.sol
        /\ h4.inline = kind /\ h4.acc = <<>>
    BY <1>1, <1>2 DEF Filters
  <2>. HIDE DEF g4, h4
  <2>3. g4.buf = Skip(s, n) /\ h4.buf = Skip(s \o e, n)
    BY <1>1, <1>2, <2>1, <2>2
  <2>4. h4.fence = g4.fence /\ h4.sol = g4.sol /\ h4.inline = g4.inline
    BY <2>1, <2>2
  <2>. HIDE DEF s, w, r, q
  <2>5. /\ s \in Seq(Symbols) /\ n \in 0..Len(s)
        /\ g4 \in Filters /\ g4.acc = <<>> /\ h4 \in Filters /\ h4.acc = <<>>
    BY <1>1, <1>2, <2>1, <2>2
  <2>6. QED
    BY <2>3, <2>4, <2>5, BothRead
<1>7. \A p : Step(h5, p) = Onward(Step(g5, p), e)
  <2>1. /\ g5 \in Filters /\ g5.buf = r /\ g5.fence = f.fence /\ g5.sol = sol
        /\ g5.inline = kind /\ g5.acc = <<>>
    BY <1>1, <1>2 DEF Filters
  <2>2. /\ h5 \in Filters /\ h5.buf = q /\ h5.fence = f.fence /\ h5.sol = sol
        /\ h5.inline = kind /\ h5.acc = <<>>
    BY <1>1, <1>2 DEF Filters
  <2>. HIDE DEF g5, h5
  <2>3. g5.buf = Skip(s, n) /\ h5.buf = Skip(s \o e, n)
    BY <1>1, <1>2, <2>1, <2>2
  <2>4. h5.fence = g5.fence /\ h5.sol = g5.sol /\ h5.inline = g5.inline
    BY <2>1, <2>2
  <2>. HIDE DEF s, w, r, q
  <2>5. /\ s \in Seq(Symbols) /\ n \in 0..Len(s)
        /\ g5 \in Filters /\ g5.acc = <<>> /\ h5 \in Filters /\ h5.acc = <<>>
    BY <1>1, <1>2, <2>1, <2>2
  <2>6. QED
    BY <2>3, <2>4, <2>5, BothRead
<1>8. \A p : Step(h6, p) = Onward(Step(g6, p), e)
  <2>1. /\ g6 \in Filters /\ g6.buf = r /\ g6.fence = (~f.fence) /\ g6.sol = sol
        /\ g6.inline = f.inline /\ g6.acc = <<>>
    BY <1>1, <1>2 DEF Filters
  <2>2. /\ h6 \in Filters /\ h6.buf = q /\ h6.fence = (~f.fence) /\ h6.sol = sol
        /\ h6.inline = f.inline /\ h6.acc = <<>>
    BY <1>1, <1>2 DEF Filters
  <2>. HIDE DEF g6, h6
  <2>3. g6.buf = Skip(s, n) /\ h6.buf = Skip(s \o e, n)
    BY <1>1, <1>2, <2>1, <2>2
  <2>4. h6.fence = g6.fence /\ h6.sol = g6.sol /\ h6.inline = g6.inline
    BY <2>1, <2>2
  <2>. HIDE DEF s, w, r, q
  <2>5. /\ s \in Seq(Symbols) /\ n \in 0..Len(s)
        /\ g6 \in Filters /\ g6.acc = <<>> /\ h6 \in Filters /\ h6.acc = <<>>
    BY <1>1, <1>2, <2>1, <2>2
  <2>6. QED
    BY <2>3, <2>4, <2>5, BothRead
<1>9. /\ LeaveStart(f) = Step(g1, <<>>) /\ LeaveStart(F) = Step(h1, <<>>)
      /\ Drop(f, n, sol) = Step(g3, <<>>) /\ Drop(F, n, sol) = Step(h3, <<>>)
  BY DEF LeaveStart, Drop
<1>. HIDE DEF g1, g2, g3, g4, g5, g6, h1, h2, h3, h4, h5, h6
<1>10. QED
  BY <1>3, <1>4, <1>5, <1>6, <1>7, <1>8, <1>9 DEF Alike, g2, g3, g4, g5, g6, h2, h3, h4, h5, h6

\* The same at the end of a line, or in it.
AlikeAtLine(f, F, e, n, o) ==
    /\ Drop(F, n, TRUE) = Onward(Drop(f, n, TRUE), e)
    /\ Drop(F, n, FALSE) = Onward(Drop(f, n, FALSE), e)
    /\ Step([F EXCEPT !.buf = Skip(F.buf, n), !.sol = TRUE], o)
       = Onward(Step([f EXCEPT !.buf = Skip(f.buf, n), !.sol = TRUE], o), e)
    /\ Step([F EXCEPT !.buf = Skip(F.buf, n), !.sol = FALSE, !.inline = "Table"], o)
       = Onward(Step([f EXCEPT !.buf = Skip(f.buf, n), !.sol = FALSE, !.inline = "Table"], o), e)
    /\ Step([F EXCEPT !.fence = ~@, !.buf = Skip(F.buf, n), !.sol = TRUE], o)
       = Onward(Step([f EXCEPT !.fence = ~@, !.buf = Skip(f.buf, n), !.sol = TRUE], o), e)

LEMMA BothDoAtLine ==
    ASSUME NEW f, IsFilter(f), f.inline = "none", NEW e \in Seq(Symbols), e # <<>>,
           NEW F, F = Ahead(f, e), NEW n \in 0..Len(f.buf), NEW o
    PROVE  AlikeAtLine(f, F, e, n, o)
<1> DEFINE drop(sol) == Drop(F, n, sol) = Onward(Drop(f, n, sol), e)
           skip(sol) == Step([F EXCEPT !.buf = Skip(F.buf, n), !.sol = sol], o)
                        = Onward(Step([f EXCEPT !.buf = Skip(f.buf, n), !.sol = sol], o), e)
           open(sol) == Step([F EXCEPT !.buf = Skip(F.buf, n), !.sol = sol, !.inline = "Table"], o)
              = Onward(Step([f EXCEPT !.buf = Skip(f.buf, n), !.sol = sol, !.inline = "Table"], o), e)
           fence(sol) == Step([F EXCEPT !.fence = ~@, !.buf = Skip(F.buf, n), !.sol = sol], o)
              = Onward(Step([f EXCEPT !.fence = ~@, !.buf = Skip(f.buf, n), !.sol = sol], o), e)
<1>1. "Table" \in Inlines \cup {"none"}
  BY DEF Inlines
<1>2. ASSUME NEW sol \in BOOLEAN PROVE drop(sol) /\ skip(sol) /\ open(sol) /\ fence(sol)
  <2>1. PICK kind \in Inlines \cup {"none"} : kind = "Table"
    BY <1>1
  <2> DEFINE wide == Step([F EXCEPT !.buf = Skip(F.buf, n), !.sol = sol, !.inline = kind], o)
              = Onward(Step([f EXCEPT !.buf = Skip(f.buf, n), !.sol = sol, !.inline = kind], o), e)
  <2>a. Alike(f, F, e, n, sol, kind, o)
    BY BothDo
  <2>2. drop(sol) /\ skip(sol) /\ wide /\ fence(sol)
    BY <2>a DEF Alike
  <2>3. open(sol)
    BY <2>1, <2>2
  <2>4. QED
    BY <2>2, <2>3
<1>. HIDE DEF drop, skip, open, fence
<1>3. (drop(TRUE) /\ skip(TRUE) /\ open(TRUE) /\ fence(TRUE)) /\ (drop(FALSE) /\ open(FALSE))
  BY <1>2
<1>4. QED
  BY <1>3 DEF AlikeAtLine, drop, skip, open, fence

\* One waits for more, or the one ahead does the same.
WaitsOrAhead(f, e, step, ahead) == step = Wait(f) \/ ahead = Onward(step, e)

\* What follows the line of a fence.
LEMMA AfterTicksGrown ==
    ASSUME NEW s \in Seq(Symbols), EndsLine(s), NEW e \in Seq(Symbols), IsPrefix(Ticks, s)
    PROVE  \E n \in 0..Len(s) : /\ AfterLine(Skip(s, 3)) = Skip(s, n)
                                /\ AfterLine(Skip(s \o e, 3)) = Skip(s \o e, n)
<1> DEFINE w == s \o e
           t == Skip(s, 3)
           m == Find(<<NL>>, t)
<1>1. /\ Len(s) \in Nat \ {0} /\ w \in Seq(Symbols) /\ Len(w) \in Nat /\ Len(s) <= Len(w)
  BY LineGrown
<1>2. 3 <= Len(s) /\ s[1] = Tick /\ s[2] = Tick /\ s[3] = Tick
  <2>1. Ticks \in Seq(Symbols) /\ Len(Ticks) = 3
    BY MarksHaveNoLine
  <2>2. 3 <= Len(s) /\ \A i \in 1..3 : s[i] = Ticks[i]
    BY <2>1, PrefixIs, SMTT(40)
  <2>3. Ticks[1] = Tick /\ Ticks[2] = Tick /\ Ticks[3] = Tick
    BY DEF Ticks
  <2>4. QED
    BY <2>2, <2>3
<1>3. Len(s) # 3 /\ 3 \in 0..Len(s)
  <2>1. s[Len(s)] = NL /\ NL # Tick
    BY DEF EndsLine, NL, Tick
  <2>2. QED
    BY <1>1, <1>2, <2>1
<1>4. /\ t \in Seq(Symbols) /\ Len(t) = Len(s) - 3 /\ \A i \in 1..(Len(s) - 3) : t[i] = s[3 + i]
  BY <1>3, SkipIsRest
<1>5. Skip(w, 3) = t \o e
  BY <1>3, Grown
<1>. HIDE DEF t, w
<1>6. EndsLine(t)
  <2>1. Len(t) \in 1..(Len(s) - 3) /\ 3 + Len(t) = Len(s)
    BY <1>1, <1>2, <1>3, <1>4
  <2>2. t[Len(t)] = s[Len(s)] /\ t # <<>>
    BY <1>4, <2>1, EmptySeq
  <2>3. QED
    BY <2>2 DEF EndsLine
<1>7. m \in 1..Len(t) /\ Find(<<NL>>, t \o e) = m
  BY <1>4, <1>6, LineGrown
<1>8. AfterLine(t) = Skip(t, m) /\ AfterLine(t \o e) = Skip(t \o e, m)
  <2>1. m # 0
    BY <1>7
  <2>2. QED
    BY <1>7, <2>1 DEF AfterLine
<1>. HIDE DEF m
<1>9. m \in 0..(Len(s) - 3) /\ 3 + m \in 0..Len(s) /\ m \in 0..(Len(w) - 3) /\ 3 \in 0..Len(w)
  <2>1. m \in 1..(Len(s) - 3)
    BY <1>4, <1>7
  <2>2. QED
    BY <1>1, <1>3, <2>1
<1>10. Skip(t, m) = Skip(s, 3 + m)
  BY <1>3, <1>9, SkipAgain DEF t
<1>11. Skip(Skip(w, 3), m) = Skip(w, 3 + m)
  BY <1>1, <1>9, SkipAgain
<1>12. AfterLine(t) = Skip(s, 3 + m) /\ AfterLine(Skip(w, 3)) = Skip(w, 3 + m)
  BY <1>5, <1>8, <1>10, <1>11
<1>13. QED
  BY <1>9, <1>12 DEF t, w

\* A fence opens or closes for both.
LEMMA ToggleAhead ==
    ASSUME NEW f, IsFilter(f), f.inline = "none", EndsLine(f.buf), IsPrefix(Ticks, f.buf),
           NEW e \in Seq(Symbols), e # <<>>
    PROVE  Toggle(Ahead(f, e)) = Onward(Toggle(f), e)
<1> DEFINE F == Ahead(f, e)
<1>1. f.buf \in Seq(Symbols) /\ F.buf = f.buf \o e
  BY AheadParts
<1>2. PICK n \in 0..Len(f.buf) : /\ AfterLine(Skip(f.buf, 3)) = Skip(f.buf, n)
                                 /\ AfterLine(Skip(f.buf \o e, 3)) = Skip(f.buf \o e, n)
  BY <1>1, AfterTicksGrown
<1>3. AlikeAtLine(f, F, e, n, <<>>)
  BY BothDoAtLine
<1>4. Toggle(f) = Step([f EXCEPT !.fence = ~@, !.buf = Skip(f.buf, n), !.sol = TRUE], <<>>)
  BY <1>2 DEF Toggle
<1>5. Toggle(F) = Step([F EXCEPT !.fence = ~@, !.buf = Skip(F.buf, n), !.sol = TRUE], <<>>)
  BY <1>1, <1>2 DEF Toggle
<1>6. QED
  BY <1>3, <1>4, <1>5 DEF AlikeAtLine

\* What a text of whole lines begins with is there for both.
LEMMA TicksAhead ==
    ASSUME NEW s \in Seq(Symbols), EndsLine(s), NEW e \in Seq(Symbols), NEW w, w = s \o e
    PROVE  /\ IsPrefix(Ticks, w) <=> IsPrefix(Ticks, s)
           /\ Find(<<NL>>, w) = Find(<<NL>>, s) /\ Find(<<NL>>, s) \in 1..Len(s)
           /\ Len(s) \in Nat \ {0} /\ Len(w) \in Nat /\ Len(s) <= Len(w)
           /\ \A i \in 1..Len(s) : At(w, i) = At(s, i)
           /\ \A i \in 1..Len(s) : w[i] = s[i]
<1>1. Ticks \in Seq(Symbols) /\ \A i \in 1..Len(Ticks) : Ticks[i] # NL
  BY MarksHaveNoLine
<1> DEFINE p == Ticks
<1>2. p \in Seq(Symbols) /\ \A i \in 1..Len(p) : p[i] # NL
  BY <1>1
<1>. HIDE DEF p
<1>3. IsPrefix(p, s \o e) <=> IsPrefix(p, s)
  BY <1>2, PrefixGrown
<1>4. Find(<<NL>>, s \o e) = Find(<<NL>>, s) /\ Find(<<NL>>, s) \in 1..Len(s)
  BY LineGrown
<1>5. /\ Len(s) \in Nat \ {0} /\ Len(s \o e) \in Nat /\ Len(s) <= Len(s \o e)
      /\ \A i \in 1..Len(s) : At(s \o e, i) = At(s, i)
      /\ \A i \in 1..Len(s) : (s \o e)[i] = s[i]
  BY LineGrown
<1>6. QED
  BY <1>3, <1>4, <1>5 DEF p

LEMMA BytesGrown ==
    ASSUME NEW s \in Seq(Symbols), EndsLine(s), NEW e \in Seq(Symbols)
    PROVE  \A i \in 1..Len(s) : At(s \o e, i) = At(s, i)
BY LineGrown

LEMMA FenceAhead ==
    ASSUME NEW f, IsFilter(f), f.inline = "none", EndsLine(f.buf), NEW e \in Seq(Symbols), e # <<>>
    PROVE  WaitsOrAhead(f, e, PumpFence(f, FALSE), PumpFence(Ahead(f, e), FALSE))
<1> DEFINE F == Ahead(f, e)
           s == f.buf
           w == F.buf
           n == Find(<<NL>>, s)
<1>1. s \in Seq(Symbols) /\ w = s \o e /\ F.sol = f.sol
  BY AheadParts
<1>4. IsPrefix(Ticks, w) <=> IsPrefix(Ticks, s)
  <2>1. EndsLine(s)
    OBVIOUS
  <2>. HIDE DEF F, s, w
  <2>2. QED
    BY <1>1, <2>1, TicksAhead
<1>2. /\ n \in 1..Len(s) /\ Find(<<NL>>, w) = n /\ Len(s) \in Nat \ {0} /\ Len(w) \in Nat
      /\ Len(s) <= Len(w)
  <2>1. EndsLine(s)
    OBVIOUS
  <2>. HIDE DEF F, s, w
  <2>2. QED
    BY <1>1, <2>1, TicksAhead
<1>3. n # 0 /\ n \in 0..Len(s)
  BY <1>2
<1>5. Take(w, n) = Take(s, n)
  BY <1>1, <1>3, Grown
<1>6. CASE f.sol /\ Len(s) < 3
  <2>1. PumpFence(f, FALSE) = Wait(f)
    BY <1>6 DEF PumpFence
  <2>2. QED
    BY <2>1 DEF WaitsOrAhead
<1>7. CASE ~(f.sol /\ Len(s) < 3) /\ f.sol /\ IsPrefix(Ticks, s)
  <2>1. ~(Len(w) < 3)
    BY <1>2, <1>7
  <2>2. PumpFence(f, FALSE) = Toggle(f) /\ PumpFence(F, FALSE) = Toggle(F)
    BY <1>1, <1>4, <1>7, <2>1 DEF PumpFence
  <2>3. QED
    BY <1>7, <2>2, ToggleAhead DEF WaitsOrAhead
<1>8. CASE ~(f.sol /\ Len(s) < 3) /\ ~(f.sol /\ IsPrefix(Ticks, s))
  <2>1. ~(F.sol /\ Len(w) < 3)
    BY <1>1, <1>2, <1>8
  <2>2. PumpFence(f, FALSE) = Step([f EXCEPT !.buf = Skip(f.buf, n), !.sol = TRUE], Take(s, n))
    BY <1>3, <1>8 DEF PumpFence
  <2>3. PumpFence(F, FALSE) = Step([F EXCEPT !.buf = Skip(F.buf, n), !.sol = TRUE], Take(s, n))
    BY <1>1, <1>2, <1>3, <1>4, <1>5, <1>8, <2>1 DEF PumpFence
  <2>4. AlikeAtLine(f, F, e, n, Take(s, n))
    BY <1>3, BothDoAtLine
  <2>5. QED
    BY <2>2, <2>3, <2>4 DEF AlikeAtLine, WaitsOrAhead
<1>9. QED
  BY <1>6, <1>7, <1>8

LEMMA LeaveStartAhead ==
    ASSUME NEW f, IsFilter(f), f.inline = "none", NEW e \in Seq(Symbols), e # <<>>
    PROVE  LeaveStart(Ahead(f, e)) = Onward(LeaveStart(f), e)
<1>1. 0 \in 0..Len(f.buf) /\ f.sol \in BOOLEAN /\ "none" \in Inlines \cup {"none"}
  BY AheadParts
<1>2. Alike(f, Ahead(f, e), e, 0, f.sol, "none", <<>>)
  BY <1>1, BothDo
<1>3. QED
  BY <1>2 DEF Alike

LEMMA TickAhead ==
    ASSUME NEW f, IsFilter(f), f.inline = "none", EndsLine(f.buf), NEW e \in Seq(Symbols), e # <<>>
    PROVE  WaitsOrAhead(f, e, PumpTick(f, FALSE), PumpTick(Ahead(f, e), FALSE))
<1> DEFINE F == Ahead(f, e)
           s == f.buf
           w == F.buf
<1>1. s \in Seq(Symbols) /\ w = s \o e
  BY AheadParts
<1>2. Len(s) \in Nat \ {0} /\ Len(w) \in Nat /\ Len(s) <= Len(w)
  <2>1. EndsLine(s)
    OBVIOUS
  <2>. HIDE DEF F, s, w
  <2>2. QED
    BY <1>1, <2>1, TicksAhead
<1>3. IsPrefix(Ticks, w) <=> IsPrefix(Ticks, s)
  <2>1. EndsLine(s)
    OBVIOUS
  <2>. HIDE DEF F, s, w
  <2>2. QED
    BY <1>1, <2>1, TicksAhead
<1>4. CASE Len(s) < 3
  BY <1>4 DEF PumpTick, WaitsOrAhead
<1>5. CASE ~(Len(s) < 3)
  <2>1. ~(Len(w) < 3)
    BY <1>2, <1>5
  <2>2. /\ PumpTick(f, FALSE) = IF IsPrefix(Ticks, s) THEN Toggle(f) ELSE LeaveStart(f)
        /\ PumpTick(F, FALSE) = IF IsPrefix(Ticks, s) THEN Toggle(F) ELSE LeaveStart(F)
    BY <1>3, <1>5, <2>1 DEF PumpTick
  <2>3. IsPrefix(Ticks, s) => Toggle(F) = Onward(Toggle(f), e)
    BY ToggleAhead
  <2>4. LeaveStart(F) = Onward(LeaveStart(f), e)
    BY LeaveStartAhead
  <2>. HIDE DEF F, s
  <2>5. QED
    BY <2>2, <2>3, <2>4 DEF WaitsOrAhead, F
<1>6. QED
  BY <1>4, <1>5

LEMMA QuotationAhead ==
    ASSUME NEW f, IsFilter(f), f.inline = "none", EndsLine(f.buf), NEW e \in Seq(Symbols), e # <<>>
    PROVE  WaitsOrAhead(f, e, PumpQuotation(f, FALSE), PumpQuotation(Ahead(f, e), FALSE))
<1> DEFINE F == Ahead(f, e)
           s == f.buf
           w == F.buf
           n == IF At(s, 2) = " " THEN 2 ELSE 1
<1>1. s \in Seq(Symbols) /\ w = s \o e
  BY AheadParts
<1>2. /\ Len(s) \in Nat \ {0} /\ Len(w) \in Nat /\ Len(s) <= Len(w)
      /\ \A i \in 1..Len(s) : At(w, i) = At(s, i)
  <2>1. EndsLine(s)
    OBVIOUS
  <2>. HIDE DEF F, s, w
  <2>2. QED
    BY <1>1, <2>1, TicksAhead, ZenonT(40)
<1>3. CASE Len(s) < 2
  BY <1>3 DEF PumpQuotation, WaitsOrAhead
<1>4. CASE ~(Len(s) < 2)
  <2>a. Len(s) \in Nat /\ Len(w) \in Nat /\ 2 <= Len(s) /\ 2 <= Len(w)
    BY <1>2, <1>4
  <2>b. n \in {1, 2}
    OBVIOUS
  <2>1. ~(Len(w) < 2) /\ 2 \in 1..Len(s) /\ n \in 0..Len(s)
    <3>. HIDE DEF n
    <3>1. QED
      BY <2>a, <2>b
  <2>2. At(w, 2) = At(s, 2)
    BY <1>2, <2>1
  <2>3. PumpQuotation(f, FALSE) = Drop(f, n, FALSE)
    BY <1>4 DEF PumpQuotation
  <2>4. PumpQuotation(F, FALSE) = Drop(F, n, FALSE)
    BY <2>1, <2>2 DEF PumpQuotation
  <2>. HIDE DEF n
  <2>5. AlikeAtLine(f, F, e, n, <<>>)
    BY <2>1, BothDoAtLine
  <2>6. QED
    BY <2>3, <2>4, <2>5 DEF AlikeAtLine, WaitsOrAhead
<1>5. QED
  BY <1>3, <1>4

LEMMA HeadingAhead ==
    ASSUME NEW f, IsFilter(f), f.inline = "none", EndsLine(f.buf), NEW e \in Seq(Symbols), e # <<>>
    PROVE  WaitsOrAhead(f, e, PumpHeading(f, FALSE), PumpHeading(Ahead(f, e), FALSE))
<1> DEFINE F == Ahead(f, e)
           s == f.buf
           w == F.buf
           n == RunOf({"#"}, s)
<1>1. s \in Seq(Symbols) /\ w = s \o e
  BY AheadParts
<1>2. /\ Len(s) \in Nat \ {0} /\ Len(w) \in Nat /\ Len(s) <= Len(w)
      /\ \A i \in 1..Len(s) : At(w, i) = At(s, i)
  <2>1. EndsLine(s)
    OBVIOUS
  <2>. HIDE DEF F, s, w
  <2>2. QED
    BY <1>1, <2>1, TicksAhead
<1>3. RunOf({"#"}, w) = n /\ n \in 0..(Len(s) - 1)
  <2>1. NL \notin {"#"}
    BY DEF NL
  <2>2. QED
    BY <1>1, <2>1, RunGrown
<1>. HIDE DEF n
<1>4. n # Len(s) /\ n # Len(w) /\ n + 1 \in 1..Len(s) /\ n + 1 \in 0..Len(s)
  BY <1>2, <1>3
<1>5. At(w, n + 1) = At(s, n + 1)
  BY <1>2, <1>4
<1>6. /\ PumpHeading(f, FALSE) = IF n \in 5..6 /\ At(s, n + 1) = " " THEN Drop(f, n + 1, FALSE) ELSE LeaveStart(f)
      /\ PumpHeading(F, FALSE) = IF n \in 5..6 /\ At(s, n + 1) = " " THEN Drop(F, n + 1, FALSE) ELSE LeaveStart(F)
  BY <1>3, <1>4, <1>5 DEF PumpHeading, n
<1>7. AlikeAtLine(f, F, e, n + 1, <<>>)
  BY <1>4, BothDoAtLine
<1>8. LeaveStart(F) = Onward(LeaveStart(f), e)
  BY LeaveStartAhead
<1>9. Drop(F, n + 1, FALSE) = Onward(Drop(f, n + 1, FALSE), e)
  BY <1>7 DEF AlikeAtLine
<1>. HIDE DEF F, s
<1>10. QED
  BY <1>6, <1>8, <1>9 DEF WaitsOrAhead, F

LEMMA BlanksAhead ==
    ASSUME NEW f, IsFilter(f), f.inline = "none", EndsLine(f.buf), NEW e \in Seq(Symbols), e # <<>>
    PROVE  WaitsOrAhead(f, e, PumpBlanks(f, FALSE), PumpBlanks(Ahead(f, e), FALSE))
<1> DEFINE F == Ahead(f, e)
           s == f.buf
           w == F.buf
           n == RunOf(Blanks, s)
<1>1. s \in Seq(Symbols) /\ w = s \o e
  BY AheadParts
<1>2. Len(s) \in Nat \ {0} /\ Len(w) \in Nat /\ Len(s) <= Len(w)
  <2>1. EndsLine(s)
    OBVIOUS
  <2>. HIDE DEF F, s, w
  <2>2. QED
    BY <1>1, <2>1, TicksAhead
<1>3. RunOf(Blanks, w) = n /\ n \in 0..(Len(s) - 1)
  <2>1. NL \notin Blanks
    BY DEF NL, Blanks
  <2>2. QED
    BY <1>1, <2>1, RunGrown
<1>4. n # Len(s) /\ n # Len(w)
  <2>. HIDE DEF n
  <2>1. QED
    BY <1>2, <1>3
<1>5. PumpBlanks(f, FALSE) = LeaveStart(f) /\ PumpBlanks(F, FALSE) = LeaveStart(F)
  BY <1>3, <1>4 DEF PumpBlanks
<1>6. QED
  BY <1>5, LeaveStartAhead DEF WaitsOrAhead

LEMMA RuleAhead ==
    ASSUME NEW f, IsFilter(f), f.inline = "none", EndsLine(f.buf), f.buf[1] # NL,
           NEW e \in Seq(Symbols), e # <<>>
    PROVE  WaitsOrAhead(f, e, PumpRule(f, FALSE), PumpRule(Ahead(f, e), FALSE))
<1> DEFINE F == Ahead(f, e)
           s == f.buf
           w == F.buf
           n == RunOf({s[1], " "}, s)
           marks == {i \in 1..n : s[i] = s[1]}
           rule == At(s, n + 1) \in {End, NL} /\ Cardinality(marks) >= 3
<1>1. s \in Seq(Symbols) /\ w = s \o e
  BY AheadParts
<1>2. /\ Len(s) \in Nat \ {0} /\ Len(w) \in Nat /\ Len(s) <= Len(w)
      /\ \A i \in 1..Len(s) : At(w, i) = At(s, i)
      /\ \A i \in 1..Len(s) : w[i] = s[i]
  <2>1. EndsLine(s)
    OBVIOUS
  <2>. HIDE DEF F, s, w
  <2>2. Len(s) \in Nat \ {0} /\ Len(w) \in Nat /\ Len(s) <= Len(w)
    BY <1>1, <2>1, TicksAhead
  <2>3. \A i \in 1..Len(s) : w[i] = s[i]
    BY <1>1, <2>1, TicksAhead
  <2>5. \A i \in 1..Len(s) : At(w, i) = At(s, i)
    BY <1>1, <2>1, BytesGrown
  <2>4. QED
    BY <2>2, <2>3, <2>5
<1>3. w[1] = s[1]
  <2>. HIDE DEF F, s, w
  <2>1. Len(s) \in Nat \ {0}
    BY <1>2
  <2>2. 1 \in 1..Len(s)
    BY <2>1
  <2>3. QED
    BY <1>2, <2>2
<1>4. RunOf({s[1], " "}, w) = n /\ n \in 0..(Len(s) - 1)
  <2>1. NL \notin {s[1], " "}
    BY DEF NL
  <2>2. QED
    BY <1>1, <2>1, RunGrown, ZenonT(40)
<1>. HIDE DEF n
<1>5. n # Len(s) /\ n # Len(w) /\ n + 1 \in 1..Len(s) /\ n + 1 \in 0..Len(s)
  <2>1. n \in 0..(Len(s) - 1)
    BY <1>4
  <2>. HIDE DEF F, s, w
  <2>2. Len(s) \in Nat \ {0} /\ Len(w) \in Nat /\ Len(s) <= Len(w)
    BY <1>2
  <2>3. QED
    BY <2>1, <2>2
<1>6. At(w, n + 1) = At(s, n + 1)
  BY <1>2, <1>5
<1>7. {i \in 1..n : w[i] = w[1]} = marks
  <2>0. n \in 0..(Len(s) - 1)
    BY <1>4
  <2>1. \A i \in 1..n : i \in 1..Len(s)
    <3>. HIDE DEF F, s, w
    <3>1. Len(s) \in Nat
      BY <1>2
    <3>2. QED
      BY <2>0, <3>1
  <2>2. QED
    BY <1>2, <1>3, <2>1
<1>8. PumpRule(f, FALSE) = IF rule THEN Drop(f, n + 1, TRUE) ELSE LeaveStart(f)
  BY <1>5 DEF PumpRule, n
<1>9. PumpRule(F, FALSE) = IF rule THEN Drop(F, n + 1, TRUE) ELSE LeaveStart(F)
  BY <1>3, <1>4, <1>5, <1>6, <1>7 DEF PumpRule
<1>10. AlikeAtLine(f, F, e, n + 1, <<>>)
  BY <1>5, BothDoAtLine
<1>11. LeaveStart(F) = Onward(LeaveStart(f), e)
  BY LeaveStartAhead
<1>12. Drop(F, n + 1, TRUE) = Onward(Drop(f, n + 1, TRUE), e)
  BY <1>10 DEF AlikeAtLine
<1>. HIDE DEF F, s, rule
<1>13. QED
  BY <1>8, <1>9, <1>11, <1>12 DEF WaitsOrAhead, F

LEMMA TableOpensAhead ==
    ASSUME NEW f, IsFilter(f), f.inline = "none", EndsLine(f.buf), NEW e \in Seq(Symbols), e # <<>>
    PROVE  /\ OpenTable(Ahead(f, e)) = Onward(OpenTable(f), e)
           /\ Step([Ahead(f, e) EXCEPT !.buf = Tail(@)], <<NL>>)
              = Onward(Step([f EXCEPT !.buf = Tail(@)], <<NL>>), e)
<1> DEFINE F == Ahead(f, e)
           s == f.buf
           w == F.buf
<1>1. s \in Seq(Symbols) /\ w = s \o e /\ w \in Seq(Symbols)
  <2>1. F \in Filters /\ s \in Seq(Symbols) /\ w = s \o e
    BY AheadParts
  <2>2. QED
    BY <2>1 DEF Filters
<1>2. Len(s) \in Nat \ {0} /\ Len(w) \in Nat /\ Len(s) <= Len(w)
  <2>1. EndsLine(s)
    OBVIOUS
  <2>. HIDE DEF F, s, w
  <2>2. QED
    BY <1>1, <2>1, TicksAhead
<1>3. 1 \in 0..Len(s) /\ s # <<>> /\ w # <<>>
  <2>. HIDE DEF F, s, w
  <2>1. s # <<>> /\ w # <<>>
    BY <1>1, <1>2, EmptySeq
  <2>2. QED
    BY <1>2, <2>1
<1>4. Tail(s) = Skip(s, 1) /\ Tail(w) = Skip(w, 1)
  <2>. HIDE DEF F, s, w
  <2>1. QED
    BY <1>1, <1>3, TailIsSkip
<1>5. AlikeAtLine(f, F, e, 1, <<>>)
  BY <1>3, BothDoAtLine
<1>6. f.sol \in BOOLEAN /\ "none" \in Inlines \cup {"none"}
  BY AheadParts
<1>7. Alike(f, F, e, 1, f.sol, "none", <<NL>>)
  BY <1>3, <1>6, BothDo
<1>8. /\ OpenTable(f) = Step([f EXCEPT !.buf = Skip(f.buf, 1), !.sol = FALSE, !.inline = "Table"], <<>>)
      /\ OpenTable(F) = Step([F EXCEPT !.buf = Skip(F.buf, 1), !.sol = FALSE, !.inline = "Table"], <<>>)
  BY <1>4 DEF OpenTable
<1>9. OpenTable(F) = Onward(OpenTable(f), e)
  BY <1>5, <1>8 DEF AlikeAtLine
<1>10. Step([F EXCEPT !.buf = Skip(F.buf, 1)], <<NL>>)
       = Onward(Step([f EXCEPT !.buf = Skip(f.buf, 1)], <<NL>>), e)
  BY <1>7 DEF Alike
<1>11. QED
  BY <1>4, <1>9, <1>10

\* What a line starts with is there for both.
LEMMA StartAhead ==
    ASSUME NEW f, IsFilter(f), f.inline = "none", EndsLine(f.buf), NEW e \in Seq(Symbols), e # <<>>
    PROVE  WaitsOrAhead(f, e, PumpStart(f, FALSE), PumpStart(Ahead(f, e), FALSE))
<1> DEFINE F == Ahead(f, e)
           first == f.buf[1]
<1>1. F.buf[1] = first
  <2> DEFINE s == f.buf
             w == F.buf
  <2>1. s \in Seq(Symbols) /\ w = s \o e /\ EndsLine(s)
    BY AheadParts
  <2>. HIDE DEF F, s, w
  <2>2. Len(s) \in Nat \ {0} /\ \A i \in 1..Len(s) : w[i] = s[i]
    BY <2>1, TicksAhead
  <2>3. 1 \in 1..Len(s)
    BY <2>2
  <2>4. w[1] = s[1]
    BY <2>2, <2>3
  <2>5. QED
    BY <2>4 DEF s, w
<1>2. CASE first = NL
  <2>1. /\ PumpStart(f, FALSE) = Step([f EXCEPT !.buf = Tail(@)], <<NL>>)
        /\ PumpStart(F, FALSE) = Step([F EXCEPT !.buf = Tail(@)], <<NL>>)
    BY <1>1, <1>2 DEF PumpStart, NL, Tick, Blanks
  <2>2. QED
    BY <2>1, TableOpensAhead DEF WaitsOrAhead
<1>3. CASE first = Tick
  <2>1. PumpStart(f, FALSE) = PumpTick(f, FALSE) /\ PumpStart(F, FALSE) = PumpTick(F, FALSE)
    BY <1>1, <1>3 DEF PumpStart, NL, Tick, Blanks
  <2>2. QED
    BY <2>1, TickAhead
<1>4. CASE first = ">"
  <2>1. PumpStart(f, FALSE) = PumpQuotation(f, FALSE) /\ PumpStart(F, FALSE) = PumpQuotation(F, FALSE)
    BY <1>1, <1>4 DEF PumpStart, NL, Tick, Blanks
  <2>2. QED
    BY <2>1, QuotationAhead
<1>5. CASE first = "#"
  <2>1. PumpStart(f, FALSE) = PumpHeading(f, FALSE) /\ PumpStart(F, FALSE) = PumpHeading(F, FALSE)
    BY <1>1, <1>5 DEF PumpStart, NL, Tick, Blanks
  <2>2. QED
    BY <2>1, HeadingAhead
<1>6. CASE first = "|"
  <2>1. PumpStart(f, FALSE) = OpenTable(f) /\ PumpStart(F, FALSE) = OpenTable(F)
    BY <1>1, <1>6 DEF PumpStart, NL, Tick, Blanks
  <2>2. QED
    BY <2>1, TableOpensAhead DEF WaitsOrAhead
<1>7. CASE first \in Blanks
  <2>1. PumpStart(f, FALSE) = PumpBlanks(f, FALSE) /\ PumpStart(F, FALSE) = PumpBlanks(F, FALSE)
    BY <1>1, <1>7 DEF PumpStart, NL, Tick, Blanks
  <2>2. QED
    BY <2>1, BlanksAhead
<1>8. CASE first \in {"-", "*", "_"}
  <2>1. PumpStart(f, FALSE) = PumpRule(f, FALSE) /\ PumpStart(F, FALSE) = PumpRule(F, FALSE)
    BY <1>1, <1>8 DEF PumpStart, NL, Tick, Blanks
  <2>2. first # NL
    BY <1>8 DEF NL
  <2>3. QED
    BY <2>1, <2>2, RuleAhead
<1>9. CASE /\ first # NL /\ first # Tick /\ first # ">" /\ first # "#" /\ first # "|"
           /\ first \notin Blanks /\ first \notin {"-", "*", "_"}
  <2>1. PumpStart(f, FALSE) = LeaveStart(f) /\ PumpStart(F, FALSE) = LeaveStart(F)
    BY <1>1, <1>9 DEF PumpStart
  <2>2. QED
    BY <2>1, LeaveStartAhead DEF WaitsOrAhead
<1>10. QED
  BY <1>2, <1>3, <1>4, <1>5, <1>6, <1>7, <1>8, <1>9

Stops(s) == {k \in DOMAIN s : s[k] = NL \/ Opening(s, k) # {}}

\* Where the body of a text of whole lines stops, and what it stops at.
LEMMA StopGrown ==
    ASSUME NEW s \in Seq(Symbols), EndsLine(s), NEW e \in Seq(Symbols), NEW w, w = s \o e,
           NEW i, i = Scan(s, Stops(s))
    PROVE  /\ Scan(w, Stops(w)) = i
           /\ i \in 1..Len(s) /\ (s[i] = NL \/ Opening(s, i) # {})
           /\ w[i] = s[i] /\ Opening(w, i) = Opening(s, i)
           /\ ~(i > Len(s)) /\ ~(i > Len(w)) /\ i \in 0..Len(s) /\ i - 1 \in 0..Len(s)
<1> DEFINE stops == {k \in DOMAIN s : s[k] = NL \/ Opening(s, k) # {}}
           more == {k \in DOMAIN w : w[k] = NL \/ Opening(w, k) # {}}
<1>1. /\ Len(s) \in Nat \ {0} /\ DOMAIN s = 1..Len(s) /\ DOMAIN w = 1..Len(w)
      /\ Len(s) \in 1..Len(s) /\ Len(s) <= Len(w) /\ Len(w) \in Nat
      /\ \A j \in 1..Len(s) : w[j] = s[j]
  BY LineGrown
<1>2. \A j \in 1..Len(s) : Opening(w, j) = Opening(s, j)
  BY OpeningGrown
<1>3. \A j \in 1..Len(s) : j \in 1..Len(w)
  <2>1. Len(s) \in Nat /\ Len(w) \in Nat /\ Len(s) <= Len(w)
    BY <1>1
  <2>2. QED
    BY <2>1
<1>4. stops \in SUBSET (1..Len(s)) /\ more \in SUBSET (1..Len(w))
  BY <1>1
<1>5. \A j \in 1..Len(s) : j \in stops <=> j \in more
  BY <1>1, <1>2, <1>3
<1>6. Len(s) \in stops
  BY <1>1 DEF EndsLine
<1>7. \A j \in stops : s[j] = NL \/ Opening(s, j) # {}
  OBVIOUS
<1>8. i = Scan(s, stops) /\ more = Stops(w)
  BY DEF Stops
<1>. HIDE DEF stops, more
<1>9. Scan(w, more) = Scan(s, stops) /\ Scan(s, stops) \in stops /\ Scan(s, stops) \in 1..Len(s)
  BY <1>4, <1>5, <1>6, ScanGrown, ZenonT(40)
<1>10. i \in 1..Len(s) /\ i \in stops /\ Scan(w, more) = i
  BY <1>8, <1>9
<1>11. ~(i > Len(s)) /\ ~(i > Len(w)) /\ i \in 0..Len(s) /\ i - 1 \in 0..Len(s)
  <2>1. Len(s) \in Nat /\ Len(w) \in Nat /\ Len(s) <= Len(w) /\ i \in 1..Len(s)
    BY <1>1, <1>10
  <2>2. QED
    BY <2>1
<1>12. QED
  BY <1>1, <1>2, <1>7, <1>8, <1>10, <1>11

\* What passes within a line passes for both.
LEMMA BodyAhead ==
    ASSUME NEW f, IsFilter(f), f.inline = "none", EndsLine(f.buf), NEW e \in Seq(Symbols), e # <<>>
    PROVE  WaitsOrAhead(f, e, PumpBody(f, FALSE), PumpBody(Ahead(f, e), FALSE))
<1> DEFINE F == Ahead(f, e)
           s == f.buf
           w == F.buf
           i == Scan(s, {k \in DOMAIN s : s[k] = NL \/ Opening(s, k) # {}})
           kind == CHOOSE k \in Opening(s, i) : TRUE
           n == i - 1 + Len(Marker(kind))
<1>1. s \in Seq(Symbols) /\ w = s \o e /\ EndsLine(s) /\ f.sol \in BOOLEAN
  BY AheadParts
<1>2. /\ Scan(w, Stops(w)) = i
      /\ i \in 1..Len(s) /\ (s[i] = NL \/ Opening(s, i) # {})
      /\ w[i] = s[i] /\ Opening(w, i) = Opening(s, i)
      /\ ~(i > Len(s)) /\ ~(i > Len(w)) /\ i \in 0..Len(s) /\ i - 1 \in 0..Len(s)
  <2>1. i = Scan(s, Stops(s))
    BY DEF Stops
  <2>. HIDE DEF F, s, w, i
  <2>2. QED
    BY <1>1, <2>1, StopGrown, ZenonT(40)
<1>3. Take(w, i) = Take(s, i) /\ Take(w, i - 1) = Take(s, i - 1)
  <2>. HIDE DEF F, s, w, i
  <2>1. QED
    BY <1>1, <1>2, Grown
<1>4. PumpBody(f, FALSE) =
        IF s[i] = NL THEN Step([f EXCEPT !.buf = Skip(s, i), !.sol = TRUE], Take(s, i))
        ELSE Step([f EXCEPT !.buf = Skip(s, n), !.inline = kind], Take(s, i - 1))
  BY <1>2 DEF PumpBody
<1>5. PumpBody(F, FALSE) =
        IF s[i] = NL THEN Step([F EXCEPT !.buf = Skip(w, i), !.sol = TRUE], Take(s, i))
        ELSE Step([F EXCEPT !.buf = Skip(w, n), !.inline = kind], Take(s, i - 1))
  <2> DEFINE j == Scan(w, {k \in DOMAIN w : w[k] = NL \/ Opening(w, k) # {}})
             other == CHOOSE k \in Opening(w, j) : TRUE
  <2>1. PumpBody(F, FALSE) =
          IF j > Len(w) THEN Step([F EXCEPT !.buf = Skip(w, Len(w) - Hold(w, FALSE))],
                                  Take(w, Len(w) - Hold(w, FALSE)))
          ELSE IF w[j] = NL THEN Step([F EXCEPT !.buf = Skip(w, j), !.sol = TRUE], Take(w, j))
          ELSE Step([F EXCEPT !.buf = Skip(w, j - 1 + Len(Marker(other))), !.inline = other],
                    Take(w, j - 1))
    BY DEF PumpBody
  <2>2. j = i
    <3>1. j = Scan(w, Stops(w))
      BY DEF Stops
    <3>2. QED
      BY <1>2, <3>1
  <2>. HIDE DEF j
  <2>3. other = kind
    <3>1. Opening(w, j) = Opening(s, i)
      BY <1>2, <2>2
    <3>2. QED
      BY <3>1
  <2>. HIDE DEF i, kind, other, F, s, w
  <2>4. QED
    BY <1>2, <1>3, <2>1, <2>2, <2>3 DEF n
<1>6. CASE s[i] = NL
  <2>1. AlikeAtLine(f, F, e, i, Take(s, i))
    BY <1>2, BothDoAtLine
  <2>2. QED
    BY <1>4, <1>5, <1>6, <2>1 DEF AlikeAtLine, WaitsOrAhead
<1>7. CASE s[i] # NL
  <2>1. kind \in Opening(s, i)
    BY <1>2, <1>7
  <2>2. kind \in Inlines \cup {"none"} /\ n \in i..Len(s)
    <3>. HIDE DEF i, kind, s, F, w
    <3>1. QED
      BY <1>1, <1>2, <2>1, OpeningIsMark
  <2>3. n \in 0..Len(s)
    <3>. HIDE DEF n, i, s, F, w
    <3>1. Len(s) \in Nat
      BY <1>1, LenProperties
    <3>2. QED
      BY <1>2, <2>2, <3>1
  <2>. HIDE DEF n, i, kind
  <2>4. Alike(f, F, e, n, f.sol, kind, Take(s, i - 1))
    BY <1>1, <2>2, <2>3, BothDo
  <2>5. QED
    BY <1>4, <1>5, <1>7, <2>4 DEF Alike, WaitsOrAhead
<1>8. QED
  BY <1>6, <1>7

-----------------------------------------------------------------------------
(* The end of an inline *)

\* The filter ahead of one that is in an inline.
LEMMA AheadInline ==
    ASSUME NEW f, IsFilter(f), f.inline # "none", EndsLine(Unread(f)),
           NEW e \in Seq(Symbols), e # <<>>
    PROVE  /\ f \in Filters /\ Unread(f) \in Seq(Symbols) /\ f.sol \in BOOLEAN
           /\ f.inline \in Inlines
           /\ Ahead(f, e) \in Filters /\ Unread(Ahead(f, e)) = Unread(f) \o e
           /\ Ahead(f, e).fence = f.fence /\ Ahead(f, e).sol = f.sol
           /\ Ahead(f, e).inline = f.inline
<1>1. f \in Filters /\ f.sol \in BOOLEAN /\ f.inline \in Inlines
  BY DEF IsFilter, Filters
<1>2. /\ Ahead(f, e) \in Filters /\ Ahead(f, e).buf = Unread(f) \o e /\ Ahead(f, e).acc = <<>>
      /\ Ahead(f, e).fence = f.fence /\ Ahead(f, e).sol = f.sol
      /\ Ahead(f, e).inline = f.inline
      /\ Unread(f) \in Seq(Symbols)
  BY <1>1, AheadIs
<1>3. Unread(f) \o e \in Seq(Symbols)
  BY <1>2, ConcatProperties
<1>4. Unread(Ahead(f, e)) = Unread(f) \o e
  BY <1>2, <1>3, ConcatEmptySeq DEF Unread
<1>5. QED
  BY <1>1, <1>2, <1>4

\* When both have come to the end of the inline, what follows it is not read.
LEMMA ClosedAhead ==
    ASSUME NEW f \in Filters, NEW F \in Filters, F.fence = f.fence,
           NEW s \in Seq(Symbols), NEW e \in Seq(Symbols), e # <<>>,
           NEW n \in 0..Len(s), NEW sol \in BOOLEAN
    PROVE  Ahead(Closed(f, Skip(s, n), sol), e) = Closed(F, Skip(s \o e, n), sol)
<1> DEFINE r == Skip(s, n)
           q == Skip(s \o e, n)
           g == [f EXCEPT !.buf = r, !.sol = sol, !.inline = "none", !.acc = <<>>]
           h == [F EXCEPT !.buf = q, !.sol = sol, !.inline = "none", !.acc = <<>>]
<1>1. r \in Seq(Symbols) /\ q \in Seq(Symbols) /\ <<>> \in Seq(Symbols)
  <2>1. r \in Seq(Symbols)
    BY SkipIsRest
  <2>2. q = r \o e
    BY Grown
  <2>. HIDE DEF r, q
  <2>3. q \in Seq(Symbols)
    BY <2>1, <2>2, ConcatProperties
  <2>4. QED
    BY <2>1, <2>3
<1>2. Skip(s, n) = r /\ Skip(s \o e, n) = q
  OBVIOUS
<1>3. Closed(f, r, sol) = g /\ Closed(F, q, sol) = h
  BY DEF Closed
<1>. HIDE DEF r, q
<1>4. /\ g \in Filters /\ g.buf = r /\ g.acc = <<>> /\ g.fence = f.fence /\ g.sol = sol
      /\ g.inline = "none"
  BY <1>1 DEF Filters
<1>5. /\ h \in Filters /\ h.buf = q /\ h.acc = <<>> /\ h.fence = F.fence /\ h.sol = sol
      /\ h.inline = "none"
  BY <1>1 DEF Filters
<1>. HIDE DEF g, h
<1>6. /\ g.buf = Skip(s, n) /\ h.buf = Skip(s \o e, n)
      /\ h.fence = g.fence /\ h.sol = g.sol /\ h.inline = g.inline
  BY <1>2, <1>4, <1>5
<1>7. Ahead(g, e) = h
  BY <1>4, <1>5, <1>6, AheadAfter
<1>8. QED
  BY <1>2, <1>3, <1>7

LEMMA CloseAhead ==
    ASSUME NEW f \in Filters, NEW F \in Filters, F.fence = f.fence,
           NEW s \in Seq(Symbols), NEW e \in Seq(Symbols), e # <<>>,
           NEW n \in 0..Len(s), NEW sol \in BOOLEAN, NEW o
    PROVE  Close(F, o, Skip(s \o e, n), sol) = Onward(Close(f, o, Skip(s, n), sol), e)
<1> DEFINE g == Closed(f, Skip(s, n), sol)
           h == Closed(F, Skip(s \o e, n), sol)
<1>1. Ahead(g, e) = h
  BY ClosedAhead
<1>2. Close(f, o, Skip(s, n), sol) = Step(g, o) /\ Close(F, o, Skip(s \o e, n), sol) = Step(h, o)
  BY DEF Close
<1>. HIDE DEF g, h
<1>3. QED
  BY <1>1, <1>2, OnwardIs

\* One has not come to its end, or the one ahead ends it, too.
StaysOrAhead(f, e, step, ahead) == step = Stay(f, Unread(f)) \/ ahead = Onward(step, e)

LEMMA RowAhead ==
    ASSUME NEW g, NEW h, NEW line, NEW end, NEW e, Ahead(g, e) = h
    PROVE  PutRow(h, line, end) = Onward(PutRow(g, line, end), e)
<1>1. Panic(h) = Onward(Panic(g), e)
  BY DEF Panic, Onward
<1> DEFINE o == IF ExtractTableRow(line) = <<>> THEN <<>> ELSE ExtractTableRow(line) \o end
<1>2. Step(h, o) = Onward(Step(g, o), e)
  BY OnwardIs
<1>3. /\ PutRow(h, line, end) = IF Overruns(line) THEN Panic(h) ELSE Step(h, o)
      /\ PutRow(g, line, end) = IF Overruns(line) THEN Panic(g) ELSE Step(g, o)
  BY DEF PutRow
<1>. HIDE DEF o
<1>4. QED
  BY <1>1, <1>2, <1>3

LEMMA TableAhead ==
    ASSUME NEW f \in Filters, NEW F \in Filters, F.fence = f.fence,
           NEW s \in Seq(Symbols), EndsLine(s), NEW e \in Seq(Symbols), e # <<>>
    PROVE  CloseTable(F, s \o e) = Onward(CloseTable(f, s), e)
<1> DEFINE w == s \o e
           n == Find(<<NL>>, s)
<1>1. n \in 1..Len(s) /\ Find(<<NL>>, w) = n /\ Len(s) \in Nat
  BY LineGrown
<1>. HIDE DEF n
<1>2. n # 0 /\ n \in 0..Len(s) /\ n - 1 \in 0..Len(s)
  BY <1>1
<1>3. Take(w, n - 1) = Take(s, n - 1)
  BY <1>2, Grown
<1>4. PICK sol \in BOOLEAN : sol = TRUE
  OBVIOUS
<1>5. Ahead(Closed(f, Skip(s, n), sol), e) = Closed(F, Skip(w, n), sol)
  BY <1>2, ClosedAhead
<1>6. CloseTable(f, s) = PutRow(Closed(f, Skip(s, n), sol), Take(s, n - 1), <<NL>>)
  BY <1>2, <1>4 DEF CloseTable, n
<1>7. CloseTable(F, w) = PutRow(Closed(F, Skip(w, n), sol), Take(s, n - 1), <<NL>>)
  BY <1>1, <1>2, <1>3, <1>4 DEF CloseTable
<1>8. QED
  BY <1>5, <1>6, <1>7, RowAhead

LEMMA CloseAtLineAhead ==
    ASSUME NEW f \in Filters, NEW F \in Filters, F.fence = f.fence, F.inline = f.inline,
           NEW s \in Seq(Symbols), NEW e \in Seq(Symbols), e # <<>>, NEW n \in 0..Len(s)
    PROVE  CloseAtLine(F, s \o e, n) = Onward(CloseAtLine(f, s, n), e)
<1> DEFINE o == Marker(f.inline) \o Take(s, n)
<1>1. Take(s \o e, n) = Take(s, n)
  BY Grown
<1>2. PICK sol \in BOOLEAN : sol = TRUE
  OBVIOUS
<1>3. Close(F, o, Skip(s \o e, n), sol) = Onward(Close(f, o, Skip(s, n), sol), e)
  BY CloseAhead
<1>4. QED
  BY <1>1, <1>2, <1>3 DEF CloseAtLine

\* The ends of emphasis.
EmStops(s, mark) == {k \in DOMAIN s : s[k] = NL \/ (s[k] = mark /\ ~Doubled(s, k))}

LEMMA EmStopGrown ==
    ASSUME NEW s \in Seq(Symbols), EndsLine(s), NEW e \in Seq(Symbols), NEW w, w = s \o e,
           NEW mark, NEW i, i = Scan(s, EmStops(s, mark))
    PROVE  /\ Scan(w, EmStops(w, mark)) = i
           /\ i \in 1..Len(s) /\ w[i] = s[i]
           /\ ~(i > Len(s)) /\ ~(i > Len(w)) /\ i \in 0..Len(s) /\ i - 1 \in 0..Len(s)
<1> DEFINE stops == EmStops(s, mark)
           more == EmStops(w, mark)
<1>1. /\ Len(s) \in Nat \ {0} /\ DOMAIN s = 1..Len(s) /\ DOMAIN w = 1..Len(w)
      /\ Len(s) \in 1..Len(s) /\ Len(s) <= Len(w) /\ Len(w) \in Nat
      /\ \A j \in 1..Len(s) : w[j] = s[j]
  BY LineGrown
<1>0. \A j \in 1..Len(s) : At(w, j) = At(s, j)
  BY BytesGrown
<1>2. ASSUME NEW j \in 1..Len(s), s[j] # NL PROVE Doubled(w, j) <=> Doubled(s, j)
  <2>0. Len(s) \in Nat /\ j # Len(s)
    BY <1>1, <1>2 DEF EndsLine
  <2>1. j + 1 \in 1..Len(s)
    BY <2>0
  <2>2. At(w, j + 1) = At(s, j + 1) /\ w[j] = s[j]
    BY <1>0, <1>1, <2>1
  <2>3. QED
    BY <2>2 DEF Doubled
<1>3. \A j \in 1..Len(s) : j \in 1..Len(w)
  <2>1. Len(s) \in Nat /\ Len(w) \in Nat /\ Len(s) <= Len(w)
    BY <1>1
  <2>2. QED
    BY <2>1
<1>4. stops \in SUBSET (1..Len(s)) /\ more \in SUBSET (1..Len(w))
  BY <1>1 DEF EmStops
<1>5. \A j \in 1..Len(s) : j \in stops <=> j \in more
  <2>1. ASSUME NEW j \in 1..Len(s) PROVE j \in stops <=> j \in more
    <3>1. j \in DOMAIN s /\ j \in DOMAIN w /\ w[j] = s[j]
      BY <1>1, <1>3
    <3>2. s[j] = NL \/ (Doubled(w, j) <=> Doubled(s, j))
      BY <1>2
    <3>3. QED
      BY <3>1, <3>2 DEF EmStops
  <2>2. QED
    BY <2>1
<1>6. Len(s) \in stops
  BY <1>1 DEF EndsLine, EmStops
<1>. HIDE DEF stops, more
<1>9. Scan(w, more) = Scan(s, stops) /\ Scan(s, stops) \in 1..Len(s)
  BY <1>4, <1>5, <1>6, ScanGrown, ZenonT(40)
<1>10. i \in 1..Len(s) /\ Scan(w, more) = i
  BY <1>9 DEF stops
<1>11. ~(i > Len(s)) /\ ~(i > Len(w)) /\ i \in 0..Len(s) /\ i - 1 \in 0..Len(s)
  <2>1. Len(s) \in Nat /\ Len(w) \in Nat /\ Len(s) <= Len(w) /\ i \in 1..Len(s)
    BY <1>1, <1>10
  <2>2. QED
    BY <2>1
<1>12. QED
  BY <1>1, <1>10, <1>11 DEF more

LEMMA EmAhead ==
    ASSUME NEW f \in Filters, NEW F \in Filters, F.fence = f.fence, F.inline = f.inline,
           F.sol = f.sol, NEW s \in Seq(Symbols), EndsLine(s), NEW e \in Seq(Symbols), e # <<>>
    PROVE  CloseEm(F, s \o e) = Onward(CloseEm(f, s), e)
<1> DEFINE w == s \o e
           mark == Marker(f.inline)[1]
           i == Scan(s, EmStops(s, mark))
<1>1. /\ Scan(w, EmStops(w, mark)) = i
      /\ i \in 1..Len(s) /\ w[i] = s[i]
      /\ ~(i > Len(s)) /\ ~(i > Len(w)) /\ i \in 0..Len(s) /\ i - 1 \in 0..Len(s)
  BY EmStopGrown
<1>2. Take(w, i - 1) = Take(s, i - 1)
  <2>. HIDE DEF i
  <2>1. QED
    BY <1>1, Grown
<1>3. CloseEm(f, s) = IF s[i] = NL THEN CloseAtLine(f, s, i)
                      ELSE Close(f, Take(s, i - 1), Skip(s, i), f.sol)
  <2> DEFINE j == Scan(s, {k \in DOMAIN s : s[k] = NL \/ (s[k] = mark /\ ~Doubled(s, k))})
  <2>1. j = i
    BY DEF EmStops
  <2>2. CloseEm(f, s) = IF j > Len(s) THEN Stay(f, s)
                        ELSE IF s[j] = NL THEN CloseAtLine(f, s, j)
                        ELSE Close(f, Take(s, j - 1), Skip(s, j), f.sol)
    BY DEF CloseEm
  <2>. HIDE DEF i, j, mark
  <2>3. QED
    BY <1>1, <2>1, <2>2
<1>4. CloseEm(F, w) = IF s[i] = NL THEN CloseAtLine(F, w, i)
                      ELSE Close(F, Take(s, i - 1), Skip(w, i), f.sol)
  <2> DEFINE j == Scan(w, {k \in DOMAIN w : w[k] = NL \/ (w[k] = mark /\ ~Doubled(w, k))})
  <2>1. j = i
    BY <1>1 DEF EmStops
  <2>2. CloseEm(F, w) = IF j > Len(w) THEN Stay(F, w)
                        ELSE IF w[j] = NL THEN CloseAtLine(F, w, j)
                        ELSE Close(F, Take(w, j - 1), Skip(w, j), F.sol)
    BY DEF CloseEm
  <2>. HIDE DEF i, j, mark, w
  <2>3. QED
    BY <1>1, <1>2, <2>1, <2>2
<1>5. f.sol \in BOOLEAN
  BY DEF Filters
<1>. HIDE DEF i, mark
<1>6. CloseAtLine(F, w, i) = Onward(CloseAtLine(f, s, i), e)
  BY <1>1, CloseAtLineAhead
<1>7. Close(F, Take(s, i - 1), Skip(w, i), f.sol) = Onward(Close(f, Take(s, i - 1), Skip(s, i), f.sol), e)
  BY <1>1, <1>5, CloseAhead
<1>8. QED
  BY <1>3, <1>4, <1>6, <1>7

LEMMA ImageAhead ==
    ASSUME NEW f \in Filters, NEW F \in Filters, F.fence = f.fence, F.inline = f.inline,
           F.sol = f.sol, NEW s \in Seq(Symbols), EndsLine(s), NEW e \in Seq(Symbols), e # <<>>
    PROVE  CloseImage(f, s) = Stay(f, s) \/ CloseImage(F, s \o e) = Onward(CloseImage(f, s), e)
<1> DEFINE w == s \o e
           alt == Find(<<"]">>, s)
           t == Skip(s, alt + 1)
           url == Find(<<")">>, t)
<1>1. CloseImage(f, s) =
        IF alt = 0 \/ alt = Len(s) THEN Stay(f, s)
        ELSE IF s[alt + 1] # "("
        THEN Close(f, Marker("Image") \o Take(s, alt), Skip(s, alt), f.sol)
        ELSE IF url = 0 THEN Stay(f, s)
        ELSE Close(f, <<>>, Skip(s, alt + 1 + url), f.sol)
  BY DEF CloseImage
<1>2. SUFFICES ASSUME alt # 0, alt # Len(s), s[alt + 1] # "(" \/ url # 0
               PROVE  CloseImage(F, w) = Onward(CloseImage(f, s), e)
  <2>. HIDE DEF url
  <2>1. QED
    BY <1>1
<1>3. alt \in 0..Len(s)
  BY FindByte
<1>4. Len(<<"]">>) \in Nat \ {0} /\ Len(<<")">>) \in Nat \ {0}
  OBVIOUS
<1>5. Find(<<"]">>, w) = alt
  BY <1>2, <1>4, FoundInGrown
<1>6. /\ Len(s) \in Nat \ {0} /\ Len(w) \in Nat /\ Len(s) <= Len(w)
      /\ \A j \in 1..Len(s) : w[j] = s[j]
  BY LineGrown
<1>. HIDE DEF alt
<1>7. /\ alt \in Nat \ {0} /\ alt + 1 \in 1..Len(s) /\ alt + 1 \in 0..Len(s) /\ alt # Len(w)
      /\ alt \in 0..Len(s)
  <2>. HIDE DEF w
  <2>1. Len(s) \in Nat /\ Len(w) \in Nat /\ Len(s) <= Len(w)
    BY <1>6
  <2>2. QED
    BY <1>2, <1>3, <2>1
<1>8. w[alt + 1] = s[alt + 1] /\ Take(w, alt) = Take(s, alt) /\ Skip(w, alt + 1) = t \o e
  BY <1>6, <1>7, Grown
<1>9. f.sol \in BOOLEAN
  BY DEF Filters
<1>10. CASE s[alt + 1] # "("
  <2> DEFINE o == Marker("Image") \o Take(s, alt)
  <2>1. CloseImage(f, s) = Close(f, o, Skip(s, alt), f.sol)
    BY <1>1, <1>2, <1>10
  <2>2. CloseImage(F, w) = Close(F, o, Skip(w, alt), f.sol)
    BY <1>2, <1>5, <1>7, <1>8, <1>10 DEF CloseImage
  <2>. HIDE DEF o
  <2>3. Close(F, o, Skip(w, alt), f.sol) = Onward(Close(f, o, Skip(s, alt), f.sol), e)
    BY <1>7, <1>9, CloseAhead
  <2>4. QED
    BY <2>1, <2>2, <2>3
<1>11. CASE s[alt + 1] = "("
  <2>1. url # 0
    BY <1>2, <1>11
  <2>2. t \in Seq(Symbols) /\ Len(t) = Len(s) - (alt + 1)
    BY <1>7, SkipIsRest
  <2>. HIDE DEF t
  <2>3. url \in 0..Len(t)
    BY <2>2, FindByte
  <2>4. Find(<<")">>, t \o e) = url
    BY <1>4, <2>1, <2>2, FoundInGrown
  <2>. HIDE DEF url
  <2>5. alt + 1 + url \in 0..Len(s)
    <3>1. Len(s) \in Nat
      BY <1>6
    <3>2. QED
      BY <1>7, <2>2, <2>3, <3>1
  <2> DEFINE n == alt + 1 + url
  <2>6. CloseImage(f, s) = Close(f, <<>>, Skip(s, n), f.sol)
    BY <1>1, <1>2, <1>11, <2>1
  <2>7. CloseImage(F, w) = Close(F, <<>>, Skip(w, n), f.sol)
    <3>1. CloseImage(F, w) =
            IF Find(<<"]">>, w) = 0 \/ Find(<<"]">>, w) = Len(w) THEN Stay(F, w)
            ELSE IF w[Find(<<"]">>, w) + 1] # "("
            THEN Close(F, Marker("Image") \o Take(w, Find(<<"]">>, w)), Skip(w, Find(<<"]">>, w)), F.sol)
            ELSE IF Find(<<")">>, Skip(w, Find(<<"]">>, w) + 1)) = 0 THEN Stay(F, w)
            ELSE Close(F, <<>>, Skip(w, Find(<<"]">>, w) + 1 + Find(<<")">>, Skip(w, Find(<<"]">>, w) + 1))), F.sol)
      BY DEF CloseImage
    <3>. HIDE DEF w
    <3>2. CloseImage(F, w) =
            IF Find(<<")">>, t \o e) = 0 THEN Stay(F, w)
            ELSE Close(F, <<>>, Skip(w, alt + 1 + Find(<<")">>, t \o e)), F.sol)
      BY <1>2, <1>5, <1>7, <1>8, <1>11, <3>1
    <3>3. QED
      BY <2>1, <2>4, <3>2
  <2>. HIDE DEF n
  <2>8. n \in 0..Len(s)
    BY <2>5 DEF n
  <2>9. Close(F, <<>>, Skip(w, n), f.sol) = Onward(Close(f, <<>>, Skip(s, n), f.sol), e)
    BY <1>9, <2>8, CloseAhead
  <2>10. QED
    BY <2>6, <2>7, <2>9
<1>12. QED
  BY <1>10, <1>11

\* A byte that is in neither of two texts is not in them together.
LEMMA ByteNotInGrown ==
    ASSUME NEW S, NEW s \in Seq(S), NEW e \in Seq(S), NEW b \in S,
           Find(<<b>>, s) = 0, Find(<<b>>, e) = 0
    PROVE  Find(<<b>>, s \o e) = 0
<1> DEFINE w == s \o e
           i == Find(<<b>>, w)
<1>1. /\ Len(s) \in Nat /\ Len(e) \in Nat /\ w \in Seq(S) /\ Len(w) = Len(s) + Len(e)
      /\ \A j \in 1..Len(s) : w[j] = s[j]
      /\ \A j \in 1..Len(e) : w[Len(s) + j] = e[j]
  BY Grown, LenProperties
<1>. HIDE DEF w
<1>2. ASSUME NEW t \in Seq(S), NEW j \in 1..Len(t), t[j] = b PROVE Find(<<b>>, t) # 0
  <2>1. Len(<<b>>) = 1 /\ Len(t) \in Nat /\ <<b>>[1] = b /\ <<b>> \in Seq(S)
    BY LenProperties
  <2>2. SubSeq(t, j, j) = <<b>>
    <3> DEFINE u == SubSeq(t, j, j)
    <3>1. j \in Int /\ \A k \in j..j : t[k] \in S
      BY <2>1, ElementOfSeq
    <3>2. u \in Seq(S) /\ Len(u) = (IF j <= j THEN j - j + 1 ELSE 0)
          /\ \A k \in 1..(j - j + 1) : u[k] = t[j + k - 1]
      BY <3>1, SubSeqProperties
    <3>. HIDE DEF u
    <3>3. 1 \in 1..(j - j + 1) /\ j + 1 - 1 = j /\ j - j + 1 = 1 /\ j <= j
      BY <3>1
    <3>4. Len(u) = 1 /\ u[1] = b
      BY <1>2, <3>2, <3>3
    <3>5. \A k \in 1..Len(u) : u[k] = <<b>>[k]
      BY <2>1, <3>4
    <3>6. u = <<b>>
      BY <2>1, <3>2, <3>4, <3>5, SeqEqual
    <3>7. QED
      BY <3>6 DEF u
  <2>3. j \in 1..(Len(t) + 1 - Len(<<b>>)) /\ j + Len(<<b>>) - 1 = j
    BY <2>1
  <2>4. Len(<<b>>) \in Nat \ {0}
    BY <2>1
  <2>5. QED
    BY <2>2, <2>3, <2>4, FindMatches
<1>3. i \in 0..Len(w) /\ (i # 0 => w[i] = b)
  BY <1>1, FindByte
<1>4. SUFFICES ASSUME i # 0 PROVE FALSE
  BY DEF w
<1>. HIDE DEF i
<1>5. i \in Nat /\ 1 <= i /\ i <= Len(s) + Len(e)
  BY <1>1, <1>3, <1>4
<1>6. CASE i <= Len(s)
  <2>1. i \in 1..Len(s)
    BY <1>1, <1>5, <1>6
  <2>2. s[i] = b
    BY <1>1, <1>3, <1>4, <2>1
  <2>3. QED
    BY <1>2, <2>1, <2>2
<1>7. CASE ~(i <= Len(s))
  <2>1. i - Len(s) \in 1..Len(e) /\ Len(s) + (i - Len(s)) = i
    BY <1>1, <1>5, <1>7
  <2>2. e[i - Len(s)] = b
    BY <1>1, <1>3, <1>4, <2>1
  <2>3. QED
    BY <1>2, <2>1, <2>2
<1>8. QED
  BY <1>6, <1>7

\* Inlines with a mark at their end.
LEMMA SimpleAhead ==
    ASSUME NEW f \in Filters, NEW F \in Filters, F.fence = f.fence, F.inline = f.inline,
           F.sol = f.sol, NEW s \in Seq(Symbols), NEW e \in Seq(Symbols), e # <<>>,
           f.inline \in Inlines \ {"Table"}, Find(Marker(f.inline), s) # 0
    PROVE  /\ Find(Marker(f.inline), s \o e) # 0
           /\ CloseSimple(F, s \o e) = Onward(CloseSimple(f, s), e)
<1> DEFINE w == s \o e
           p == Marker(f.inline)
           i == Find(p, s)
           n == i - 1 + Len(p)
<1>1. Len(p) \in Nat \ {0}
  BY MarkersAreSigns
<1>2. i # 0 /\ f.sol \in BOOLEAN
  BY DEF Filters
<1>3. CloseSimple(f, s) = Close(f, Take(s, i - 1), Skip(s, n), f.sol)
  BY DEF CloseSimple
<1>4. CloseSimple(F, w) = Close(F, Take(w, Find(p, w) - 1), Skip(w, Find(p, w) - 1 + Len(p)), f.sol)
  BY DEF CloseSimple
<1>. HIDE DEF p, w
<1>5. Find(p, w) = i /\ i \in 1..(Len(s) + 1 - Len(p))
  <2>1. Find(p, w) = Find(p, s)
    BY <1>1, <1>2, FoundInGrown DEF w
  <2>2. QED
    BY <1>1, <1>2, <2>1, FindMatches
<1>. HIDE DEF i
<1>6. n \in 0..Len(s) /\ i - 1 \in 0..Len(s)
  <2>1. Len(s) \in Nat
    BY LenProperties
  <2>2. QED
    BY <1>1, <1>5, <2>1
<1>. HIDE DEF n
<1>7. Take(w, i - 1) = Take(s, i - 1)
  BY <1>6, Grown DEF w
<1>8. CloseSimple(F, w) = Close(F, Take(s, i - 1), Skip(w, n), f.sol)
  BY <1>4, <1>5, <1>7 DEF n
<1>9. Close(F, Take(s, i - 1), Skip(w, n), f.sol) = Onward(Close(f, Take(s, i - 1), Skip(s, n), f.sol), e)
  BY <1>2, <1>6, CloseAhead DEF w
<1>10. Find(p, w) # 0
  BY <1>2, <1>5
<1>11. QED
  BY <1>3, <1>8, <1>9, <1>10 DEF p, w

\* The end of an inline: it is not there yet, or it is there for both.
LEMMA InlineAhead ==
    ASSUME NEW f, IsFilter(f), f.inline # "none", EndsLine(Unread(f)),
           NEW e \in Seq(Symbols), e # <<>>,
           f.inline = "Code" /\ Find(<<Tick>>, Unread(f)) = 0 => Find(<<Tick>>, e) = 0
    PROVE  StaysOrAhead(f, e, PumpInline(f), PumpInline(Ahead(f, e)))
<1> DEFINE F == Ahead(f, e)
           s == Unread(f)
           w == s \o e
<1>1. /\ f \in Filters /\ F \in Filters /\ s \in Seq(Symbols) /\ F.fence = f.fence
      /\ F.sol = f.sol /\ F.inline = f.inline /\ Unread(F) = w /\ f.inline \in Inlines
      /\ EndsLine(s)
  BY AheadInline
<1>2. f.acc \o f.buf = s /\ F.acc \o F.buf = w
  BY <1>1 DEF Unread
<1> DEFINE inner(g, t) ==
             IF Find(Marker(g.inline), t) # 0 THEN CloseSimple(g, t)
             ELSE IF g.inline = "Code" /\ Find(<<NL>>, t) # 0
             THEN CloseAtLine(g, t, Find(<<NL>>, t))
             ELSE Stay(g, t)
           of(g, t) ==
             CASE g.inline = "Table" -> CloseTable(g, t)
               [] g.inline = "Image" -> CloseImage(g, t)
               [] g.inline \in {"Italic", "UItalic"} -> CloseEm(g, t)
               [] OTHER -> inner(g, t)
<1>3. PumpInline(f) = of(f, s) /\ PumpInline(F) = of(F, w)
  BY <1>2 DEF PumpInline
<1>4. SUFFICES of(f, s) = Stay(f, s) \/ of(F, w) = Onward(of(f, s), e)
  BY <1>3 DEF StaysOrAhead
<1>. HIDE DEF F, s, inner
<1>5. CASE f.inline = "Table"
  <2>1. of(f, s) = CloseTable(f, s) /\ of(F, w) = CloseTable(F, w)
    BY <1>1, <1>5
  <2>2. QED
    BY <1>1, <2>1, TableAhead
<1>6. CASE f.inline = "Image"
  <2>1. of(f, s) = CloseImage(f, s) /\ of(F, w) = CloseImage(F, w)
    BY <1>1, <1>6
  <2>2. CloseImage(f, s) = Stay(f, s) \/ CloseImage(F, w) = Onward(CloseImage(f, s), e)
    BY <1>1, ImageAhead
  <2>3. QED
    BY <2>1, <2>2
<1>7. CASE f.inline \in {"Italic", "UItalic"}
  <2>1. of(f, s) = CloseEm(f, s) /\ of(F, w) = CloseEm(F, w)
    BY <1>1, <1>7
  <2>2. QED
    BY <1>1, <2>1, EmAhead
<1>8. CASE f.inline \notin {"Table", "Image", "Italic", "UItalic"}
  <2>1. of(f, s) = inner(f, s) /\ of(F, w) = inner(F, w)
    BY <1>1, <1>8
  <2>2. f.inline \in Inlines \ {"Table"}
    BY <1>1, <1>8
  <2>3. CASE Find(Marker(f.inline), s) # 0
    <3>1. /\ Find(Marker(f.inline), w) # 0
          /\ CloseSimple(F, w) = Onward(CloseSimple(f, s), e)
      BY <1>1, <2>2, <2>3, SimpleAhead
    <3>2. inner(f, s) = CloseSimple(f, s)
      BY <2>3 DEF inner
    <3>3. inner(F, w) = CloseSimple(F, w)
      BY <1>1, <3>1 DEF inner
    <3>4. QED
      BY <2>1, <3>1, <3>2, <3>3
  <2>4. CASE Find(Marker(f.inline), s) = 0 /\ f.inline # "Code"
    <3>1. inner(f, s) = Stay(f, s)
      BY <2>4 DEF inner
    <3>2. QED
      BY <2>1, <3>1
  <2>5. CASE Find(Marker(f.inline), s) = 0 /\ f.inline = "Code"
    <3> DEFINE n == Find(<<NL>>, s)
    <3>1. Marker(f.inline) = <<Tick>> /\ Tick \in Symbols
      BY <2>5 DEF Marker, Symbols, Signs
    <3>2. Find(<<Tick>>, e) = 0
      BY <2>5, <3>1 DEF s
    <3>3. Find(<<Tick>>, w) = 0
      BY <1>1, <2>5, <3>1, <3>2, ByteNotInGrown
    <3>4. n \in 1..Len(s) /\ Find(<<NL>>, w) = n /\ Len(s) \in Nat
      BY <1>1, LineGrown
    <3>. HIDE DEF n
    <3>5. n # 0 /\ n \in 0..Len(s)
      BY <3>4
    <3>6. inner(f, s) = CloseAtLine(f, s, n)
      BY <2>5, <3>5 DEF inner, n
    <3>7. inner(F, w) = CloseAtLine(F, w, n)
      BY <1>1, <2>5, <3>1, <3>3, <3>4, <3>5 DEF inner
    <3>8. CloseAtLine(F, w, n) = Onward(CloseAtLine(f, s, n), e)
      BY <1>1, <3>5, CloseAtLineAhead
    <3>9. QED
      BY <2>1, <3>6, <3>7, <3>8
  <2>6. QED
    BY <2>3, <2>4, <2>5
<1>9. QED
  BY <1>5, <1>6, <1>7, <1>8

\* A pass of the filter that has been fed lines: it waits for more, or it is the pass of
\* the filter that has been fed all.
LEMMA PumpAhead ==
    ASSUME NEW f, IsFilter(f), EndsLine(Unread(f)), NEW e \in Seq(Symbols), e # <<>>,
           f.inline = "Code" /\ Find(<<Tick>>, Unread(f)) = 0 => Find(<<Tick>>, e) = 0
    PROVE  \/ PumpStep(f, FALSE) = Wait(f)
           \/ f.inline # "none" /\ PumpStep(f, FALSE) = Stay(f, Unread(f))
           \/ PumpStep(Ahead(f, e), FALSE) = Onward(PumpStep(f, FALSE), e)
<1> DEFINE F == Ahead(f, e)
<1>1. CASE f.inline = "none"
  <2>1. f.buf = Unread(f) /\ F.fence = f.fence /\ F.sol = f.sol /\ F.inline = f.inline
    BY <1>1, AheadParts
  <2>2. EndsLine(f.buf)
    BY <2>1
  <2>3. /\ PumpStep(f, FALSE) = IF f.fence THEN PumpFence(f, FALSE)
                                ELSE IF f.sol THEN PumpStart(f, FALSE) ELSE PumpBody(f, FALSE)
        /\ PumpStep(F, FALSE) = IF f.fence THEN PumpFence(F, FALSE)
                                ELSE IF f.sol THEN PumpStart(F, FALSE) ELSE PumpBody(F, FALSE)
    BY <1>1, <2>1 DEF PumpStep
  <2>4. /\ WaitsOrAhead(f, e, PumpFence(f, FALSE), PumpFence(F, FALSE))
        /\ WaitsOrAhead(f, e, PumpStart(f, FALSE), PumpStart(F, FALSE))
        /\ WaitsOrAhead(f, e, PumpBody(f, FALSE), PumpBody(F, FALSE))
    BY <1>1, <2>2, FenceAhead, StartAhead, BodyAhead
  <2>. HIDE DEF F
  <2>5. QED
    BY <2>3, <2>4 DEF WaitsOrAhead, F
<1>2. CASE f.inline # "none"
  <2>1. ~f.fence /\ F.fence = f.fence /\ F.inline = f.inline
    BY <1>2, AheadInline DEF IsFilter
  <2>2. PumpStep(f, FALSE) = PumpInline(f) /\ PumpStep(F, FALSE) = PumpInline(F)
    BY <1>2, <2>1 DEF PumpStep
  <2>3. StaysOrAhead(f, e, PumpInline(f), PumpInline(F))
    BY <1>2, InlineAhead
  <2>4. QED
    BY <1>2, <2>2, <2>3 DEF StaysOrAhead
<1>3. QED
  BY <1>1, <1>2

-----------------------------------------------------------------------------
(* A pass when all is fed *)

LEMMA AheadOfNothing ==
    ASSUME NEW g \in Filters, g.acc = <<>> \/ g.buf = <<>>
    PROVE  Ahead(g, <<>>) = g
<1>1. g.buf \in Seq(Symbols) /\ g.acc \in Seq(Symbols) /\ <<>> \in Seq(Symbols)
  BY DEF Filters
<1>2. g.buf \o <<>> = g.buf
  BY <1>1, ConcatEmptySeq
<1>3. CASE g.buf = <<>>
  BY <1>2, <1>3 DEF Ahead
<1>4. CASE g.buf # <<>>
  <2>1. g.acc = <<>>
    BY <1>4
  <2>2. g.acc \o g.buf \o <<>> = g.buf
    BY <1>1, <1>2, <2>1, ConcatEmptySeq
  <2> DEFINE t == g.acc \o g.buf \o <<>>
             h == [g EXCEPT !.acc = <<>>, !.buf = t]
  <2>3. Ahead(g, <<>>) = h
    BY <1>2, <1>4 DEF Ahead
  <2>4. t = g.buf
    BY <2>2
  <2>. HIDE DEF t
  <2>5. /\ h \in Filters /\ h.buf = g.buf /\ h.acc = g.acc /\ h.fence = g.fence /\ h.sol = g.sol
        /\ h.inline = g.inline
    BY <1>1, <2>1, <2>4 DEF Filters
  <2>6. h = g
    BY <2>5, SameFields
  <2>7. QED
    BY <2>3, <2>6
<1>5. QED
  BY <1>3, <1>4

LEMMA AccIsKept ==
    ASSUME NEW f \in Filters
    PROVE  \A a, b, c, d :
              /\ [f EXCEPT !.buf = a].acc = f.acc
              /\ [f EXCEPT !.sol = b].acc = f.acc
              /\ [f EXCEPT !.buf = a, !.sol = b].acc = f.acc
              /\ [f EXCEPT !.buf = a, !.inline = c].acc = f.acc
              /\ [f EXCEPT !.buf = a, !.sol = b, !.inline = c].acc = f.acc
              /\ [f EXCEPT !.fence = d, !.buf = a, !.sol = b].acc = f.acc
              /\ [f EXCEPT !.buf = a, !.sol = b, !.inline = c, !.acc = <<>>].acc = <<>>
              /\ [f EXCEPT !.buf = <<>>, !.acc = a].buf = <<>>
BY DEF Filters

\* Out of an inline nothing is kept of what has been read.
KeepsNothing(f, step) == step.f.acc = f.acc

LEMMA BothKeep ==
    ASSUME NEW f \in Filters, NEW eof
    PROVE  /\ KeepsNothing(f, LeaveStart(f)) /\ KeepsNothing(f, Wait(f)) /\ KeepsNothing(f, Toggle(f))
           /\ KeepsNothing(f, OpenTable(f))
           /\ \A n, sol : KeepsNothing(f, Drop(f, n, sol))
           /\ \A a, o : KeepsNothing(f, Step([f EXCEPT !.buf = a], o))
           /\ \A a, b, o : KeepsNothing(f, Step([f EXCEPT !.buf = a, !.sol = b], o))
           /\ \A a, c, o : KeepsNothing(f, Step([f EXCEPT !.buf = a, !.inline = c], o))
<1>1. \A g, o : Step(g, o).f = g
  BY DEF Step
<1>2. KeepsNothing(f, Toggle(f))
  <2> DEFINE a == AfterLine(Skip(f.buf, 3))
             d == ~f.fence
  <2>1. Toggle(f).f = [f EXCEPT !.fence = d, !.buf = a, !.sol = TRUE]
    BY <1>1 DEF Toggle
  <2>. HIDE DEF a, d
  <2>2. QED
    BY <2>1, AccIsKept DEF KeepsNothing
<1>3. KeepsNothing(f, LeaveStart(f)) /\ KeepsNothing(f, Wait(f))
  <2>1. LeaveStart(f).f = [f EXCEPT !.sol = FALSE] /\ Wait(f).f = f
    BY <1>1 DEF LeaveStart, Wait
  <2>2. QED
    BY <2>1, AccIsKept DEF KeepsNothing
<1>4. KeepsNothing(f, OpenTable(f))
  <2> DEFINE a == Tail(f.buf)
  <2>1. OpenTable(f).f = [f EXCEPT !.buf = a, !.sol = FALSE, !.inline = "Table"]
    BY <1>1 DEF OpenTable
  <2>. HIDE DEF a
  <2>2. QED
    BY <2>1, AccIsKept DEF KeepsNothing
<1>5. ASSUME NEW n, NEW sol PROVE KeepsNothing(f, Drop(f, n, sol))
  <2> DEFINE a == Skip(f.buf, n)
  <2>1. Drop(f, n, sol).f = [f EXCEPT !.buf = a, !.sol = sol]
    BY <1>1 DEF Drop
  <2>. HIDE DEF a
  <2>2. QED
    BY <2>1, AccIsKept DEF KeepsNothing
<1>6. ASSUME NEW a, NEW o PROVE KeepsNothing(f, Step([f EXCEPT !.buf = a], o))
  <2> DEFINE g == [f EXCEPT !.buf = a]
  <2>1. g.acc = f.acc
    BY AccIsKept
  <2>. HIDE DEF g
  <2>2. Step(g, o).f = g
    BY <1>1
  <2>3. KeepsNothing(f, Step(g, o))
    BY <2>1, <2>2 DEF KeepsNothing
  <2>4. QED
    BY <2>3 DEF g
<1>7. ASSUME NEW a, NEW b, NEW o PROVE KeepsNothing(f, Step([f EXCEPT !.buf = a, !.sol = b], o))
  <2> DEFINE g == [f EXCEPT !.buf = a, !.sol = b]
  <2>1. g.acc = f.acc
    BY AccIsKept
  <2>. HIDE DEF g
  <2>2. Step(g, o).f = g
    BY <1>1
  <2>3. KeepsNothing(f, Step(g, o))
    BY <2>1, <2>2 DEF KeepsNothing
  <2>4. QED
    BY <2>3 DEF g
<1>8. ASSUME NEW a, NEW c, NEW o PROVE KeepsNothing(f, Step([f EXCEPT !.buf = a, !.inline = c], o))
  <2> DEFINE g == [f EXCEPT !.buf = a, !.inline = c]
  <2>1. g.acc = f.acc
    BY AccIsKept
  <2>. HIDE DEF g
  <2>2. Step(g, o).f = g
    BY <1>1
  <2>3. KeepsNothing(f, Step(g, o))
    BY <2>1, <2>2 DEF KeepsNothing
  <2>4. QED
    BY <2>3 DEF g
<1>9. QED
  BY <1>2, <1>3, <1>4, <1>5, <1>6, <1>7, <1>8

LEMMA PassKeepsNothing ==
    ASSUME NEW f, IsFilter(f), f.inline = "none", NEW eof
    PROVE  PumpStep(f, eof).f.acc = <<>>
<1>1. f \in Filters /\ f.acc = <<>>
  BY DEF IsFilter
<1>2. KeepsNothing(f, PumpFence(f, eof))
  <2> DEFINE n == IF Find(<<NL>>, f.buf) = 0 THEN Len(f.buf) ELSE Find(<<NL>>, f.buf)
             a == Skip(f.buf, n)
             b == Find(<<NL>>, f.buf) # 0
             o == Take(f.buf, n)
  <2>1. PumpFence(f, eof) \in {Wait(f), Toggle(f), Step([f EXCEPT !.buf = a, !.sol = b], o)}
    BY DEF PumpFence
  <2>. HIDE DEF a, b, o
  <2>2. KeepsNothing(f, Step([f EXCEPT !.buf = a, !.sol = b], o))
    BY <1>1, BothKeep
  <2>3. KeepsNothing(f, Wait(f)) /\ KeepsNothing(f, Toggle(f))
    BY <1>1, BothKeep
  <2>4. QED
    BY <2>1, <2>2, <2>3
<1>3. KeepsNothing(f, PumpStart(f, eof))
  <2> DEFINE a == Tail(f.buf)
             nl == Step([f EXCEPT !.buf = a], <<NL>>)
  <2>1. PumpStart(f, eof) \in {nl, PumpTick(f, eof), PumpQuotation(f, eof), PumpHeading(f, eof),
                               OpenTable(f), PumpBlanks(f, eof), PumpRule(f, eof), LeaveStart(f)}
    BY DEF PumpStart
  <2>. HIDE DEF a
  <2>2. KeepsNothing(f, nl) /\ KeepsNothing(f, OpenTable(f)) /\ KeepsNothing(f, LeaveStart(f))
    BY <1>1, BothKeep
  <2>. HIDE DEF nl
  <2>3. KeepsNothing(f, PumpTick(f, eof)) /\ KeepsNothing(f, PumpBlanks(f, eof))
    <3>1. /\ PumpTick(f, eof) \in {Wait(f), Toggle(f), LeaveStart(f)}
          /\ PumpBlanks(f, eof) \in {Wait(f), LeaveStart(f)}
      BY DEF PumpTick, PumpBlanks
    <3>2. KeepsNothing(f, Wait(f)) /\ KeepsNothing(f, Toggle(f)) /\ KeepsNothing(f, LeaveStart(f))
      BY <1>1, BothKeep
    <3>3. QED
      BY <3>1, <3>2
  <2>4. \A n, sol : KeepsNothing(f, Drop(f, n, sol))
    BY <1>1, BothKeep
  <2>5. KeepsNothing(f, Wait(f)) /\ KeepsNothing(f, LeaveStart(f))
    BY <1>1, BothKeep
  <2>6. KeepsNothing(f, PumpQuotation(f, eof))
    BY <2>4, <2>5 DEF PumpQuotation
  <2>7. KeepsNothing(f, PumpHeading(f, eof))
    BY <2>4, <2>5 DEF PumpHeading
  <2>8. KeepsNothing(f, PumpRule(f, eof))
    BY <2>4, <2>5 DEF PumpRule
  <2>9. QED
    BY <2>1, <2>2, <2>3, <2>6, <2>7, <2>8
<1>4. KeepsNothing(f, PumpBody(f, eof))
  <2> DEFINE s == f.buf
             n == Len(s) - Hold(s, eof)
             i == Scan(s, {k \in DOMAIN s : s[k] = NL \/ Opening(s, k) # {}})
             kind == CHOOSE k \in Opening(s, i) : TRUE
             s1 == Skip(s, n)
             s2 == Skip(s, i)
             s3 == Skip(s, i - 1 + Len(Marker(kind)))
             o1 == Take(s, n)
             o2 == Take(s, i)
             o3 == Take(s, i - 1)
  <2>1. PumpBody(f, eof) \in {Step([f EXCEPT !.buf = s1], o1), Step([f EXCEPT !.buf = s2, !.sol = TRUE], o2),
                              Step([f EXCEPT !.buf = s3, !.inline = kind], o3)}
    BY DEF PumpBody
  <2>. HIDE DEF s1, s2, s3, o1, o2, o3, kind
  <2>2. /\ KeepsNothing(f, Step([f EXCEPT !.buf = s1], o1))
        /\ KeepsNothing(f, Step([f EXCEPT !.buf = s2, !.sol = TRUE], o2))
        /\ KeepsNothing(f, Step([f EXCEPT !.buf = s3, !.inline = kind], o3))
    BY <1>1, BothKeep
  <2>3. QED
    BY <2>1, <2>2
<1>5. PumpStep(f, eof) \in {PumpFence(f, eof), PumpStart(f, eof), PumpBody(f, eof)}
  BY DEF PumpStep
<1>6. QED
  BY <1>1, <1>2, <1>3, <1>4, <1>5 DEF KeepsNothing

\* What an inline's end makes of a filter does not depend on where what it has read is.
LEMMA SameInlineEnds ==
    ASSUME NEW f \in Filters, NEW F \in Filters, F.fence = f.fence, F.sol = f.sol,
           F.inline = f.inline
    PROVE  /\ \A r : \A sol \in BOOLEAN : Closed(F, r, sol) = Closed(f, r, sol)
           /\ \A s : Stay(F, s) = Stay(f, s)
<1>1. ASSUME NEW r, NEW sol \in BOOLEAN PROVE Closed(F, r, sol) = Closed(f, r, sol)
  <2> DEFINE B == [buf : {r}, fence : BOOLEAN, sol : BOOLEAN, inline : {"none"}, acc : {<<>>}]
             g == Closed(f, r, sol)
             h == Closed(F, r, sol)
  <2>1. g \in B /\ g.fence = f.fence /\ g.sol = sol
    BY DEF Filters, Closed
  <2>2. h \in B /\ h.fence = F.fence /\ h.sol = sol
    BY DEF Filters, Closed
  <2>. HIDE DEF g, h
  <2>3. h.fence = g.fence /\ h.sol = g.sol
    BY <2>1, <2>2
  <2>4. g = h
    BY <2>1, <2>2, <2>3
  <2>5. QED
    BY <2>4 DEF g, h
<1>2. ASSUME NEW s PROVE Stay(F, s) = Stay(f, s)
  <2> DEFINE B == [buf : {<<>>}, fence : BOOLEAN, sol : BOOLEAN, inline : Inlines \cup {"none"}, acc : {s}]
             g == [f EXCEPT !.buf = <<>>, !.acc = s]
             h == [F EXCEPT !.buf = <<>>, !.acc = s]
  <2>1. g \in B /\ g.fence = f.fence /\ g.sol = f.sol /\ g.inline = f.inline
    BY DEF Filters
  <2>2. h \in B /\ h.fence = F.fence /\ h.sol = F.sol /\ h.inline = F.inline
    BY DEF Filters
  <2>. HIDE DEF g, h
  <2>3. h.fence = g.fence /\ h.sol = g.sol /\ h.inline = g.inline
    BY <2>1, <2>2
  <2>4. g = h
    BY <2>1, <2>2, <2>3
  <2>5. QED
    BY <2>4 DEF g, h, Stay
<1>3. QED
  BY <1>1, <1>2

\* An inline: the filter that has what it has read before it again does the same, and
\* keeps what it has read, or what follows the inline, but not both.
LEMMA InlineOfWhole ==
    ASSUME NEW f, IsFilter(f), f.inline # "none", NEW F \in Filters, F.fence = f.fence,
           F.sol = f.sol, F.inline = f.inline, Unread(F) = Unread(f)
    PROVE  /\ PumpInline(F) = PumpInline(f)
           /\ PumpInline(f).f.acc = <<>> \/ PumpInline(f).f.buf = <<>>
<1> DEFINE s == Unread(f)
           Whole1(step) == step.f.acc = <<>> \/ step.f.buf = <<>>
<1>1. f \in Filters /\ f.sol \in BOOLEAN /\ f.inline \in Inlines
  BY DEF IsFilter, Filters
<1>2. f.acc \o f.buf = s /\ F.acc \o F.buf = s
  BY DEF Unread
<1>. HIDE DEF s
<1>3. /\ \A r : \A sol \in BOOLEAN : Closed(F, r, sol) = Closed(f, r, sol)
      /\ Stay(F, s) = Stay(f, s)
  BY <1>1, SameInlineEnds
<1>0. \A r : Closed(F, r, TRUE) = Closed(f, r, TRUE)
  <2>1. PICK yes \in BOOLEAN : yes = TRUE
    OBVIOUS
  <2>2. \A r : Closed(F, r, yes) = Closed(f, r, yes)
    BY <1>3
  <2>3. QED
    BY <2>1, <2>2
<1>4. \A o, r, sol : Close(f, o, r, sol) = Step(Closed(f, r, sol), o)
  BY DEF Close
<1>5. \A o, r : /\ Close(F, o, r, f.sol) = Close(f, o, r, f.sol)
                /\ Close(F, o, r, TRUE) = Close(f, o, r, TRUE)
  BY <1>0, <1>1, <1>3 DEF Close
<1>6. \A r, sol : Closed(f, r, sol).acc = <<>>
  BY <1>1, AccIsKept DEF Closed
<1>7. Whole1(Stay(f, s)) /\ \A o, r, sol : Whole1(Close(f, o, r, sol))
  <2>1. \A o, r, sol : Close(f, o, r, sol).f.acc = <<>>
    BY <1>6 DEF Close, Step
  <2>2. Stay(f, s).f.buf = <<>>
    BY <1>1, AccIsKept DEF Stay, Step
  <2>3. QED
    BY <2>1, <2>2
<1>8. \A n : CloseAtLine(F, s, n) = CloseAtLine(f, s, n) /\ Whole1(CloseAtLine(f, s, n))
  BY <1>5, <1>7 DEF CloseAtLine
<1>9. CloseSimple(F, s) = CloseSimple(f, s) /\ Whole1(CloseSimple(f, s))
  <2>1. CloseSimple(F, s) = CloseSimple(f, s)
    BY <1>5 DEF CloseSimple
  <2>2. Whole1(CloseSimple(f, s))
    BY <1>7 DEF CloseSimple
  <2>3. QED
    BY <2>1, <2>2
<1>10. CloseEm(F, s) = CloseEm(f, s) /\ Whole1(CloseEm(f, s))
  <2> DEFINE mark == Marker(f.inline)[1]
             i == Scan(s, {k \in DOMAIN s : s[k] = NL \/ (s[k] = mark /\ ~Doubled(s, k))})
             o == Take(s, i - 1)
             r == Skip(s, i)
  <2>1. CloseEm(f, s) = IF i > Len(s) THEN Stay(f, s)
                        ELSE IF s[i] = NL THEN CloseAtLine(f, s, i) ELSE Close(f, o, r, f.sol)
    BY DEF CloseEm
  <2>2. CloseEm(F, s) = IF i > Len(s) THEN Stay(F, s)
                        ELSE IF s[i] = NL THEN CloseAtLine(F, s, i) ELSE Close(F, o, r, f.sol)
    BY DEF CloseEm
  <2>. HIDE DEF i, o, r, Whole1
  <2>3. CloseEm(F, s) = CloseEm(f, s)
    BY <1>3, <1>5, <1>8, <2>1, <2>2
  <2>4. Whole1(CloseEm(f, s))
    BY <1>7, <1>8, <2>1
  <2>5. QED
    BY <2>3, <2>4
<1>11. CloseImage(F, s) = CloseImage(f, s) /\ Whole1(CloseImage(f, s))
  <2> DEFINE alt == Find(<<"]">>, s)
             url == Find(<<")">>, Skip(s, alt + 1))
             o == Marker("Image") \o Take(s, alt)
             r == Skip(s, alt)
             q == Skip(s, alt + 1 + url)
  <2>1. CloseImage(f, s) = IF alt = 0 \/ alt = Len(s) THEN Stay(f, s)
                           ELSE IF s[alt + 1] # "(" THEN Close(f, o, r, f.sol)
                           ELSE IF url = 0 THEN Stay(f, s) ELSE Close(f, <<>>, q, f.sol)
    BY DEF CloseImage
  <2>2. CloseImage(F, s) = IF alt = 0 \/ alt = Len(s) THEN Stay(F, s)
                           ELSE IF s[alt + 1] # "(" THEN Close(F, o, r, f.sol)
                           ELSE IF url = 0 THEN Stay(F, s) ELSE Close(F, <<>>, q, f.sol)
    BY DEF CloseImage
  <2>. HIDE DEF alt, url, o, r, q, Whole1
  <2>3. CloseImage(F, s) = CloseImage(f, s)
    BY <1>3, <1>5, <2>1, <2>2
  <2>4. Whole1(CloseImage(f, s))
    BY <1>7, <2>1
  <2>5. QED
    BY <2>3, <2>4
<1>12. CloseTable(F, s) = CloseTable(f, s) /\ Whole1(CloseTable(f, s))
  <2> DEFINE n == Find(<<NL>>, s)
             g == Closed(f, Skip(s, n), TRUE)
             line == Take(s, n - 1)
  <2>1. CloseTable(f, s) = IF n = 0 THEN Stay(f, s) ELSE PutRow(g, line, <<NL>>)
    BY DEF CloseTable
  <2>2. CloseTable(F, s) = IF n = 0 THEN Stay(F, s) ELSE PutRow(g, line, <<NL>>)
    BY <1>0 DEF CloseTable
  <2>3. g.acc = <<>>
    BY <1>6
  <2>. HIDE DEF g, line, n
  <2>4. PutRow(g, line, <<NL>>).f = g
    BY DEF PutRow, Panic, Step
  <2>5. Whole1(PutRow(g, line, <<NL>>))
    BY <2>3, <2>4
  <2>. HIDE DEF Whole1
  <2>6. QED
    BY <1>3, <1>7, <2>1, <2>2, <2>5
<1> DEFINE inner(g) == IF Find(Marker(g.inline), s) # 0 THEN CloseSimple(g, s)
                       ELSE IF g.inline = "Code" /\ Find(<<NL>>, s) # 0
                       THEN CloseAtLine(g, s, Find(<<NL>>, s))
                       ELSE Stay(g, s)
           of(g) == CASE g.inline = "Table" -> CloseTable(g, s)
                      [] g.inline = "Image" -> CloseImage(g, s)
                      [] g.inline \in {"Italic", "UItalic"} -> CloseEm(g, s)
                      [] OTHER -> inner(g)
<1>13. PumpInline(f) = of(f) /\ PumpInline(F) = of(F)
  BY <1>2 DEF PumpInline
<1>. HIDE DEF Whole1
<1>14. inner(F) = inner(f) /\ Whole1(inner(f))
  BY <1>3, <1>7, <1>8, <1>9
<1>. HIDE DEF inner
<1>15. of(F) = of(f) /\ Whole1(of(f))
  BY <1>10, <1>11, <1>12, <1>14
<1>16. QED
  BY <1>13, <1>15 DEF Whole1

\* When all is fed, a pass is one of the filter that has been fed all.
LEMMA PumpWhole ==
    ASSUME NEW f, IsFilter(f), f.buf # <<>>, NEW eof \in BOOLEAN
    PROVE  /\ PumpStep(Ahead(f, <<>>), eof) = PumpStep(f, eof)
           /\ Ahead(PumpStep(f, eof).f, <<>>) = PumpStep(f, eof).f
           /\ Ahead(f, <<>>).buf # <<>>
           /\ PumpStep(f, eof).f # f => PumpStep(f, eof).f # Ahead(f, <<>>)
<1> DEFINE F == Ahead(f, <<>>)
           step == PumpStep(f, eof)
<1>1. /\ f \in Filters /\ f.buf \in Seq(Symbols) /\ f.acc \in Seq(Symbols) /\ <<>> \in Seq(Symbols)
      /\ Unread(f) \in Seq(Symbols)
  <2>1. <<>> \in Seq(Symbols)
    OBVIOUS
  <2>2. QED
    BY <2>1, FilterParts
<1>2. step.f \in Filters
  <2>1. AdvancesOrWaits(f, step, eof)
    BY PumpAdvances
  <2>. HIDE DEF step
  <2>2. CASE Advances(f, step)
    BY <2>2 DEF Advances, Reads, IsFilter
  <2>3. CASE step = Wait(f)
    BY <1>1, <2>3 DEF Wait, Step
  <2>4. QED
    BY <2>1, <2>2, <2>3 DEF AdvancesOrWaits
<1>3. CASE f.inline = "none"
  <2>1. f.acc = <<>>
    BY <1>3 DEF IsFilter
  <2>2. F = f
    BY <1>1, <2>1, AheadOfNothing
  <2>3. step.f.acc = <<>>
    BY <1>3, PassKeepsNothing
  <2>. HIDE DEF F, step
  <2>4. Ahead(step.f, <<>>) = step.f
    BY <1>2, <2>3, AheadOfNothing
  <2>5. QED
    BY <2>2, <2>4 DEF F, step
<1>4. CASE f.inline # "none"
  <2> DEFINE t == f.acc \o f.buf \o <<>>
             h == [f EXCEPT !.acc = <<>>, !.buf = t]
  <2>1. F = h
    BY <1>1, ConcatEmptySeq DEF Ahead
  <2>2. t = Unread(f)
    <3>1. f.acc \o f.buf = Unread(f)
      BY DEF Unread
    <3>2. QED
      BY <1>1, <3>1, ConcatEmptySeq
  <2>. HIDE DEF t
  <2>3. /\ h \in Filters /\ h.buf = Unread(f) /\ h.acc = <<>> /\ h.fence = f.fence
        /\ h.sol = f.sol /\ h.inline = f.inline
    BY <1>1, <2>2 DEF Filters
  <2>. HIDE DEF h
  <2>4. Unread(h) = Unread(f) /\ h.buf # <<>> /\ IsFilter(h)
    <3>1. Unread(h) = Unread(f)
      BY <1>1, <2>3, ConcatEmptySeq DEF Unread
    <3>2. Len(Unread(f)) = Len(f.acc) + Len(f.buf) /\ Len(f.acc) \in Nat /\ Len(f.buf) \in Nat /\ Len(f.buf) > 0
      BY FilterParts
    <3>3. Unread(f) # <<>>
      <4>1. Len(f.acc) \in Nat /\ Len(f.buf) \in Nat /\ Len(f.buf) > 0
        BY <3>2
      <4>a. \A m, n \in Nat : n > 0 => m + n # 0
        OBVIOUS
      <4>2. Len(f.acc) + Len(f.buf) # 0
        BY <4>1, <4>a
      <4>3. Len(Unread(f)) # 0
        BY <3>2, <4>2
      <4>4. QED
        BY <4>3, <1>1, EmptySeq
    <3>4. IsFilter(h)
      BY <1>4, <2>3 DEF IsFilter
    <3>5. QED
      BY <2>3, <3>1, <3>3, <3>4
  <2>5. PumpInline(h) = PumpInline(f) /\ (PumpInline(f).f.acc = <<>> \/ PumpInline(f).f.buf = <<>>)
    BY <1>4, <2>3, <2>4, InlineOfWhole
  <2>6. PumpStep(f, eof) = PumpInline(f) /\ PumpStep(h, eof) = PumpInline(h)
    BY <1>4, <2>3 DEF PumpStep, IsFilter
  <2>7. Advances(h, PumpInline(h))
    BY <1>4, <2>3, <2>4, PumpInlineAdvances
  <2>8. step.f # h
    <3>1. Weight(step.f) < Weight(h) /\ Weight(h) \in Nat
      BY <2>4, <2>5, <2>6, <2>7, FilterParts DEF Advances
    <3>2. QED
      BY <3>1
  <2>. HIDE DEF step, F
  <2>9. step.f.acc = <<>> \/ step.f.buf = <<>>
    BY <2>5, <2>6 DEF step
  <2>10. Ahead(step.f, <<>>) = step.f
    BY <1>2, <2>9, AheadOfNothing
  <2>11. QED
    BY <2>1, <2>4, <2>5, <2>6, <2>8, <2>10 DEF step, F
<1>5. QED
  BY <1>3, <1>4

\* A filter that has come to a rest keeps what it has read or what it has not.
LEMMA AtRest ==
    ASSUME IsFilter(filter), ~Moves
    PROVE  Ahead(filter, <<>>) = filter
<1>1. filter \in Filters
  BY DEF IsFilter
<1>2. CASE filter.buf = <<>>
  BY <1>1, <1>2, AheadOfNothing
<1>3. CASE filter.inline = "none"
  <2>1. filter.acc = <<>>
    BY <1>3 DEF IsFilter
  <2>2. QED
    BY <1>1, <2>1, AheadOfNothing
<1>4. CASE filter.buf # <<>> /\ filter.inline # "none"
  <2>1. Advances(filter, PumpInline(filter))
    BY <1>4, PumpInlineAdvances
  <2>2. Pumped = PumpInline(filter)
    BY <1>4 DEF Pumped, PumpStep, IsFilter
  <2>3. PumpInline(filter).f = filter
    BY <1>4, <2>2 DEF Moves
  <2>4. Weight(filter) < Weight(filter) /\ Weight(filter) \in Nat
    BY <2>1, <2>3, FilterParts DEF Advances
  <2>5. QED
    BY <2>4
<1>5. QED
  BY <1>2, <1>3, <1>4

-----------------------------------------------------------------------------
(* The filter that is fed lines implements the one that is fed all *)

WholeFed == IF fed = 0 THEN 0 ELSE Len(source)
WholeFilter == IF fed = 0 THEN filter ELSE Ahead(filter, Unfed)
WholePumped == PumpStep(WholeFilter, stage = "flush")
WholeMoves == WholeFilter.buf # <<>> /\ WholePumped.f # WholeFilter

WholePut(step, next) ==
    /\ WholeFilter' = step.f
    /\ filtered' = filtered \o step.out
    /\ stage' = IF step.panics THEN "panicked" ELSE next
    /\ source' = source

LEMMA WholePutIs ==
    /\ Whole!Moves <=> WholeMoves
    /\ Whole!Pumped = WholePumped
    /\ \A step, next : WholePut(step, next) => Whole!Put(step, next)
<1>1. Whole!Pumped = WholePumped
  BY SameFilter DEF Whole!Pumped, WholePumped, WholeFilter
<1>2. Whole!Moves <=> WholeMoves
  BY <1>1 DEF Whole!Moves, WholeMoves, WholeFilter
<1>3. ASSUME NEW step, NEW next, WholePut(step, next) PROVE Whole!Put(step, next)
  BY <1>3 DEF WholePut, Whole!Put, WholeFilter
<1>4. QED
  BY <1>1, <1>2, <1>3

LEMMA WholeSteps ==
    /\ /\ stage = "feed" /\ ~WholeMoves /\ WholeFed < Len(source) /\ WholeFed' = Len(source)
       /\ WholePut(Wait([WholeFilter EXCEPT !.buf = @ \o SubSeq(source, WholeFed + 1, Len(source))]), "feed")
       => Whole!FilterNext
    /\ /\ stage \in {"feed", "flush"} /\ WholeMoves /\ WholePut(WholePumped, stage)
       /\ WholeFed' = WholeFed
       => Whole!FilterNext
    /\ /\ stage = "feed" /\ WholeFed = Len(source) /\ ~WholeMoves
       /\ WholePut(Wait(WholeFilter), "flush") /\ WholeFed' = WholeFed
       => Whole!FilterNext
    /\ /\ stage = "flush" /\ ~WholeMoves /\ WholePut(EndInline(WholeFilter), "done")
       /\ WholeFed' = WholeFed
       => Whole!FilterNext
<1>1. ASSUME stage = "feed", ~WholeMoves, WholeFed < Len(source), WholeFed' = Len(source),
             WholePut(Wait([WholeFilter EXCEPT !.buf = @ \o SubSeq(source, WholeFed + 1, Len(source))]), "feed")
      PROVE  Whole!FilterNext
  <2> DEFINE g == [WholeFilter EXCEPT !.buf = @ \o SubSeq(source, WholeFed + 1, Len(source))]
  <2>1. Whole!Put(Wait(g), "feed") /\ ~Whole!Moves
    BY <1>1, WholePutIs
  <2>2. Whole!Wait(g) = Wait(g)
    BY SameSteps
  <2>3. Whole!Feed
    BY <1>1, <2>1, <2>2 DEF Whole!Feed, WholeFed, WholeFilter
  <2>4. QED
    BY <2>3 DEF Whole!FilterNext
<1>2. ASSUME stage \in {"feed", "flush"}, WholeMoves, WholePut(WholePumped, stage), WholeFed' = WholeFed
      PROVE  Whole!FilterNext
  <2>1. Whole!Put(Whole!Pumped, stage) /\ Whole!Moves
    BY <1>2, WholePutIs
  <2>2. Whole!Pass
    BY <1>2, <2>1 DEF Whole!Pass, WholeFed
  <2>3. QED
    BY <2>2 DEF Whole!FilterNext
<1>3. ASSUME stage = "feed", WholeFed = Len(source), ~WholeMoves, WholePut(Wait(WholeFilter), "flush"),
             WholeFed' = WholeFed
      PROVE  Whole!FilterNext
  <2>1. Whole!Put(Wait(WholeFilter), "flush") /\ ~Whole!Moves
    BY <1>3, WholePutIs
  <2>2. Whole!Wait(WholeFilter) = Wait(WholeFilter)
    BY SameSteps
  <2>3. Whole!BeginFlush
    BY <1>3, <2>1, <2>2 DEF Whole!BeginFlush, WholeFed, WholeFilter
  <2>4. QED
    BY <2>3 DEF Whole!FilterNext
<1>4. ASSUME stage = "flush", ~WholeMoves, WholePut(EndInline(WholeFilter), "done"), WholeFed' = WholeFed
      PROVE  Whole!FilterNext
  <2>1. Whole!Put(EndInline(WholeFilter), "done") /\ ~Whole!Moves
    BY <1>4, WholePutIs
  <2>2. Whole!EndInline(WholeFilter) = EndInline(WholeFilter)
    BY SameFilter
  <2>3. Whole!EndFlush
    BY <1>4, <2>1, <2>2 DEF Whole!EndFlush, WholeFed, WholeFilter
  <2>4. QED
    BY <2>3 DEF Whole!FilterNext
<1>5. QED
  BY <1>1, <1>2, <1>3, <1>4

LEMMA Regroup ==
    ASSUME NEW x \in Seq(Symbols), NEW y \in Seq(Symbols), NEW z \in Seq(Symbols)
    PROVE  x \o y \o z = x \o (y \o z)
BY ConcatAssociative

\* What the steps of the filter that is fed lines are for the one that is fed all.
LEMMA FeedAsOne ==
    ASSUME FilterInv, Feed
    PROVE  Whole!FilterNext \/ UNCHANGED Whole!filterVars
<1>1. PICK to \in cuts \cup {Len(source)} :
        /\ fed < to /\ fed' = to
        /\ Put(Wait([filter EXCEPT !.buf = @ \o SubSeq(source, fed + 1, to)]), "feed")
  BY DEF Feed
<1> DEFINE piece == SubSeq(source, fed + 1, to)
           g == [filter EXCEPT !.buf = @ \o piece]
           e == Skip(source, to)
<1>2. /\ source \in Seq(Symbols) /\ Len(source) \in Nat /\ IsFilter(filter) /\ filter \in Filters
      /\ filter.buf \in Seq(Symbols) /\ filter.acc \in Seq(Symbols)
      /\ fed \in 0..Len(source) /\ to \in 1..Len(source) /\ filtered \in Seq(Symbols)
      /\ stage = "feed" /\ ~Moves
  <2>1. /\ source \in Seq(Symbols) /\ cuts \subseteq DOMAIN source /\ fed \in 0..Len(source)
        /\ IsFilter(filter) /\ filtered \in Seq(Symbols)
    BY DEF FilterInv, FilterTypeOK
  <2>2. Len(source) \in Nat /\ DOMAIN source = 1..Len(source)
    BY <2>1, LenProperties
  <2>3. stage = "feed" /\ ~Moves
    BY DEF Feed
  <2>4. to \in 1..Len(source)
    BY <1>1, <2>1, <2>2
  <2>5. QED
    BY <2>1, <2>2, <2>3, <2>4, FilterParts
<1>3. piece \in Seq(Symbols) /\ e \in Seq(Symbols) /\ piece \o e = Skip(source, fed)
      /\ Skip(source, fed) # <<>>
  <2> DEFINE t == Skip(source, fed)
             m == to - fed
  <2>1. m \in 1..(Len(source) - fed) /\ fed + m = to /\ to \in 0..Len(source)
    BY <1>1, <1>2
  <2>2. /\ t \in Seq(Symbols) /\ Len(t) = Len(source) - fed
        /\ \A i \in 1..(Len(source) - fed) : t[i] = source[fed + i]
    BY <1>2, SkipIsRest
  <2>3. e \in Seq(Symbols)
    BY <1>2, <2>1, SkipIsRest
  <2>4. Skip(t, m) = e
    <3>1. m \in 0..(Len(source) - fed)
      BY <1>2, <2>1
    <3>2. Skip(Skip(source, fed), m) = Skip(source, fed + m)
      BY <1>2, <3>1, SkipAgain
    <3>3. QED
      BY <2>1, <3>2
  <2>5. /\ piece \in Seq(Symbols) /\ Len(piece) = m /\ \A i \in 1..m : piece[i] = source[fed + i]
    <3>1. fed + 1 \in Int /\ to \in Int /\ \A i \in (fed + 1)..to : source[i] \in Symbols
      BY <1>2, ElementOfSeq
    <3>2. /\ piece \in Seq(Symbols)
          /\ Len(piece) = IF fed + 1 <= to THEN to - (fed + 1) + 1 ELSE 0
          /\ \A i \in 1..(to - (fed + 1) + 1) : piece[i] = source[fed + 1 + i - 1]
      BY <3>1, SubSeqProperties
    <3>. HIDE DEF piece
    <3>3. to - (fed + 1) + 1 = m /\ fed + 1 <= to
      BY <1>1, <1>2
    <3>4. ASSUME NEW i \in 1..m PROVE piece[i] = source[fed + i]
      <4>1. fed + 1 + i - 1 = fed + i /\ i \in 1..(to - (fed + 1) + 1)
        BY <1>2, <3>3
      <4>2. QED
        BY <3>2, <4>1
    <3>5. QED
      BY <3>2, <3>3, <3>4
  <2>. HIDE DEF t, piece, e
  <2>6. m \in 0..Len(t)
    <3>. HIDE DEF m
    <3>1. QED
      BY <1>2, <2>1, <2>2
  <2>7. Take(t, m) = piece
    <3>1. /\ Take(t, m) \in Seq(Symbols) /\ Len(Take(t, m)) = m
          /\ \A i \in 1..m : Take(t, m)[i] = t[i]
      BY <2>2, <2>6, TakeIsHead
    <3>2. \A i \in 1..m : t[i] = source[fed + i]
      <4>. HIDE DEF m
      <4>1. \A i \in 1..m : i \in 1..(Len(source) - fed)
        BY <1>2, <2>1
      <4>2. QED
        BY <2>2, <4>1
    <3>. HIDE DEF m
    <3>3. \A i \in 1..Len(piece) : Take(t, m)[i] = piece[i]
      BY <2>5, <3>1, <3>2
    <3>4. QED
      BY <2>5, <3>1, <3>3, SeqEqual
  <2>8. Take(t, m) \o Skip(t, m) = t
    BY <2>2, <2>6, TakeThenSkip
  <2>9. t # <<>>
    <3>. HIDE DEF m
    <3>1. Len(t) # 0
      BY <1>2, <2>1, <2>2
    <3>2. QED
      BY <2>2, <3>1, EmptySeq
  <2>10. QED
    BY <2>3, <2>4, <2>5, <2>7, <2>8, <2>9 DEF t
<1>. HIDE DEF piece
<1>4. /\ g \in Filters /\ g.buf = filter.buf \o piece /\ g.acc = filter.acc
      /\ g.fence = filter.fence /\ g.sol = filter.sol /\ g.inline = filter.inline
  <2> DEFINE b == filter.buf \o piece
  <2>1. b \in Seq(Symbols)
    BY <1>2, <1>3, ConcatProperties
  <2>. HIDE DEF b
  <2>2. LET h == [filter EXCEPT !.buf = b]
        IN  /\ h \in Filters /\ h.buf = b /\ h.acc = filter.acc
            /\ h.fence = filter.fence /\ h.sol = filter.sol /\ h.inline = filter.inline
    BY <1>2, <2>1 DEF Filters
  <2>3. QED
    BY <2>2 DEF b
<1>5. /\ filter' = g /\ filtered' = filtered /\ stage' = "feed" /\ source' = source /\ fed' = to
  <2>1. Put(Wait(g), "feed")
    BY <1>1 DEF piece
  <2>. HIDE DEF g
  <2>2. filtered \o <<>> = filtered
    BY <1>2, ConcatEmptySeq
  <2>3. QED
    BY <1>1, <2>1, <2>2 DEF Put, Wait, Step
<1>6. WholeFed' = Len(source) /\ WholeFilter' = Ahead(g, e)
  <2>1. fed' # 0
    BY <1>2, <1>5
  <2>2. QED
    BY <1>5, <2>1 DEF WholeFed, WholeFilter, Unfed
<1>. HIDE DEF e, g
<1>7. Ahead(g, e) = Ahead(filter, Skip(source, fed))
  <2> DEFINE r == Skip(source, fed)
             b == filter.buf
             a == filter.acc
  <2>0. r \in Seq(Symbols) /\ b \in Seq(Symbols) /\ a \in Seq(Symbols) /\ r # <<>>
    BY <1>2, <1>3, SkipIsRest
  <2>c. piece \o e = r /\ piece \in Seq(Symbols) /\ e \in Seq(Symbols)
    BY <1>3
  <2>d. g.acc = a /\ g.buf = b \o piece
    BY <1>4
  <2>. HIDE DEF r, a, b
  <2>1. b \o piece \o e = b \o r
    BY <2>0, <2>c, Regroup
  <2>2. b \o r # <<>>
    <3>1. filter.buf \o r # <<>>
      BY <1>2, <2>0, AheadIs
    <3>2. QED
      BY <3>1 DEF b
  <2>3. g.acc \o g.buf \o e = a \o b \o r
    <3>1. g.acc \o g.buf \o e = a \o (b \o piece) \o e
      BY <2>d
    <3>2. b \o piece \in Seq(Symbols)
      BY <2>0, <2>c, ConcatProperties
    <3> DEFINE c == b \o piece
    <3>a. a \in Seq(Symbols) /\ c \in Seq(Symbols) /\ e \in Seq(Symbols)
      BY <2>0, <2>c, <3>2
    <3>. HIDE DEF c
    <3>b. a \o c \o e = a \o (c \o e)
      BY <3>a, Regroup
    <3>3. a \o (b \o piece) \o e = a \o (b \o piece \o e)
      BY <3>b DEF c
    <3>4. a \o (b \o r) = a \o b \o r
      BY <2>0, Regroup
    <3>5. QED
      BY <2>1, <3>1, <3>3, <3>4
  <2> DEFINE t == a \o b \o r
             h == [g EXCEPT !.acc = <<>>, !.buf = t]
             k == [filter EXCEPT !.acc = <<>>, !.buf = t]
  <2>4. Ahead(g, e) = h /\ Ahead(filter, r) = k
    <3>1. g.buf \o e # <<>> /\ filter.buf \o r # <<>>
      BY <2>1, <2>2, <2>d DEF b
    <3>2. filter.acc \o filter.buf \o r = t
      BY DEF a, b
    <3>3. QED
      BY <2>3, <3>1, <3>2 DEF Ahead
  <2>5. t \in Seq(Symbols) /\ <<>> \in Seq(Symbols)
    BY <2>0, ConcatProperties
  <2>. HIDE DEF t
  <2>6. /\ h \in Filters /\ h.buf = t /\ h.acc = <<>> /\ h.fence = g.fence /\ h.sol = g.sol
        /\ h.inline = g.inline
    BY <1>4, <2>5 DEF Filters
  <2>7. /\ k \in Filters /\ k.buf = t /\ k.acc = <<>> /\ k.fence = filter.fence
        /\ k.sol = filter.sol /\ k.inline = filter.inline
    BY <1>2, <2>5 DEF Filters
  <2>. HIDE DEF h, k
  <2>8. h.fence = k.fence /\ h.sol = k.sol /\ h.inline = k.inline
    BY <1>4, <2>6, <2>7
  <2>9. h = k
    BY <2>6, <2>7, <2>8, SameFields
  <2>10. QED
    BY <2>4, <2>9 DEF r
<1>8. CASE fed # 0
  <2>1. WholeFilter = Ahead(filter, Skip(source, fed)) /\ WholeFed = Len(source)
    BY <1>8 DEF WholeFilter, WholeFed, Unfed
  <2>2. WholeFilter' = WholeFilter /\ WholeFed' = WholeFed
    BY <1>6, <1>7, <2>1
  <2>3. UNCHANGED Whole!filterVars
    BY <1>2, <1>5, <2>2 DEF Whole!filterVars, WholeFilter, WholeFed
  <2>4. QED
    BY <2>3
<1>9. CASE fed = 0
  <2>1. Unread(filter) = <<>>
    <3>1. Fed = <<>>
      <4>1. Take(source, 0) \in Seq(Symbols) /\ Len(Take(source, 0)) = 0
        BY <1>2, <1>9, TakeIsHead
      <4>2. QED
        BY <1>9, <4>1, EmptySeq DEF Fed
    <3>2. Unread(filter) \in Seq(Symbols) /\ Len(Unread(filter)) \in Nat
      BY <1>2, FilterParts, LenProperties
    <3>3. Len(Fed) = 0
      BY <3>1
    <3>4. Len(Fed) - Len(Unread(filter)) >= 0
      BY DEF FilterInv, Read
    <3>5. Len(Unread(filter)) = 0
      BY <3>2, <3>3, <3>4
    <3>6. QED
      BY <3>2, <3>5, EmptySeq
  <2>2. filter.buf = <<>> /\ filter.acc = <<>>
    <3>1. Len(filter.acc) + Len(filter.buf) = 0 /\ Len(filter.acc) \in Nat /\ Len(filter.buf) \in Nat
      <4>1. Len(Unread(filter)) = 0
        BY <2>1
      <4>2. QED
        BY <1>2, <4>1, FilterParts
    <3>2. \A m, n \in Nat : m + n = 0 => m = 0 /\ n = 0
      OBVIOUS
    <3>3. Len(filter.acc) = 0 /\ Len(filter.buf) = 0
      BY <3>1, <3>2
    <3>4. QED
      BY <1>2, <3>3, EmptySeq
  <2>3. WholeFilter = filter /\ WholeFed = 0 /\ ~WholeMoves
    BY <1>9, <2>2 DEF WholeFilter, WholeFed, WholeMoves
  <2>4. 0 < Len(source)
    BY <1>2
  <2> DEFINE all == SubSeq(source, 1, Len(source))
             b == filter.buf \o all
             h == [filter EXCEPT !.buf = b]
  <2>5. all = source /\ Skip(source, 0) = source
    BY <1>2, SubSeqFull, SkipEnds
  <2>6. b = source
    BY <1>2, <2>2, <2>5, ConcatEmptySeq
  <2>7. Ahead(filter, source) = h
    <3>1. source # <<>>
      BY <2>4
    <3>2. Ahead(filter, source) = [filter EXCEPT !.acc = <<>>, !.buf = source]
      <4>1. filter.buf \o source = source /\ filter.acc \o filter.buf \o source = source
        BY <1>2, <2>2, ConcatEmptySeq
      <4>2. QED
        BY <3>1, <4>1 DEF Ahead
    <3> DEFINE k == [filter EXCEPT !.acc = <<>>, !.buf = source]
    <3>. HIDE DEF b
    <3>3. <<>> \in Seq(Symbols)
      OBVIOUS
    <3>4. /\ h \in Filters /\ h.buf = source /\ h.acc = <<>> /\ h.fence = filter.fence
          /\ h.sol = filter.sol /\ h.inline = filter.inline
      BY <1>2, <2>2, <2>6, <3>3 DEF Filters
    <3>5. /\ k \in Filters /\ k.buf = source /\ k.acc = <<>> /\ k.fence = filter.fence
          /\ k.sol = filter.sol /\ k.inline = filter.inline
      BY <1>2, <3>3 DEF Filters
    <3>. HIDE DEF h, k
    <3>6. h.fence = k.fence /\ h.sol = k.sol /\ h.inline = k.inline
      BY <3>4, <3>5
    <3>7. h = k
      BY <3>4, <3>5, <3>6, SameFields
    <3>8. QED
      BY <3>2, <3>7 DEF k
  <2>8. WholeFilter' = h
    BY <1>6, <1>7, <1>9, <2>5, <2>7
  <2>9. WholePut(Wait(h), "feed")
    <3>. HIDE DEF h
    <3>1. filtered \o <<>> = filtered
      BY <1>2, ConcatEmptySeq
    <3>2. QED
      BY <1>5, <2>8, <3>1 DEF WholePut, Wait, Step
  <2>10. h = [WholeFilter EXCEPT !.buf = @ \o SubSeq(source, WholeFed + 1, Len(source))]
    <3>1. WholeFed + 1 = 1
      BY <2>3
    <3>2. QED
      BY <2>3, <3>1
  <2>. HIDE DEF h, all
  <2>11. QED
    BY <1>2, <1>6, <2>3, <2>4, <2>9, <2>10, WholeSteps
<1>10. QED
  BY <1>8, <1>9

\* What is in front of all the filter has been fed, when something of it is not read.
LEMMA FedAtWork ==
    ASSUME FilterInv, filter.buf # <<>>
    PROVE  /\ fed # 0 /\ Unread(filter) # <<>>
           /\ Unread(filter)[Len(Unread(filter))] = source[fed]
<1>1. /\ source \in Seq(Symbols) /\ fed \in 0..Len(source) /\ IsFilter(filter)
      /\ Read >= 0 /\ Unread(filter) = Skip(Fed, Read)
  BY DEF FilterInv, FilterTypeOK
<1>2. /\ Unread(filter) \in Seq(Symbols) /\ Len(Unread(filter)) = Len(filter.acc) + Len(filter.buf)
      /\ Len(filter.acc) \in Nat /\ Len(filter.buf) \in Nat /\ Len(filter.buf) > 0
  BY <1>1, FilterParts
<1>3. Fed \in Seq(Symbols) /\ Len(Fed) = fed /\ \A i \in 1..fed : Fed[i] = source[i]
  BY <1>1, FedIsText DEF Fed
<1> DEFINE u == Unread(filter)
           m == Len(u)
<1>4. m \in Nat /\ m > 0 /\ m <= fed /\ Read = fed - m
  <2>1. m \in Nat /\ m > 0
    <3>1. \A k, n \in Nat : n > 0 => k + n \in Nat /\ k + n > 0
      OBVIOUS
    <3>2. m = Len(filter.acc) + Len(filter.buf)
      BY <1>2
    <3>3. QED
      BY <1>2, <3>1, <3>2
  <2>2. Read = fed - m
    BY <1>3 DEF Read
  <2>. HIDE DEF m
  <2>3. QED
    BY <1>1, <2>1, <2>2
<1>5. u # <<>>
  BY <1>4
<1>6. u[m] = Fed[fed]
  <2>1. fed \in Nat
    BY <1>1
  <2>. HIDE DEF u, m
  <2>2. Read \in 0..fed /\ m \in 1..(fed - Read) /\ Read + m = fed
    BY <1>4, <2>1
  <2>3. \A i \in 1..(Len(Fed) - Read) : Skip(Fed, Read)[i] = Fed[Read + i]
    <3>1. Read \in 0..Len(Fed) /\ Fed \in Seq(Symbols)
      BY <1>3, <2>2
    <3>2. QED
      BY <3>1, SkipIsRest
  <2>4. u = Skip(Fed, Read)
    BY <1>1 DEF u
  <2>5. QED
    BY <1>3, <2>2, <2>3, <2>4
<1>7. fed \in 1..fed /\ fed # 0
  <2>1. fed \in Nat
    BY <1>1
  <2>. HIDE DEF m
  <2>2. QED
    BY <1>4, <2>1
<1>8. QED
  BY <1>3, <1>5, <1>6, <1>7

LEMMA PassAsOne ==
    ASSUME FilterInv, Pass, LinesFed, ~CodeGoesOn
    PROVE  Whole!FilterNext \/ UNCHANGED Whole!filterVars
<1>1. /\ source \in Seq(Symbols) /\ Len(source) \in Nat /\ fed \in 0..Len(source)
      /\ IsFilter(filter) /\ filter \in Filters /\ filtered \in Seq(Symbols)
      /\ stage \in {"feed", "flush"} /\ filter.buf # <<>> /\ Pumped.f # filter
      /\ fed \in cuts \cup {0, Len(source)}
      /\ stage = "flush" => fed = Len(source)
  <2>1. /\ source \in Seq(Symbols) /\ fed \in 0..Len(source) /\ IsFilter(filter)
        /\ filtered \in Seq(Symbols)
    BY DEF FilterInv, FilterTypeOK
  <2>2. stage \in {"feed", "flush"} /\ filter.buf # <<>> /\ Pumped.f # filter
    BY DEF Pass, Moves
  <2>3. fed \in cuts \cup {0, Len(source)} /\ (stage = "flush" => fed = Len(source))
    BY DEF FilterInv
  <2>4. QED
    BY <2>1, <2>2, <2>3, FilterParts, LenProperties
<1>2. /\ filter' = Pumped.f /\ filtered' = filtered \o Pumped.out /\ source' = source
      /\ stage' = (IF Pumped.panics THEN "panicked" ELSE stage) /\ fed' = fed
  BY DEF Pass, Put
<1>3. fed # 0
  BY <1>1, FedAtWork
<1>4. /\ WholeFilter = Ahead(filter, Unfed) /\ WholeFilter' = Ahead(Pumped.f, Unfed)
      /\ WholeFed' = WholeFed
  BY <1>2, <1>3 DEF WholeFilter, WholeFed, Unfed
<1>5. WholePut(Onward(Pumped, Unfed), stage)
  BY <1>2, <1>4 DEF WholePut, Onward
<1>6. CASE fed = Len(source)
  <2>1. Unfed = <<>>
    BY <1>1, <1>6, SkipEnds DEF Unfed
  <2>2. PICK eof \in BOOLEAN : eof = (stage = "flush")
    OBVIOUS
  <2>3. Pumped = PumpStep(filter, eof) /\ WholePumped = PumpStep(WholeFilter, eof)
    BY <2>2 DEF Pumped, WholePumped
  <2>4. /\ PumpStep(Ahead(filter, <<>>), eof) = PumpStep(filter, eof)
        /\ Ahead(PumpStep(filter, eof).f, <<>>) = PumpStep(filter, eof).f
        /\ Ahead(filter, <<>>).buf # <<>>
        /\ PumpStep(filter, eof).f # filter => PumpStep(filter, eof).f # Ahead(filter, <<>>)
    BY <1>1, PumpWhole
  <2>5. WholePumped = Pumped /\ WholeMoves
    BY <1>1, <1>4, <2>1, <2>3, <2>4 DEF WholeMoves
  <2>6. WholePut(WholePumped, stage)
    BY <1>2, <1>4, <2>1, <2>3, <2>4, <2>5 DEF WholePut
  <2>7. QED
    BY <1>1, <1>4, <2>5, <2>6, WholeSteps
<1>7. CASE fed # Len(source)
  <2> DEFINE F == Ahead(filter, Unfed)
  <2>1. stage = "feed" /\ fed \in cuts
    BY <1>1, <1>3, <1>7
  <2>2. Unfed \in Seq(Symbols) /\ Unfed # <<>>
    <3>1. Unfed \in Seq(Symbols) /\ Len(Unfed) = Len(source) - fed
      BY <1>1, SkipIsRest DEF Unfed
    <3>2. Len(Unfed) # 0
      BY <1>1, <1>7, <3>1
    <3>3. QED
      BY <3>1, <3>2
  <2>3. EndsLine(Unread(filter))
    <3>1. source[fed] = NL
      BY <2>1 DEF LinesFed
    <3>2. QED
      BY <1>1, <3>1, FedAtWork DEF EndsLine
  <2>4. filter.inline = "Code" /\ Find(<<Tick>>, Unread(filter)) = 0 => Find(<<Tick>>, Unfed) = 0
    BY DEF CodeGoesOn, Unread
  <2>5. Pumped = PumpStep(filter, FALSE) /\ WholePumped = PumpStep(F, FALSE)
    <3>1. (stage = "flush") = FALSE
      BY <2>1
    <3>2. QED
      BY <1>4, <3>1 DEF Pumped, WholePumped
  <2>6. \/ Pumped = Wait(filter)
        \/ Pumped = Stay(filter, Unread(filter))
        \/ WholePumped = Onward(Pumped, Unfed)
    BY <1>1, <2>2, <2>3, <2>4, <2>5, PumpAhead
  <2>7. /\ F \in Filters /\ F.buf = Unread(filter) \o Unfed /\ F.acc = <<>>
        /\ F.fence = filter.fence /\ F.sol = filter.sol /\ F.inline = filter.inline
        /\ Unread(filter) \in Seq(Symbols) /\ F.buf # <<>>
    BY <1>1, <2>2, AheadIs, ZenonT(40)
  <2>8. \A step : /\ WholePut(step, stage)
                  /\ step.f = WholeFilter /\ step.out = <<>> /\ step.panics = FALSE
                  => UNCHANGED Whole!filterVars
    <3>1. filtered \o <<>> = filtered
      BY <1>1, ConcatEmptySeq
    <3>2. SUFFICES ASSUME NEW step, WholePut(step, stage), step.f = WholeFilter,
                          step.out = <<>>, step.panics = FALSE
                   PROVE  UNCHANGED Whole!filterVars
      OBVIOUS
    <3>3. /\ WholeFilter' = WholeFilter /\ filtered' = filtered /\ stage' = stage
          /\ source' = source
      BY <3>1, <3>2 DEF WholePut
    <3>4. QED
      BY <1>4, <3>3 DEF Whole!filterVars, WholeFilter, WholeFed
  <2>9. Pumped # Wait(filter)
    BY <1>1 DEF Wait, Step
  <2>10. CASE Pumped = Stay(filter, Unread(filter))
    <3> DEFINE u == Unread(filter)
               g == [filter EXCEPT !.buf = <<>>, !.acc = u]
    <3>1. Pumped.f = g /\ Pumped.out = <<>> /\ Pumped.panics = FALSE
      BY <2>10 DEF Stay, Step
    <3>2. <<>> \in Seq(Symbols) /\ u \in Seq(Symbols)
      BY <2>7
    <3>. HIDE DEF u
    <3>3. /\ g \in Filters /\ g.buf = <<>> /\ g.acc = u /\ g.fence = filter.fence
          /\ g.sol = filter.sol /\ g.inline = filter.inline
      BY <1>1, <3>2 DEF Filters
    <3>. HIDE DEF g
    <3>4. Unread(g) = u
      BY <3>2, <3>3, ConcatEmptySeq DEF Unread
    <3>5. /\ Ahead(g, Unfed) \in Filters /\ Ahead(g, Unfed).buf = u \o Unfed
          /\ Ahead(g, Unfed).acc = <<>> /\ Ahead(g, Unfed).fence = filter.fence
          /\ Ahead(g, Unfed).sol = filter.sol /\ Ahead(g, Unfed).inline = filter.inline
      BY <2>2, <3>3, <3>4, AheadIs, ZenonT(40)
    <3>6. F.buf = u \o Unfed
      BY <2>7 DEF u
    <3>. HIDE DEF F
    <3>7. Ahead(g, Unfed) = F
      BY <2>7, <3>5, <3>6, SameFields
    <3>8. Onward(Pumped, Unfed).f = WholeFilter /\ Onward(Pumped, Unfed).out = <<>>
          /\ Onward(Pumped, Unfed).panics = FALSE
      BY <1>4, <3>1, <3>7 DEF Onward, F
    <3>9. QED
      BY <1>5, <2>8, <3>8
  <2>11. CASE WholePumped = Onward(Pumped, Unfed)
    <3>1. IsFilter(F)
      <4>1. IsFilter(filter)
        BY <1>1
      <4>. HIDE DEF F
      <4>2. QED
        BY <2>7, <4>1 DEF IsFilter
    <3>2. WholePut(WholePumped, stage) /\ WholeFilter = F
      BY <1>4, <1>5, <2>11
    <3>. HIDE DEF F
    <3>3. PICK no \in BOOLEAN : no = FALSE
      OBVIOUS
    <3>4. AdvancesOrWaits(F, PumpStep(F, no), no)
      BY <2>7, <3>1, PumpAdvances
    <3>5. WholePumped = PumpStep(F, no)
      BY <2>5, <3>3 DEF F
    <3>6. CASE WholePumped = Wait(F)
      <4>1. WholePumped.f = WholeFilter /\ WholePumped.out = <<>> /\ WholePumped.panics = FALSE
        BY <3>2, <3>6 DEF Wait, Step
      <4>2. QED
        BY <2>8, <3>2, <4>1
    <3>7. CASE Advances(F, WholePumped)
      <4>1. Weight(WholePumped.f) < Weight(F) /\ Weight(F) \in Nat
        BY <3>1, <3>7, FilterParts DEF Advances
      <4>2. WholePumped.f # F
        BY <4>1
      <4>3. WholeMoves
        BY <2>7, <3>2, <4>2 DEF WholeMoves
      <4>4. QED
        BY <1>1, <1>4, <3>2, <4>3, WholeSteps
    <3>8. QED
      BY <3>4, <3>5, <3>6, <3>7 DEF AdvancesOrWaits
  <2>12. QED
    BY <2>6, <2>9, <2>10, <2>11
<1>8. QED
  BY <1>6, <1>7

\* The flush is the flush.
LEMMA FlushAsOne ==
    ASSUME FilterInv, BeginFlush \/ EndFlush
    PROVE  Whole!FilterNext
<1>1. /\ source \in Seq(Symbols) /\ Len(source) \in Nat /\ fed = Len(source) /\ IsFilter(filter)
      /\ filter \in Filters /\ filtered \in Seq(Symbols) /\ ~Moves
  <2>1. source \in Seq(Symbols) /\ IsFilter(filter) /\ filtered \in Seq(Symbols)
    BY DEF FilterInv, FilterTypeOK
  <2>2. ~Moves /\ fed = Len(source)
    BY DEF FilterInv, BeginFlush, EndFlush
  <2>3. QED
    BY <2>1, <2>2, FilterParts, LenProperties
<1>2. Unfed = <<>> /\ Ahead(filter, <<>>) = filter
  BY <1>1, SkipEnds, AtRest DEF Unfed
<1>3. WholeFilter = filter /\ WholeFed = Len(source)
  BY <1>1, <1>2 DEF WholeFilter, WholeFed
<1>4. WholeMoves <=> Moves
  BY <1>3 DEF WholeMoves, Moves, WholePumped, Pumped
<1>5. CASE BeginFlush
  <2>1. /\ filter' = filter /\ filtered' = filtered \o <<>> /\ source' = source /\ fed' = fed
        /\ stage = "feed" /\ stage' = "flush"
    BY <1>5 DEF BeginFlush, Put, Wait, Step
  <2>2. WholeFilter' = filter /\ WholeFed' = WholeFed
    BY <1>2, <1>3, <2>1 DEF WholeFilter, WholeFed, Unfed
  <2>3. WholePut(Wait(WholeFilter), "flush")
    BY <1>3, <2>1, <2>2 DEF WholePut, Wait, Step
  <2>4. QED
    BY <1>1, <1>3, <1>4, <2>1, <2>2, <2>3, WholeSteps
<1>6. CASE EndFlush
  <2> DEFINE step == EndInline(filter)
  <2>1. /\ filter' = step.f /\ filtered' = filtered \o step.out /\ source' = source /\ fed' = fed
        /\ stage = "flush" /\ stage' = IF step.panics THEN "panicked" ELSE "done"
    BY <1>6 DEF EndFlush, Put
  <2>2. step.f \in Filters /\ step.f.acc = <<>>
    <3> DEFINE g == [filter EXCEPT !.inline = "none", !.acc = <<>>]
    <3>1. <<>> \in Seq(Symbols)
      OBVIOUS
    <3>2. g \in Filters /\ g.acc = <<>>
      BY <1>1, <3>1 DEF Filters
    <3>3. step.f = g
      BY DEF EndInline, PutRow, Panic, Step
    <3>4. QED
      BY <3>2, <3>3
  <2>. HIDE DEF step
  <2>3. Ahead(step.f, <<>>) = step.f
    BY <2>2, AheadOfNothing
  <2>4. WholeFilter' = step.f /\ WholeFed' = WholeFed
    BY <1>2, <2>1, <2>3 DEF WholeFilter, WholeFed, Unfed
  <2>5. WholePut(EndInline(WholeFilter), "done")
    BY <1>3, <2>1, <2>4 DEF WholePut, step
  <2>6. QED
    BY <1>1, <1>4, <2>1, <2>4, <2>5, WholeSteps
<1>7. QED
  BY <1>5, <1>6

\* A step of the filter that is fed lines is one of the filter that is fed all, or none.
LEMMA StepsAsOne ==
    ASSUME FilterInv, FilterNext, LinesFed, ~CodeGoesOn
    PROVE  Whole!FilterNext \/ UNCHANGED Whole!filterVars
<1>1. CASE Feed
  BY <1>1, FeedAsOne
<1>2. CASE Pass
  BY <1>2, PassAsOne
<1>3. CASE BeginFlush \/ EndFlush
  BY <1>3, FlushAsOne
<1>4. QED
  BY <1>1, <1>2, <1>3 DEF FilterNext

\* A step, or none, of the filter that is fed lines is one of the filter that is fed all,
\* or none.
LEMMA StepsStreamAsOne ==
    FilterInv /\ [FilterNext]_filterVars
      => [LinesFed /\ ~CodeGoesOn => Whole!FilterNext]_(Whole!filterVars)
<1>1. ASSUME FilterInv, FilterNext
      PROVE  [LinesFed /\ ~CodeGoesOn => Whole!FilterNext]_(Whole!filterVars)
  BY <1>1, StepsAsOne
<1>2. ASSUME UNCHANGED filterVars
      PROVE  UNCHANGED Whole!filterVars
  BY <1>2 DEF filterVars, Whole!filterVars, Unfed
<1>3. QED
  BY <1>1, <1>2

\* In however many pieces of whole lines a text is fed (StreamingMarkdownFilter::feed; at
\* once by filter_markdown), the filter does step by step what it does with the whole text,
\* as long as no inline code is left open by its line and closed by a later one.
THEOREM LinesStreamAsOneHolds == FilterSpec => LinesStreamAsOne
<1>1. QED
  BY StepsStreamAsOne, FilterInvHolds, PTL DEF FilterSpec, LinesStreamAsOne

\* A filter that is fed lines, and meets no such code, implements the one that is fed the
\* text at once: the same bytes come out in the same order, and it panics for both or none.
THEOREM LinesRefineWhole == FilterSpec /\ [](LinesFed /\ ~CodeGoesOn) => Whole!FilterSpec
<1>1. FilterInit => Whole!FilterInit
  <2>1. SUFFICES ASSUME FilterInit PROVE Whole!FilterInit
    OBVIOUS
  <2>2. PICK m \in Markdowns : source = m.text /\ cuts = m.cuts
    BY <2>1 DEF FilterInit
  <2>3. fed = 0 /\ filter = Start /\ stage = "feed" /\ filtered = <<>>
    BY <2>1 DEF FilterInit
  <2> DEFINE k == [m EXCEPT !.cuts = {}]
  <2>4. k \in {[n EXCEPT !.cuts = {}] : n \in Markdowns}
    OBVIOUS
  <2>5. k.text = source /\ k.cuts = {}
    BY <2>2, MarkdownsAssumption
  <2>6. QED
    BY <2>3, <2>4, <2>5, SameFilter DEF Whole!FilterInit
<1>2. FilterInv /\ [FilterNext]_filterVars /\ LinesFed /\ ~CodeGoesOn
      => [Whole!FilterNext]_(Whole!filterVars)
  <2>1. ASSUME FilterInv, FilterNext, LinesFed, ~CodeGoesOn
        PROVE  [Whole!FilterNext]_(Whole!filterVars)
    BY <2>1, StepsAsOne
  <2>2. ASSUME UNCHANGED filterVars
        PROVE  UNCHANGED Whole!filterVars
    BY <2>2 DEF filterVars, Whole!filterVars, Unfed
  <2>3. QED
    BY <2>1, <2>2
<1>3. QED
  BY <1>1, <1>2, FilterInvHolds, PTL DEF FilterSpec, Whole!FilterSpec

=============================================================================
