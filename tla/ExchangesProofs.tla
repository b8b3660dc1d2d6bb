--------------------------- MODULE ExchangesProofs ---------------------------
(***************************************************************************)
(* Theorems about Exchanges for every set of keys, width of an integer,    *)
(* media, messages, quotes and answers.                                    *)
(***************************************************************************)
EXTENDS Exchanges, FiniteSetTheorems, SequenceTheorems, WellFoundedInduction,
        TLAPS

-----------------------------------------------------------------------------
(* Padding and encryption. *)

\* A function on the first numbers is a sequence.
LEMMA FunctionIsSeq ==
    ASSUME NEW S, NEW n \in Nat, NEW f \in [1..n -> S]
    PROVE  f \in Seq(S) /\ Len(f) = n
<1>1. f \in Seq(S)
  BY SeqDef
<1> QED
  BY <1>1, LenProperties

\* A padded text is the text and its padding: up to whole blocks, as many as were
\* announced, and the last byte says how much to take off.
LEMMA Padding ==
    ASSUME NEW data \in Seq(Byte)
    PROVE  LET p == Media!Pad(data)
           IN  /\ p \in Seq(Byte) /\ Len(p) \in Nat \ {0}
               /\ Len(p) % 16 = 0
               /\ Len(p) = Media!EncryptedSize(Len(data))
               /\ Media!PaddingOk(p)
               /\ Media!Unpadded(p) = data
<1> DEFINE L == Len(data)
           n == 16 - (L % 16)
           pad == [i \in 1..n |-> n]
           p == data \o pad
<1>1. L \in Nat /\ n \in 1..16
  <2>1. L \in Nat
    BY LenProperties
  <2> HIDE DEF L
  <2> QED
    BY <2>1
<1>2. Media!Pad(data) = p
  BY DEF Media!Pad, Media!BlockSize
<1>3. pad \in Seq(Byte) /\ Len(pad) = n
  <2>1. n \in Byte /\ n \in Nat
    BY <1>1 DEF Byte
  <2> HIDE DEF n
  <2>2. pad \in [1..n -> Byte]
    BY <2>1
  <2> QED
    BY <2>1, <2>2, FunctionIsSeq
<1>4. /\ p \in Seq(Byte)
      /\ Len(p) = L + n
      /\ \A i \in 1..(L + n) : p[i] = IF i <= L THEN data[i] ELSE pad[i - L]
  <2> HIDE DEF pad, n
  <2> QED
    BY <1>3, ConcatProperties
<1>5. p[L + n] = n
  <2> HIDE DEF p
  <2>1. n \in 1..n /\ L + n \in 1..(L + n) /\ ~ (L + n <= L) /\ (L + n) - L = n
    BY <1>1
  <2> QED
    BY <1>4, <2>1
<1>6. (L + n) % 16 = 0 /\ L + n = ((L + 1 + 15) \div 16) * 16
  BY <1>1
<1>7. Media!PaddingOk(p)
  <2>1. p # <<>> /\ L + n # 0
    BY <1>1, <1>4
  <2> HIDE DEF p, n
  <2> QED
    BY <1>1, <1>4, <1>5, <2>1 DEF Media!PaddingOk, Media!BlockSize
<1>8. Media!Unpadded(p) = data
  <2> HIDE DEF p, n
  <2>1. Media!Unpadded(p) = SubSeq(p, 1, L)
    BY <1>1, <1>4, <1>5 DEF Media!Unpadded
  <2> DEFINE s == SubSeq(p, 1, L)
  <2>2. s \in Seq(Byte) /\ Len(s) = L /\ \A i \in 1..L : s[i] = p[i]
    BY <1>1, <1>4, SubSeqProperties
  <2>3. \A i \in 1..L : s[i] = data[i]
    BY <1>1, <1>4, <2>2
  <2> HIDE DEF s
  <2>4. s = data
    BY <2>2, <2>3, SeqEqual
  <2> QED
    BY <2>1, <2>4 DEF s
<1> QED
  <2> HIDE DEF p, n
  <2>1. /\ p \in Seq(Byte)
        /\ Len(p) \in Nat \ {0}
        /\ Len(p) % 16 = 0
        /\ Len(p) = Media!EncryptedSize(L)
    BY <1>1, <1>4, <1>6 DEF Media!EncryptedSize, Media!BlockSize
  <2> QED
    BY <1>2, <1>7, <1>8, <2>1

\* What is encrypted is whole blocks of bytes with the key, and with that key it is
\* what it was.
LEMMA Encryption ==
    ASSUME NEW data \in Seq(Byte), NEW key
    PROVE  LET c == Media!Encrypt(data, key)
           IN  /\ Len(c) = Media!EncryptedSize(Len(data))
               /\ c[1].key = key
               /\ \A garbage : Media!Decrypt(c, key, garbage) = Media!Plain(data)
<1> DEFINE p == Media!Pad(data)
           c == [i \in DOMAIN p |-> [key |-> key, byte |-> p[i]]]
<1>1. /\ p \in Seq(Byte) /\ Len(p) \in Nat \ {0}
      /\ Len(p) % 16 = 0
      /\ Len(p) = Media!EncryptedSize(Len(data))
      /\ Media!PaddingOk(p)
      /\ Media!Unpadded(p) = data
  BY Padding
<1>2. Media!Encrypt(data, key) = c
  BY DEF Media!Encrypt
<1> HIDE DEF p
<1>3. DOMAIN p = 1..Len(p) /\ p \in [1..Len(p) -> Byte]
  BY <1>1, LenProperties
<1>4. Len(c) = Len(p)
  <2>1. c \in [1..Len(p) -> [key : {key}, byte : Byte]]
    BY <1>3
  <2> HIDE DEF c
  <2> QED
    BY <1>1, <2>1, FunctionIsSeq
<1>5. c[1].key = key
  BY <1>1, <1>3
<1>6. ASSUME NEW garbage PROVE Media!Decrypt(c, key, garbage) = Media!Plain(data)
  <2>1. Media!Decipher(c, key, garbage) = p
    BY <1>3 DEF Media!Decipher
  <2> HIDE DEF c
  <2> QED
    BY <1>1, <1>4, <2>1 DEF Media!Decrypt, Media!BlockSize
<1> QED
  <2> HIDE DEF c
  <2> QED
    BY <1>1, <1>2, <1>4, <1>5, <1>6

\* A key that is written in a way that can be read is there, and is read.
LEMMA ReadableKey ==
    ASSUME NEW key, NEW written \in Media!WrittenAs(key)
    PROVE  /\ written \notin {Media!None, Media!Empty}
           /\ Media!Decodable(written)
           /\ written.key = key
<1>1. written.is = "key" /\ written.key = key
  BY DEF Media!WrittenAs, Media!Hex
<1>2. Media!Decodable(written)
  BY DEF Media!WrittenAs, Media!Hex, Media!Decodable
<1>3. Media!None.is = "none" /\ Media!Empty.is = "empty"
  BY DEF Media!None, Media!Empty
<1> QED
  BY <1>1, <1>2, <1>3

\* An upload is downloaded as it was, and stored in the announced size.
LEMMA UploadRoundTrip ==
    ASSUME NEW data \in Seq(Byte), NEW key,
           NEW override \in {Media!None} \cup Media!WrittenAs(key)
    PROVE  /\ Media!DownloadRaw(Media!Upload(data, key), override) = Media!Plain(data)
           /\ Len(Media!Upload(data, key).cipher) = Media!EncryptedSize(Len(data))
<1> DEFINE media == Media!Upload(data, key)
           source == Media!KeySource(media, override)
<1>1. /\ media.at = "cdn"
      /\ media.cipher = Media!Encrypt(data, key)
      /\ media.key = Media!EncodeAesKeyBase64(key)
  BY DEF Media!Upload
<1>2. Media!EncodeAesKeyBase64(key) \in Media!WrittenAs(key)
  BY DEF Media!EncodeAesKeyBase64, Media!Base64, Media!WrittenAs
<1> HIDE DEF media
<1>3. source \in Media!WrittenAs(key)
  BY <1>1, <1>2 DEF Media!KeySource
<1>4. /\ source \notin {Media!None, Media!Empty}
      /\ Media!Decodable(source)
      /\ source.key = key
  <2> HIDE DEF source
  <2> QED
    BY <1>3, ReadableKey
<1>5. Media!Decrypt(media.cipher, key, media.garbage) = Media!Plain(data)
  BY <1>1, Encryption
<1>6. Media!DownloadRaw(media, override) = Media!Plain(data)
  BY <1>1, <1>4, <1>5 DEF Media!DownloadRaw
<1>7. Len(media.cipher) = Media!EncryptedSize(Len(data))
  BY <1>1, Encryption
<1> QED
  BY <1>6, <1>7 DEF media

-----------------------------------------------------------------------------
(* Selections: the elements of a set of positions in their order. *)

\* A set of natural numbers that is not empty has a least element.
LEMMA LeastNatural ==
    ASSUME NEW T, T \subseteq Nat, T # {}
    PROVE  \E m \in T : \A n \in T : m <= n
<1>1. PICK m \in T : \A n \in T : ~ (<<n, m>> \in OpToRel(<, Nat))
  BY NatLessThanWellFounded, WFMin
<1>2. \A n \in T : ~ (n < m)
  BY <1>1 DEF OpToRel
<1> QED
  BY <1>2

\* Cardinality is what it is in the module of the wire's messages.
LEMMA SameCardinality ==
    ASSUME NEW S
    PROVE  Wire!Cardinality(S) = Cardinality(S)
BY DEF Wire!Cardinality, Cardinality

\* An element's place is how many are not above it; every place is one element's.
LEMMA EveryPlace ==
    ASSUME NEW B \in Nat, NEW S \in SUBSET (1..B)
    PROVE  /\ Cardinality(S) \in Nat
           /\ \A n \in 1..Cardinality(S) : Wire!Nth(S, n) \in S
           /\ \A e \in S : \E n \in 1..Cardinality(S) : Wire!Nth(S, n) = e
<1> DEFINE upto(e) == {d \in S : d <= e}
           place == [e \in S |-> Cardinality(upto(e))]
           c == Cardinality(S)
<1>1. IsFiniteSet(S) /\ c \in Nat
  <2>1. IsFiniteSet(1..B)
    BY FS_Interval
  <2>2. IsFiniteSet(S)
    BY <2>1, FS_Subset
  <2> QED
    BY <2>2, FS_CardinalityType
<1>2. ASSUME NEW e \in S
      PROVE  IsFiniteSet(upto(e)) /\ Cardinality(upto(e)) \in 1..c
  <2>1. upto(e) \in SUBSET S /\ upto(e) # {}
    OBVIOUS
  <2> HIDE DEF upto
  <2>2. IsFiniteSet(upto(e)) /\ Cardinality(upto(e)) <= c
    BY <1>1, <2>1, FS_Subset
  <2>3. Cardinality(upto(e)) \in Nat /\ Cardinality(upto(e)) # 0
    BY <2>1, <2>2, FS_CardinalityType, FS_EmptySet
  <2> QED
    BY <1>1, <2>2, <2>3
<1>3. ASSUME NEW e \in S, NEW d \in S, Cardinality(upto(e)) = Cardinality(upto(d)), d < e
      PROVE  FALSE
  <2>1. e \in upto(e) /\ e \notin upto(d)
    BY <1>3
  <2>2. \A x \in S : x <= d => x <= e
    BY <1>3
  <2>3. upto(d) \in SUBSET upto(e)
    BY <2>2
  <2> HIDE DEF upto
  <2>4. upto(e) = upto(d)
    BY <1>2, <1>3, <2>3, FS_Subset
  <2> QED
    BY <2>1, <2>4
<1>4. \A e, d \in S : Cardinality(upto(e)) = Cardinality(upto(d)) => e = d
  <2> HIDE DEF upto
  <2>1. \A e, d \in S : Cardinality(upto(e)) = Cardinality(upto(d)) => ~ (d < e)
    BY <1>3
  <2>2. \A e, d \in S : ~ (d < e) /\ ~ (e < d) => e = d
    OBVIOUS
  <2> QED
    BY <2>1, <2>2
<1>5. place \in Surjection(S, 1..c)
  <2> HIDE DEF upto, c
  <2>1. place \in Injection(S, 1..c)
    BY <1>2, <1>4 DEF Injection, IsInjective
  <2>2. IsFiniteSet(1..c) /\ Cardinality(1..c) = c
    BY <1>1, FS_Interval
  <2> HIDE DEF place
  <2> QED
    BY <2>1, <2>2, FS_Injection DEF c
<1>6. \A n \in 1..c : \E e \in S : Cardinality(upto(e)) = n
  <2> HIDE DEF upto, c
  <2> QED
    BY <1>5 DEF Surjection
<1>7. \A n \in 1..c : Wire!Nth(S, n) \in S /\ Cardinality(upto(Wire!Nth(S, n))) = n
  <2> SUFFICES ASSUME NEW n \in 1..c
               PROVE  Wire!Nth(S, n) \in S /\ Cardinality(upto(Wire!Nth(S, n))) = n
    OBVIOUS
  <2> DEFINE Has(e) == Cardinality(upto(e)) = n
  <2>1. \E e \in S : Has(e)
    BY <1>6
  <2>2. Wire!Nth(S, n) = CHOOSE e \in S : Has(e)
    BY SameCardinality DEF Wire!Nth
  <2> HIDE DEF Has
  <2>3. Wire!Nth(S, n) \in S /\ Has(Wire!Nth(S, n))
    BY <2>1, <2>2
  <2> QED
    BY <2>3 DEF Has
<1>8. \A e \in S : Wire!Nth(S, Cardinality(upto(e))) = e
  <2> HIDE DEF upto, c
  <2> QED
    BY <1>2, <1>4, <1>7
<1> QED
  <2> HIDE DEF upto
  <2> QED
    BY <1>1, <1>2, <1>7, <1>8

-----------------------------------------------------------------------------
(* The media of a message. *)

\* The first of a message's items of a kind is held by one of its items.
LEMMA FirstOfKindIsHeld ==
    ASSUME NEW items, IsList(items), NEW kind, Wire!OfKind(items, kind) # <<>>
    PROVE  \E i \in DOMAIN items :
              /\ kind \in DOMAIN items[i].holds
              /\ Head(Wire!OfKind(items, kind)) = items[i].holds[kind]
<1> DEFINE S == {i \in DOMAIN items : kind \in DOMAIN items[i].holds}
           c == Cardinality(S)
           having == Wire!Selected(items, S)
           of == Wire!OfKind(items, kind)
           held(n) == items[Wire!Nth(S, n)].holds[kind]
<1>1. /\ c \in Nat
      /\ \A n \in 1..c : Wire!Nth(S, n) \in S
  <2>1. S \in SUBSET (1..Len(items)) /\ Len(items) \in Nat
    BY DEF IsList
  <2> HIDE DEF S
  <2> QED
    BY <2>1, EveryPlace
<1>2. having = [n \in 1..c |-> items[Wire!Nth(S, n)]]
  <2> HIDE DEF S
  <2> QED
    BY SameCardinality DEF Wire!Selected
<1>3. of = [n \in 1..c |-> held(n)]
  <2>1. of = [i \in DOMAIN having |-> having[i].holds[kind]]
    BY DEF Wire!OfKind
  <2> HIDE DEF S, having, of
  <2> QED
    BY <1>2, <2>1
<1> HIDE DEF of, having
<1> DEFINE H == {held(n) : n \in 1..c}
<1>4. of \in Seq(H) /\ Len(of) = c
  <2>1. of \in [1..c -> H]
    BY <1>3
  <2> HIDE DEF S, c, held, H
  <2> QED
    BY <1>1, <2>1, FunctionIsSeq
<1>5. 1 \in 1..c /\ Head(of) = held(1)
  <2> HIDE DEF S, c, held, H
  <2>1. c # 0
    BY <1>4, EmptySeq DEF of
  <2>2. 1 \in 1..c
    BY <1>1, <2>1
  <2>3. Head(of) = of[1]
    BY <1>4
  <2> QED
    BY <1>3, <2>2, <2>3
<1>6. Wire!Nth(S, 1) \in S
  BY <1>1, <1>5
<1> QED
  BY <1>5, <1>6 DEF of

\* What is handed out for an item of a kind.
Got(kind, media, override) ==
    IF Media!RequiredKeyMissing(kind, media) THEN Media!Failed
    ELSE Media!DownloadRaw(media, override)

\* Whatever a reference says, and whatever key is given with an image: without a key
\* nothing but an image is handed out, and with the key it was encrypted with, what
\* is handed out as plain is what it was.
LEMMA ReferenceDownload ==
    ASSUME NEW data \in Seq(Byte), NEW media, IsReference(media, data),
           media # Media!None, NEW kind,
           NEW override, kind # "image" => override = Media!None
    PROVE  /\ Got(kind, media, override).is = "cipher" =>
                  /\ kind = "image"
                  /\ Media!KeySource(media, override) \in {Media!None, Media!Empty}
           /\ /\ Got(kind, media, override).is = "plain"
              /\ Media!KeySource(media, override).key = media.cipher[1].key
              => Got(kind, media, override).data = data
<1> DEFINE got == Got(kind, media, override)
           source == Media!KeySource(media, override)
           raw == Media!DownloadRaw(media, override)
           Right == /\ got.is = "cipher" =>
                          kind = "image" /\ source \in {Media!None, Media!Empty}
                    /\ got.is = "plain" /\ source.key = media.cipher[1].key =>
                          got.data = data
<1> SUFFICES Right
  OBVIOUS
<1>0. got = IF Media!RequiredKeyMissing(kind, media) THEN Media!Failed ELSE raw
  BY DEF Got
<1> HIDE DEF got
<1>1. /\ Media!Failed.is = "error"
      /\ \A d : Media!Plain(d).is = "plain" /\ Media!Plain(d).data = d
      /\ \A d : Media!Cipher(d).is = "cipher"
  BY DEF Media!Failed, Media!Plain, Media!Cipher
<1>2. CASE Media!RequiredKeyMissing(kind, media)
  BY <1>0, <1>1, <1>2
<1>3. CASE ~Media!RequiredKeyMissing(kind, media) /\ media.at \in {"nowhere", "gone"}
  <2>1. raw = Media!Failed
    BY <1>3 DEF Media!DownloadRaw
  <2> QED
    BY <1>0, <1>1, <1>3, <2>1
<1>4. CASE /\ ~Media!RequiredKeyMissing(kind, media)
           /\ media.at = "cdn" /\ source \in {Media!None, Media!Empty}
  <2>1. raw = Media!Cipher(media.cipher)
    BY <1>4 DEF Media!DownloadRaw
  <2>2. ASSUME kind # "image" PROVE FALSE
    <3>1. source = media.key
      BY <2>2 DEF Media!KeySource
    <3> QED
      BY <1>4, <2>2, <3>1 DEF Media!RequiredKeyMissing
  <2> QED
    BY <1>0, <1>1, <1>4, <2>1, <2>2
<1>5. CASE /\ ~Media!RequiredKeyMissing(kind, media)
           /\ media.at = "cdn" /\ source \notin {Media!None, Media!Empty}
  <2>1. raw = IF Media!Decodable(source)
              THEN Media!Decrypt(media.cipher, source.key, media.garbage)
              ELSE Media!Failed
    BY <1>5 DEF Media!DownloadRaw
  <2>2. PICK k \in Keys : media.cipher = Media!Encrypt(data, k)
    BY <1>5 DEF IsReference
  <2>3. /\ media.cipher[1].key = k
        /\ Media!Decrypt(media.cipher, k, media.garbage) = Media!Plain(data)
    BY <2>2, Encryption
  <2> HIDE DEF source
  <2>4. raw.is # "cipher"
    <3>1. Media!Decrypt(media.cipher, source.key, media.garbage).is \in {"plain", "error"}
      BY <1>1 DEF Media!Decrypt
    <3> QED
      BY <1>1, <2>1, <3>1
  <2>5. raw.is = "plain" /\ source.key = media.cipher[1].key => raw.data = data
    BY <1>1, <2>1, <2>3
  <2>6. got = raw
    BY <1>0, <1>5
  <2> HIDE DEF raw
  <2> QED
    BY <2>4, <2>5, <2>6
<1>6. media.at \in {"nowhere", "gone", "cdn"}
  BY DEF IsReference
<1> QED
  <2> HIDE DEF Right, source
  <2> QED
    BY <1>2, <1>3, <1>4, <1>5, <1>6

\* What a download makes of a message is what it makes of the first item of the
\* kind it says, and that item is held by one of the message's.
LEMMA DownloadOfFirst ==
    ASSUME NEW wire, IsList(wire.items), NEW account,
           NEW out, out = Media!Download(Wire!FromWire(wire, account)),
           out # Media!None
    PROVE  LET first == Head(Wire!OfKind(wire.items, out.kind))
           IN  /\ \E i \in DOMAIN wire.items :
                     /\ out.kind \in DOMAIN wire.items[i].holds
                     /\ first = wire.items[i].holds[out.kind]
               /\ first.media # Media!None
               /\ out.result =
                     Got(out.kind, first.media,
                         IF out.kind = "image" THEN first.key ELSE Media!None)
<1> DEFINE msg == Wire!FromWire(wire, account)
           of(kind) == Wire!OfKind(wire.items, kind)
           having == {k \in DOMAIN Media!Kinds : Media!HasMedia(msg, Media!Kinds[k])}
           least == CHOOSE k \in having : \A other \in having : k <= other
           kind == Media!Kinds[least]
           first == Head(of(kind))
<1>1. DOMAIN Media!Kinds = 1..4
  BY DEF Media!Kinds
<1>2. \A k \in DOMAIN Media!Kinds : msg[Media!Kinds[k]] = of(Media!Kinds[k])
  <2>1. /\ msg["image"] = of("image") /\ msg["file"] = of("file")
        /\ msg["video"] = of("video") /\ msg["voice"] = of("voice")
    BY DEF Wire!FromWire
  <2> HIDE DEF msg, of
  <2> QED
    BY <1>1, <2>1 DEF Media!Kinds
<1>3. having # {}
  <2> HIDE DEF msg
  <2> QED
    BY <1>1 DEF Media!Download, msg
<1>4. least \in having
  <2> HIDE DEF msg
  <2>1. having \subseteq Nat
    BY <1>1
  <2> HIDE DEF having
  <2>2. \E k \in having : \A other \in having : k <= other
    BY <1>3, <2>1, LeastNatural
  <2> QED
    BY <2>2
<1>5. out = [kind |-> kind,
             result |-> Got(kind, first.media,
                            IF kind = "image" THEN first.key ELSE Media!None)]
  <2>1. msg[kind] = of(kind)
    <3> HIDE DEF msg, of, least
    <3> QED
      BY <1>2, <1>4
  <2>2. Media!Download(msg) =
           IF having = {} THEN Media!None
           ELSE [kind |-> kind,
                 result |-> Got(kind, Head(msg[kind]).media,
                                IF kind = "image" THEN Head(msg[kind]).key
                                ELSE Media!None)]
    <3> HIDE DEF msg
    <3> QED
      BY DEF Media!Download, Got
  <2> HIDE DEF of, having, least, kind
  <2> QED
    BY <1>3, <2>1, <2>2
<1>6. of(kind) # <<>> /\ first.media # Media!None
  <2>1. msg[kind] = of(kind) /\ Media!HasMedia(msg, kind)
    <3> HIDE DEF msg, of, least
    <3> QED
      BY <1>2, <1>4
  <2> HIDE DEF msg, of, kind
  <2> QED
    BY <2>1 DEF Media!HasMedia
<1>7. \E i \in DOMAIN wire.items :
         /\ kind \in DOMAIN wire.items[i].holds
         /\ first = wire.items[i].holds[kind]
  <2> HIDE DEF kind
  <2> QED
    BY <1>6, FirstOfKindIsHeld
<1>8. out.kind = kind
  <2> HIDE DEF kind, first
  <2> QED
    BY <1>5
<1> QED
  <2> HIDE DEF kind
  <2> QED
    BY <1>5, <1>6, <1>7, <1>8

\* A download hands out no more than it may, whatever the message.
LEMMA DownloadHandsOut ==
    ASSUME NEW wire \in Downloads, NEW account,
           NEW out, out = Media!Download(Wire!FromWire(wire, account)),
           out # Media!None
    PROVE  LET first == Head(Wire!OfKind(wire.items, out.kind))
               source == Media!KeyOf(out.kind, first)
           IN  /\ out.result.is = "cipher" =>
                      out.kind = "image" /\ source \in {Media!None, Media!Empty}
               /\ out.result.is = "plain" /\ source.key = first.media.cipher[1].key =>
                      out.result.data = first.data
<1> DEFINE first == Head(Wire!OfKind(wire.items, out.kind))
           override == IF out.kind = "image" THEN first.key ELSE Media!None
<1>1. IsList(wire.items)
  BY DownloadsAssumption
<1>2. /\ \E i \in DOMAIN wire.items :
            /\ out.kind \in DOMAIN wire.items[i].holds
            /\ first = wire.items[i].holds[out.kind]
      /\ first.media # Media!None
      /\ out.result = Got(out.kind, first.media, override)
  BY <1>1, DownloadOfFirst
<1> HIDE DEF first
<1>3. first.data \in Seq(Byte) /\ IsReference(first.media, first.data)
  BY <1>2, DownloadsAssumption
<1>4. Media!KeyOf(out.kind, first) = Media!KeySource(first.media, override)
  BY DEF Media!KeyOf
<1>5. (out.kind # "image" => override = Media!None) /\ first.media # Media!None
  BY <1>2
<1> HIDE DEF override
<1>6. /\ out.result.is = "cipher" =>
             /\ out.kind = "image"
             /\ Media!KeySource(first.media, override) \in {Media!None, Media!Empty}
      /\ /\ out.result.is = "plain"
         /\ Media!KeySource(first.media, override).key = first.media.cipher[1].key
         => out.result.data = first.data
  <2>1. /\ Got(out.kind, first.media, override).is = "cipher" =>
               /\ out.kind = "image"
               /\ Media!KeySource(first.media, override) \in {Media!None, Media!Empty}
        /\ /\ Got(out.kind, first.media, override).is = "plain"
           /\ Media!KeySource(first.media, override).key = first.media.cipher[1].key
           => Got(out.kind, first.media, override).data = first.data
    BY <1>3, <1>5, ReferenceDownload, Z3
  <2>2. out.result = Got(out.kind, first.media, override)
    BY <1>2
  <2> QED
    BY <2>1, <2>2
<1> QED
  BY <1>4, <1>6 DEF first

-----------------------------------------------------------------------------
(* Receipts and quotes. *)

\* Among fields the first that is there is found, when one is.
LEMMA FirstThere ==
    ASSUME NEW fields, DOMAIN fields \subseteq Nat,
           NEW k \in DOMAIN fields, fields[k] # NoId
    PROVE  \E i \in DOMAIN fields :
              /\ i <= k
              /\ fields[i] # NoId
              /\ Wire!FirstOf(fields) = fields[i]
<1> DEFINE there == {i \in DOMAIN fields : fields[i] # NoId}
<1>1. there \subseteq Nat /\ k \in there
  OBVIOUS
<1> HIDE DEF there
<1>2. \E i \in there : \A j \in there : i <= j
  BY <1>1, LeastNatural
<1>3. PICK i \in there : i = Wire!Min(there) /\ \A j \in there : i <= j
  BY <1>2 DEF Wire!Min
<1>4. Wire!FirstOf(fields) = fields[i]
  BY <1>1, <1>3 DEF Wire!FirstOf, there
<1>5. i <= k /\ i \in DOMAIN fields /\ fields[i] # NoId
  BY <1>1, <1>3 DEF there
<1> QED
  BY <1>4, <1>5

\* Every id is among the distinct ones.
LEMMA DistinctKeeps ==
    ASSUME NEW N \in Nat, NEW ids, DOMAIN ids = 1..N,
           NEW i \in 1..N, ids[i] # NoId
    PROVE  \E n \in DOMAIN Wire!Distinct(ids) : Wire!Distinct(ids)[n] = ids[i]
<1> DEFINE Same == {j \in 1..N : ids[j] = ids[i]}
           S == {j \in DOMAIN ids : ids[j] # NoId /\ \A k \in 1..(j - 1) : ids[k] # ids[j]}
<1>1. PICK m \in Same : \A j \in Same : m <= j
  <2>1. Same \subseteq Nat /\ i \in Same
    OBVIOUS
  <2> HIDE DEF Same
  <2> QED
    BY <2>1, LeastNatural
<1>2. m \in 1..N /\ ids[m] = ids[i]
  BY <1>1
<1>3. ASSUME NEW k \in 1..(m - 1), ids[k] = ids[m] PROVE FALSE
  <2>1. k \in Same /\ k < m
    BY <1>2, <1>3
  <2> HIDE DEF Same
  <2> QED
    BY <1>1, <1>2, <2>1
<1>4. m \in S
  BY <1>2, <1>3
<1>5. S \in SUBSET (1..N)
  OBVIOUS
<1>6. Wire!Distinct(ids) = [n \in 1..Cardinality(S) |-> ids[Wire!Nth(S, n)]]
  <2>1. Wire!Distinct(ids) = Wire!Selected(ids, S)
    BY DEF Wire!Distinct
  <2> HIDE DEF S
  <2> QED
    BY <2>1, SameCardinality DEF Wire!Selected
<1> HIDE DEF S
<1>7. PICK n \in 1..Cardinality(S) : Wire!Nth(S, n) = m
  BY <1>4, <1>5, EveryPlace
<1> QED
  BY <1>2, <1>6, <1>7

\* A text's receipt has what each of its chunks offered.
LEMMA ReceiptHas ==
    ASSUME NEW sends, IsList(sends), NEW s \in DOMAIN sends, NEW id, id # NoId,
           \/ id = sends[s].client
           \/ \E i \in DOMAIN Wire!IdFields : sends[s].answer[Wire!IdFields[i]] = id
    PROVE  \E n \in DOMAIN Wire!TextReceipt(sends) : Wire!TextReceipt(sends)[n] = id
<1> DEFINE L == Len(sends)
           ids == [k \in 1..(10 * L) |-> Wire!Offered(sends[1 + ((k - 1) \div 10)])
                                             [1 + ((k - 1) % 10)]]
           offer == Wire!Offered(sends[s])
<1>1. Len(Wire!IdFields) = 9 /\ DOMAIN Wire!IdFields = 1..9
  BY DEF Wire!IdFields
<1>2. L \in Nat /\ s \in 1..L
  BY DEF IsList
<1>3. Wire!TextReceipt(sends) = Wire!Distinct(ids)
  BY <1>1 DEF Wire!TextReceipt
<1>4. PICK c \in 1..10 : offer[c] = id
  <2>1. offer = [k \in 1..10 |-> IF k = 1 THEN sends[s].client
                                 ELSE sends[s].answer[Wire!IdFields[k - 1]]]
    BY <1>1 DEF Wire!Offered
  <2>2. CASE id = sends[s].client
    BY <2>1, <2>2
  <2>3. CASE \E i \in DOMAIN Wire!IdFields : sends[s].answer[Wire!IdFields[i]] = id
    <3>1. PICK i \in 1..9 : sends[s].answer[Wire!IdFields[i]] = id
      BY <1>1, <2>3
    <3>2. i + 1 \in 1..10 /\ i + 1 # 1 /\ (i + 1) - 1 = i
      OBVIOUS
    <3>3. offer[i + 1] = id
      BY <2>1, <3>1, <3>2
    <3> QED
      BY <3>2, <3>3
  <2> QED
    BY <2>2, <2>3
<1> DEFINE k == 10 * (s - 1) + c
<1>5. k \in 1..(10 * L) /\ 1 + ((k - 1) \div 10) = s /\ 1 + ((k - 1) % 10) = c
  <2> HIDE DEF L
  <2>1. \A a \in Nat, b \in 0..9 : (10 * a + b) \div 10 = a /\ (10 * a + b) % 10 = b
    OBVIOUS
  <2>2. k - 1 = 10 * (s - 1) + (c - 1) /\ s - 1 \in Nat /\ c - 1 \in 0..9
    BY <1>2
  <2>3. (k - 1) \div 10 = s - 1 /\ (k - 1) % 10 = c - 1
    BY <2>1, <2>2
  <2>4. k \in 1..(10 * L)
    BY <1>2
  <2> QED
    BY <1>2, <2>3, <2>4
<1>6. ids[k] = id
  <2> HIDE DEF k, L
  <2> QED
    BY <1>4, <1>5
<1>7. 10 * L \in Nat /\ DOMAIN ids = 1..(10 * L)
  <2> HIDE DEF L
  <2> QED
    BY <1>2
<1> HIDE DEF ids, k, L
<1> QED
  BY <1>3, <1>5, <1>6, <1>7, DistinctKeeps

\* What a quote says of a chunk is the chunk's own id or the server's number, and
\* the chunk's own when the quote's item has it.
LEMMA QuotedIsOffered ==
    ASSUME NEW send, send.client # NoId, NEW number, number # NoId,
           NEW ref \in Wire!RefsTo(Sent(send), number)
    PROVE  /\ ref # Wire!Nameless =>
                  Wire!QuotedMessageId(ref) \in {send.client, number}
           /\ ref.item # NoId => Wire!QuotedMessageId(ref) = send.client
<1> DEFINE fields == <<ref.item, ref.msg, ref.message, ref.client>>
<1>1. /\ Sent(send).client_id = send.client
      /\ DOMAIN Sent(send).items = {1}
      /\ Sent(send).items[1].id = send.client
  BY DEF Sent, Wire!BuildMessage
<1>2. ref \in [item : {send.client, NoId}, msg : {send.client, number, NoId},
               message : {number, NoId}, client : {send.client, NoId}]
  <2>1. {Sent(send).items[i].id : i \in DOMAIN Sent(send).items} = {send.client}
    BY <1>1
  <2> QED
    BY <1>1, <2>1 DEF Wire!RefsTo
<1>3. /\ ref.item \in {send.client, NoId} /\ ref.msg \in {send.client, number, NoId}
      /\ ref.message \in {number, NoId} /\ ref.client \in {send.client, NoId}
  BY <1>2
<1>4. DOMAIN fields = 1..4 /\ \A i \in 1..4 : fields[i] \in {send.client, number, NoId}
  BY <1>3
<1>5. ref # Wire!Nameless => \E k \in 1..4 : fields[k] # NoId
  <2>1. ASSUME ref.item = NoId, ref.msg = NoId, ref.message = NoId, ref.client = NoId
        PROVE  ref = Wire!Nameless
    BY <1>2, <2>1 DEF Wire!Nameless
  <2> QED
    BY <2>1
<1>6. Wire!QuotedMessageId(ref) = Wire!FirstOf(fields)
  BY DEF Wire!QuotedMessageId
<1>7. fields[1] = ref.item
  OBVIOUS
<1> HIDE DEF fields
<1>8. ASSUME ref # Wire!Nameless PROVE Wire!FirstOf(fields) \in {send.client, number}
  <2>1. DOMAIN fields \subseteq Nat /\ \E k \in DOMAIN fields : fields[k] # NoId
    BY <1>4, <1>5, <1>8
  <2>2. \E i \in DOMAIN fields : fields[i] # NoId /\ Wire!FirstOf(fields) = fields[i]
    BY <2>1, FirstThere
  <2> QED
    BY <1>4, <2>2
<1>9. ASSUME ref.item # NoId PROVE Wire!FirstOf(fields) = send.client
  <2>1. DOMAIN fields \subseteq Nat /\ 1 \in DOMAIN fields /\ fields[1] # NoId
    BY <1>4, <1>7, <1>9
  <2>2. \E i \in DOMAIN fields : i <= 1 /\ Wire!FirstOf(fields) = fields[i]
    BY <2>1, FirstThere
  <2> QED
    BY <1>3, <1>4, <1>7, <1>9, <2>2
<1> QED
  BY <1>6, <1>8, <1>9

\* The last reference is one of them.
LEMMA LastIsThere ==
    ASSUME NEW items, IsList(items), \E i \in DOMAIN items : items[i].ref # NoId
    PROVE  \E i \in DOMAIN items :
              items[i].ref # NoId /\ Wire!LastRef(items) = items[i].ref
<1> DEFINE refs == {i \in DOMAIN items : items[i].ref # NoId}
           L == Len(items)
           T == {L - i : i \in refs}
<1>1. L \in Nat /\ DOMAIN items = 1..L /\ refs # {} /\ refs \subseteq 1..L
  BY DEF IsList
<1>2. \E i \in refs : \A j \in refs : i >= j
  <2> HIDE DEF refs, L
  <2>1. ASSUME NEW i \in refs PROVE L - i \in Nat
    <3>1. i \in 1..L
      BY <1>1
    <3> QED
      BY <1>1, <3>1
  <2>2. T \subseteq Nat /\ T # {}
    <3>1. PICK i \in refs : TRUE
      BY <1>1
    <3>2. L - i \in T
      BY <3>1
    <3> QED
      BY <2>1, <3>2
  <2> HIDE DEF T
  <2>3. PICK m \in T : \A n \in T : m <= n
    BY <2>2, LeastNatural
  <2>4. PICK i \in refs : m = L - i
    BY <2>3 DEF T
  <2>5. \A j \in refs : L - i <= L - j
    BY <2>3, <2>4 DEF T
  <2> QED
    BY <1>1, <2>5
<1>3. Wire!LastRef(items) = IF refs = {} THEN NoId ELSE items[Wire!Max(refs)].ref
  BY DEF Wire!LastRef
<1>4. Wire!Max(refs) \in refs
  <2> HIDE DEF refs
  <2> QED
    BY <1>2 DEF Wire!Max
<1> QED
  BY <1>1, <1>3, <1>4

\* A quote leads back to the text it is of.
LEMMA QuoteLeadsBack ==
    ASSUME NEW q \in Quotes
    PROVE  LET send == q.sends[q.quotes]
               told == \E i \in DOMAIN Wire!IdFields :
                           send.answer[Wire!IdFields[i]] = q.number
               last == Wire!LastRef(q.wire.items)
               receipt == Wire!TextReceipt(q.sends)
           IN  last.item # NoId \/ (told /\ last # Wire!Nameless) =>
                   \E i \in DOMAIN receipt :
                       receipt[i] = Wire!Quoted(q.wire.items).message_id
<1> DEFINE items == q.wire.items
           send == q.sends[q.quotes]
           receipt == Wire!TextReceipt(q.sends)
           last == Wire!LastRef(items)
           quoted == Wire!Quoted(items).message_id
           told == \E i \in DOMAIN Wire!IdFields : send.answer[Wire!IdFields[i]] = q.number
           has(id) == \E i \in DOMAIN receipt : receipt[i] = id
<1>1. /\ IsList(q.sends) /\ IsList(items)
      /\ q.quotes \in DOMAIN q.sends
      /\ send.client # NoId /\ q.number # NoId
      /\ \A i \in DOMAIN items : items[i].ref \in
             {NoId} \cup Wire!RefsTo(Sent(send), q.number)
      /\ \E i \in DOMAIN items : items[i].ref # NoId
  BY QuotesAssumption
<1> HIDE DEF items, send
<1>2. PICK i \in DOMAIN items : items[i].ref # NoId /\ last = items[i].ref
  BY <1>1, LastIsThere
<1>3. last \in Wire!RefsTo(Sent(send), q.number) /\ last # NoId
  BY <1>1, <1>2
<1>4. quoted = Wire!QuotedMessageId(last)
  <2>1. Wire!Quoted(items) = [message_id |-> Wire!QuotedMessageId(last)]
    BY <1>3 DEF Wire!Quoted
  <2> QED
    BY <2>1
<1>5. /\ last # Wire!Nameless => quoted \in {send.client, q.number}
      /\ last.item # NoId => quoted = send.client
  BY <1>1, <1>3, <1>4, QuotedIsOffered
<1>6. has(send.client)
  BY <1>1, ReceiptHas DEF send
<1>7. ASSUME told PROVE has(q.number)
  BY <1>1, <1>7, ReceiptHas DEF send
<1>8. last.item # NoId \/ (told /\ last # Wire!Nameless) => has(quoted)
  <2> HIDE DEF told, has, quoted, last
  <2> QED
    BY <1>5, <1>6, <1>7
<1> QED
  BY <1>8 DEF items, send

-----------------------------------------------------------------------------
(* Answers of the API. *)

\* Zero is zero in an i32 too.
LEMMA ZeroAsI32 ==
    Api!AsI32(0) = 0
<1>1. \A h \in Nat \ {0} : ((0 + h) % (2 * h)) - h = 0
  <2> SUFFICES ASSUME NEW h \in Nat \ {0} PROVE h % (2 * h) = h
    OBVIOUS
  <2> QED
    OBVIOUS
<1> QED
  BY <1>1, HalfAssumption DEF Api!AsI32

\* What an answer is taken for.
LEMMA AnswerTold ==
    ASSUME NEW a \in Api!AnswersOfApi
    PROVE  LET updates == Api!GetUpdates(a)
               sent == Api!SendMessage(a)
               named == {c \in {a.errcode, a.ret} : Api!Names(c)}
               says(n, c) == Api!IsInteger(c) /\ Api!AsI32(c.n) = n
               counts(n) == \/ says(n, a.errcode)
                            \/ ~Api!Names(a.errcode) /\ a.status < 400 /\ says(n, a.ret)
           IN  /\ updates.is = "ok" =>
                      a.transport = "timeout" \/ (a.transport = "ok" /\ named = {})
               /\ a.transport = "ok" =>
                      /\ Api!IsSessionExpired(updates) <=> counts(Api!SESSION_EXPIRED)
                      /\ Api!IsRateLimited(updates) <=> counts(Api!RATE_LIMIT_ERRCODE)
                      /\ Api!IsRateLimited(sent) <=> counts(Api!RATE_LIMIT_ERRCODE)
<1> DEFINE updates == Api!GetUpdates(a)
           post == Api!ApiPost(a)
           named == {c \in {a.errcode, a.ret} : Api!Names(c)}
           says(n, c) == Api!IsInteger(c) /\ Api!AsI32(c.n) = n
           counts(n) == \/ says(n, a.errcode)
                        \/ ~Api!Names(a.errcode) /\ a.status < 400 /\ says(n, a.ret)
           told == /\ Api!IsSessionExpired(updates) <=> counts(Api!SESSION_EXPIRED)
                   /\ Api!IsRateLimited(updates) <=> counts(Api!RATE_LIMIT_ERRCODE)
                   /\ Api!IsRateLimited(post) <=> counts(Api!RATE_LIMIT_ERRCODE)
           Right == /\ updates.is = "ok" =>
                          a.transport = "timeout" \/ (a.transport = "ok" /\ named = {})
                    /\ a.transport = "ok" => told
<1> SUFFICES Right
  BY DEF Api!SendMessage
<1>1. /\ a.transport \in {"ok", "timeout", "transport"} /\ a.status \in Nat
      /\ a.errcode \in Api!Codes /\ a.ret \in Api!Codes
  BY DEF Api!AnswersOfApi
<1>2. \A n \in {-14, -2} : \A c : says(n, c) => Api!Names(c)
  BY ZeroAsI32 DEF Api!Names
<1>3. /\ Api!SESSION_EXPIRED = -14 /\ Api!RATE_LIMIT_ERRCODE = -2
      /\ Api!Ok = Api!Err("ok", 0)
  BY DEF Api!SESSION_EXPIRED, Api!RATE_LIMIT_ERRCODE, Api!Ok, Api!Err
<1>4. \A n : /\ Api!ApiError(n).is # "ok" /\ Api!ApiError(n).is # "timeout"
             /\ Api!IsSessionExpired(Api!ApiError(n)) <=> n = -14
             /\ Api!IsRateLimited(Api!ApiError(n)) <=> n = -2
  BY <1>3 DEF Api!ApiError, Api!Err, Api!IsSessionExpired, Api!IsRateLimited
<1>5. /\ Api!Ok.is = "ok"
      /\ \A is, n : Api!Err(is, n).is = is
      /\ \A r : r.is \notin {"api", "rate_limited"} =>
             ~Api!IsSessionExpired(r) /\ ~Api!IsRateLimited(r)
  BY DEF Api!Ok, Api!Err, Api!IsSessionExpired, Api!IsRateLimited
<1>6. updates = CASE post.is = "timeout" -> Api!Ok
                  [] post = Api!Ok /\ Api!Unreadable \in {a.errcode, a.ret} -> Api!Err("json", 0)
                  [] OTHER -> post
  BY DEF Api!GetUpdates
<1>7. CASE a.transport # "ok"
  <2>1. post = Api!Err(a.transport, 0)
    BY <1>7 DEF Api!ApiPost
  <2> HIDE DEF updates, post
  <2>2. updates.is = "ok" => a.transport = "timeout"
    BY <1>1, <1>5, <1>6, <1>7, <2>1
  <2> QED
    BY <1>7, <2>2
<1>8. CASE a.transport = "ok" /\ a.status >= 400
  <2> DEFINE n == IF Api!IsInteger(a.errcode) THEN Api!AsI32(a.errcode.n) ELSE 0
  <2>1. post = Api!ApiError(n)
    BY <1>1, <1>8 DEF Api!ApiPost
  <2> HIDE DEF updates, post
  <2>2. updates = post /\ updates.is # "ok"
    BY <1>4, <1>5, <1>6, <2>1
  <2>3. \A m \in {-14, -2} : n = m <=> counts(m)
    BY <1>1, <1>8
  <2>4. told
    <3> HIDE DEF n, counts
    <3> QED
      BY <1>3, <1>4, <2>1, <2>2, <2>3
  <2> QED
    BY <2>2, <2>4
<1>9. CASE a.transport = "ok" /\ a.status < 400 /\ Api!NamedCode(a) # 0
  <2> DEFINE n == Api!AsI32(Api!NamedCode(a))
  <2>1. post = Api!ApiError(n)
    BY <1>1, <1>9 DEF Api!ApiPost
  <2> HIDE DEF updates, post
  <2>2. updates = post /\ updates.is # "ok"
    BY <1>4, <1>5, <1>6, <2>1
  <2>3. \A m \in {-14, -2} : n = m <=> counts(m)
    BY <1>2, <1>9 DEF Api!NamedCode, Api!Names
  <2>4. told
    <3> HIDE DEF n, counts
    <3> QED
      BY <1>3, <1>4, <2>1, <2>2, <2>3
  <2> QED
    BY <2>2, <2>4
<1>10. CASE a.transport = "ok" /\ a.status < 400 /\ Api!NamedCode(a) = 0
  <2>1. post = Api!Ok
    BY <1>1, <1>10 DEF Api!ApiPost
  <2> HIDE DEF updates, post
  <2>2. updates.is \in {"ok", "json"}
    BY <1>5, <1>6, <2>1
  <2>3. ~Api!Names(a.errcode) /\ ~Api!Names(a.ret)
    BY <1>10 DEF Api!NamedCode, Api!Names
  <2>4. \A m \in {-14, -2} : ~counts(m)
    BY <1>2, <2>3
  <2>5. told
    <3> HIDE DEF counts
    <3> QED
      BY <1>3, <1>5, <2>1, <2>2, <2>4
  <2>6. named = {}
    BY <2>3
  <2> QED
    BY <1>10, <2>5, <2>6
<1> QED
  <2> HIDE DEF Right
  <2> QED
    BY <1>1, <1>7, <1>8, <1>9, <1>10

-----------------------------------------------------------------------------
(* The exchanges. *)

\* The input is one of those that are given.
InputOK ==
    \/ Of("upload", Uploads)
    \/ Of("download", Downloads)
    \/ Of("quote", Quotes)
    \/ Of("answer", Answers)

\* With the input, what each result must be.
ExchangeInv ==
    /\ InputOK
    /\ MediaRoundTrip
    /\ NoCiphertextHandedOut
    /\ QuotesResolve
    /\ ErrorsTold

LEMMA ExchangeInitInv ==
    ExchangeInit => ExchangeInv
BY DEF ExchangeInit, ExchangeInv, InputOK, MediaRoundTrip, NoCiphertextHandedOut,
       QuotesResolve, ErrorsTold, Result

LEMMA ExchangeNextInv ==
    ASSUME ExchangeInv, [ExchangeNext]_exchangeVars
    PROVE  ExchangeInv'
<1> DEFINE value == input.value
<1>1. CASE UploadAndDownload
  <2>1. input' = input /\ input.kind = "upload" /\ value \in Uploads
    BY <1>1 DEF UploadAndDownload, Given, Finish, ExchangeInv, InputOK, Of
  <2>2. result' = [stored |-> Len(Media!Upload(value.data, value.key).cipher),
                   size |-> Media!EncryptedSize(Len(value.data)),
                   got |-> Media!DownloadRaw(Media!Upload(value.data, value.key),
                                             value.override)]
    BY <1>1 DEF UploadAndDownload, Finish
  <2>3. /\ value.data \in Seq(Byte)
        /\ value.override \in {Media!None} \cup Media!WrittenAs(value.key)
    BY <2>1, UploadsAssumption
  <2>4. MediaRoundTrip'
    BY <2>1, <2>2, <2>3, UploadRoundTrip DEF MediaRoundTrip
  <2> QED
    BY <2>1, <2>4 DEF ExchangeInv, InputOK, Of, NoCiphertextHandedOut, QuotesResolve,
                      ErrorsTold, Result
<1>2. CASE DownloadOfMessage
  <2>1. input' = input /\ input.kind = "download" /\ value \in Downloads
    BY <1>2 DEF DownloadOfMessage, Given, Finish, ExchangeInv, InputOK, Of
  <2>2. result' = Media!Download(Wire!FromWire(value, Wire!FallbackAccount(value)))
    BY <1>2 DEF DownloadOfMessage, Finish
  <2>3. NoCiphertextHandedOut'
    BY <2>1, <2>2, DownloadHandsOut DEF NoCiphertextHandedOut
  <2> QED
    BY <2>1, <2>3 DEF ExchangeInv, InputOK, Of, MediaRoundTrip, QuotesResolve,
                      ErrorsTold, Result
<1>3. CASE SendAndQuote
  <2>1. input' = input /\ input.kind = "quote" /\ value \in Quotes
    BY <1>3 DEF SendAndQuote, Given, Finish, ExchangeInv, InputOK, Of
  <2>2. /\ result'.receipt = Wire!TextReceipt(value.sends)
        /\ result'.message.quoted = Wire!Quoted(value.wire.items)
    BY <1>3 DEF SendAndQuote, Finish, Wire!FromWire
  <2>3. QuotesResolve'
    BY <2>1, <2>2, QuoteLeadsBack DEF QuotesResolve
  <2> QED
    BY <2>1, <2>3 DEF ExchangeInv, InputOK, Of, MediaRoundTrip, NoCiphertextHandedOut,
                      ErrorsTold, Result
<1>4. CASE TakeAnswer
  <2>1. input' = input /\ input.kind = "answer" /\ value \in Api!AnswersOfApi
    BY <1>4, AnswersAssumption
    DEF TakeAnswer, Given, Finish, ExchangeInv, InputOK, Of
  <2>2. /\ result'.updates = Api!GetUpdates(value)
        /\ result'.sent = Api!SendMessage(value)
    BY <1>4 DEF TakeAnswer, Finish
  <2>3. ErrorsTold'
    BY <2>1, <2>2, AnswerTold DEF ErrorsTold
  <2> QED
    BY <2>1, <2>3 DEF ExchangeInv, InputOK, Of, MediaRoundTrip, NoCiphertextHandedOut,
                      QuotesResolve, Result
<1>5. CASE UNCHANGED exchangeVars
  BY <1>5 DEF exchangeVars, ExchangeInv, InputOK, Of, MediaRoundTrip,
              NoCiphertextHandedOut, QuotesResolve, ErrorsTold, Result
<1> QED
  BY <1>1, <1>2, <1>3, <1>4, <1>5 DEF ExchangeNext

LEMMA ExchangeAlways ==
    ExchangeSpec => []ExchangeInv
<1>1. ExchangeInit => ExchangeInv
  BY ExchangeInitInv
<1>2. ExchangeInv /\ [ExchangeNext]_exchangeVars => ExchangeInv'
  BY ExchangeNextInv
<1> QED
  BY <1>1, <1>2, PTL DEF ExchangeSpec

\* cdn_upload and CdnClient::download: media of any length and bytes come back as
\* they were, whether the key is the one the reference was given or is written again
\* in any of the ways decode_aes_key reads, and take what encrypted_size announced.
THEOREM UploadsComeBack ==
    ExchangeSpec => []MediaRoundTrip
<1>1. ExchangeInv => MediaRoundTrip
  BY DEF ExchangeInv
<1> QED
  BY <1>1, ExchangeAlways, PTL

\* WechatIlinkClient::download: whatever a message says of its media, nothing that is
\* still encrypted is handed out but an image without a key, and what the key it was
\* encrypted with opens is what it was.
THEOREM DownloadsAreOpened ==
    ExchangeSpec => []NoCiphertextHandedOut
<1>1. ExchangeInv => NoCiphertextHandedOut
  BY DEF ExchangeInv
<1> QED
  BY <1>1, ExchangeAlways, PTL

\* collect_send_message_ids and quoted_message_id: a quote of any of a text's chunks
\* leads to the text's receipt, when the server's number was told or the quote's item
\* names the chunk, whichever fields the answers and the quote have.
THEOREM QuotesLeadToReceipts ==
    ExchangeSpec => []QuotesResolve
<1>1. ExchangeInv => QuotesResolve
  BY DEF ExchangeInv
<1> QED
  BY <1>1, ExchangeAlways, PTL

\* api_post, get_updates and api_error: no answer that names an error passes for a
\* batch of updates, and an expired session and a rate limit are what the codes say,
\* for all codes, statuses and widths of the code's integer.
THEOREM AnswersTellErrors ==
    ExchangeSpec => []ErrorsTold
<1>1. ExchangeInv => ErrorsTold
  BY DEF ExchangeInv
<1> QED
  BY <1>1, ExchangeAlways, PTL
=============================================================================
