----------------------------- MODULE MCPayloads -----------------------------
(* Payloads on small inputs: those of OutgoingText and of each of the modules that  *)
(* read or write what goes over the wire.                                           *)
EXTENDS Payloads, Integers, TLC

CONSTANTS k1, k2

\* Up to n of the pieces, one after the other.
UpTo(n, pieces) == [1..n -> pieces \cup {<<>>}]
Joins(n, pieces) == {FlattenSeq(p) : p \in UpTo(n, pieces)}

MCTexts == Joins(7, {<<"a">>, <<"blank">>, <<"\n">>, <<"lead", "tail">>})

SingleMarks == {<<m>> : m \in {"a", " ", "\n", "*", "|", "-"}}
MoreMarks ==
    {<<"a", "\n">>, <<Tick>>, Ticks, <<"~", "~">>, <<"~", "~", ">">>, <<"_">>,
     <<"!", "[", "a">>, <<"]", "(", "a">>, <<")">>, <<"\n", ">", " ">>, <<"\n", "|">>,
     <<"#", "#", "#", "#", "#", " ">>}
\* A text that is cut where it says so.
BytesOf(t) == SelectSeq(t, LAMBDA b : b # "cut")
Pieced(t) ==
    [text |-> BytesOf(t),
     cuts |-> {Len(BytesOf(SubSeq(t, 1, i))) : i \in {k \in DOMAIN t : t[k] = "cut"}} \ {0}]

\* Texts that are cut after some of their lines, and texts that are cut anywhere.
MCMarkdowns ==
    {Pieced(FlattenSeq(p)) :
        p \in UNION {UpTo(5, SingleMarks \cup {<<NL, "cut">>}),
                     UpTo(4, MoreMarks \cup {<<"a", NL, "cut">>}),
                     UpTo(4, {<<"cut">>, <<"a">>, <<NL>>, <<"*">>, <<"|">>, <<"#">>}),
                     UpTo(3, {<<"cut">>, <<NL>>} \cup MoreMarks)}}

MCUploads ==
    [data : {[i \in 1..n |-> b] : n \in {0, 1, 14, 15, 16, 17}, b \in {0, 1, 16}},
     key : {k1}, override : {Media!None} \cup Media!WrittenAs(k1)]

\* What an item of a kind may refer to: nothing, and media that are stored or gone.
Stored(data, key) ==
    [at |-> "cdn", cipher |-> Media!Encrypt(data, k1), garbage |-> 1, key |-> key]
References(data) ==
    {Media!None, [Stored(data, Media!Hex(k1)) EXCEPT !.at = "gone"]}
    \cup {Stored(data, key) :
             key \in {Media!None, Media!Empty, Media!EncodeAesKeyBase64(k1), Media!Hex(k2)}}

Item(type, holds) ==
    [type |-> type, id |-> NoId, text |-> NoId, ref |-> NoId, holds |-> holds]
Wired(items) ==
    [type |-> "user", message_id |-> NoId, client_id |-> NoId, from |-> "u", to |-> NoId,
     token |-> NoId, items |-> items]

ItemsOf(kind, data, keys) ==
    {Item(kind, kind :> [media |-> media, key |-> key, data |-> data]) :
        media \in References(data), key \in keys}
ImageKeys == {Media!None, Media!Empty, Media!Hex(k1), Media!Base64("short", k1)}

AtMostOne(S) == {<<>>} \cup {<<i>> : i \in S}
MCDownloads ==
    {Wired(voice \o video \o file \o image) :
        voice \in AtMostOne(ItemsOf("voice", <<4>>, {Media!None})),
        video \in AtMostOne(ItemsOf("video", <<3>>, {Media!None})),
        file \in AtMostOne(ItemsOf("file", <<2>>, {Media!None})),
        image \in {<<>>} \cup {<<i, j>> : i \in ItemsOf("image", <<1>>, ImageKeys),
                               j \in {CHOOSE k \in ItemsOf("image", <<5>>, {Media!Hex(k1)}) :
                                          k.holds["image"].media # Media!None}}}

\* Two chunks whose answers tell the server's numbers in one field, or in none.
Send(client, number, field) ==
    [client |-> client, answer |-> [f \in {Wire!IdFields[i] : i \in DOMAIN Wire!IdFields} |->
                                        IF f = field THEN number ELSE NoId]]
Fields == {"none", "msg_id", "msg/message_id", "result/msg_id", "svr_msg_id"}

QuotesOf(n, client, number, Fields1, Fields2) ==
    {[sends |-> <<Send("c1", "n1", f1), Send("c2", "n2", f2)>>, quotes |-> n,
      number |-> number,
      wire |-> Wired([i \in DOMAIN refs |-> [Item("text", <<>>) EXCEPT !.ref = refs[i]]])] :
        f1 \in Fields1, f2 \in Fields2,
        refs \in {r \in UNION {[1..m -> {NoId} \cup Wire!RefsTo(Sent([client |-> client]), number)]
                               : m \in 1..2} : \E i \in DOMAIN r : r[i] # NoId}}
MCQuotes ==
    QuotesOf(1, "c1", "n1", Fields, {"none", "msg_id"})
    \cup QuotesOf(2, "c2", "n2", {"none", "msg_id"}, Fields)

Codes == {Api!Absent, Api!Unreadable}
         \cup {Api!Code(n) : n \in {0, 1, -2, -14, 254, 242, 256}}
MCAnswers ==
    [transport : {"ok", "timeout", "transport"}, status : {200, 400, 429}, errcode : Codes,
     ret : Codes]

Word(opens, closes, clean, product, len) ==
    [opens |-> opens, closes |-> closes, clean |-> clean, product |-> product, len |-> len]

MCWords ==
    {Word(FALSE, FALSE, TRUE, TRUE, 3), Word(FALSE, FALSE, TRUE, TRUE, 6), Default[1],
     Word(FALSE, FALSE, FALSE, FALSE, 1), Word(TRUE, FALSE, TRUE, FALSE, 1),
     Word(TRUE, FALSE, TRUE, FALSE, 3), Word(FALSE, TRUE, TRUE, FALSE, 2),
     Word(TRUE, TRUE, TRUE, FALSE, 2), Word(TRUE, TRUE, TRUE, FALSE, 6),
     Word(TRUE, TRUE, TRUE, FALSE, 7), Word(TRUE, TRUE, FALSE, FALSE, 4)}
MCAgents == Joins(4, {<<w>> : w \in MCWords})
=============================================================================
