---------------------------- MODULE WireMessages ----------------------------
(***************************************************************************)
(* Messages on the wire: what IncomingMessage makes of one, what a quote   *)
(* refers to, and which ids a receipt has for a message that was sent.     *)
(*                                                                         *)
(* An id is a number of the server's or a client's id; a number and its    *)
(* decimal form are the same id.                                           *)
(***************************************************************************)
EXTENDS Naturals, Sequences, FiniteSets, FiniteSetsExt

CONSTANT
    NoId    \* a field that is not there, or no id

\* The n-th of a set of numbers.
Nth(S, n) == CHOOSE e \in S : Cardinality({d \in S : d <= e}) = n

\* The elements of a sequence at the positions in S.
Selected(s, S) == [n \in 1..Cardinality(S) |-> s[Nth(S, n)]]

\* Optional fields in the order they are looked at: the first that is there.
FirstOf(fields) ==
    LET there == {i \in DOMAIN fields : fields[i] # NoId}
    IN  IF there = {} THEN NoId ELSE fields[Min(there)]

\* Ids in order, each where it comes first.
Distinct(ids) ==
    Selected(ids, {i \in DOMAIN ids : ids[i] # NoId /\ \A j \in 1..(i - 1) : ids[j] # ids[i]})

-----------------------------------------------------------------------------
(* types.rs.  An item has a type, an id, a text, media by their kind, and a         *)
(* reference to another message.                                                    *)

\* A reference that is there, and has none of the ids.
Nameless == [item |-> NoId, msg |-> NoId, message |-> NoId, client |-> NoId]

\* Mutant: the ids a client knows of come last.
QuotedMessageIdOfServer(ref) == FirstOf(<<ref.message, ref.msg, ref.item, ref.client>>)

\* quoted_message_id
QuotedMessageId(ref) == FirstOf(<<ref.item, ref.msg, ref.message, ref.client>>)

\* current_message_id
CurrentMessageId(wire) ==
    FirstOf([i \in DOMAIN wire.items |-> wire.items[i].id]
            \o <<wire.message_id, wire.client_id>>)

\* detect_type: the first item's.
DetectType(items) ==
    IF items = <<>> \/ Head(items).type \notin {"image", "voice", "file", "video"}
    THEN "text" ELSE Head(items).type

\* extract_text: what each item shows, a text nothing when it has none.
ExtractText(items) ==
    LET shows == Selected(items, {i \in DOMAIN items :
                                     /\ items[i].type # "none"
                                     /\ items[i].type = "text" => items[i].text # NoId})
    IN  [i \in DOMAIN shows |-> IF shows[i].type # "video" /\ shows[i].text # NoId
                                THEN shows[i].text ELSE shows[i].type]

\* The items of a kind, whatever the type of the item they are in.
OfKind(items, kind) ==
    LET having == Selected(items, {i \in DOMAIN items : kind \in DOMAIN items[i].holds})
    IN  [i \in DOMAIN having |-> having[i].holds[kind]]

\* The last reference of a message, with ids or without.
LastRef(items) ==
    LET refs == {i \in DOMAIN items : items[i].ref # NoId}
    IN  IF refs = {} THEN NoId ELSE items[Max(refs)].ref

\* The last reference wins: what earlier ones said is overwritten.
Quoted(items) ==
    IF LastRef(items) = NoId THEN NoId
    ELSE [message_id |-> QuotedMessageId(LastRef(items))]

\* from_wire: the account is guessed from the addressee, or else from the sender.
FallbackAccount(wire) == FirstOf(<<wire.to, wire.from>>)

\* from_wire_for_account: a message that is not a user's is none.
FromWire(wire, account) ==
    [user |-> wire.type = "user",
     message_id |-> CurrentMessageId(wire),
     text |-> ExtractText(wire.items),
     content_type |-> DetectType(wire.items),
     image |-> OfKind(wire.items, "image"),
     voice |-> OfKind(wire.items, "voice"),
     file |-> OfKind(wire.items, "file"),
     video |-> OfKind(wire.items, "video"),
     quoted |-> Quoted(wire.items),
     context |-> IF wire.token = NoId THEN NoId
                 ELSE [account_key |-> account, user_id |-> wire.from,
                       token |-> wire.token, source |-> CurrentMessageId(wire)]]

-----------------------------------------------------------------------------
(* Receipts.  An answer maps the fields of its body to what is in them.             *)

\* Where ids are looked for, in this order, and a field that only looks like one.
IdFields ==
    <<"message_id", "msg_id", "msg/message_id", "msg/msg_id", "data/message_id",
      "data/msg_id", "result/message_id", "result/msg_id", "svr_msg_id">>

\* collect_send_message_ids: the client's id and what the answer's fields hold.
Offered(send) ==
    [k \in 1..(1 + Len(IdFields)) |-> IF k = 1 THEN send.client
                                     ELSE send.answer[IdFields[k - 1]]]

\* A text's receipt: what its chunks offered, each id once.
TextReceipt(sends) ==
    LET n == 1 + Len(IdFields)
    IN  Distinct([k \in 1..(n * Len(sends)) |->
                     Offered(sends[1 + ((k - 1) \div n)])[1 + ((k - 1) % n)]])

\* build_text_message, build_media_message: an item is given the client's id.
BuildMessage(client, items) ==
    [client_id |-> client,
     items |-> [i \in DOMAIN items |->
                   [items[i] EXCEPT !.id = IF @ = NoId THEN client ELSE @]]]

\* What a quote of this message may say of it: any of the ids it was sent with and
\* the server's number, or none.
RefsTo(message, number) ==
    [item : {message.items[i].id : i \in DOMAIN message.items} \cup {NoId},
     msg : {message.client_id, number, NoId},
     message : {number, NoId},
     client : {message.client_id, NoId}]
=============================================================================
