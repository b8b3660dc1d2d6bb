----------------------------- MODULE Exchanges -----------------------------
(***************************************************************************)
(* What goes over the wire and comes back: media are uploaded and          *)
(* downloaded again, the media of a message are downloaded, a text is sent *)
(* and quoted, an answer of the API is taken.  One input is chosen from    *)
(* the start, and one step treats it.                                      *)
(***************************************************************************)
EXTENDS Integers, Sequences

CONSTANTS
    Keys,        \* AES keys
    Half,        \* 2 ^ 31, for an i32
    NoId,        \* a field that is not there
    Uploads,     \* [data, key, override]: media, their key, how a download writes it
    Downloads,   \* messages to download the media of
    Quotes,      \* [sends, quotes, number, wire]: a text's sends, which of them a
                 \* message quotes and the server's number of it, and the message
    Answers      \* answers of the API

VARIABLES
    input,   \* what is given: its kind and its value
    done,    \* the result is there
    result

exchangeVars == <<input, done, result>>

Media == INSTANCE MediaFormat
Wire == INSTANCE WireMessages
Api == INSTANCE ApiAnswers

Byte == 0..255

\* What is uploaded may be anything; the key is given as the media say, or written
\* again in one of the ways that can be read.
ASSUME UploadsAssumption ==
    \A u \in Uploads :
        /\ u.data \in Seq(Byte)
        /\ u.key \in Keys
        /\ u.override \in {Media!None} \cup Media!WrittenAs(u.key)

\* Media that the CDN has are encrypted with one key; a message may say anything of
\* where they are and of their key.
IsReference(media, data) ==
    \/ media = Media!None
    \/ /\ media.at \in {"nowhere", "gone", "cdn"}
       /\ media.key \in {Media!None, Media!Empty} \cup Media!WrittenKeys
       /\ media.at = "cdn" => \E k \in Keys : media.cipher = Media!Encrypt(data, k)

IsList(s) == Len(s) \in Nat /\ DOMAIN s = 1..Len(s)

ASSUME DownloadsAssumption ==
    \A wire \in Downloads :
        /\ IsList(wire.items)
        /\ \A i \in DOMAIN wire.items : \A kind \in DOMAIN wire.items[i].holds :
              LET item == wire.items[i].holds[kind]
              IN  /\ item.data \in Seq(Byte)
                  /\ IsReference(item.media, item.data)
                  /\ item.key \in {Media!None, Media!Empty} \cup Media!WrittenKeys

\* A chunk that is sent is an item of its own.
Sent(send) == Wire!BuildMessage(send.client, <<[id |-> NoId, type |-> "text"]>>)

\* A message that quotes a text has one or more items, each of which refers to the
\* same one of the text's chunks, by any of its ids or none, or to nothing.
ASSUME QuotesAssumption ==
    \A q \in Quotes :
        /\ IsList(q.sends) /\ IsList(q.wire.items)
        /\ q.quotes \in DOMAIN q.sends
        /\ \A i \in DOMAIN q.sends : q.sends[i].client # NoId
        /\ q.number # NoId
        /\ \A i \in DOMAIN q.wire.items :
              q.wire.items[i].ref \in
                  {NoId} \cup Wire!RefsTo(Sent(q.sends[q.quotes]), q.number)
        /\ \E i \in DOMAIN q.wire.items : q.wire.items[i].ref # NoId

ASSUME HalfAssumption == Half \in Nat \ {0}

ASSUME AnswersAssumption == Answers \subseteq Api!AnswersOfApi

-----------------------------------------------------------------------------
Of(kind, values) == \E v \in values : input = [kind |-> kind, value |-> v]

ExchangeInit ==
    /\ done = FALSE
    /\ result = <<>>
    /\ \/ Of("upload", Uploads)
       \/ Of("download", Downloads)
       \/ Of("quote", Quotes)
       \/ Of("answer", Answers)

Given(kind) == input.kind = kind /\ ~done
Finish(value) ==
    /\ done' = TRUE
    /\ result' = value
    /\ UNCHANGED input

\* cdn_upload, and download_raw with a key of the application's.
UploadAndDownload ==
    /\ Given("upload")
    /\ LET media == Media!Upload(input.value.data, input.value.key)
       IN  Finish([stored |-> Len(media.cipher),
                   size |-> Media!EncryptedSize(Len(input.value.data)),
                   got |-> Media!DownloadRaw(media, input.value.override)])

\* An incoming message's media.
DownloadOfMessage ==
    /\ Given("download")
    /\ Finish(Media!Download(Wire!FromWire(input.value, Wire!FallbackAccount(input.value))))

\* A text is sent, and a message that quotes it comes in.
SendAndQuote ==
    /\ Given("quote")
    /\ Finish([receipt |-> Wire!TextReceipt(input.value.sends),
               message |-> Wire!FromWire(input.value.wire,
                                         Wire!FallbackAccount(input.value.wire))])

TakeAnswer ==
    /\ Given("answer")
    /\ Finish([updates |-> Api!GetUpdates(input.value), sent |-> Api!SendMessage(input.value)])

ExchangeNext == UploadAndDownload \/ DownloadOfMessage \/ SendAndQuote \/ TakeAnswer

ExchangeSpec == ExchangeInit /\ [][ExchangeNext]_exchangeVars

-----------------------------------------------------------------------------
(* Properties *)

Result(kind) == input.kind = kind /\ done

\* What is uploaded is what is downloaded, whichever way its key is written, and its
\* size was announced: padding, the cipher's blocks and the forms of keys agree.
MediaRoundTrip ==
    Result("upload") =>
        /\ result.got = Media!Plain(input.value.data)
        /\ result.stored = result.size

\* A download never hands out what is still encrypted, except for an image whose
\* key is missing, or given as an empty one; and what it hands out as plain, with
\* the key it was encrypted with, are the data of the first item of its kind.
NoCiphertextHandedOut ==
    Result("download") /\ result # Media!None =>
        LET first == Head(Wire!OfKind(input.value.items, result.kind))
            source == Media!KeyOf(result.kind, first)
        IN  /\ result.result.is = "cipher" =>
                   result.kind = "image" /\ source \in {Media!None, Media!Empty}
            /\ result.result.is = "plain" /\ source.key = first.media.cipher[1].key =>
                   result.result.data = first.data

\* A quote of a text leads back to its receipt, when the last reference's item names
\* the chunk it is of, or the answers told the server's numbers and the last reference
\* has an id at all: one that has none hides what the earlier ones said.
QuotesResolve ==
    Result("quote") =>
        LET send == input.value.sends[input.value.quotes]
            told == \E i \in DOMAIN Wire!IdFields :
                        send.answer[Wire!IdFields[i]] = input.value.number
            last == Wire!LastRef(input.value.wire.items)
        IN  last.item # NoId \/ (told /\ last # Wire!Nameless) =>
                \E i \in DOMAIN result.receipt :
                    result.receipt[i] = result.message.quoted.message_id

\* No answer that names an error is taken for updates; an expired session and a rate
\* limit are told by errcode under any HTTP status, by ret without an HTTP error, and
\* by nothing else.
ErrorsTold ==
    Result("answer") =>
        LET a == input.value
            named == {c \in {a.errcode, a.ret} : Api!Names(c)}
            says(n, c) == Api!IsInteger(c) /\ Api!AsI32(c.n) = n
            counts(n) == \/ says(n, a.errcode)
                         \/ ~Api!Names(a.errcode) /\ a.status < 400 /\ says(n, a.ret)
        IN  /\ result.updates.is = "ok" =>
                   a.transport = "timeout" \/ (a.transport = "ok" /\ named = {})
            /\ a.transport = "ok" =>
                   /\ Api!IsSessionExpired(result.updates) <=> counts(Api!SESSION_EXPIRED)
                   /\ Api!IsRateLimited(result.updates) <=> counts(Api!RATE_LIMIT_ERRCODE)
                   /\ Api!IsRateLimited(result.sent) <=> counts(Api!RATE_LIMIT_ERRCODE)
=============================================================================
