---------------------------- MODULE SendMessage ----------------------------
(***************************************************************************)
(* One send operation of a client: a text in chunks, an image, a video or  *)
(* a file with its caption, or the typing indicator, while other           *)
(* credentials may be installed.                                           *)
(*                                                                         *)
(* A part is a chunk or the media item.  The token is read once for the    *)
(* chunks of a text and once for an upload and its item, so a caption      *)
(* reads it again.  A rate-limited request is repeated or given up as      *)
(* RateLimit models; here it is sent or not.  An answer may get lost after *)
(* the server took the message.                                            *)
(***************************************************************************)
EXTENDS Naturals, Sequences

CONSTANTS
    Accounts,   \* accounts whose credentials may be installed
    NoAccount,  \* no credentials are installed
    MaxChunks,  \* bound: chunks of a text
    MaxUploads  \* MAX_RETRIES of upload_to_cdn

ASSUME NoAccountAssumption == NoAccount \notin Accounts
ASSUME BoundsAssumption == MaxChunks \in Nat \ {0} /\ MaxUploads \in Nat \ {0}

VARIABLES
    account,    \* account of the installed credentials
    switched,   \* history: credentials were installed during the send
    pc,         \* where the send is
    content,    \* what is sent: [kind, category of a file's name, chunks]
    token,      \* account of the token that send_content read
    textToken,  \* account of the token that send_text read
    uploader,   \* account the media were uploaded with
    attempts,   \* attempts of the upload
    seen,       \* server: the parts it took, each with its sender's account
    sent,       \* receipt: the parts whose answers were received
    texts       \* receipt: the visible texts

auth == <<account, switched>>
tokens == <<token, textToken, uploader>>
receipt == <<sent, texts>>
vars == <<account, switched, pc, content, token, textToken, uploader, attempts,
          seen, sent, texts>>

Media == {"image", "video", "file"}
Kinds == Media \cup {"text", "typing"}

\* A text has at least one chunk; no chunks stand for no caption.  The category of
\* what is not a file is its kind.
Contents ==
    {c \in [kind : Kinds, category : Kinds, chunks : 0..MaxChunks] :
        /\ IF c.kind = "file" THEN c.category \in Media ELSE c.category = c.kind
        /\ c.kind = "text" => c.chunks > 0
        /\ c.kind = "typing" => c.chunks = 0}

Steps == {"idle", "auth", "textauth", "text", "url", "upload", "item", "config",
          "typing"}
Ended == {"done", "failed"}

HasItem(c) == c.category \in Media
Part(c, i) == [kind |-> IF i <= c.chunks THEN "text" ELSE c.category, at |-> i]

\* The parts in the order the user is to see them.
Plan(c) == [i \in 1..(c.chunks + IF HasItem(c) THEN 1 ELSE 0) |-> Part(c, i)]

Nothing == [kind |-> "typing", category |-> "typing", chunks |-> 0]

Init ==
    /\ account \in Accounts \cup {NoAccount}
    /\ switched = FALSE
    /\ pc = "idle"
    /\ content = Nothing
    /\ token = NoAccount
    /\ textToken = NoAccount
    /\ uploader = NoAccount
    /\ attempts = 0
    /\ seen = <<>>
    /\ sent = <<>>
    /\ texts = <<>>

-----------------------------------------------------------------------------
(* The calls of the application. *)

\* send_text_with_context, and reply with a context.
SendText ==
    /\ pc = "idle"
    /\ content' \in {c \in Contents : c.kind = "text"}
    /\ pc' = "textauth"
    /\ UNCHANGED <<auth, tokens, attempts, seen, receipt>>

\* send_media_with_context, and reply_media with a context: any SendContent.
SendContent ==
    /\ pc = "idle"
    /\ content' \in {c \in Contents : c.kind # "typing"}
    /\ pc' = "auth"
    /\ UNCHANGED <<auth, tokens, attempts, seen, receipt>>

\* send_typing_with_context reads the token and asks for a ticket.
SendTyping ==
    /\ pc = "idle"
    /\ content' = Nothing
    /\ token' = account
    /\ pc' = IF account = NoAccount THEN "failed" ELSE "config"
    /\ UNCHANGED <<auth, textToken, uploader, attempts, seen, receipt>>

\* reply or reply_media to a message without a context.
ReplyWithoutContext ==
    /\ pc = "idle"
    /\ content' \in {c \in Contents : c.kind # "typing"}
    /\ pc' = "failed"
    /\ UNCHANGED <<auth, tokens, attempts, seen, receipt>>

-----------------------------------------------------------------------------
(* send_content *)

\* Where the send goes on when the caption's turn has come, or the item's.
CaptionOr(p) == IF content.chunks > 0 THEN "textauth" ELSE p

\* Mutant: every caption goes out before its media are uploaded.
AfterAuthCaptionFirst ==
    IF content.kind = "text" THEN "textauth" ELSE CaptionOr("url")

\* Images and videos are uploaded before their caption is sent, files after.
AfterAuth ==
    CASE content.kind = "text" -> "textauth"
      [] content.kind \in {"image", "video"} -> "url"
      [] OTHER -> CaptionOr("url")

\* get_auth; a file whose name is an image's or a video's is sent as one, by a call
\* of send_content that reads the token anew.
Auth ==
    /\ pc = "auth"
    /\ token' = account
    /\ IF account # NoAccount /\ content.kind = "file" /\ content.category # "file"
       THEN content' = [content EXCEPT !.kind = content.category] /\ pc' = "auth"
       ELSE /\ pc' = IF account = NoAccount THEN "failed" ELSE AfterAuth
            /\ UNCHANGED content
    /\ UNCHANGED <<auth, textToken, uploader, attempts, seen, receipt>>

\* cdn_upload: get_upload_url answers with a URL that can be used.  It is not
\* retried, rate-limited or not.
GetUploadUrl ==
    /\ pc = "url"
    /\ uploader' = token
    /\ attempts' = 0
    /\ pc' = "upload"
    /\ UNCHANGED <<auth, content, token, textToken, seen, receipt>>

\* An upload that succeeds: an image's or a video's caption is next, or the item.
Uploaded ==
    /\ pc = "upload"
    /\ attempts' = attempts + 1
    /\ pc' = IF content.kind = "file" THEN "item" ELSE CaptionOr("item")
    /\ UNCHANGED <<auth, content, tokens, seen, receipt>>

\* Mutant: a failed attempt starts the upload over, with a URL of its own.
UploadStartsOver ==
    /\ pc = "upload"
    /\ pc' = "url"
    /\ UNCHANGED <<auth, content, tokens, attempts, seen, receipt>>

\* Mutant: one attempt too many.
UploadRetriedOnceMore ==
    /\ pc = "upload"
    /\ attempts' = attempts + 1
    /\ pc' = IF attempts' <= MaxUploads THEN "upload" ELSE "failed"
    /\ UNCHANGED <<auth, content, tokens, seen, receipt>>

\* A server error, a network error or an answer without the header: again, unless
\* it was the last attempt.
UploadRetried ==
    /\ pc = "upload"
    /\ attempts' = attempts + 1
    /\ pc' = IF attempts' < MaxUploads THEN "upload" ELSE "failed"
    /\ UNCHANGED <<auth, content, tokens, seen, receipt>>

\* A client error of the CDN ends the upload at once, as no upload URL does.
UploadRefused ==
    /\ pc \in {"url", "upload"}
    /\ pc' = "failed"
    /\ UNCHANGED <<auth, content, tokens, attempts, seen, receipt>>

-----------------------------------------------------------------------------
(* Messages *)

\* send_text reads the token for all of its chunks.
TextAuth ==
    /\ pc = "textauth"
    /\ textToken' = account
    /\ pc' = IF account = NoAccount THEN "failed" ELSE "text"
    /\ UNCHANGED <<auth, content, token, uploader, attempts, seen, receipt>>

\* Mutant: every request is made with the token installed by then.
SenderNow(i) == account

\* Whose token the next request carries.
Sender(i) == IF i <= content.chunks THEN textToken ELSE token

NextPart == Len(sent) + 1
Sending ==
    \/ pc = "text" /\ NextPart <= content.chunks
    \/ pc = "item"

\* The server takes the message.
Take ==
    seen' = Append(seen, [part |-> Part(content, NextPart), account |-> Sender(NextPart)])

\* Mutant: the receipt of the item replaces that of the caption.
AcceptedForgets ==
    /\ Sending
    /\ Take
    /\ sent' = Append(IF pc = "item" THEN <<>> ELSE sent, NextPart)
    /\ texts' = IF pc = "text" THEN Append(texts, NextPart) ELSE texts
    /\ pc' = IF pc = "item" THEN "done" ELSE "text"
    /\ UNCHANGED <<auth, content, tokens, attempts>>

\* And its answer arrives, after rate-limited ones perhaps: the part is entered in
\* the receipt.
Accepted ==
    /\ Sending
    /\ Take
    /\ sent' = Append(sent, NextPart)
    /\ texts' = IF pc = "text" THEN Append(texts, NextPart) ELSE texts
    /\ pc' = IF pc = "item" THEN "done" ELSE "text"
    /\ UNCHANGED <<auth, content, tokens, attempts>>

\* The server takes the message, but the request times out: the send fails.
AnswerLost ==
    /\ Sending
    /\ Take
    /\ pc' = "failed"
    /\ UNCHANGED <<auth, content, tokens, attempts, receipt>>

\* The server does not take it, or the retries are spent: the send fails, and the
\* receipt of what went before is lost.
Refused ==
    /\ Sending \/ pc \in {"config", "typing"}
    /\ pc' = "failed"
    /\ UNCHANGED <<auth, content, tokens, attempts, seen, receipt>>

\* send_text returns: the end of the send, or the caption's.
EndText ==
    /\ pc = "text"
    /\ NextPart > content.chunks
    /\ pc' = CASE content.kind = "text" -> "done"
               [] content.kind = "file" -> "url"
               [] OTHER -> "item"
    /\ UNCHANGED <<auth, content, tokens, attempts, seen, receipt>>

\* The configuration has a ticket for the indicator, or none; the indicator is no
\* message.
Typing ==
    /\ pc \in {"config", "typing"}
    /\ pc' \in (IF pc = "config" THEN {"typing", "done"} ELSE {"done"})
    /\ UNCHANGED <<auth, content, tokens, attempts, seen, receipt>>

-----------------------------------------------------------------------------
\* Credentials are installed.
SetCredentials ==
    /\ account' \in Accounts \ {account}
    /\ switched' = (pc # "idle")
    /\ UNCHANGED <<pc, content, tokens, attempts, seen, receipt>>

Proceed ==
    \/ Auth
    \/ GetUploadUrl
    \/ Uploaded
    \/ UploadRetried
    \/ UploadRefused
    \/ TextAuth
    \/ Accepted
    \/ AnswerLost
    \/ Refused
    \/ EndText
    \/ Typing

Next ==
    \/ SendText
    \/ SendContent
    \/ SendTyping
    \/ ReplyWithoutContext
    \/ Proceed
    \/ SetCredentials

Spec == Init /\ [][Next]_vars

\* The caller awaits the send, and every request is answered or times out.
Fairness == WF_vars(Proceed)

FairSpec == Spec /\ Fairness

-----------------------------------------------------------------------------
(* Properties *)

\* Every variable stays in its domain; an upload is attempted MaxUploads times at
\* most.
TypeOK ==
    /\ account \in Accounts \cup {NoAccount}
    /\ switched \in BOOLEAN
    /\ pc \in Steps \cup Ended
    /\ content \in Contents
    /\ token \in Accounts \cup {NoAccount}
    /\ textToken \in Accounts \cup {NoAccount}
    /\ uploader \in Accounts \cup {NoAccount}
    /\ attempts \in 0..MaxUploads
    /\ seen \in Seq([part : [kind : Media \cup {"text"}, at : Nat], account : Accounts])
    /\ sent \in Seq(Nat)
    /\ texts \in Seq(Nat)

\* No part of an image or a video is seen before its upload has succeeded: a user
\* is not left with a caption for a picture that never comes because of the CDN.
CaptionAfterUpload ==
    content.category \in {"image", "video"} /\ seen # <<>> =>
        uploader # NoAccount /\ pc \notin {"url", "upload"}

\* Credentials that are installed in the middle of a send divide it nowhere but
\* between a caption and its media: chunks keep to one account, and an item goes
\* out under the account that uploaded it.
PartsOfOneAccount ==
    \A i, j \in 1..Len(seen) :
        /\ seen[i].part.kind = "text" /\ seen[j].part.kind = "text" =>
              seen[i].account = seen[j].account
        /\ seen[i].part.kind # "text" => seen[i].account = uploader
        /\ seen[i].account # seen[j].account => switched

\* The send as its caller sees it.
Outcome ==
    CASE pc = "idle" -> "none"
      [] pc = "done" -> "ok"
      [] pc = "failed" -> "failed"
      [] OTHER -> "pending"

Promise == INSTANCE Delivery WITH
    Plans <- {Plan(c) : c \in Contents},
    plan <- Plan(content),
    seen <- [i \in 1..Len(seen) |-> seen[i].part],
    outcome <- Outcome,
    told <- IF pc = "done" THEN [parts |-> sent, texts |-> {texts[i] : i \in 1..Len(texts)}]
            ELSE [parts |-> <<>>, texts |-> {}]

\* A send keeps the promise of Delivery: uploads, tokens and lost answers are steps
\* the caller does not see.
KeepsPromise == Promise!Spec

\* Every send returns: uploads are not repeated for ever.
SendEnds == pc \notin {"idle"} \cup Ended ~> pc \in Ended
=============================================================================
