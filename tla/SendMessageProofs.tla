------------------------- MODULE SendMessageProofs -------------------------
(***************************************************************************)
(* For any accounts, any number of chunks and of upload attempts: a send   *)
(* keeps to its accounts, uploads before it captions, and keeps the        *)
(* promise of Delivery.                                                    *)
(*                                                                         *)
(* The invariant says how far a send is at each of its steps (Reached),    *)
(* that what was taken and what is in the receipt are the parts up to      *)
(* there (Progress), and whose tokens they carried (Tokens).               *)
(***************************************************************************)
EXTENDS SendMessage, TLAPS

PlanLen(c) == c.chunks + IF HasItem(c) THEN 1 ELSE 0

-----------------------------------------------------------------------------
(* The inductive invariant *)

Progress ==
    /\ \A i \in 1..Len(seen) : seen[i].part = Part(content, i)
    /\ \A i \in 1..Len(sent) : sent[i] = i
    /\ \A i \in 1..Len(texts) : texts[i] = i
    /\ Len(texts) = IF Len(sent) <= content.chunks THEN Len(sent) ELSE content.chunks
    /\ pc # "failed" => Len(seen) = Len(sent)
    /\ Len(seen) <= PlanLen(content)

Reached ==
    /\ pc \in {"idle", "config", "typing"} => content = Nothing
    /\ pc \in {"idle", "auth", "textauth", "config", "typing"} => Len(seen) = 0
    /\ pc = "text" => Len(seen) <= content.chunks
    /\ pc \in {"url", "upload"} =>
          Len(seen) = IF content.kind = "file" THEN content.chunks ELSE 0
    /\ pc = "item" => Len(seen) = content.chunks
    /\ pc = "done" => Len(seen) = PlanLen(content)
    /\ pc \in {"url", "upload", "item"} => HasItem(content)
    /\ pc \in {"auth", "textauth", "text", "url", "upload", "item"} =>
          content.kind # "typing"
    /\ pc \in {"textauth", "text", "url", "upload", "item"} /\ content.kind = "file" =>
          content.category = "file"

Tokens ==
    /\ pc = "idle" =>
          /\ token = NoAccount /\ textToken = NoAccount /\ uploader = NoAccount
          /\ switched = FALSE
    /\ ~switched => token \in {NoAccount, account} /\ textToken \in {NoAccount, account}
                    /\ uploader \in {NoAccount, account}
    /\ pc \in {"url", "upload", "item"} => token # NoAccount
    /\ pc = "text" => textToken # NoAccount
    /\ pc \in {"upload", "item"} => uploader = token
    /\ pc \in {"textauth", "text"} /\ content.kind # "text" => token # NoAccount
    /\ pc \in {"textauth", "text"} /\ content.kind \in {"image", "video"} =>
          uploader = token
    /\ pc = "upload" => attempts < MaxUploads
    /\ \A i \in 1..Len(seen) :
          seen[i].account = IF i <= content.chunks THEN textToken ELSE uploader
    /\ content.category \in {"image", "video"} /\ Len(seen) # 0 => uploader # NoAccount

SendInv == TypeOK /\ Progress /\ Reached /\ Tokens

-----------------------------------------------------------------------------
(* Lemmas *)

\* What the four sets of contents have in common.
LEMMA ContentShape ==
    ASSUME NEW c \in Contents
    PROVE  /\ c.chunks \in Nat /\ c.chunks <= MaxChunks
           /\ c.kind = "text" => c.category = "text" /\ c.chunks > 0
           /\ c.kind = "typing" => c.category = "typing" /\ c.chunks = 0
           /\ c.kind \in {"image", "video"} => c.category = c.kind
           /\ c.kind = "file" => c.category \in Media
           /\ c.kind \in {"text", "typing", "image", "video", "file"}
           /\ HasItem(c) <=> c.kind \in Media
           /\ PlanLen(c) \in Nat
           /\ PlanLen(c) = c.chunks + IF HasItem(c) THEN 1 ELSE 0
  BY BoundsAssumption DEF Contents, Kinds, Media, HasItem, PlanLen

\* A file whose name is a picture's is sent as one.
LEMMA FileAsMedia ==
    ASSUME NEW c \in Contents, c.kind = "file", c.category # "file"
    PROVE  /\ [c EXCEPT !.kind = c.category] \in Contents
           /\ [c EXCEPT !.kind = c.category].chunks = c.chunks
           /\ [c EXCEPT !.kind = c.category].category = c.category
           /\ [c EXCEPT !.kind = c.category].kind = c.category
           /\ c.category \in {"image", "video"}
<1> DEFINE d == [c EXCEPT !.kind = c.category]
<1>1. c \in [kind : Kinds, category : Kinds, chunks : 0..MaxChunks]
  BY DEF Contents
<1>2. c.category \in {"image", "video"} /\ c.category \in Kinds
  BY DEF Contents, Kinds, Media
<1>3. d \in [kind : Kinds, category : Kinds, chunks : 0..MaxChunks]
  BY <1>1, <1>2
<1>4. d.kind = c.category /\ d.category = c.category /\ d.chunks = c.chunks
  BY <1>1
<1>5. d \in Contents
  BY <1>2, <1>3, <1>4 DEF Contents
<1>6. QED
  BY <1>2, <1>4, <1>5

LEMMA NothingIsContent == Nothing \in Contents /\ PlanLen(Nothing) = 0
  BY BoundsAssumption DEF Nothing, Contents, Kinds, Media, PlanLen, HasItem

\* A kind of a part is text or that of media.
LEMMA PartShape ==
    ASSUME NEW c \in Contents, NEW i \in Nat, i <= c.chunks \/ HasItem(c)
    PROVE  /\ Part(c, i) \in [kind : Media \cup {"text"}, at : Nat]
           /\ Part(c, i).kind = IF i <= c.chunks THEN "text" ELSE c.category
           /\ Part(c, i).kind = "text" <=> i <= c.chunks
  BY DEF Part, HasItem, Media

\* What the types of the state give.
LEMMA SendTypes ==
    ASSUME SendInv
    PROVE  /\ content \in Contents /\ Len(seen) \in Nat /\ Len(sent) \in Nat
           /\ Len(texts) \in Nat
           /\ attempts \in Nat /\ attempts <= MaxUploads
  BY BoundsAssumption DEF SendInv, TypeOK

\* The parts depend on the chunks and the category of a content, and on nothing else
\* of it.
LEMMA ProgressKept ==
    ASSUME SendInv, seen' = seen, sent' = sent, texts' = texts,
           content'.chunks = content.chunks, content'.category = content.category,
           pc' = "failed" \/ pc # "failed"
    PROVE  Progress'
  BY DEF SendInv, Progress, Part, PlanLen, HasItem

\* What is idle has sent nothing.
LEMMA IdleProgress ==
    ASSUME SendInv, seen' = seen, sent' = sent, texts' = texts, content' \in Contents,
           pc \in {"idle", "config", "typing"}
    PROVE  Progress'
<1>1. Len(seen) = 0 /\ Len(sent) = 0 /\ Len(texts) = 0
  BY SendTypes, NothingIsContent, ContentShape DEF SendInv, Progress, Reached, Nothing
<1>2. content'.chunks \in Nat /\ PlanLen(content') \in Nat
  BY ContentShape
<1>3. QED
  BY <1>1, <1>2 DEF Progress, PlanLen, HasItem

LEMMA SendInitInv == Init => SendInv
<1>1. SUFFICES ASSUME Init PROVE SendInv
  OBVIOUS
<1>2. TypeOK
  <2>1. 0 \in 0..MaxUploads
    BY BoundsAssumption
  <2>2. seen \in Seq([part : [kind : Media \cup {"text"}, at : Nat], account : Accounts])
    BY <1>1 DEF Init
  <2>3. sent \in Seq(Nat) /\ texts \in Seq(Nat)
    BY <1>1 DEF Init
  <2>4. switched \in BOOLEAN
    BY <1>1 DEF Init
  <2>5. QED
    BY <1>1, <2>1, <2>2, <2>3, <2>4, NothingIsContent DEF Init, TypeOK, Steps
<1>3. Progress
  BY <1>1, NothingIsContent DEF Init, Progress, Nothing
<1>4. Reached
  BY <1>1 DEF Init, Reached
<1>5. Tokens
  BY <1>1 DEF Init, Tokens
<1>6. QED
  BY <1>2, <1>3, <1>4, <1>5 DEF SendInv

-----------------------------------------------------------------------------
(* The steps *)

LEMMA SendTextInv == ASSUME SendInv, SendText PROVE SendInv'
<1>1. TypeOK'
  BY NothingIsContent, SendTypes DEF SendText, auth, tokens, receipt, Media, SendInv, TypeOK, Steps, Ended
<1>2. Progress'
  BY IdleProgress, NothingIsContent DEF SendText, auth, tokens, receipt, Media
<1>3. Reached'
  BY NothingIsContent, SendTypes, ContentShape DEF SendText, auth, tokens, receipt, Media, SendInv, Reached, Progress
<1>4. Tokens'
  BY NothingIsContent, SendTypes, ContentShape DEF SendText, auth, tokens, receipt, Media, SendInv, Tokens, Reached
<1>5. QED
  BY <1>1, <1>2, <1>3, <1>4 DEF SendInv

LEMMA SendContentInv == ASSUME SendInv, SendContent PROVE SendInv'
<1>1. TypeOK'
  BY NothingIsContent, SendTypes DEF SendContent, auth, tokens, receipt, Media, SendInv, TypeOK, Steps, Ended
<1>2. Progress'
  BY IdleProgress, NothingIsContent DEF SendContent, auth, tokens, receipt, Media
<1>3. Reached'
  BY NothingIsContent, SendTypes, ContentShape DEF SendContent, auth, tokens, receipt, Media, SendInv, Reached, Progress
<1>4. Tokens'
  BY NothingIsContent, SendTypes, ContentShape DEF SendContent, auth, tokens, receipt, Media, SendInv, Tokens, Reached
<1>5. QED
  BY <1>1, <1>2, <1>3, <1>4 DEF SendInv

LEMMA SendTypingInv == ASSUME SendInv, SendTyping PROVE SendInv'
<1>1. TypeOK'
  BY NothingIsContent, SendTypes DEF SendTyping, auth, tokens, receipt, Media, SendInv, TypeOK, Steps, Ended
<1>2. Progress'
  BY IdleProgress, NothingIsContent DEF SendTyping, auth, tokens, receipt, Media
<1>3. Reached'
  BY NothingIsContent, SendTypes, ContentShape DEF SendTyping, auth, tokens, receipt, Media, SendInv, Reached, Progress
<1>4. Tokens'
  BY NothingIsContent, SendTypes, ContentShape DEF SendTyping, auth, tokens, receipt, Media, SendInv, Tokens, Reached
<1>5. QED
  BY <1>1, <1>2, <1>3, <1>4 DEF SendInv

LEMMA ReplyWithoutContextInv == ASSUME SendInv, ReplyWithoutContext PROVE SendInv'
<1>1. TypeOK'
  BY NothingIsContent, SendTypes DEF ReplyWithoutContext, auth, tokens, receipt, Media, SendInv, TypeOK, Steps, Ended
<1>2. Progress'
  BY IdleProgress, NothingIsContent DEF ReplyWithoutContext, auth, tokens, receipt, Media
<1>3. Reached'
  BY NothingIsContent, SendTypes, ContentShape DEF ReplyWithoutContext, auth, tokens, receipt, Media, SendInv, Reached, Progress
<1>4. Tokens'
  BY NothingIsContent, SendTypes, ContentShape DEF ReplyWithoutContext, auth, tokens, receipt, Media, SendInv, Tokens, Reached
<1>5. QED
  BY <1>1, <1>2, <1>3, <1>4 DEF SendInv

LEMMA AuthInv == ASSUME SendInv, Auth PROVE SendInv'
<1> USE DEF Auth, auth, receipt
<1>1. /\ content' \in Contents
      /\ content'.chunks = content.chunks /\ content'.category = content.category
      /\ pc' \in {"auth", "failed", "textauth", "url"}
      /\ content'.kind # "typing"
      /\ pc' \in {"textauth", "url"} =>
            content' = content /\ token' # NoAccount
            /\ (content.kind = "file" => content.category = "file")
      /\ pc' = "url" => content.kind # "text"
      /\ pc' = "url" /\ content.kind = "file" => content.chunks = 0
      /\ pc' = "textauth" => content.kind \notin {"image", "video"}
  <2>1. CASE account # NoAccount /\ content.kind = "file" /\ content.category # "file"
    BY <2>1, SendTypes, FileAsMedia
  <2>2. CASE ~(account # NoAccount /\ content.kind = "file" /\ content.category # "file")
    <3>1. content' = content /\ content \in Contents /\ content.kind # "typing"
      BY <2>2, SendTypes DEF SendInv, Reached
    <3>2. CASE account = NoAccount
      BY <2>2, <3>1, <3>2
    <3>3. CASE account # NoAccount /\ content.kind = "text"
      BY <2>2, <3>1, <3>3 DEF AfterAuth
    <3>4. CASE account # NoAccount /\ content.kind \in {"image", "video"}
      BY <2>2, <3>1, <3>4 DEF AfterAuth
    <3>5. CASE account # NoAccount /\ content.kind = "file"
      BY <2>2, <3>1, <3>5, ContentShape DEF AfterAuth, CaptionOr
    <3>6. QED
      BY <3>1, <3>2, <3>3, <3>4, <3>5, ContentShape
  <2>3. QED
    BY <2>1, <2>2
<1>2. TypeOK'
  <2>1. pc' \in Steps \cup Ended
    BY <1>1 DEF Steps, Ended
  <2>2. QED
    BY <1>1, <2>1 DEF SendInv, TypeOK
<1>3. Progress'
  <2>1. pc # "failed"
    OBVIOUS
  <2>2. QED
    BY <1>1, <2>1, ProgressKept
<1>4. Len(seen) = 0 /\ seen' = seen
  BY DEF SendInv, Reached
<1>5. Reached'
  BY <1>1, <1>4, SendTypes, ContentShape DEF Reached, Media
<1>6. Tokens'
  <2>1. token' = account /\ account' = account /\ switched' = switched
        /\ textToken' = textToken /\ uploader' = uploader
    OBVIOUS
  <2>2. ~switched => textToken \in {NoAccount, account} /\ uploader \in {NoAccount, account}
    BY DEF SendInv, Tokens
  <2>3. QED
    BY <1>1, <1>4, <2>1, <2>2 DEF Tokens
<1>7. QED
  BY <1>2, <1>3, <1>5, <1>6 DEF SendInv

LEMMA GetUploadUrlInv == ASSUME SendInv, GetUploadUrl PROVE SendInv'
<1>1. TypeOK'
  BY BoundsAssumption, SendTypes DEF GetUploadUrl, auth, tokens, receipt, SendInv, TypeOK, Steps, Ended
<1>2. Progress'
  BY ProgressKept DEF GetUploadUrl, auth, tokens, receipt
<1>3. Reached'
  BY SendTypes, ContentShape DEF GetUploadUrl, auth, tokens, receipt, SendInv, Reached, Progress
<1>4. Tokens'
  <2>1. Len(seen) <= content.chunks
    BY SendTypes, ContentShape DEF GetUploadUrl, SendInv, Reached
  <2>2. \A i \in 1..Len(seen) : i <= content.chunks /\ seen[i].account = textToken
    <3>1. \A i \in 1..Len(seen) : i <= content.chunks
      BY <2>1, SendTypes, ContentShape
    <3>2. QED
      BY <3>1 DEF SendInv, Tokens
  <2>3. 0 < MaxUploads
    BY BoundsAssumption
  <2>4. token # NoAccount /\ (~switched => token \in {NoAccount, account}
                              /\ textToken \in {NoAccount, account})
    BY DEF GetUploadUrl, SendInv, Tokens
  <2>5. QED
    BY <2>2, <2>3, <2>4 DEF GetUploadUrl, auth, Tokens
<1>5. QED
  BY <1>1, <1>2, <1>3, <1>4 DEF SendInv

\* An attempt that is under way is one of MaxUploads.
LEMMA AttemptLeft ==
    ASSUME SendInv, pc = "upload"
    PROVE  attempts + 1 \in 0..MaxUploads
  BY SendTypes, BoundsAssumption DEF SendInv, Tokens

LEMMA UploadedInv == ASSUME SendInv, Uploaded PROVE SendInv'
<1>1. TypeOK'
  BY AttemptLeft, SendTypes DEF Uploaded, auth, tokens, receipt, CaptionOr, SendInv, TypeOK, Steps, Ended
<1>2. Progress'
  BY ProgressKept DEF Uploaded, auth, tokens, receipt, CaptionOr
<1>3. Reached'
  BY SendTypes, ContentShape DEF Uploaded, auth, tokens, receipt, CaptionOr, SendInv, Reached, Progress
<1>4. Tokens'
  BY SendTypes, ContentShape DEF Uploaded, auth, tokens, receipt, CaptionOr, SendInv, Tokens, Reached
<1>5. QED
  BY <1>1, <1>2, <1>3, <1>4 DEF SendInv

LEMMA UploadRetriedInv == ASSUME SendInv, UploadRetried PROVE SendInv'
<1>1. TypeOK'
  BY AttemptLeft, SendTypes DEF UploadRetried, auth, tokens, receipt, SendInv, TypeOK, Steps, Ended
<1>2. Progress'
  BY ProgressKept DEF UploadRetried, auth, tokens, receipt
<1>3. Reached'
  BY SendTypes, ContentShape DEF UploadRetried, auth, tokens, receipt, SendInv, Reached, Progress
<1>4. Tokens'
  BY SendTypes, ContentShape DEF UploadRetried, auth, tokens, receipt, SendInv, Tokens, Reached
<1>5. QED
  BY <1>1, <1>2, <1>3, <1>4 DEF SendInv

LEMMA UploadRefusedInv == ASSUME SendInv, UploadRefused PROVE SendInv'
<1>1. TypeOK'
  BY SendTypes DEF UploadRefused, auth, tokens, receipt, SendInv, TypeOK, Steps, Ended
<1>2. Progress'
  BY ProgressKept DEF UploadRefused, auth, tokens, receipt
<1>3. Reached'
  BY SendTypes, ContentShape DEF UploadRefused, auth, tokens, receipt, SendInv, Reached, Progress
<1>4. Tokens'
  BY SendTypes, ContentShape DEF UploadRefused, auth, tokens, receipt, SendInv, Tokens, Reached
<1>5. QED
  BY <1>1, <1>2, <1>3, <1>4 DEF SendInv

LEMMA TextAuthInv == ASSUME SendInv, TextAuth PROVE SendInv'
<1>1. TypeOK'
  BY SendTypes DEF TextAuth, auth, tokens, receipt, SendInv, TypeOK, Steps, Ended
<1>2. Progress'
  BY ProgressKept DEF TextAuth, auth, tokens, receipt
<1>3. Reached'
  BY SendTypes, ContentShape DEF TextAuth, auth, tokens, receipt, SendInv, Reached, Progress
<1>4. Tokens'
  BY SendTypes, ContentShape DEF TextAuth, auth, tokens, receipt, SendInv, Tokens, Reached
<1>5. QED
  BY <1>1, <1>2, <1>3, <1>4 DEF SendInv

\* The part that is next goes to the end of what was taken.
LEMMA Taken ==
    ASSUME SendInv, Sending
    PROVE  /\ NextPart = Len(seen) + 1 /\ Len(sent) = Len(seen)
           /\ NextPart \in Nat /\ NextPart <= PlanLen(content)
           /\ NextPart <= content.chunks \/ HasItem(content)
           /\ pc = "text" => NextPart <= content.chunks
           /\ pc = "item" => NextPart = content.chunks + 1 /\ NextPart = PlanLen(content)
           /\ Sender(NextPart) \in Accounts
           /\ Sender(NextPart) = IF NextPart <= content.chunks THEN textToken ELSE uploader
           /\ content.category \in {"image", "video"} => uploader # NoAccount
<1>1. CASE pc = "text" /\ NextPart <= content.chunks
  <2>1. /\ Len(sent) = Len(seen) /\ Len(seen) \in Nat
        /\ textToken \in Accounts /\ content.kind # "typing"
        /\ content.kind = "file" => content.category = "file"
        /\ content.kind \in {"image", "video"} => uploader # NoAccount
    BY <1>1, SendTypes DEF SendInv, TypeOK, Progress, Reached, Tokens
  <2>2. QED
    BY <1>1, <2>1, SendTypes, ContentShape DEF NextPart, Sender
<1>2. CASE pc = "item"
  <2>1. /\ Len(sent) = Len(seen) /\ Len(seen) = content.chunks
        /\ token \in Accounts /\ uploader = token /\ HasItem(content)
    BY <1>2 DEF SendInv, TypeOK, Progress, Reached, Tokens
  <2>2. NextPart = content.chunks + 1 /\ NextPart = PlanLen(content)
        /\ ~(NextPart <= content.chunks) /\ NextPart \in Nat
    BY <2>1, SendTypes, ContentShape DEF NextPart
  <2>3. token # NoAccount
    BY <2>1, NoAccountAssumption
  <2>4. Sender(NextPart) = token
    BY <2>2 DEF Sender
  <2>5. QED
    BY <1>2, <2>1, <2>2, <2>3, <2>4 DEF NextPart
<1>3. QED
  BY <1>1, <1>2 DEF Sending

LEMMA TakenSeen ==
    ASSUME SendInv, Sending, Take, UNCHANGED content
    PROVE  /\ seen' \in Seq([part : [kind : Media \cup {"text"}, at : Nat],
                             account : Accounts])
           /\ Len(seen') = NextPart
           /\ \A i \in 1..Len(seen') : seen'[i].part = Part(content, i)
           /\ \A i \in 1..Len(seen') :
                 (i < Len(seen') /\ seen'[i] = seen[i]) \/ i = NextPart
           /\ seen'[NextPart].account = Sender(NextPart)
<1> DEFINE x == [part |-> Part(content, NextPart), account |-> Sender(NextPart)]
           S == [part : [kind : Media \cup {"text"}, at : Nat], account : Accounts]
<1>1. x \in S
  BY Taken, PartShape, SendTypes
<1>2. seen \in Seq(S) /\ Len(seen) \in Nat /\ NextPart = Len(seen) + 1
  BY Taken DEF SendInv, TypeOK
<1>3. seen' = Append(seen, x)
  BY DEF Take
<1>4. x.part = Part(content, NextPart) /\ x.account = Sender(NextPart)
  OBVIOUS
<1>. HIDE DEF x, S
<1>5. /\ seen' \in Seq(S) /\ Len(seen') = NextPart
      /\ seen'[NextPart] = x
      /\ \A i \in 1..Len(seen) : seen'[i] = seen[i]
  BY <1>1, <1>2, <1>3
<1>6. \A i \in 1..Len(seen') : i \in 1..Len(seen) \/ i = NextPart
  BY <1>2, <1>5
<1>7. \A i \in 1..Len(seen) : seen[i].part = Part(content, i)
  BY DEF SendInv, Progress
<1>8. \A i \in 1..Len(seen') : seen'[i].part = Part(content, i)
  BY <1>4, <1>5, <1>6, <1>7
<1>9. \A i \in 1..Len(seen') :
         (i < Len(seen') /\ seen'[i] = seen[i]) \/ i = NextPart
  BY <1>2, <1>5, <1>6
<1>10. QED
  BY <1>4, <1>5, <1>8, <1>9 DEF S

\* What was taken keeps to its accounts.
LEMMA TakenTokens ==
    ASSUME SendInv, Sending, Take, UNCHANGED <<auth, content, tokens, attempts>>,
           pc' \in {"text", "done", "failed"}, pc' = "text" => pc = "text"
    PROVE  Tokens'
<1> USE DEF auth, tokens
<1>1. \A i \in 1..Len(seen') :
         seen'[i].account = IF i <= content.chunks THEN textToken ELSE uploader
  <2>1. SUFFICES ASSUME NEW i \in 1..Len(seen')
                 PROVE seen'[i].account =
                         IF i <= content.chunks THEN textToken ELSE uploader
    OBVIOUS
  <2>2. CASE i = NextPart
    BY <2>2, TakenSeen, Taken
  <2>3. CASE i # NextPart
    <3>1. i < Len(seen') /\ seen'[i] = seen[i]
      BY <2>1, <2>3, TakenSeen
    <3>2. i \in 1..Len(seen)
      BY <2>1, <3>1, TakenSeen, Taken, SendTypes
    <3>3. QED
      BY <3>1, <3>2 DEF SendInv, Tokens
  <2>4. QED
    BY <2>2, <2>3
<1>2. content.category \in {"image", "video"} => uploader # NoAccount
  BY Taken
<1>3. QED
  BY <1>1, <1>2 DEF SendInv, Tokens

LEMMA AnswerLostInv == ASSUME SendInv, AnswerLost PROVE SendInv'
<1> USE DEF AnswerLost, auth, tokens, receipt
<1>1. TypeOK'
  BY TakenSeen DEF SendInv, TypeOK, Ended
<1>2. Progress'
  <2>1. content' = content /\ sent' = sent /\ texts' = texts /\ pc' = "failed"
    OBVIOUS
  <2>2. Len(seen') <= PlanLen(content)
    BY Taken, TakenSeen
  <2>3. \A i \in 1..Len(seen') : seen'[i].part = Part(content, i)
    BY TakenSeen
  <2>4. QED
    BY <2>1, <2>2, <2>3 DEF SendInv, Progress, PlanLen, HasItem, Part
<1>3. Reached'
  BY DEF Reached
<1>4. Tokens'
  BY TakenTokens
<1>5. QED
  BY <1>1, <1>2, <1>3, <1>4 DEF SendInv

LEMMA AcceptedInv == ASSUME SendInv, Accepted PROVE SendInv'
<1> USE DEF Accepted, auth, tokens
<1>0. /\ NextPart \in Nat /\ Len(sent) \in Nat /\ NextPart = Len(sent) + 1
      /\ sent \in Seq(Nat) /\ texts \in Seq(Nat) /\ Len(texts) \in Nat
      /\ content' = content
      /\ content.chunks \in Nat /\ PlanLen(content) \in Nat
  BY Taken, SendTypes, ContentShape DEF SendInv, TypeOK, NextPart
<1>1. /\ sent' \in Seq(Nat) /\ Len(sent') = NextPart
      /\ \A i \in 1..Len(sent') : sent'[i] = i
  <2>1. sent' = Append(sent, NextPart)
    OBVIOUS
  <2>2. \A i \in 1..Len(sent) : sent[i] = i
    BY DEF SendInv, Progress
  <2>3. QED
    BY <1>0, <2>1, <2>2
<1>2. /\ texts' \in Seq(Nat)
      /\ Len(texts') = IF NextPart <= content.chunks THEN NextPart ELSE content.chunks
      /\ \A i \in 1..Len(texts') : texts'[i] = i
  <2>1. /\ \A i \in 1..Len(texts) : texts[i] = i
        /\ Len(texts) = IF Len(sent) <= content.chunks THEN Len(sent) ELSE content.chunks
    BY DEF SendInv, Progress
  <2>2. CASE pc = "text"
    <3>1. texts' = Append(texts, NextPart)
      BY <2>2
    <3>2. NextPart <= content.chunks
      BY <2>2, Taken
    <3>3. Len(texts) = Len(sent)
      BY <1>0, <2>1, <3>2
    <3>4. QED
      BY <1>0, <2>1, <3>1, <3>2, <3>3
  <2>3. CASE pc = "item"
    <3>1. texts' = texts
      BY <2>3
    <3>2. NextPart = content.chunks + 1
      BY <2>3, Taken
    <3>3. QED
      BY <1>0, <2>1, <3>1, <3>2
  <2>4. QED
    BY <2>2, <2>3 DEF Sending
<1>3. /\ pc' \in {"text", "done"} /\ (pc' = "text" <=> pc = "text")
      /\ pc' = "done" => NextPart = PlanLen(content)
      /\ pc' = "text" => NextPart <= content.chunks
  BY Taken DEF Sending
<1>4. TypeOK'
  BY <1>1, <1>2, <1>3, TakenSeen DEF SendInv, TypeOK, Steps, Ended
<1>5. Progress'
  <2>1. Len(seen') = NextPart /\ NextPart <= PlanLen(content)
        /\ \A i \in 1..Len(seen') : seen'[i].part = Part(content, i)
    BY Taken, TakenSeen
  <2>2. QED
    BY <1>0, <1>1, <1>2, <2>1 DEF Progress, PlanLen, HasItem, Part
<1>6. Reached'
  <2>1. Len(seen') = NextPart
    BY TakenSeen
  <2>2. content.kind # "typing" /\ (pc = "text" /\ content.kind = "file" => content.category = "file")
    BY DEF Sending, SendInv, Reached
  <2>3. QED
    BY <1>0, <1>3, <2>1, <2>2 DEF Reached, PlanLen, HasItem
<1>7. Tokens'
  BY <1>3, TakenTokens
<1>8. QED
  BY <1>4, <1>5, <1>6, <1>7 DEF SendInv

LEMMA RefusedInv == ASSUME SendInv, Refused PROVE SendInv'
<1>1. TypeOK'
  BY SendTypes DEF Refused, auth, tokens, receipt, Sending, SendInv, TypeOK, Steps, Ended
<1>2. Progress'
  BY ProgressKept DEF Refused, auth, tokens, receipt, Sending
<1>3. Reached'
  BY SendTypes, ContentShape DEF Refused, auth, tokens, receipt, Sending, SendInv, Reached, Progress
<1>4. Tokens'
  BY SendTypes, ContentShape DEF Refused, auth, tokens, receipt, Sending, SendInv, Tokens, Reached
<1>5. QED
  BY <1>1, <1>2, <1>3, <1>4 DEF SendInv

\* A text ends when all of its chunks were taken.
LEMMA TextEnds ==
    ASSUME SendInv, EndText
    PROVE  /\ Len(seen) = content.chunks
           /\ content.kind \in {"text", "file", "image", "video"}
           /\ content.kind = "file" => content.category = "file" /\ pc' = "url"
           /\ content.kind = "text" => pc' = "done" /\ PlanLen(content) = content.chunks
           /\ content.kind \in {"image", "video"} => pc' = "item"
           /\ content.kind # "text" => HasItem(content) /\ textToken # NoAccount
           /\ content.kind \in {"image", "video"} => token # NoAccount /\ uploader = token
<1>1. /\ Len(seen) <= content.chunks /\ Len(sent) = Len(seen)
      /\ content.kind # "typing"
      /\ content.kind = "file" => content.category = "file"
      /\ textToken # NoAccount
      /\ content.kind \in {"image", "video"} => token # NoAccount /\ uploader = token
  BY DEF SendInv, Progress, Reached, Tokens, EndText
<1>2. Len(seen) = content.chunks
  BY <1>1, SendTypes, ContentShape DEF EndText, NextPart
<1>3. QED
  BY <1>1, <1>2, SendTypes, ContentShape DEF EndText, Media

LEMMA EndTextInv == ASSUME SendInv, EndText PROVE SendInv'
<1>1. TypeOK'
  BY SendTypes DEF EndText, auth, tokens, receipt, NextPart, SendInv, TypeOK, Steps, Ended
<1>2. Progress'
  BY ProgressKept DEF EndText, auth, tokens, receipt, NextPart
<1>3. Reached'
  BY TextEnds, SendTypes, ContentShape DEF EndText, auth, tokens, receipt, Reached,
     PlanLen, HasItem, Media
<1>4. Tokens'
  BY TextEnds, SendTypes, ContentShape DEF EndText, auth, tokens, receipt, SendInv, Tokens
<1>5. QED
  BY <1>1, <1>2, <1>3, <1>4 DEF SendInv

LEMMA TypingInv == ASSUME SendInv, Typing PROVE SendInv'
<1>1. TypeOK'
  BY SendTypes DEF Typing, auth, tokens, receipt, SendInv, TypeOK, Steps, Ended
<1>2. Progress'
  BY ProgressKept DEF Typing, auth, tokens, receipt
<1>3. Reached'
  BY NothingIsContent, SendTypes, ContentShape DEF Typing, auth, tokens, receipt, SendInv,
     Reached
<1>4. Tokens'
  BY SendTypes, ContentShape DEF Typing, auth, tokens, receipt, SendInv, Tokens, Reached
<1>5. QED
  BY <1>1, <1>2, <1>3, <1>4 DEF SendInv

LEMMA SetCredentialsInv == ASSUME SendInv, SetCredentials PROVE SendInv'
<1>1. TypeOK'
  BY SendTypes DEF SetCredentials, auth, tokens, receipt, SendInv, TypeOK, Steps, Ended
<1>2. Progress'
  BY ProgressKept DEF SetCredentials, auth, tokens, receipt
<1>3. Reached'
  BY SendTypes, ContentShape DEF SetCredentials, auth, tokens, receipt, SendInv, Reached, Progress
<1>4. Tokens'
  BY SendTypes, ContentShape DEF SetCredentials, auth, tokens, receipt, SendInv, Tokens, Reached
<1>5. QED
  BY <1>1, <1>2, <1>3, <1>4 DEF SendInv

LEMMA SendStepInv == SendInv /\ [Next]_vars => SendInv'
<1>1. SUFFICES ASSUME SendInv, [Next]_vars PROVE SendInv'
  OBVIOUS
<1>2. CASE UNCHANGED vars
  BY <1>1, <1>2 DEF vars, SendInv, TypeOK, Progress, Reached, Tokens
<1>3. QED
  BY <1>1, <1>2, SendTextInv, SendContentInv, SendTypingInv, ReplyWithoutContextInv,
     AuthInv, GetUploadUrlInv, UploadedInv, UploadRetriedInv, UploadRefusedInv,
     TextAuthInv, AcceptedInv, AnswerLostInv, RefusedInv, EndTextInv, TypingInv,
     SetCredentialsInv DEF Next, Proceed

LEMMA SendInvariant == Spec => []SendInv
BY SendInitInv, SendStepInv, PTL DEF Spec

-----------------------------------------------------------------------------
(* The abstract specification *)

Parts(s) == [i \in 1..Len(s) |-> s[i].part]

\* A plan is a sequence of PlanLen parts; of nothing, the empty one.
LEMMA PlanShape ==
    ASSUME NEW c \in Contents
    PROVE  /\ DOMAIN Plan(c) = 1..PlanLen(c) /\ Len(Plan(c)) = PlanLen(c)
           /\ \A i \in 1..PlanLen(c) : Plan(c)[i] = Part(c, i)
           /\ Plan(c) \in {Plan(d) : d \in Contents}
<1>1. PlanLen(c) \in Nat
  BY ContentShape
<1>2. Plan(c) = [i \in 1..PlanLen(c) |-> Part(c, i)]
  BY DEF Plan, PlanLen
<1>3. QED
  BY <1>1, <1>2

\* The parts of what was taken are the beginning of the plan.
LEMMA PartsShape ==
    ASSUME SendInv
    PROVE  /\ Len(Parts(seen)) = Len(seen) /\ DOMAIN Parts(seen) = 1..Len(seen)
           /\ \A i \in 1..Len(seen) : Parts(seen)[i] = Part(content, i)
           /\ Len(seen) = PlanLen(content) => Parts(seen) = Plan(content)
           /\ Len(seen) = 0 => Parts(seen) = <<>>
<1>1. Len(seen) \in Nat
  BY SendTypes
<1>2. /\ Len(Parts(seen)) = Len(seen) /\ DOMAIN Parts(seen) = 1..Len(seen)
      /\ \A i \in 1..Len(seen) : Parts(seen)[i] = seen[i].part
  BY <1>1 DEF Parts
<1>3. \A i \in 1..Len(seen) : Parts(seen)[i] = Part(content, i)
  BY <1>2 DEF SendInv, Progress
<1>4. Parts(seen) = [i \in 1..Len(seen) |-> Part(content, i)]
  BY <1>3 DEF Parts, SendInv, Progress
<1>5. ASSUME Len(seen) = PlanLen(content) PROVE Parts(seen) = Plan(content)
  BY <1>4, <1>5 DEF Plan, PlanLen
<1>6. ASSUME Len(seen) = 0 PROVE Parts(seen) = <<>>
  BY <1>4, <1>6
<1>7. QED
  BY <1>2, <1>3, <1>5, <1>6

-----------------------------------------------------------------------------
(* Theorems *)

\* Every variable stays in its domain, and no upload is attempted too often.
THEOREM TypeCorrect == Spec => []TypeOK
<1>1. SendInv => TypeOK
  BY DEF SendInv
<1>2. QED
  BY <1>1, SendInvariant, PTL

\* No caption is seen before the picture it belongs to has been uploaded.
THEOREM CaptionAfterUploadHolds == Spec => []CaptionAfterUpload
<1>1. SendInv => CaptionAfterUpload
  <2>1. SUFFICES ASSUME SendInv, content.category \in {"image", "video"}, seen # <<>>
                 PROVE uploader # NoAccount /\ pc \notin {"url", "upload"}
    BY DEF CaptionAfterUpload
  <2>2. Len(seen) # 0
    BY <2>1 DEF SendInv, TypeOK
  <2>3. uploader # NoAccount
    BY <2>1, <2>2 DEF SendInv, Tokens
  <2>4. pc \in {"url", "upload"} => content.kind # "file"
    BY <2>1 DEF SendInv, Reached
  <2>5. pc \notin {"url", "upload"}
    BY <2>1, <2>2, <2>4 DEF SendInv, Reached
  <2>6. QED
    BY <2>3, <2>5
<1>2. QED
  BY <1>1, SendInvariant, PTL

\* A send is divided between accounts nowhere but between a caption and its media.
THEOREM PartsOfOneAccountHolds == Spec => []PartsOfOneAccount
<1>1. SendInv => PartsOfOneAccount
  <2>1. SUFFICES ASSUME SendInv, NEW i \in 1..Len(seen), NEW j \in 1..Len(seen)
                 PROVE /\ seen[i].part.kind = "text" /\ seen[j].part.kind = "text" =>
                             seen[i].account = seen[j].account
                       /\ seen[i].part.kind # "text" => seen[i].account = uploader
                       /\ seen[i].account # seen[j].account => switched
    BY DEF PartsOfOneAccount
  <2>2. \A k \in 1..Len(seen) :
           /\ seen[k].part.kind = "text" <=> k <= content.chunks
           /\ seen[k].account = IF k <= content.chunks THEN textToken ELSE uploader
           /\ seen[k].account \in Accounts
    <3>1. SUFFICES ASSUME NEW k \in 1..Len(seen)
                   PROVE  /\ seen[k].part.kind = "text" <=> k <= content.chunks
                          /\ seen[k].account = IF k <= content.chunks THEN textToken
                                               ELSE uploader
                          /\ seen[k].account \in Accounts
      OBVIOUS
    <3>2. k \in Nat /\ k <= Len(seen) /\ k <= PlanLen(content) /\ content \in Contents
      BY <2>1, SendTypes, ContentShape DEF SendInv, Progress
    <3>3. k <= content.chunks \/ HasItem(content)
      BY <3>2, ContentShape
    <3>4. seen[k].part = Part(content, k)
      BY <2>1 DEF SendInv, Progress
    <3>5. seen[k].account \in Accounts
      <4> DEFINE S == [part : [kind : Media \cup {"text"}, at : Nat], account : Accounts]
      <4>1. \A x \in S : x.account \in Accounts
        OBVIOUS
      <4>2. seen \in Seq(S)
        BY <2>1 DEF SendInv, TypeOK
      <4>. HIDE DEF S
      <4>3. seen[k] \in S
        BY <3>1, <4>2
      <4>4. QED
        BY <4>1, <4>3
    <3>6. QED
      BY <2>1, <3>2, <3>3, <3>4, <3>5, PartShape DEF SendInv, Tokens
  <2>3. ~switched => seen[i].account = account /\ seen[j].account = account
    BY <2>1, <2>2, NoAccountAssumption DEF SendInv, Tokens
  <2>4. QED
    BY <2>1, <2>2, <2>3, Zenon
<1>2. QED
  BY <1>1, SendInvariant, PTL

-----------------------------------------------------------------------------
(* The promise *)

Told == IF pc = "done" THEN [parts |-> sent, texts |-> {texts[i] : i \in 1..Len(texts)}]
        ELSE [parts |-> <<>>, texts |-> {}]

AllTold ==
    /\ Parts(seen) = Plan(content)
    /\ sent = [i \in DOMAIN Plan(content) |-> i]
    /\ {texts[i] : i \in 1..Len(texts)} =
          {i \in DOMAIN Plan(content) : Plan(content)[i].kind = "text"}

\* A send that is under way, before and after a step.
LEMMA PendingOutcome ==
    ASSUME SendInv, pc \notin {"idle", "done", "failed"}
    PROVE  Outcome = "pending" /\ Told = [parts |-> <<>>, texts |-> {}]
  BY DEF Outcome, Told

\* A success names every part, and which of them are texts.
LEMMA ToldAll == SendInv /\ pc = "done" => AllTold
<1>. SUFFICES ASSUME SendInv, pc = "done" PROVE AllTold
  OBVIOUS
<1>1. /\ Len(seen) = PlanLen(content) /\ Len(sent) = PlanLen(content)
      /\ sent \in Seq(Nat) /\ texts \in Seq(Nat)
      /\ \A i \in 1..Len(sent) : sent[i] = i
      /\ \A i \in 1..Len(texts) : texts[i] = i
      /\ Len(texts) = IF Len(sent) <= content.chunks THEN Len(sent) ELSE content.chunks
  BY DEF SendInv, TypeOK, Progress, Reached
<1>2. /\ content \in Contents /\ content.chunks \in Nat
      /\ PlanLen(content) \in Nat /\ content.chunks <= PlanLen(content)
      /\ HasItem(content) \/ PlanLen(content) = content.chunks
  BY SendTypes, ContentShape
<1>3. DOMAIN Plan(content) = 1..PlanLen(content)
      /\ \A i \in 1..PlanLen(content) : Plan(content)[i] = Part(content, i)
  BY <1>2, PlanShape
<1>4. Parts(seen) = Plan(content)
  BY <1>1, PartsShape
<1>5. sent = [i \in DOMAIN Plan(content) |-> i]
  <2>1. DOMAIN sent = 1..PlanLen(content) /\ sent = [i \in DOMAIN sent |-> sent[i]]
    BY <1>1
  <2>2. QED
    BY <1>1, <1>3, <2>1
<1>6. Len(texts) = content.chunks
  BY <1>1, <1>2
<1>7. {texts[i] : i \in 1..Len(texts)} = 1..content.chunks
  BY <1>1, <1>2, <1>6
<1>8. \A i \in 1..PlanLen(content) : Plan(content)[i].kind = "text" <=> i <= content.chunks
  <2>1. SUFFICES ASSUME NEW i \in 1..PlanLen(content)
                 PROVE  Plan(content)[i].kind = "text" <=> i <= content.chunks
    OBVIOUS
  <2>2. i \in Nat /\ (i <= content.chunks \/ HasItem(content))
    BY <1>2
  <2>3. QED
    BY <1>2, <1>3, <2>2, PartShape
<1>9. {i \in DOMAIN Plan(content) : Plan(content)[i].kind = "text"} = 1..content.chunks
  BY <1>2, <1>3, <1>8
<1>10. QED
  BY <1>4, <1>5, <1>7, <1>9 DEF AllTold

\* What keeps the plan and the parts, and is neither a call nor a return, is not
\* seen by the caller.
LEMMA Silent ==
    ASSUME SendInv, SendInv', seen' = seen, Plan(content') = Plan(content),
           pc \notin {"idle", "done", "failed"}, pc' \notin {"idle", "done"}
    PROVE  [Promise!Next]_(Promise!vars)
  BY DEF Promise!Next, Promise!vars, Promise!Fail, Outcome

\* A call.
LEMMA Called ==
    ASSUME SendInv, SendInv', seen' = seen, pc = "idle", pc' \notin {"idle", "done"}
    PROVE  Promise!Ask
<1>1. Plan(content') \in {Plan(c) : c \in Contents}
  BY DEF SendInv, TypeOK
<1>2. QED
  BY <1>1 DEF Promise!Ask, Outcome

\* A return with success.
LEMMA Returned ==
    ASSUME SendInv, SendInv', content' = content, pc \notin {"idle", "done", "failed"},
           pc' = "done", PlanLen(content) <= Len(seen) + 1
    PROVE  Promise!Succeed
<1>0. (pc = "done")'
  OBVIOUS
<1>1. AllTold'
  BY <1>0, ToldAll, PTL
<1>2. Len(Plan(content)) = PlanLen(content) /\ Len(Parts(seen)) = Len(seen)
  BY SendTypes, PlanShape, PartsShape
<1>3. QED
  BY <1>1, <1>2 DEF AllTold, Promise!Succeed, Promise!Positions, Promise!Texts, Outcome,
     Parts

\* The server takes the next part.
LEMMA Shown ==
    ASSUME SendInv, SendInv', Sending, Take, content' = content,
           pc' \notin {"idle", "done"}
    PROVE  Promise!Show
<1>1. /\ Len(Parts(seen)) = Len(seen) /\ Len(seen) \in Nat /\ NextPart = Len(seen) + 1
      /\ NextPart <= PlanLen(content) /\ PlanLen(content) \in Nat
      /\ Len(Plan(content)) = PlanLen(content)
      /\ Plan(content)[NextPart] = Part(content, NextPart)
  <2>1. Len(seen) \in Nat /\ content \in Contents /\ PlanLen(content) \in Nat
    BY SendTypes, ContentShape
  <2>2. NextPart = Len(seen) + 1 /\ NextPart <= PlanLen(content)
    BY Taken
  <2>3. Len(Parts(seen)) = Len(seen) /\ Len(Plan(content)) = PlanLen(content)
    BY <2>1, PartsShape, PlanShape
  <2>4. Plan(content)[NextPart] = Part(content, NextPart)
    BY <2>1, <2>2, PlanShape
  <2>5. QED
    BY <2>1, <2>2, <2>3, <2>4
<1>2. Parts(seen)' = Append(Parts(seen), Part(content, NextPart))
  <2>1. Len(seen') = Len(seen) + 1
    BY <1>1, TakenSeen
  <2>2. Parts(seen)' = [i \in 1..(Len(seen) + 1) |-> seen'[i].part]
    BY <2>1 DEF Parts
  <2>3. \A i \in 1..(Len(seen) + 1) : seen'[i].part = Part(content, i)
    BY <2>1, TakenSeen
  <2>4. Parts(seen) = [i \in 1..Len(seen) |-> Part(content, i)]
    BY DEF Parts, SendInv, Progress
  <2>5. Append(Parts(seen), Part(content, NextPart)) =
          [i \in 1..(Len(seen) + 1) |-> Part(content, i)]
    BY <1>1, <2>4
  <2>6. QED
    BY <2>2, <2>3, <2>5
<1>3. pc \notin {"idle", "done", "failed"}
  BY DEF Sending
<1>4. QED
  BY <1>1, <1>2, <1>3 DEF Promise!Show, Outcome, Parts

LEMMA PromiseInit == Init => Promise!Init
<1>1. SUFFICES ASSUME Init PROVE Promise!Init
  OBVIOUS
<1>2. SendInv /\ Len(seen) = 0
  BY <1>1, SendInitInv DEF Init
<1>3. Plan(content) = <<>>
  <2>1. content \in Contents /\ PlanLen(content) = 0
    BY <1>1, NothingIsContent DEF Init
  <2>2. DOMAIN Plan(content) = 1..0
    BY <2>1, PlanShape
  <2>3. Plan(content) = [i \in 1..0 |-> Part(content, i)]
    BY <2>1 DEF Plan, PlanLen
  <2>4. QED
    BY <2>3
<1>4. Parts(seen) = <<>>
  BY <1>2, PartsShape
<1>5. Outcome = "none"
  BY <1>1 DEF Init, Outcome
<1>6. pc # "done"
  BY <1>1 DEF Init
<1>7. QED
  BY <1>3, <1>4, <1>5, <1>6 DEF Promise!Init, Promise!NothingTold, Parts

LEMMA PromiseStep == SendInv /\ SendInv' /\ [Next]_vars => [Promise!Next]_(Promise!vars)
<1>1. SUFFICES ASSUME SendInv, SendInv', [Next]_vars
               PROVE  [Promise!Next]_(Promise!vars)
  OBVIOUS
<1>2. CASE SendText \/ SendContent \/ SendTyping \/ ReplyWithoutContext
  <2>1. seen' = seen /\ pc = "idle" /\ pc' \notin {"idle", "done"}
    BY <1>2 DEF SendText, SendContent, SendTyping, ReplyWithoutContext
  <2>2. QED
    BY <1>1, <2>1, Called DEF Promise!Next
<1>3. CASE Auth
  <2>1. content'.chunks = content.chunks /\ content'.category = content.category
        /\ pc' \notin {"idle", "done"}
    <3>1. CASE content' = content
      BY <1>3, <3>1 DEF Auth, AfterAuth, CaptionOr
    <3>2. CASE content' # content
      BY <1>1, <1>3, <3>2, SendTypes, FileAsMedia DEF Auth
    <3>3. QED
      BY <3>1, <3>2
  <2>2. Plan(content') = Plan(content)
    BY <2>1 DEF Plan, Part, HasItem
  <2>3. QED
    BY <1>1, <1>3, <2>1, <2>2, Silent DEF Auth
<1>4. CASE GetUploadUrl \/ Uploaded \/ UploadRetried \/ UploadRefused \/ TextAuth \/ Refused
  <2>1. /\ seen' = seen /\ content' = content
        /\ pc \notin {"idle", "done", "failed"} /\ pc' \notin {"idle", "done"}
    BY <1>4 DEF GetUploadUrl, Uploaded, UploadRetried, UploadRefused, TextAuth, Refused,
       Sending, CaptionOr
  <2>2. QED
    BY <1>1, <2>1, Silent
<1>5. CASE Accepted
  <2>1. CASE pc = "item"
    <3>1. PlanLen(content) = Len(seen) + 1
      BY <1>1, <1>5, <2>1, Taken DEF Accepted
    <3>2. content' = content /\ pc' = "done" /\ PlanLen(content) <= Len(seen) + 1
      BY <1>1, <1>5, <2>1, <3>1, SendTypes DEF Accepted
    <3>3. QED
      BY <1>1, <2>1, <3>2, Returned DEF Promise!Next
  <2>2. CASE pc # "item"
    <3>1. Sending /\ Take /\ content' = content /\ pc' = "text"
      BY <1>5, <2>2 DEF Accepted
    <3>2. QED
      BY <1>1, <3>1, Shown DEF Promise!Next
  <2>3. QED
    BY <2>1, <2>2
<1>6. CASE AnswerLost
  <2>1. Sending /\ Take /\ content' = content /\ pc' = "failed"
    BY <1>6 DEF AnswerLost
  <2>2. QED
    BY <1>1, <2>1, Shown DEF Promise!Next
<1>7. CASE EndText
  <2>1. content' = content /\ seen' = seen /\ pc = "text"
    BY <1>7 DEF EndText
  <2>2. CASE pc' = "done"
    <3>1. content.kind = "text"
      BY <1>1, <1>7, <2>2, TextEnds
    <3>2. PlanLen(content) = Len(seen)
      BY <1>1, <1>7, <3>1, TextEnds
    <3>3. PlanLen(content) <= Len(seen) + 1
      BY <1>1, <3>2, SendTypes
    <3>4. QED
      BY <1>1, <2>1, <2>2, <3>3, Returned DEF Promise!Next
  <2>3. CASE pc' # "done"
    <3>1. pc' # "idle"
      BY <1>7 DEF EndText
    <3>2. QED
      BY <1>1, <2>1, <2>3, <3>1, Silent
  <2>4. QED
    BY <2>2, <2>3
<1>8. CASE Typing
  <2>1. content' = content /\ seen' = seen /\ pc \in {"config", "typing"}
        /\ pc' \in {"typing", "done"}
    BY <1>8 DEF Typing
  <2>2. CASE pc' = "done"
    <3>1. PlanLen(content) = 0
      BY <1>1, <2>1, NothingIsContent DEF SendInv, Reached
    <3>2. PlanLen(content) <= Len(seen) + 1
      BY <1>1, <3>1, SendTypes
    <3>3. QED
      BY <1>1, <2>1, <2>2, <3>2, Returned DEF Promise!Next
  <2>3. CASE pc' = "typing"
    BY <1>1, <2>1, <2>3, Silent
  <2>4. QED
    BY <2>1, <2>2, <2>3
<1>9. CASE SetCredentials \/ UNCHANGED vars
  <2>1. content' = content /\ seen' = seen /\ pc' = pc /\ sent' = sent /\ texts' = texts
    BY <1>9 DEF SetCredentials, vars, receipt
  <2>2. QED
    BY <2>1 DEF Promise!vars, Outcome
<1>10. QED
  BY <1>1, <1>2, <1>3, <1>4, <1>5, <1>6, <1>7, <1>8, <1>9 DEF Next, Proceed

\* A send, its uploads, tokens and retries included, keeps the promise of Delivery: the
\* parts in their order, each at most once, and a success that names them all.
THEOREM KeepsPromiseHolds == Spec => KeepsPromise
<1>1. Spec => []SendInv
  BY SendInvariant
<1>2. QED
  BY <1>1, PromiseInit, PromiseStep, PTL DEF Spec, KeepsPromise, Promise!Spec

-----------------------------------------------------------------------------
(* Why a send returns: what is left of it. *)

\* What comes after the chunks, and after the upload.
AfterText ==
    CASE content.kind = "text" -> 0
      [] content.kind = "file" -> MaxUploads + 2
      [] OTHER -> 1
AfterUpload == IF content.kind = "file" THEN 1 ELSE content.chunks + 3

StepsLeft ==
    CASE pc = "auth" -> content.chunks + MaxUploads
                            + IF content.kind = content.category THEN 5 ELSE 6
      [] pc = "textauth" -> content.chunks + 2 + AfterText
      [] pc = "text" -> content.chunks - Len(sent) + 1 + AfterText
      [] pc = "url" -> MaxUploads + 1 + AfterUpload
      [] pc = "upload" -> MaxUploads - attempts + AfterUpload
      [] pc = "config" -> 2
      [] pc \in {"item", "typing"} -> 1
      [] OTHER -> 0

\* Every step of a send leaves less of it, and nothing but the call leaves more: a
\* send makes at most as many steps as it has chunks, MaxUploads and six.
SendAdvances ==
    [][\/ pc = "idle"
       \/ pc' = pc /\ StepsLeft' = StepsLeft
       \/ StepsLeft' < StepsLeft]_vars

\* What the numbers are that the steps are counted with.
LEMMA StepNumbers ==
    ASSUME SendInv
    PROVE  /\ content.chunks \in Nat /\ Len(sent) \in Nat /\ attempts \in Nat
           /\ MaxUploads \in Nat \ {0} /\ attempts <= MaxUploads
           /\ AfterText \in Nat /\ AfterUpload \in Nat
           /\ content.kind \in {"text", "typing", "image", "video", "file"}
           /\ content.kind # "file" => content.kind = content.category
           /\ pc = "text" => Len(sent) <= content.chunks
<1>1. /\ content \in Contents /\ content.chunks \in Nat /\ MaxUploads \in Nat \ {0}
      /\ content.kind \in {"text", "typing", "image", "video", "file"}
      /\ content.kind # "file" => content.kind = content.category
  BY SendTypes, ContentShape, BoundsAssumption
<1>2. pc = "text" => Len(sent) <= content.chunks
  BY DEF SendInv, Progress, Reached
<1> QED
  BY <1>1, <1>2, SendTypes DEF AfterText, AfterUpload

LEMMA ProceedAdvances ==
    ASSUME SendInv, SendInv', Proceed
    PROVE  StepsLeft' < StepsLeft
<1>1. CASE Auth
  <2>1. pc = "auth" /\ content'.chunks = content.chunks
    <3>1. CASE content' = content
      BY <1>1, <3>1 DEF Auth
    <3>2. CASE content' # content
      BY <1>1, <3>2, SendTypes, FileAsMedia DEF Auth
    <3> QED
      BY <3>1, <3>2
  <2>2. CASE pc' = "auth"
    <3>1. content.kind # content.category /\ content'.kind = content'.category
      BY <1>1, <2>2, SendTypes, FileAsMedia DEF Auth, AfterAuth, CaptionOr
    <3> QED
      BY <2>1, <2>2, <3>1, StepNumbers DEF StepsLeft
  <2>3. CASE pc' # "auth"
    <3>1. content' = content /\ pc' \in {"failed", "textauth", "url"}
          /\ (pc' = "textauth" => content.kind \notin {"image", "video"})
      BY <1>1, <2>3 DEF Auth, AfterAuth, CaptionOr
    <3>2. content.kind # "typing"
      BY <2>1 DEF SendInv, Reached
    <3>3. CASE pc' = "failed"
      BY <2>1, <3>1, <3>3, StepNumbers DEF StepsLeft
    <3>4. CASE pc' = "textauth"
      BY <2>1, <3>1, <3>2, <3>4, StepNumbers DEF StepsLeft, AfterText
    <3>5. CASE pc' = "url"
      BY <2>1, <3>1, <3>2, <3>5, StepNumbers DEF StepsLeft, AfterUpload
    <3> QED
      BY <3>1, <3>3, <3>4, <3>5
  <2> QED
    BY <2>2, <2>3
<1>2. CASE GetUploadUrl
  BY <1>2, StepNumbers DEF GetUploadUrl, StepsLeft, AfterUpload
<1>3. CASE Uploaded
  <2>1. pc = "upload" /\ content' = content /\ attempts < MaxUploads
    BY <1>3 DEF Uploaded, SendInv, Tokens
  <2>2. pc' \in {"item", "textauth"} /\ (pc' = "textauth" => content.kind # "file")
    BY <1>3 DEF Uploaded, CaptionOr
  <2>3. content.kind \notin {"text", "typing"}
    BY <2>1, SendTypes, ContentShape DEF SendInv, Reached, Media
  <2>4. CASE pc' = "item"
    BY <2>1, <2>4, StepNumbers DEF StepsLeft, AfterUpload
  <2>5. CASE pc' = "textauth"
    BY <2>1, <2>2, <2>3, <2>5, StepNumbers DEF StepsLeft, AfterUpload, AfterText
  <2> QED
    BY <2>2, <2>4, <2>5
<1>4. CASE UploadRetried
  <2>1. /\ pc = "upload" /\ content' = content /\ attempts < MaxUploads
        /\ attempts' = attempts + 1 /\ pc' \in {"upload", "failed"}
    BY <1>4 DEF UploadRetried, SendInv, Tokens
  <2> QED
    BY <2>1, StepNumbers DEF StepsLeft, AfterUpload
<1>5. CASE UploadRefused
  <2>1. pc \in {"url", "upload"} /\ pc' = "failed" /\ (pc = "upload" => attempts < MaxUploads)
    BY <1>5 DEF UploadRefused, SendInv, Tokens
  <2> QED
    BY <2>1, StepNumbers DEF StepsLeft
<1>6. CASE TextAuth
  <2>1. /\ pc = "textauth" /\ content' = content /\ pc' \in {"failed", "text"}
        /\ sent' = sent
    BY <1>6 DEF TextAuth, receipt
  <2>2. AfterText' = AfterText
    BY <2>1 DEF AfterText
  <2>3. CASE pc' = "failed"
    BY <2>1, <2>3, StepNumbers DEF StepsLeft
  <2>4. CASE pc' = "text"
    BY <2>1, <2>2, <2>4, StepNumbers DEF StepsLeft
  <2> QED
    BY <2>1, <2>3, <2>4
<1>7. CASE Accepted
  <2>1. CASE pc = "item"
    BY <1>7, <2>1 DEF Accepted, StepsLeft
  <2>2. CASE pc = "text"
    <3>1. /\ content' = content /\ pc' = "text" /\ Len(sent') = Len(sent) + 1
          /\ Len(sent) + 1 <= content.chunks
      BY <1>7, <2>2, SendTypes DEF Accepted, Sending, NextPart, SendInv, TypeOK
    <3> QED
      BY <2>2, <3>1, StepNumbers DEF StepsLeft, AfterText
  <2> QED
    BY <1>7, <2>1, <2>2 DEF Accepted, Sending
<1>8. CASE AnswerLost \/ Refused
  <2>1. pc \in {"text", "item", "config", "typing"} /\ pc' = "failed"
    BY <1>8 DEF AnswerLost, Refused, Sending
  <2> QED
    BY <2>1, StepNumbers DEF StepsLeft
<1>9. CASE EndText
  <2>1. /\ pc = "text" /\ content' = content /\ content.kind \in {"text", "file", "image", "video"}
        /\ pc' = CASE content.kind = "text" -> "done"
                   [] content.kind = "file" -> "url"
                   [] OTHER -> "item"
    BY <1>9, TextEnds DEF EndText
  <2> QED
    BY <2>1, StepNumbers DEF StepsLeft, AfterText, AfterUpload
<1>10. CASE Typing
  BY <1>10 DEF Typing, StepsLeft
<1> QED
  BY <1>1, <1>2, <1>3, <1>4, <1>5, <1>6, <1>7, <1>8, <1>9, <1>10 DEF Proceed

\* send_content, send_text, cdn_upload and upload_to_cdn: no send goes on for ever,
\* whatever the servers answer and whichever credentials are installed meanwhile;
\* that its steps are taken is the fairness of the scheduler.
THEOREM SendAdvancesHolds == Spec => SendAdvances
<1> DEFINE Advance == \/ pc = "idle"
                      \/ pc' = pc /\ StepsLeft' = StepsLeft
                      \/ StepsLeft' < StepsLeft
<1>1. SendInv /\ SendInv' /\ [Next]_vars => [Advance]_vars
  <2> SUFFICES ASSUME SendInv, SendInv', [Next]_vars PROVE Advance
    OBVIOUS
  <2>1. CASE SendText \/ SendContent \/ SendTyping \/ ReplyWithoutContext
    BY <2>1 DEF SendText, SendContent, SendTyping, ReplyWithoutContext
  <2>2. CASE Proceed
    BY <2>2, ProceedAdvances
  <2>3. CASE SetCredentials \/ UNCHANGED vars
    BY <2>3 DEF SetCredentials, vars, receipt, StepsLeft, AfterText, AfterUpload
  <2> QED
    BY <2>1, <2>2, <2>3 DEF Next
<1> QED
  BY <1>1, SendInvariant, PTL DEF Spec, SendAdvances

-----------------------------------------------------------------------------
(* What a user has seen. *)

\* The server has taken one part more than was answered at most, and that only of
\* a send that failed.
InDoubt ==
    /\ Len(seen) \in {Len(sent), Len(sent) + 1}
    /\ pc # "failed" => Len(seen) = Len(sent)

\* The parts that were seen are the first of the plan, in their order and each once;
\* a receipt says of each and of nothing else; and when a send failed, all it answered
\* for were seen and at most one part more.
SeenAsPlanned ==
    /\ Len(seen) <= Len(Plan(content))
    /\ \A i \in 1..Len(seen) : seen[i].part = Plan(content)[i]
    /\ pc = "done" => AllTold
    /\ InDoubt

LEMMA InDoubtStep ==
    ASSUME SendInv, SendInv', InDoubt, [Next]_vars
    PROVE  InDoubt'
<1>1. CASE Accepted
  <2>1. Len(seen') = Len(sent') /\ pc # "failed"
    <3>1. pc' # "failed"
      BY <1>1 DEF Accepted
    <3> QED
      BY <1>1, <3>1 DEF SendInv, Progress, Accepted, Sending
  <2> QED
    BY <2>1 DEF InDoubt
<1>2. CASE AnswerLost
  <2>1. sent' = sent /\ pc' = "failed"
    BY <1>2 DEF AnswerLost, receipt
  <2>2. Len(seen') = NextPart
    BY <1>2, TakenSeen DEF AnswerLost
  <2> QED
    BY <2>1, <2>2 DEF InDoubt, NextPart
<1>3. CASE ~Accepted /\ ~AnswerLost
  <2>1. seen' = seen /\ sent' = sent /\ (pc = "failed" => pc' = "failed")
    BY <1>3 DEF Next, Proceed, SendText, SendContent, SendTyping, ReplyWithoutContext,
                Auth, GetUploadUrl, Uploaded, UploadRetried, UploadRefused, TextAuth,
                Refused, EndText, Typing, SetCredentials, Sending, receipt, vars
  <2>2. pc' # "failed" => Len(seen') = Len(sent')
    BY DEF SendInv, Progress
  <2> QED
    BY <2>1, <2>2 DEF InDoubt
<1> QED
  BY <1>1, <1>2, <1>3

\* send_text, send_media and their callers: nothing is shown out of its order or
\* twice, and an error leaves no doubt but of the last part.
THEOREM SeenAsPlannedHolds == Spec => []SeenAsPlanned
<1>1. Init => InDoubt
  BY DEF Init, InDoubt
<1>2. SendInv /\ InDoubt => SeenAsPlanned
  <2> SUFFICES ASSUME SendInv, InDoubt PROVE SeenAsPlanned
    OBVIOUS
  <2>1. /\ Len(Plan(content)) = PlanLen(content)
        /\ \A i \in 1..PlanLen(content) : Plan(content)[i] = Part(content, i)
        /\ PlanLen(content) \in Nat /\ Len(seen) \in Nat
    BY SendTypes, ContentShape, PlanShape
  <2>2. Len(seen) <= PlanLen(content) /\ \A i \in 1..Len(seen) : seen[i].part = Part(content, i)
    BY DEF SendInv, Progress
  <2> QED
    BY <2>1, <2>2, ToldAll DEF SeenAsPlanned
<1> QED
  BY <1>1, <1>2, InDoubtStep, SendInvariant, PTL DEF Spec
=============================================================================
