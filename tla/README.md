# A TLA+ verification of wechat-ilink

`wechat-ilink` is an asynchronous client of the WeChat iLink protocol. It keeps
nothing durable: the application owns credentials, contexts and the polling
cursor, and the client promises events in an order that makes that possible.
This directory models the client's own logic (`src/src/*.rs`), checks it with TLC
on small instances and proves its main safety properties with TLAPS for every
instance. Line numbers are those of `src/src/bot.rs` unless another file is named.

## Inventory

| component | state | operations | what is hard |
|---|---|---|---|
| Polling loop and event stream (`run_loop`, `events_from_cursor`, `stop`, `AbortOnDrop`) | the loop's cursor and retry delay, the `stopped` flag, a broadcast channel of 256 events, the stream's receiver and task handle | open a stream (subscribe, spawn), poll, emit a batch, report and sleep, end on expiry or stop, take the next item, drop the stream | the loop and the reader run concurrently; the channel overwrites; the select is biased; a drop only requests the abort |
| Application contract (README "Core model", both examples) | durable store of what was processed, durable cursor | handle an event, save a cursor, leave, reopen, crash | crash between processing and saving |
| Rate-limit policy (`retry_rate_limited`, `record_successful_message_send`, `reset_account_rate_limit`) | per account: `next_allowed_at`, `sent_at`; one `Notify` | admit, send, defer, wait, count, reset | tasks on several workers, clocks read before the mutex, lost and foreign notifications |
| Context reminders (`observe_context_for_interaction`, `emit_due_context_interaction_requests`) | per context: observed, expires, reminded | observe, remind, forget | times relative to observation, depends on successful polls |
| Credential store and QR login (`set_credentials`, `login_qr`, `get_auth`, `account_key`) | credentials and base URL behind two locks, QR refresh count, pending verify code | install, log in, read for a request or an attribution | two locks in two orders, an account that changes between an answer and its attribution |
| Sending (`send_text`, `send_content`, `cdn_upload`) | none shared; the receipt under construction | chunk and send, upload, caption, retry the upload | a failure in the middle |
| Protocol client (`protocol.rs`, `error.rs`) | HTTP client and options | one request per call | what an answer is taken for (timeouts, codes, unusable bodies) |
| Text chunking (`chunk_text`) | none | cut a text | character boundaries, preferred cuts, progress |
| Markdown filter (`markdown_filter.rs`) | buffer, fence, start of line, inline state | feed, flush | input in pieces |
| Wire messages and identity (`types.rs`) | none | parse, derive ids, quote | which message a reply quotes |
| Download and encryption (`cdn.rs`, `crypto.rs`) | none | choose a key, decrypt, pad | key formats, padding, announced sizes |

The components meet in `WechatIlinkClient` (343-354): the loop, the senders and
the login share its credentials, its rate-limit and context states and its event
channel; the loop resets the rate limits that the senders fill, and both emit to
the channel that the application's stream reads.

What makes each correct: **stream** - nothing is skipped, nothing that the saved
cursor covers is replayed, order is kept, streams end when they must; **rate
limit** - bounded retries, a backoff that holds, a request for interaction that is
not missed, calls that return; **reminders** - one reminder per observed context,
in time; **login** - credentials and URL of one login, bounded QR refreshes;
**sending** - a receipt accounts for all that was delivered; **pure algorithms** -
agreement with a reference definition (chunks concatenate to the text, the filter
keeps the words and, fed whole lines, does not depend on their number, padding
round-trips).

## Modules

| module | content |
|---|---|
| `DurableInbox` | the abstract promise of the stream: a log, a store, a saved cursor; at least once, never skipped |
| `UpdatesStream` | loop, channel, stream, application and server; implements `DurableInbox` |
| `RateLimit` | sending tasks, per-account backoff and counters, the shared notification, the clock |
| `QrLogin` | `login_qr` streams against `set_credentials`: QR codes, statuses, verification codes, the two locks |
| `ContextReminder` | several loops that observe contexts and remind of them, the wall clock, accounts that change under a poll |
| `Delivery` | the abstract promise of a send: parts in order, each at most once, a success names them all |
| `SendMessage` | one send: tokens, upload attempts, caption, chunks, lost answers; implements `Delivery` |
| `OutgoingText` | `chunk_text`, one step for one pass of its loop |
| `MarkdownFilter` | `StreamingMarkdownFilter`: what one pass of its loop makes of a record of its state |
| `TextFilter` | `feed`, `flush` and `filter_markdown`: a text that comes in any pieces, one step for one pass |
| `StreamedFilter` | a text that is fed line by line and one that is fed at once: a refinement mapping from `TextFilter` to itself |
| `MediaFormat` | padding, blocks, the forms of a key, which key a download uses |
| `WireMessages` | `from_wire`, quotes, the ids of a receipt |
| `ApiAnswers` | what `api_post`, `get_updates` and `api_error` make of an answer |
| `BotAgent` | `sanitize_bot_agent`, one step for one word or comment |
| `Exchanges` | media, quotes and answers over the wire and back, from `MediaFormat`, `WireMessages`, `ApiAnswers` |
| `Payloads` | composes `OutgoingText`, `TextFilter`, `Exchanges` and `BotAgent`: one input is chosen, and treated |
| `...Proofs` | the inductive invariants and theorems about `UpdatesStream`, `RateLimit`, `QrLogin`, `ContextReminder`, `SendMessage`, `TextFilter`, `Exchanges`; `PayloadsProofs` about `OutgoingText`, `BotAgent` and the whole of `Payloads` |
| `MC...` | instances and inputs for TLC |

Operators named after a property or an action with a comment that begins with
"Mutant:" are altered forms of the definition below them, which break a property;
nothing refers to them.

### UpdatesStream and the code

| model | code |
|---|---|
| `pc[l]` | where `run_loop` of task `l` is (767-857) |
| `cursor[l]`, `at[l]` | `cursor`, and the iteration over `updates.msgs` (801) |
| `queue`, `lagged` | the broadcast channel as the stream's receiver sees it (575, 600-608) |
| `owner`, `stream` | the task the stream holds and aborts; closed, open or ended |
| `hand`, `store`, `saved` | the item the application took, what it has processed, the cursor it saved |
| `log`, `expired` | the server's messages and session; a cursor is a position in `log` |
| `Begin` ... `NotifyStopped`, `AbortLands` | the steps of `run_loop`, in its order; one event per step, so the reader runs between any two |
| `EmitInteraction` | reminders and threshold events, which take room in the same channel, at any time |
| `EventsFromCursor`, `StreamNext`, `DropStream` | `events_from_cursor` (571-612) and `AbortOnDrop` (1294-1300) |
| `HandleItem`, `LeaveOnItem`, `LeaveEarly`, `Crash` | the event loop of the README and the examples, and how it may end |

A loop is aborted at once where it awaits the network, a timer or the server; a
loop that is emitting may be running on another worker, so it goes on until
`AbortLands` or the end of its batch. `AwaitsAbort` says whether the application
opens the next stream only when the dropped loop is gone; nothing in the API lets
it wait for that, and the `reopen_overlap` run shows what happens when it does not.

Abstracted: message contents, account keys, delays, and what `notify_start`,
`notify_stop` and the log say. An answer with messages always has a newer cursor;
an answer that cannot be used is an answer without messages.

### RateLimit and the code

| model | code |
|---|---|
| `backoff[a]` | time left until `next_allowed_at`; 0 for none or past, which the code treats alike |
| `sent[a]` | ages of `sent_at`, in the order they were pushed |
| `key[s]`, `retries[s]`, `timer[s]`, `since[s]` | a task's account key, retries, time left of its `timeout`, age of the clock it read before the mutex |
| `Call` ... `TimeOut` | `retry_rate_limited` and its helpers (859-930), one step per await or mutex; `Return` drops its locals |
| `ReadKey`, `ReadClock`, `Count` | `record_successful_message_send` (994-1030) |
| `UserMessage`, `Reset`, `NotifyWaiters` | the loop's reset of an account (792-805, 932-942) |
| `warned[a]` | history: interaction requested since the account's user last wrote |

The mutex is released before `notify_waiters`, so they are two steps. An empty
account key (credentials that name neither account nor user) is `NoAccount`: the
code then neither defers, waits nor counts, and retries at once. Instants are kept
relative to now so that the states are finitely many without a bound on time.

### QrLogin and the code

| model | code |
|---|---|
| `baseUrl`, `creds` | the client's two locks (344-345) |
| `pc`, `base`, `qr`, `status`, `host`, `pending` | the locals of the stream `login_qr` returns (417-566): place, `base_url`, `qr_refresh_count`, `last_status`, `current_poll_base_url`, `pending_verify_code`; the last two as the number of the QR code they were set for |
| `answer`, `seen` | what the server last answered for this QR code, what the application was last told of it |
| `SetBaseUrl`, `SetCreds`, `DropSetter` | `set_credentials` (406-411), and a call that is dropped where it awaits the second lock |
| `Begin`, `GiveUp`, `ShowQr`, `Reset`, `FetchFails` | the outer loop's head |
| `Answer`, `PollTimesOut`, `PollFails` | `poll_qr_status` (`protocol.rs`); a timeout is the status "wait" |
| `AskForCode`, `ProvideCode`, `DeclineCode`, `UsedUp`, `Refused`, `Confirm`, `InstallBaseUrl`, `Redirect`, `Scanned`, `KeepPolling` | the arms of the status match, in its order; `Confirm` and `InstallBaseUrl` are the two writes (539-540) |
| `Drop` | the application drops the stream where it yields or awaits, between the two writes too |
| `disturbed`, `torn` | history: writers between their writes that another one overlapped; the last writer was one of them, or was dropped half-way |

### ContextReminder and the code

| model | code |
|---|---|
| `tracked`, `left`, `reminded` | `context_refresh_states`: its keys, `expires_at` less now, `reminded` |
| `Request` ... `PollSucceeds`, `Attribute` | the loop's request with the token it read (784-790) and `account_key` read after the answer (792) |
| `ReadClock`, `Observe`, `FinishBatch`, `EmitDue` | `observe_context_for_interaction` and `emit_due_context_interaction_requests` (944-992), the clock read before the mutex |
| `polled`, `key` | the account of the request's token, and the one the batch is attributed to |
| `told` | history: reminders since the last observation |
| `SetCredentials`, `Tick`, `SetBack` | other credentials, time, and a wall clock that is set back |

Times are kept relative to now; what has expired for longer than any reading of the
clock can be old is all alike, so time itself is unbounded.

### SendMessage and the code

| model | code |
|---|---|
| `SendText`, `SendContent`, `SendTyping`, `ReplyWithoutContext` | `send_text_with_context`, `send_media_with_context`, `send_typing_with_context`, `reply`, `reply_media` |
| `Auth`, `GetUploadUrl`, `Uploaded`, `UploadRetried`, `UploadRefused` | `send_content` (1039-1138), `cdn_upload`, `upload_to_cdn` (`protocol.rs`) |
| `TextAuth`, `Accepted`, `AnswerLost`, `Refused`, `EndText` | `send_text` (1217-1252) and the item's message: one step for each chunk and its answer |
| `token`, `textToken`, `uploader` | the three readings of the credentials |
| `seen` | what the server took, whether or not its answer arrived |

A rate-limited request is repeated or given up as `RateLimit` models; here it is
sent or not. A part is a chunk or the media item.

### Payloads and the code

A text is cut by the steps of `OutgoingText` (`ChunkText`), one for a pass of
`chunk_text`'s loop, and filtered by those of `TextFilter` (`FilterText`): `cuts` are
the places where the text is cut into pieces (none for `filter_markdown`, any for a
caller of `feed`, as the code's tests are), `Feed` appends the next piece
(`markdown_filter.rs` 35), `Pass` is a pass of `pump`'s loop that goes on (46-69),
`BeginFlush` the call of `flush` (40), `EndFlush` its end, where what is left of an
inline is put out (71-80). `PumpFence`, `PumpStart`, `PumpBody` and `PumpInline` are the code's
functions; `Scan` says in closed form where its byte-by-byte loops stop (runs of the
same mark are passed over two by two), and `Kept` what `extract_table_row` keeps of a
row. An agent's name is sanitized by the steps of `BotAgent` (`NameAgent`): the code
goes three times over its words, to make tokens of them (`protocol.rs` 448-465), to
accept products with the comments behind them (467-490), and to put out what fits
(495-504); each loop only appends, and reads what the one before it has made in order,
so one step takes a token (`TakeComment`, `TakeWord`) and puts out the product that it
ends, and `EndAgent` does so for the last one. `pending` is `pending_product`, and
`full` says that the third loop has stopped. Every other step runs one whole function
on one input: `UploadAndDownload` (`cdn_upload`, `download_raw`), `DownloadOfMessage`
(`from_wire`, `download`), `SendAndQuote` (`collect_send_message_ids`, `from_wire`),
`TakeAnswer` (`get_updates`, `send_message`), which are steps of `Exchanges`. Data are abstracted to what the code looks at: a byte of a
text is its class, a key on the wire is its outer form and what it decodes to, an
encrypted byte is a pair of key and byte, an id is a number whichever way it is
written, a word of an agent is its length, its parentheses, and whether it is a product.

## Runs

| run | instance | shows |
|---|---|---|
| `updates_safety` | 2 loops, channel of 2, 2 messages, 2 faults | `TypeOK`, `CursorCoversStore`, `NoGap`, `StreamInv`, `NoReplay`, refinement of `DurableInbox` |
| `updates_live` | 1 loop, channel of 2, 2 messages, 1 fault | `EventuallyProcessed`, `ExpiryEndsStream` |
| `expiry_reported` (violation) | channel of 3, 1 message, 1 fault | the stream ends with `AuthSessionExpired` still in its channel |
| `stop_ends_stream` (violation) | same, fair | a `stop()` before the task's first step is lost |
| `reopen_overlap` (violation) | same, `AwaitsAbort = FALSE` | a stream opened while the old loop still emits gets its cursor without its messages |
| `rate_safety` | 2 tasks, 1 account or none, delay 2, 1 retry, window 1, threshold 2, clock skew 1, fair | `TypeOK`, `WarnedAtThreshold`, `BackoffHolds`, `WindowAccurate`, `CallsReturn` |
| `rate_delay` (violation) | 2 accounts | a message for one account wakes a call of another inside its delay |
| `qr_login` | 1 login of up to 3 QR codes, `set_credentials`, 2 base URLs | `TypeOK`, `PollsAboutItsQr`, `StatusReported`, `FailedLoginInstallsNothing`, `BaseUrlOfCredentials`, `LoginEnds` |
| `context_reminder` | 2 loops, 2 accounts, 1 user, lifetime 1, clock skew 1, set back by 1 | `TypeOK`, `RemindedOnce`, `OwedIsTracked`, `SilentUserReminded` |
| `context_account` (violation) | 1 loop, 2 accounts | a batch polled with one account's token has its contexts attributed to the account installed meanwhile (`ContextOfItsAccount`) |
| `send_message` | up to 3 chunks, 3 upload attempts, 2 accounts or none | `TypeOK`, `CaptionAfterUpload`, `PartsOfOneAccount`, refinement of `Delivery` (`KeepsPromise`), `SendEnds` |
| `payloads` | messages of 5 bytes, `i32` of 8 bits (`Half` = 128), all inputs of `MCPayloads` | `TypeOK`, `ChunksTile`, `ChunksFit`, `LettersKept`, `LinesStreamAsOne`, `PanicsOnlyAtEmptyRows`, `MediaRoundTrip`, `NoCiphertextHandedOut`, `QuotesResolve`, `ErrorsTold`, `AgentStable` |

Bounds. `MaxLog`, `MaxFaults`: messages that arrive, and crashes, expiries, early
exits and stops together; two messages make a gap and a replay possible, and one
fault each side of a restart is the most that two faults need. A batch with one
message with a context is already three events, so a channel of two overflows;
256 would never. Two loops are enough because a third one would be aborted before
it emits, like the second. `MaxSent`: sends that count or are under way, one above
the threshold. `MaxDelay`: ticks between reading the clock and holding the mutex;
one tick is enough to reorder two tasks. Time itself is unbounded.

`QrLogin`: three QR codes are the code's own `MAX_QR_REFRESH`, so what one leaves
behind for the next, and the limit, are reached; the second writer that the two
locks need is `set_credentials`, and the proofs hold for any number of logins.
`ContextReminder`: two loops make two readings of the clock and two holders of the
mutex, two accounts a switch; one message in a batch is enough, since two loops
observe again and again. `MaxBack`: a clock that is set back by a tick makes an
expired context live. `SendMessage`: three chunks have a first, a middle and a last
one, and `MaxUploads` is the code's `MAX_RETRIES`. `Payloads`: texts of up to seven
letters, blanks, line ends and two-byte characters against a message of five bytes
have windows that end inside a character, separators before and after 3/10 of the
window, and remainders; markdown is every sequence of five marks, and of four of
the longer ones, cut after any of its lines, and shorter ones cut anywhere; media have sizes of a byte around the block's; codes are those the
code names, their neighbours in 8 bits, and what is absent or no integer; agents
are up to four words against limits of 4 bytes for a comment and 13 for the whole
(`MaxComment`, `MaxAgent`; 64 and 256 in the code, and any numbers in the proofs), of
sizes that meet both limits exactly and go over them by one. An `i32` of 8 bits shows
the same wrap as one of 32.

Deadlock is checked except in `qr_login`, `send_message` and `payloads`, whose
operations end: a login or a send returns, an input is treated once.

Fairness. `UpdatesStream`: tokio runs ready tasks, so each loop is weakly fair;
every request ends (the client sets timeouts), but which answer it gets is the
server's choice, so that messages and an expired session are eventually answered
is strong fairness of those two answers; the application reads, handles and
reopens, and does not reopen for ever without logging in. Nothing makes messages arrive, sessions
expire or applications leave. `EventuallyProcessed` assumes that the channel does
not overflow for ever, since an application that is too slow for ever is told so
for ever (602). `RateLimit`: each task's call is weakly fair, and time passes
(strongly fair, as `MaxDelay` disables `Tick` now and again).

`QrLogin`: a login's stream is weakly fair, which says that the application reads it
and answers its responders (the responder of a verification code is awaited without
a timeout, 499, so an application that keeps one and reads on hangs the login: that
is outside the fairness); and a QR code that is polled for ever is decided at last
(strong fairness of the answers that decide). `ContextReminder`: each loop is
weakly fair, a loop that polls again and again succeeds now and again, and time
passes. `SendMessage`: the send is awaited, and every request ends: the default
client has a timeout of 45 seconds and posts one of 15 (`protocol.rs` 136-141, 246);
a caller's own client without any is outside.

## Proofs

`UpdatesStreamProofs`, for every set of loops, capacity and bound:

- `TypeCorrect`: `TypeOK`, with the bounds of the cursors in flight.
- `CursorSafe`, `PrefixProcessed`: the saved cursor covers only processed events,
  and what is processed is a prefix of the history. Neither is inductive. The
  strengthening is `Complete`: while the application can trust its stream
  (`Reading`: it has not lagged and no error is in its hand), every event of the
  messages the loop has gone past is in the store, in the hand or in the channel,
  and every buffered event is preceded by all that must come before it. It needs
  `OnlyOwnerEmits`, which is where the assumption `AwaitsAbort` enters.
- `RestartWithoutReplay`: from `Forward`, which orders the saved cursor, the hand,
  the channel and the loop's position.
- `StreamInvHolds`: the conjunction of the above with `FromLog` (nothing is made
  up on the way), which `updates_safety` also checks.
- `Refinement`: every step is a step of `DurableInbox` or leaves its variables alone.

`RateLimitProofs`, for every set of tasks and accounts and every policy:

- `TypeCorrect`; `BackoffOnlyExtended`, from the maximum that `Defer` takes.
- `InteractionRequested`: `WarnedAtThreshold` is inductive because `Count` adds one
  to what it keeps, and `PrunedSuffix` says that it keeps a suffix.
- `CountIsRecent`: from `NearlySorted`, that timestamps are out of order by
  `MaxDelay` at most. `PrunedSuffix` needs a least natural number (`LeastNatural`).
- `DelayHoldsForOneAccount`: with one account, a delay ends by time or by a message
  of its own user. It is what finding 4 refutes for two: that the accounts share one
  `Notify` is all that can cut a delay short.
- `CallsAdvanceHolds`: every step of a call, and what wakes it, leaves less to do
  (`StepsLeft`), so a call makes at most `4 * (RetryAttempts + 2)` steps. That a
  call which can go on does is the fairness that `CallsReturn` assumes.

`QrLoginProofs`, for every set of logins, limit and set of base URLs: `TypeCorrect`,
`PollsAboutItsQrHolds`, `StatusReportedHolds`, `FailedLoginInstallsNothingHolds`,
`BaseUrlOfCredentialsHolds`. The inductive invariant `IInv` adds two parts to the
types. `Local` ties a login's locals to its current QR code (what is told is what
was answered, and `last_status` is that too, which is why a status that is not
reported again is no loss) and says where a login may be whose token is installed.
`Torn` says of a writer that nobody disturbs that it alone is between its writes, and
what it has written; so whatever overlapping or dropped writers left apart, the next
writer that is undisturbed repairs.

`ContextReminderProofs`, for every set of loops, accounts and users, every lifetime
and every bound: `TypeCorrect`, `RemindedOnceHolds`, `OwedIsTrackedHolds`.
`RemindedOnce` needs `Flags`, that a context that was told is flagged or no longer
tracked; lifetimes stay in their range by `Clock`. To which account a batch is
attributed is finding 5.

`SendMessageProofs`, for any accounts, chunks and attempts: `TypeCorrect`,
`CaptionAfterUploadHolds`, `PartsOfOneAccountHolds` and `KeepsPromiseHolds`, the
refinement of `Delivery`. `SendInv` has `Progress` (what was seen is the beginning
of the plan, and the receipt the beginning of that), `Reached` (how far each step
presupposes) and `Tokens` (whose token each step has). Each action maps to a step of
`Delivery` or to a stutter: `Accepted` to `Show` or `Succeed`, `AnswerLost` to a
`Show` that fails. `SeenAsPlannedHolds` says the same without `Delivery`: what the
server took is the beginning of what was planned, and after an error it is what was
answered for and at most one part more. `SendAdvancesHolds`: a send makes at most as many steps as it has chunks,
`MaxUploads` and six.

`PayloadsProofs`, first, for every text and every limit of at least one character:
`TextTypeCorrect`, `ChunksTileHolds`, `ChunksFitHolds`. `TextInv` adds `Uncut`, that
the loop is at a character's boundary; `WindowEndsAtBoundary` uses that a character
has at most four bytes, and `CutAfterFits` that a separator is one byte.

`ExchangesProofs`, for all inputs that the named assumptions allow:
`UploadsComeBack`, `DownloadsAreOpened`, `QuotesLeadToReceipts`, `AnswersTellErrors`.
The invariant is that a result is what the function makes of its input, and the work
is in the lemmas. `Padding` and `Encryption` say that media of any length are whole
blocks of the announced size, from which the last byte takes off what was added.
`ReferenceDownload` goes through every form of a reference and of a key, and
`FirstOfKindIsHeld` finds the item it is read from. `ReceiptHas` and `QuotedIsOffered`
meet at the id of the quoted chunk. `AnswerTold` reduces the code's two readings of
`errcode` and `ret` to what they say as an `i32`, of any width. What is assumed:
uploads are bytes with a key, written again as one that can be read
(`UploadsAssumption`); what the CDN has is encrypted with some key, while a message
may say anything of where it is and of its key (`DownloadsAssumption`); a reference
names one of the text's chunks by any of its ids or by none, or is not there
(`QuotesAssumption`); codes are
absent, unreadable or integers (`AnswersAssumption`).

`TextFilterProofs`, for every set of letters, every text and every way to cut it into
pieces: `FilterTypeCorrect`, `LettersKeptHolds`, `PanicsOnlyAtEmptyRowsHolds`,
`FilterAdvancesHolds`, `FilterBoundHolds`. The invariant `FilterInv` says that what the
filter has not put out yet, what an inline has read and the buffer, is the rest of
what it was fed; that it is in a fence or an image only if that has one; that the
letters put out and those of the rest are, together, those of what was fed; and, when
the pieces are whole lines (`LinesFed`), that it is at the start of a line only where
the text is, and in a row only behind the bar that begins a line. A piece may also end
behind the ticks of a fence: the filter then takes the rest of their line, when it
comes, for a line of its own (`markdown_filter.rs` 125-128), which is why
`PanicsOnlyAtEmptyRows` is about whole lines. One
notion carries the induction: `Reads(f, step, n)`, that a step goes past `n` bytes of
the rest, and what it may do with them. There is a lemma for every branch of the code
that its step reads and that `Weight` (twice the rest, the start of a line, a buffer
that is not empty) falls, or that it waits for more of the text, which no step of a
flush does (`PumpAdvances`). `RowKeepsLetters` needs that a set of places is
enumerated (`NthEnumerates`), `LettersKept` that counting is additive
(`CountConcat`). `Letters` are any bytes the filter does not look for
(`LettersAssumption`), and the texts are made of them and of the marks
(`MarkdownsAssumption`), so every text is one.

`LinesStreamAsOneHolds` and `LinesRefineWhole` say that lines that are fed one by one
are filtered as the whole text is: `StreamedFilter` maps the filter that has been fed
lines to the one that has been fed all (`Ahead`: what an inline has read without
coming to its end goes back to the buffer, and what is not fed yet comes behind it),
and every step to a step of that filter or to none. A step that feeds a line, that
waits for more, or that keeps what an inline has read is none (`FeedAsOne`); every
other one is the same pass (`PumpAhead`). The reason is that what the filter looks at
before it decides ends with the line: a prefix, a run or a mark is found in a text of
whole lines or not, whatever comes behind it (`FoundInGrown`, `StopGrown` and the lemmas
about what is grown), and when it is not, the filter waits. Inline code is the
exception (`CodeGoesOn`), since its end is looked for across lines. When all is fed a
pass is the same, but for what an inline has read (`PumpWhole`). `SameFilter` says that
the operators of the two filters are the same.

`PayloadsProofs`, for every agent and any two limits: `AgentTypeCorrect` and
`AgentStableHolds`. What is sent is `Sane`: the default, or products, each with a comment
of its own or none, that are not too long; and an agent that is `Sane` is sent as it
is. Together they say that to sanitize twice is to sanitize once. (The default is a
case of its own, since `OpenClaw` has no version and is no product: named by an
application, it is dropped, and comes back as the default.) `AgentInv` says that what
has been put out is admitted so far (`ItemCovers`, `ExtendedIsAdmitted`: what stood
before an item that is put out keeps its place, and every word of the item is its
product or in its comment), and, if the agent is sane, that
what has been put out and what is pending are the words that have been read, and the
next token never begins within a comment (`NextOfSane`). That everything fits then
follows from the length of the whole: the first words of an agent are no longer than
all of them (`FirstWordsFit`). The length of words is the number of their columns
(`Columns`), since the theorems about cardinality do for it what an induction over a
sum would.

Then of `Payloads` as a whole: `PayloadsTypeCorrect`, `PayloadsKeepTheirPromises` (the
nine invariants of the parts) and `PayloadsStreamAsOne`. `PayloadsInv` joins the
inductive invariants of the parts; a step of one part is one that changes nothing for
the others (`EachSteps`), and a part that has nothing to do satisfies its invariant
(`NoTextInv`, `NoFilterInv`, `NoAgentInv`, `Idle`).

The assumptions are the named `ASSUME`s of the modules, and `AwaitsAbort` where a
theorem states it. Only model-checked are:

- the liveness properties (`EventuallyProcessed`, `ExpiryEndsStream`, `CallsReturn`,
  `LoginEnds`, `SilentUserReminded`, `SendEnds`), which need fairness and ENABLED;
  of which `CallsAdvanceHolds`, `SendAdvancesHolds` and `FilterAdvancesHolds` prove
  the part that is about safety: there are only so many steps to take;
- the five violations.

## Findings

1. The biased select (584) ends a stream without delivering what is buffered, an
   `AuthSessionExpired` included.
2. `run_loop` clears the stop flag in its first step (768), so a `stop()` that
   comes between `events_from_cursor` and that step is lost.
3. A dropped stream's loop may still be emitting; a stream opened meanwhile shares
   its channel (575, 1298) and can be handed a cursor without its messages.
4. All accounts share one `Notify` (350, 941): a message for one account cuts short
   the delay of a call of another.
5. The account key of a batch is read after the answer (792): credentials that are
   installed during the request make its contexts name an account it was not polled for.

Besides these, what the properties make exceptions for, or take as the code does:

- a table row without a cell, a line of one bar and blanks, makes `start` larger
  than `end`, and the slice panics (`markdown_filter.rs` 438); `PanicsOnlyAtEmptyRows`
  says that nothing else does;
- inline code looks for its closing mark in all that is buffered, over ends of lines
  (`markdown_filter.rs` 312), so what comes out depends on how the text came in;
  `LinesStreamAsOne` leaves out the steps where that shows (`CodeGoesOn`);
- an override of the key that is the empty string wins over the media's own key and
  then counts as none: an image's ciphertext is handed out (`cdn.rs` 112);
  `NoCiphertextHandedOut` names the case;
- an answer that is no JSON under a status of 200 counts as a success
  (`protocol.rs` 356); `ErrorsTold` only speaks of answers that name an error;
- a code beyond 32 bits is cut before it is compared (`protocol.rs` 372), and
  `ErrorsTold` reads codes in the same way, so 2^32 - 14 is an expired session to both;
- a later reference without any id hides an earlier quote (`types.rs` 421-431);
  `QuotesResolve` is about the last reference of a message;
- writers of the credentials that overlap, or one that is dropped between its writes
  (406-410, 539-540), leave base URL and credentials of two accounts;
  `BaseUrlOfCredentials` says that this lasts only until the next undisturbed writer is
  done;
- calls that were deferred again between an account's reset and its notification are
  woken by it (940-941); `DelayBeforeRetry` takes that for their user's doing;
- a limit below one character makes no progress in `chunk_text`; the code's only limit
  is 4000, and a limit of at least one character is assumed (`LimitAssumption`).

## Not modelled

- HTTP, JSON and the cipher are libraries; headers, URLs, the client version,
  logging and the wording of errors are formatting that no property is about.
- What a caller does about an error: to send again after a failure in the middle
  delivers the first parts twice.
- Builders (no state beyond what they set) and the crate's re-exports.
- Thumbnails, sizes and times in messages: data that no decision depends on.
- The examples' keep-alive task, and what the file system leaves of a store that is
  rewritten in place: the model takes the application's writes to be atomic.
- A single composition of all components. They share credentials and states of
  accounts, and each module has the others' interference as actions of its own
  (`SetCredentials`, `SetBaseUrl` and `SetCreds`, `UserMessage`, `EmitInteraction`),
  enabled at any time: more than the other components would do.
- Which of two orders is meant when a rate-limited answer is processed after the
  user's message that resets the account (876): the code cannot tell them apart, no
  document decides, and `RateLimit` has both.
