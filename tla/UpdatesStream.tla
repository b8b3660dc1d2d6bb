---------------------------- MODULE UpdatesStream ----------------------------
(***************************************************************************)
(* events_from_cursor: the polling loop (run_loop) of a client, the        *)
(* bounded broadcast channel it emits to, the stream that an application   *)
(* reads, and an application that keeps what it processed and the cursor   *)
(* outside the SDK, as the README and the examples do.                     *)
(*                                                                         *)
(* A cursor is a position in the server's log, 0 standing for the empty    *)
(* cursor.  An update batch is emitted one event at a time, so the reader  *)
(* runs between any two events of it.  A loop whose stream was dropped is  *)
(* aborted: tokio cancels it where it awaits, but a loop that is emitting  *)
(* on another worker goes on until its next await, and what it emits       *)
(* reaches whoever subscribes to the client's channel in the meantime.     *)
(***************************************************************************)
EXTENDS Naturals, Sequences

CONSTANTS
    Loops,        \* the run_loop tasks that may exist at one time
    Capacity,     \* EVENT_CHANNEL_CAPACITY
    MaxLog,       \* bound: messages that ever arrive
    MaxFaults,    \* bound: crashes, expiries, early exits and stops together
    AwaitsAbort   \* the application reopens only after a dropped loop is gone

ASSUME CapacityAssumption == Capacity \in Nat \ {0}
ASSUME BoundsAssumption == MaxLog \in Nat /\ MaxFaults \in Nat
ASSUME AwaitsAbortAssumption == AwaitsAbort \in BOOLEAN

VARIABLES
    log,       \* server: the account's messages, oldest first
    expired,   \* server: the bot session has expired
    loggedIn,  \* client: credentials are installed
    stopped,   \* client: the stop flag
    pc,        \* per loop: where run_loop is
    cursor,    \* per loop: the cursor of the last update batch
    at,        \* per loop: position of the next message to emit
    owner,     \* the loop spawned for the application's current stream
    stream,    \* the application's stream: closed, open or ended
    queue,     \* events buffered in the channel for the stream's receiver
    lagged,    \* the channel has overwritten an event the receiver missed
    hand,      \* the item the application took from the stream, if any
    store,     \* durable: events the application has processed
    saved,     \* durable: the cursor the application has persisted
    faults     \* crashes, expiries, early exits and stops so far

server == <<log, expired>>
client == <<loggedIn, stopped>>
loops == <<pc, cursor, at>>
channel == <<queue, lagged>>
durable == <<store, saved>>
vars == <<log, expired, loggedIn, stopped, pc, cursor, at, owner, stream,
          queue, lagged, hand, store, saved, faults>>

\* What the application is promised: events, log and store are DurableInbox's.
Inbox == INSTANCE DurableInbox WITH log <- log, store <- store, saved <- saved

ContextObserved(p) == Inbox!ContextObserved(p)
Message(p) == Inbox!Message(p)
EventsOf(p) == Inbox!EventsOf(p)
CursorAdvanced(c) == [type |-> "CursorAdvanced", pos |-> c]
AuthSessionExpired == [type |-> "AuthSessionExpired", pos |-> 0]
UserInteractionRequested == [type |-> "UserInteractionRequested", pos |-> 0]
StreamError == [type |-> "Err", pos |-> 0]
Nothing == [type |-> "none", pos |-> 0]

EventTypes == {"ContextObserved", "Message", "CursorAdvanced",
               "AuthSessionExpired", "UserInteractionRequested"}
Event == [type : EventTypes, pos : Nat]

\* A loop has no task, is about to take its first step, is at the head of its
\* loop, waits for updates, emits a batch (in the middle of a message, after its
\* ContextObserved), sleeps, notifies the server of the stop, or has returned.
Idle == {"none", "done", "failed"}
Awaiting == {"spawned", "check", "polling", "backoff", "stopping"}
Emitting == {"batch", "message"}

Init ==
    /\ log = <<>>
    /\ expired = FALSE
    /\ loggedIn \in BOOLEAN
    /\ stopped = FALSE
    /\ pc = [l \in Loops |-> "none"]
    /\ cursor = [l \in Loops |-> 0]
    /\ at = [l \in Loops |-> 1]
    /\ owner \in Loops
    /\ stream = "closed"
    /\ queue = <<>>
    /\ lagged = FALSE
    /\ hand = Nothing
    /\ store = {}
    /\ saved = 0
    /\ faults = 0

Fault == faults < MaxFaults /\ faults' = faults + 1

-----------------------------------------------------------------------------
(* The broadcast channel, as its one receiver sees it. *)

\* Mutant: a channel without a bound.
EmitEventUnbounded(e) ==
    /\ queue' = IF stream = "open" THEN Append(queue, e) ELSE queue
    /\ UNCHANGED lagged

\* Mutant: a full channel refuses the new event (try_send) and nobody is told.
EmitEventTrySend(e) ==
    /\ queue' = IF stream = "open" /\ Len(queue) < Capacity
                THEN Append(queue, e) ELSE queue
    /\ UNCHANGED lagged

\* emit_event: without a receiver the event is dropped; a full channel
\* overwrites the oldest buffered event and the receiver has lagged.
EmitEvent(e) ==
    \/ /\ stream # "open"
       /\ UNCHANGED channel
    \/ /\ stream = "open"
       /\ Len(queue) < Capacity
       /\ queue' = Append(queue, e)
       /\ UNCHANGED lagged
    \/ /\ stream = "open"
       /\ Len(queue) = Capacity
       /\ queue' = Append(Tail(queue), e)
       /\ lagged' = TRUE

-----------------------------------------------------------------------------
(* run_loop *)

Goto(l, label) == pc' = [pc EXCEPT ![l] = label]

\* Only polling uses the server's answer; the other steps leave it all alone.
LoopOnly == UNCHANGED <<server, owner, stream, hand, durable, faults>>

\* The first step of the task clears the stop flag.  notify_start and its
\* answer change nothing.
Begin(l) ==
    /\ pc[l] = "spawned"
    /\ stopped' = FALSE
    /\ Goto(l, "check")
    /\ UNCHANGED <<loggedIn, cursor, at, channel>>
    /\ LoopOnly

\* The head of the loop: stop flag first, then get_auth.
CheckStopped(l) ==
    /\ pc[l] = "check"
    /\ \/ stopped /\ Goto(l, "stopping")
       \/ ~stopped /\ loggedIn /\ Goto(l, "polling")
       \/ ~stopped /\ ~loggedIn /\ Goto(l, "failed")
    /\ UNCHANGED <<client, cursor, at, channel>>
    /\ LoopOnly

\* A batch with a new cursor: the loop's cursor moves before any event is out.
GetUpdates(l) ==
    /\ pc[l] = "polling"
    /\ ~expired
    /\ \E last \in (cursor[l] + 1)..Len(log) :
          cursor' = [cursor EXCEPT ![l] = last]
    /\ Goto(l, "batch")
    /\ UNCHANGED <<client, at, channel>>
    /\ LoopOnly

\* A client-side timeout, an answer without messages or with an unusable body:
\* no message, and a cursor that is empty or unchanged.
GetNothing(l) ==
    /\ pc[l] = "polling"
    /\ Goto(l, "check")
    /\ UNCHANGED <<client, cursor, at, channel>>
    /\ LoopOnly

\* Rate-limited or any other error except an expired session: report and sleep.
GetError(l) ==
    /\ pc[l] = "polling"
    /\ Goto(l, "backoff")
    /\ UNCHANGED <<client, cursor, at, channel>>
    /\ LoopOnly

\* Mutant: an expired session is an error like any other.
GetSessionExpiredRetried(l) ==
    /\ pc[l] = "polling"
    /\ expired
    /\ Goto(l, "backoff")
    /\ UNCHANGED <<client, cursor, at, channel>>
    /\ LoopOnly

GetSessionExpired(l) ==
    /\ pc[l] = "polling"
    /\ expired
    /\ EmitEvent(AuthSessionExpired)
    /\ cursor' = [cursor EXCEPT ![l] = 0]
    /\ at' = [at EXCEPT ![l] = 1]
    /\ Goto(l, "stopping")
    /\ UNCHANGED client
    /\ LoopOnly

WakeUp(l) ==
    /\ pc[l] = "backoff"
    /\ Goto(l, "check")
    /\ UNCHANGED <<client, cursor, at, channel>>
    /\ LoopOnly

\* One message of the batch: nothing for a message that is not the user's,
\* ContextObserved first when it carries a context token, then Message.
EmitContext(l) ==
    /\ pc[l] = "batch"
    /\ at[l] <= cursor[l]
    /\ log[at[l]] = "context"
    /\ EmitEvent(ContextObserved(at[l]))
    /\ Goto(l, "message")
    /\ UNCHANGED <<client, cursor, at>>
    /\ LoopOnly

EmitMessage(l) ==
    /\ \/ pc[l] = "message"
       \/ pc[l] = "batch" /\ at[l] <= cursor[l] /\ log[at[l]] = "plain"
    /\ EmitEvent(Message(at[l]))
    /\ at' = [at EXCEPT ![l] = @ + 1]
    /\ Goto(l, "batch")
    /\ UNCHANGED <<client, cursor>>
    /\ LoopOnly

\* Mutant: a user message without a context token is ignored too.
SkipMessageWithoutContext(l) ==
    /\ pc[l] = "batch"
    /\ at[l] <= cursor[l]
    /\ log[at[l]] \in {"other", "plain"}
    /\ at' = [at EXCEPT ![l] = @ + 1]
    /\ UNCHANGED <<client, pc, cursor, channel>>
    /\ LoopOnly

SkipMessage(l) ==
    /\ pc[l] = "batch"
    /\ at[l] <= cursor[l]
    /\ log[at[l]] = "other"
    /\ at' = [at EXCEPT ![l] = @ + 1]
    /\ UNCHANGED <<client, pc, cursor, channel>>
    /\ LoopOnly

\* Mutant: CursorAdvanced may be emitted before the messages of its batch.
EmitCursorEarly(l) ==
    /\ pc[l] = "batch"
    /\ EmitEvent(CursorAdvanced(cursor[l]))
    /\ Goto(l, IF l = owner /\ stream = "open" THEN "check" ELSE "none")
    /\ at' = [at EXCEPT ![l] = cursor[l] + 1]
    /\ UNCHANGED <<client, cursor>>
    /\ LoopOnly

\* The batch is out: CursorAdvanced closes it.  A loop that was aborted is
\* cancelled at the await that follows.
EmitCursor(l) ==
    /\ pc[l] = "batch"
    /\ at[l] > cursor[l]
    /\ EmitEvent(CursorAdvanced(cursor[l]))
    /\ Goto(l, IF l = owner /\ stream = "open" THEN "check" ELSE "none")
    /\ UNCHANGED <<client, cursor, at>>
    /\ LoopOnly

\* notify_stop has been answered or has failed: the task returns Ok.
NotifyStopped(l) ==
    /\ pc[l] = "stopping"
    /\ Goto(l, "done")
    /\ UNCHANGED <<client, cursor, at, channel>>
    /\ LoopOnly

\* A loop whose stream is gone may be cancelled at an await inside the batch.
AbortLands(l) ==
    /\ pc[l] \in Emitting
    /\ l # owner \/ stream # "open"
    /\ Goto(l, "none")
    /\ UNCHANGED <<client, cursor, at, channel>>
    /\ LoopOnly

\* UserInteractionRequested comes from the loop between two polls
\* (emit_due_context_interaction_requests) and from any task that sends
\* messages (record_successful_message_send): at any time, and it takes room
\* in the same channel.
EmitInteraction ==
    /\ stream = "open"
    /\ EmitEvent(UserInteractionRequested)
    /\ UNCHANGED <<client, loops>>
    /\ LoopOnly

-----------------------------------------------------------------------------
(* The application and its stream. *)

AppOnly == UNCHANGED <<server, faults>>

\* set_credentials or a QR login with valid credentials.
LogIn ==
    /\ ~loggedIn \/ expired
    /\ loggedIn' = TRUE
    /\ expired' = FALSE
    /\ UNCHANGED <<log, stopped, loops, owner, stream, channel, hand, durable,
                   faults>>

\* Mutant: the loop starts from the empty cursor whatever the application saved.
EventsFromStart(l) ==
    /\ stream # "open"
    /\ hand = Nothing
    /\ pc[l] \in Idle
    /\ AwaitsAbort => \A other \in Loops : pc[other] \in Idle
    /\ pc' = [pc EXCEPT ![l] = "spawned"]
    /\ cursor' = [cursor EXCEPT ![l] = 0]
    /\ at' = [at EXCEPT ![l] = 1]
    /\ owner' = l
    /\ stream' = "open"
    /\ queue' = <<>>
    /\ lagged' = FALSE
    /\ UNCHANGED <<client, hand, durable>>
    /\ AppOnly

\* events_from_cursor(saved): subscribe, then spawn the loop.
EventsFromCursor(l) ==
    /\ stream # "open"
    /\ hand = Nothing
    /\ pc[l] \in Idle
    /\ AwaitsAbort => \A other \in Loops : pc[other] \in Idle
    /\ pc' = [pc EXCEPT ![l] = "spawned"]
    /\ cursor' = [cursor EXCEPT ![l] = saved]
    /\ at' = [at EXCEPT ![l] = saved + 1]
    /\ owner' = l
    /\ stream' = "open"
    /\ queue' = <<>>
    /\ lagged' = FALSE
    /\ UNCHANGED <<client, hand, durable>>
    /\ AppOnly

\* Mutant: the stream goes on over a lag without telling the application.
StreamNextSkipsLag ==
    /\ stream = "open"
    /\ hand = Nothing
    /\ pc[owner] \notin {"done", "failed"}
    /\ queue # <<>>
    /\ hand' = Head(queue)
    /\ queue' = Tail(queue)
    /\ lagged' = FALSE
    /\ UNCHANGED <<client, loops, owner, durable, stream>>
    /\ AppOnly

\* Mutant: the stream waits for events only and never looks at the loop's result.
StreamNextIgnoresResult ==
    /\ stream = "open"
    /\ hand = Nothing
    /\ \/ /\ lagged
          /\ lagged' = FALSE
          /\ hand' = StreamError
          /\ UNCHANGED queue
       \/ /\ ~lagged
          /\ queue # <<>>
          /\ hand' = Head(queue)
          /\ queue' = Tail(queue)
          /\ UNCHANGED lagged
    /\ UNCHANGED <<client, loops, owner, durable, stream>>
    /\ AppOnly

\* The stream's select is biased: the result of the loop is looked at first,
\* whatever is still buffered; then the lag, then the oldest buffered event.
StreamNext ==
    /\ stream = "open"
    /\ hand = Nothing
    /\ \/ /\ pc[owner] = "done"
          /\ stream' = "ended"
          /\ UNCHANGED <<channel, hand>>
       \/ /\ pc[owner] = "failed"
          /\ stream' = "ended"
          /\ hand' = StreamError
          /\ UNCHANGED channel
       \/ /\ pc[owner] \notin {"done", "failed"}
          /\ lagged
          /\ lagged' = FALSE
          /\ hand' = StreamError
          /\ UNCHANGED <<queue, stream>>
       \/ /\ pc[owner] \notin {"done", "failed"}
          /\ ~lagged
          /\ queue # <<>>
          /\ hand' = Head(queue)
          /\ queue' = Tail(queue)
          /\ UNCHANGED <<lagged, stream>>
    /\ UNCHANGED <<client, loops, owner, durable>>
    /\ AppOnly

\* The application processes the item it took: it stores a message or a context
\* durably and it persists a cursor.
HandleItem ==
    /\ hand.type \in EventTypes \ {"AuthSessionExpired"}
    /\ store' = IF hand.type \in {"ContextObserved", "Message"}
                THEN store \cup {hand} ELSE store
    /\ saved' = IF hand.type = "CursorAdvanced" THEN hand.pos ELSE saved
    /\ hand' = Nothing
    /\ UNCHANGED <<client, loops, owner, stream, channel>>
    /\ AppOnly

\* Dropping the stream drops its receiver and aborts its loop: at once where the
\* loop awaits, later (AbortLands) while it is emitting.
DropStream ==
    /\ stream' = "closed"
    /\ hand' = Nothing
    /\ queue' = <<>>
    /\ lagged' = FALSE
    /\ pc' = [pc EXCEPT ![owner] = IF @ \in Emitting THEN @ ELSE "none"]
    /\ UNCHANGED <<client, cursor, at, owner, durable>>

\* The application leaves its event loop on an error item and when it is told
\* that the session has expired.
LeaveOnItem ==
    /\ hand \in {StreamError, AuthSessionExpired}
    /\ DropStream
    /\ AppOnly

\* It may also leave earlier, with or without an item in hand.
LeaveEarly ==
    /\ stream = "open"
    /\ Fault
    /\ DropStream
    /\ UNCHANGED server

\* stop() called from another task of the application.
Stop ==
    /\ stream = "open"
    /\ Fault
    /\ stopped' = TRUE
    /\ UNCHANGED <<server, loggedIn, loops, owner, stream, channel, hand,
                   durable>>

\* The process dies: only what is durable survives.
Crash ==
    /\ Fault
    /\ loggedIn' = FALSE
    /\ stopped' = FALSE
    /\ pc' = [l \in Loops |-> "none"]
    /\ stream' = "closed"
    /\ queue' = <<>>
    /\ lagged' = FALSE
    /\ hand' = Nothing
    /\ UNCHANGED <<server, cursor, at, owner, durable>>

-----------------------------------------------------------------------------
(* The server. *)

MessageArrives ==
    /\ Len(log) < MaxLog
    /\ \E kind \in Inbox!Kinds : log' = Append(log, kind)
    /\ UNCHANGED <<expired, client, loops, owner, stream, channel, hand,
                   durable, faults>>

SessionExpires ==
    /\ ~expired
    /\ Fault
    /\ expired' = TRUE
    /\ UNCHANGED <<log, client, loops, owner, stream, channel, hand, durable>>

-----------------------------------------------------------------------------
Emit(l) ==
    \/ EmitContext(l)
    \/ EmitMessage(l)
    \/ SkipMessage(l)
    \/ EmitCursor(l)

RunLoop(l) ==
    \/ Begin(l)
    \/ CheckStopped(l)
    \/ GetUpdates(l)
    \/ GetNothing(l)
    \/ GetError(l)
    \/ GetSessionExpired(l)
    \/ WakeUp(l)
    \/ Emit(l)
    \/ NotifyStopped(l)
    \/ AbortLands(l)

Application ==
    \/ LogIn
    \/ \E l \in Loops : EventsFromCursor(l)
    \/ StreamNext
    \/ HandleItem
    \/ LeaveOnItem
    \/ LeaveEarly
    \/ Stop
    \/ Crash

Next ==
    \/ \E l \in Loops : RunLoop(l)
    \/ EmitInteraction
    \/ Application
    \/ MessageArrives
    \/ SessionExpires

Spec == Init /\ [][Next]_vars

\* Tokio runs every task that is ready; every poll of the server ends, since the
\* request has a timeout, and a server that is polled again and again eventually
\* answers with the messages it holds; the application reads its stream, handles
\* what it reads and reopens the stream when it is gone, and it does not reopen it
\* for ever without logging in.
Fairness ==
    /\ \A l \in Loops : WF_vars(RunLoop(l))
    /\ SF_vars(\E l \in Loops : GetUpdates(l))
    /\ SF_vars(\E l \in Loops : GetSessionExpired(l))
    /\ WF_vars(StreamNext \/ HandleItem \/ LeaveOnItem)
    /\ WF_vars(\E l \in Loops : EventsFromCursor(l))
    /\ SF_vars(LogIn /\ stream # "open")

FairSpec == Spec /\ Fairness

-----------------------------------------------------------------------------
(* Properties *)

\* Every variable stays in its domain; the channel never holds more than
\* Capacity events and no loop is ahead of the log.
TypeOK ==
    /\ log \in Seq(Inbox!Kinds) /\ Len(log) <= MaxLog
    /\ expired \in BOOLEAN
    /\ loggedIn \in BOOLEAN
    /\ stopped \in BOOLEAN
    /\ pc \in [Loops -> Idle \cup Awaiting \cup Emitting]
    /\ cursor \in [Loops -> 0..Len(log)]
    /\ at \in [Loops -> Nat]
    /\ \A l \in Loops : at[l] \in 1..(cursor[l] + 1)
    /\ owner \in Loops
    /\ stream \in {"closed", "open", "ended"}
    /\ queue \in Seq(Event) /\ Len(queue) <= Capacity
    /\ lagged \in BOOLEAN
    /\ hand \in Event \cup {StreamError, Nothing}
    /\ store \in SUBSET Event
    /\ saved \in 0..Len(log)
    /\ faults \in 0..MaxFaults

\* A cursor the application has persisted never covers an event that it has not
\* processed: whatever dies and whenever, restarting from it skips nothing
\* (the order of run_loop's emissions, the channel's lag and the biased select).
CursorCoversStore ==
    \A p \in 1..saved : EventsOf(p) \subseteq store

\* The events that come before e in the account's history: those of earlier
\* messages, a message's context before the message, and everything that a cursor
\* covers before the cursor.
Before(e) ==
    {d \in UNION {EventsOf(p) : p \in 1..e.pos} :
        d.pos = e.pos =>
            \/ e.type = "CursorAdvanced"
            \/ e.type = "Message" /\ d.type = "ContextObserved"}

\* What the application has processed is a prefix of the account's history: no
\* message is processed while an earlier one, or its own context, is missing.
NoGap ==
    \A e \in store : Before(e) \subseteq store

\* Restart without replay: an application never takes from a stream an event of
\* a message that its persisted cursor already covers.
NoReplay ==
    [][hand' # hand /\ hand'.type \in {"ContextObserved", "Message"}
          => hand'.pos > saved]_vars

\* The stream, the loop and the application together keep DurableInbox's promise:
\* at least once, never skipped, the cursor only forward.
RefinesInbox == Inbox!InboxSpec

\* Unless the channel overflows for ever, every event of every message is
\* eventually processed, through crashes, expiries, stops and lost events.
EventuallyProcessed ==
    <>[]~lagged =>
        \A p \in 1..MaxLog :
            Len(log) >= p ~> (Len(log) >= p /\ EventsOf(p) \subseteq store)

\* An expired session ends the stream that polls with it.
ExpiryEndsStream ==
    (stream = "open" /\ expired) ~> (stream # "open" \/ ~expired)

\* The expiry of the session is never lost with a stream that ends by itself.
ExpiryReported ==
    [][stream = "open" /\ stream' = "ended"
          => \A i \in 1..Len(queue) : queue[i] # AuthSessionExpired]_vars

\* stop() ends the stream of the loop that it stops.
StopEndsStream ==
    (stream = "open" /\ stopped) ~> stream # "open"

-----------------------------------------------------------------------------
(* Why they hold: the inductive invariant behind CursorCoversStore and NoGap,  *)
(* for an application that reopens its stream only when the loop it dropped is *)
(* gone.                                                                       *)

\* No loop but the stream's own can emit to it.
OnlyOwnerEmits ==
    stream = "open" => \A l \in Loops \ {owner} : pc[l] \in Idle

\* The application still has a stream that it can trust to be complete.
Reading == stream = "open" /\ ~lagged /\ hand # StreamError

\* e is processed, or is in the hand or in the channel ahead of index i.
DeliveredBefore(e, i) ==
    \/ e \in store
    \/ e = hand
    \/ \E j \in 1..(i - 1) : e = queue[j]

Delivered(e) == DeliveredBefore(e, Len(queue) + 1)

\* Every event is preceded by what must come before it, in the channel, in the
\* hand and in the store, and the loop has delivered all it has gone past.
Complete ==
    /\ Reading =>
          /\ \A p \in 1..(at[owner] - 1) : \A e \in EventsOf(p) : Delivered(e)
          /\ pc[owner] = "message" => Delivered(ContextObserved(at[owner]))
          /\ \A i \in 1..Len(queue) :
                \A d \in Before(queue[i]) : DeliveredBefore(d, i)
    /\ Before(hand) \subseteq store
    /\ NoGap
    /\ CursorCoversStore

\* Every cursor that is persisted, in the hand or in the channel is below b.
MarksBelow(b) ==
    /\ saved < b
    /\ hand.type = "CursorAdvanced" => hand.pos < b
    /\ \A i \in 1..Len(queue) :
          queue[i].type = "CursorAdvanced" => queue[i].pos < b

\* e is not about a message that cursor c covers.
Follows(e, c) ==
    e.type \in {"ContextObserved", "Message", "CursorAdvanced"} => e.pos > c

\* What is in the channel follows every cursor ahead of it.
ChannelForward ==
    /\ \A i \in 1..Len(queue) : Follows(queue[i], saved)
    /\ hand.type = "CursorAdvanced" =>
          /\ hand.pos > saved
          /\ \A i \in 1..Len(queue) : Follows(queue[i], hand.pos)
    /\ \A i, j \in 1..Len(queue) :
          i < j /\ queue[i].type = "CursorAdvanced"
            => Follows(queue[j], queue[i].pos)

\* The stream goes forward: so does its channel, and its loop is past every
\* cursor that it announced.
Forward ==
    stream = "open" =>
        /\ ChannelForward
        /\ pc[owner] \in Emitting =>
              MarksBelow(at[owner]) /\ MarksBelow(cursor[owner])
        /\ pc[owner] \in Awaiting \ {"stopping"} =>
              at[owner] = cursor[owner] + 1 /\ MarksBelow(at[owner])

\* An event about a message is one that the message in the log produces.
Genuine(e) ==
    e.type \in {"ContextObserved", "Message"} =>
        e.pos \in 1..Len(log) /\ e \in EventsOf(e.pos)

\* Nothing is made up on the way from the log to the application's hand, and an
\* event in the hand is from a stream that is still open.
FromLog ==
    /\ \A l \in Loops : pc[l] = "message" => log[at[l]] = "context"
    /\ \A i \in 1..Len(queue) : Genuine(queue[i])
    /\ Genuine(hand)
    /\ hand \notin {Nothing, StreamError} => stream = "open"

\* The strengthening of CursorCoversStore, NoGap, NoReplay and RefinesInbox: what
\* is on its way from the log to the store is complete, in order and genuine.
StreamInv ==
    OnlyOwnerEmits /\ Complete /\ Forward /\ FromLog
=============================================================================
