------------------------- MODULE UpdatesStreamProofs -------------------------
(***************************************************************************)
(* Theorems about UpdatesStream for every number of loops, every channel   *)
(* capacity, every log and every number of faults.                         *)
(***************************************************************************)
EXTENDS UpdatesStream, TLAPS

-----------------------------------------------------------------------------
(* Events and the channel. *)

\* What the constructors of events build.
LEMMA EventFacts ==
    /\ \A p \in Nat :
          /\ ContextObserved(p) \in Event
          /\ ContextObserved(p).type = "ContextObserved"
          /\ ContextObserved(p).pos = p
          /\ Message(p) \in Event
          /\ Message(p).type = "Message"
          /\ Message(p).pos = p
          /\ CursorAdvanced(p) \in Event
          /\ CursorAdvanced(p).type = "CursorAdvanced"
          /\ CursorAdvanced(p).pos = p
  BY DEF ContextObserved, Message, Inbox!ContextObserved, Inbox!Message,
         CursorAdvanced, Event, EventTypes

LEMMA ItemFacts ==
    /\ AuthSessionExpired \in Event /\ AuthSessionExpired.pos = 0
    /\ AuthSessionExpired.type = "AuthSessionExpired"
    /\ UserInteractionRequested \in Event /\ UserInteractionRequested.pos = 0
    /\ UserInteractionRequested.type = "UserInteractionRequested"
    /\ StreamError.type = "Err" /\ StreamError.pos = 0
    /\ Nothing.type = "none" /\ Nothing.pos = 0
    /\ \A e \in Event : e.type \in EventTypes /\ e.pos \in Nat
  BY DEF AuthSessionExpired, UserInteractionRequested, StreamError, Nothing,
         Event, EventTypes

LEMMA EmptyQueue ==
    <<>> \in Seq(Event) /\ <<>> \in Seq(Inbox!Kinds) /\ Len(<<>>) = 0
  OBVIOUS

\* Emitting keeps the channel within its capacity and buffers nothing but the
\* event and what was buffered before.
LEMMA EmitEventType ==
    ASSUME NEW e \in Event, queue \in Seq(Event), Len(queue) <= Capacity,
           lagged \in BOOLEAN, EmitEvent(e)
    PROVE  /\ queue' \in Seq(Event) /\ Len(queue') <= Capacity
           /\ lagged' \in BOOLEAN
           /\ \A i \in 1..Len(queue') :
                 \/ queue'[i] = e
                 \/ \E j \in 1..Len(queue) : queue'[i] = queue[j]
<1>1. CASE stream # "open"
  BY <1>1 DEF EmitEvent, channel
<1>2. CASE stream = "open" /\ Len(queue) < Capacity
  <2>1. queue' = Append(queue, e) /\ lagged' = lagged
    BY <1>2 DEF EmitEvent
  <2> QED
    BY <1>2, <2>1, CapacityAssumption
<1>3. CASE stream = "open" /\ Len(queue) = Capacity
  <2>1. queue' = Append(Tail(queue), e) /\ lagged' = TRUE
    BY <1>3 DEF EmitEvent
  <2>2. /\ Tail(queue) \in Seq(Event) /\ Len(Tail(queue)) = Capacity - 1
        /\ \A i \in 1..(Capacity - 1) : Tail(queue)[i] = queue[i + 1]
    BY <1>3, CapacityAssumption
  <2>3. /\ queue' \in Seq(Event) /\ Len(queue') = Capacity
        /\ queue'[Capacity] = e
        /\ \A i \in 1..(Capacity - 1) : queue'[i] = queue[i + 1]
    BY <2>1, <2>2, CapacityAssumption
  <2> QED
    BY <1>3, <2>1, <2>3, CapacityAssumption
<1> QED
  BY <1>1, <1>2, <1>3, CapacityAssumption

\* While the channel does not lag, emitting appends.
LEMMA EmitEventAppends ==
    ASSUME NEW e \in Event, queue \in Seq(Event), EmitEvent(e),
           stream = "open", ~lagged'
    PROVE  /\ ~lagged
           /\ Len(queue') = Len(queue) + 1
           /\ queue'[Len(queue) + 1] = e
           /\ \A i \in 1..Len(queue) : queue'[i] = queue[i]
  <1>1. queue' = Append(queue, e) /\ lagged' = lagged
    BY DEF EmitEvent
  <1> QED
    BY <1>1

-----------------------------------------------------------------------------
(* Types. *)

\* What TypeOK needs to be inductive: a loop in the middle of a message is in its
\* batch, and no event is about a message the server does not have.
Bounds ==
    /\ \A l \in Loops : pc[l] = "message" => at[l] <= cursor[l]
    /\ \A i \in 1..Len(queue) : queue[i].pos <= Len(log)
    /\ hand.pos <= Len(log)
    /\ \A e \in store : e.pos <= Len(log)

LEMMA TypeInit == Init => TypeOK /\ Bounds
<1> SUFFICES ASSUME Init PROVE TypeOK /\ Bounds
  OBVIOUS
<1>1. /\ log \in Seq(Inbox!Kinds) /\ Len(log) = 0
      /\ queue \in Seq(Event) /\ Len(queue) = 0
  BY EmptyQueue DEF Init
<1>2. saved \in 0..Len(log) /\ \A i \in 1..Len(queue) : queue[i].pos <= Len(log)
  BY <1>1 DEF Init
<1>3. hand \in {StreamError, Nothing} /\ hand.pos = 0 /\ store = {}
  BY ItemFacts DEF Init
<1>4. /\ pc \in [Loops -> Idle] /\ \A l \in Loops : pc[l] = "none"
      /\ cursor \in [Loops -> 0..Len(log)] /\ at \in [Loops -> Nat]
      /\ \A l \in Loops : at[l] \in 1..(cursor[l] + 1)
  BY <1>1 DEF Init, Idle
<1>5. Bounds
  BY <1>1, <1>2, <1>3, <1>4 DEF Bounds
<1>6. /\ expired \in BOOLEAN /\ loggedIn \in BOOLEAN /\ stopped \in BOOLEAN
      /\ lagged \in BOOLEAN /\ owner \in Loops
      /\ stream \in {"closed", "open", "ended"}
  BY Zenon DEF Init
<1>8. faults \in 0..MaxFaults
  <2>1. faults = 0
    BY DEF Init
  <2> QED
    BY <2>1, BoundsAssumption
<1>7. TypeOK
  BY <1>1, <1>2, <1>3, <1>4, <1>6, <1>8, BoundsAssumption, CapacityAssumption
  DEF TypeOK
<1> QED
  BY <1>5, <1>7

\* What a step that emits at most e does to the channel.
LEMMA ChannelType ==
    ASSUME TypeOK, Bounds, NEW e \in Event, e.pos <= Len(log),
           UNCHANGED channel \/ EmitEvent(e)
    PROVE  /\ queue' \in Seq(Event) /\ Len(queue') <= Capacity
           /\ lagged' \in BOOLEAN
           /\ \A i \in 1..Len(queue') : queue'[i].pos <= Len(log)
<1>1. CASE UNCHANGED channel
  BY <1>1 DEF channel, TypeOK, Bounds
<1>2. CASE EmitEvent(e)
  <2>1. /\ queue' \in Seq(Event) /\ Len(queue') <= Capacity
        /\ lagged' \in BOOLEAN
        /\ \A i \in 1..Len(queue') :
              \/ queue'[i] = e
              \/ \E j \in 1..Len(queue) : queue'[i] = queue[j]
    BY <1>2, EmitEventType DEF TypeOK
  <2> QED
    BY <2>1 DEF Bounds
<1> QED
  BY <1>1, <1>2

LEMMA LoopType ==
    ASSUME TypeOK, Bounds, NEW l \in Loops, RunLoop(l)
    PROVE  TypeOK' /\ Bounds'
<1>1. /\ at[l] \in Nat /\ cursor[l] \in 0..Len(log) /\ Len(log) \in Nat
      /\ at[l] >= 1 /\ at[l] <= cursor[l] + 1
      /\ pc[l] = "message" => at[l] <= cursor[l]
  BY DEF TypeOK, Bounds
<1>2. UNCHANGED <<log, expired, owner, stream, hand, store, saved, faults,
                  loggedIn>>
  BY DEF RunLoop, Emit, Begin, CheckStopped, GetUpdates, GetNothing, GetError,
         GetSessionExpired, WakeUp, EmitContext, EmitMessage, SkipMessage,
         EmitCursor, NotifyStopped, AbortLands, LoopOnly, server, client,
         durable
<1>3. stopped' = FALSE \/ stopped' = stopped
  BY DEF RunLoop, Emit, Begin, CheckStopped, GetUpdates, GetNothing, GetError,
         GetSessionExpired, WakeUp, EmitContext, EmitMessage, SkipMessage,
         EmitCursor, NotifyStopped, AbortLands, client
<1>4. /\ pc' \in [Loops -> Idle \cup Awaiting \cup Emitting]
      /\ \A m \in Loops \ {l} : pc'[m] = pc[m]
      /\ pc'[l] = "message" => EmitContext(l)
  BY DEF RunLoop, Emit, Begin, CheckStopped, GetUpdates, GetNothing, GetError,
         GetSessionExpired, WakeUp, EmitContext, EmitMessage, SkipMessage,
         EmitCursor, NotifyStopped, AbortLands, Goto, TypeOK, Idle, Awaiting,
         Emitting
<1>5. /\ cursor' \in [Loops -> 0..Len(log)] /\ at' \in [Loops -> Nat]
      /\ \A m \in Loops \ {l} : cursor'[m] = cursor[m] /\ at'[m] = at[m]
      /\ at'[l] >= 1 /\ at'[l] <= cursor'[l] + 1
      /\ EmitContext(l) => at'[l] <= cursor'[l]
  <2>1. CASE cursor' = cursor /\ at' = at
    <3>1. EmitContext(l) => at[l] <= cursor[l]
      BY DEF EmitContext
    <3> QED
      BY <1>1, <2>1, <3>1 DEF TypeOK
  <2>2. CASE GetUpdates(l)
    <3>1. PICK last \in (cursor[l] + 1)..Len(log) :
             cursor' = [cursor EXCEPT ![l] = last]
      BY <2>2 DEF GetUpdates
    <3>2. at' = at /\ ~EmitContext(l)
      BY <2>2 DEF GetUpdates, EmitContext
    <3> QED
      BY <1>1, <3>1, <3>2 DEF TypeOK
  <2>3. CASE GetSessionExpired(l)
    <3>1. /\ cursor' = [cursor EXCEPT ![l] = 0] /\ at' = [at EXCEPT ![l] = 1]
          /\ ~EmitContext(l)
      BY <2>3 DEF GetSessionExpired, EmitContext
    <3> QED
      BY <1>1, <3>1 DEF TypeOK
  <2>4. CASE EmitMessage(l) \/ SkipMessage(l)
    <3>1. /\ cursor' = cursor /\ at' = [at EXCEPT ![l] = @ + 1]
          /\ at[l] <= cursor[l]
      BY <1>1, <2>4 DEF EmitMessage, SkipMessage
    <3>2. ~EmitContext(l)
      BY <2>4 DEF EmitMessage, SkipMessage, EmitContext
    <3> QED
      BY <1>1, <3>1, <3>2 DEF TypeOK
  <2> QED
    BY <2>1, <2>2, <2>3, <2>4
    DEF RunLoop, Emit, Begin, CheckStopped, GetNothing, GetError, WakeUp,
        EmitContext, EmitCursor, NotifyStopped, AbortLands
<1>6. /\ queue' \in Seq(Event) /\ Len(queue') <= Capacity
      /\ lagged' \in BOOLEAN
      /\ \A i \in 1..Len(queue') : queue'[i].pos <= Len(log)
  <2>1. CASE UNCHANGED channel
    BY <1>1, <2>1, ChannelType, ItemFacts
  <2>2. CASE GetSessionExpired(l)
    BY <1>1, <2>2, ChannelType, ItemFacts DEF GetSessionExpired
  <2>3. CASE EmitContext(l)
    BY <1>1, <2>3, ChannelType, EventFacts DEF EmitContext
  <2>4. CASE EmitMessage(l)
    <3>1. at[l] <= Len(log)
      BY <1>1, <2>4 DEF EmitMessage
    <3> QED
      BY <1>1, <2>4, <3>1, ChannelType, EventFacts DEF EmitMessage
  <2>5. CASE EmitCursor(l)
    BY <1>1, <2>5, ChannelType, EventFacts DEF EmitCursor
  <2> QED
    BY <2>1, <2>2, <2>3, <2>4, <2>5
    DEF RunLoop, Emit, Begin, CheckStopped, GetUpdates, GetNothing, GetError,
        WakeUp, SkipMessage, NotifyStopped, AbortLands
<1>7. \A m \in Loops : pc'[m] = "message" => at'[m] <= cursor'[m]
  BY <1>4, <1>5 DEF Bounds
<1>8. \A m \in Loops : at'[m] \in 1..(cursor'[m] + 1)
  <2>1. \A m \in Loops \ {l} : at'[m] \in 1..(cursor'[m] + 1)
    BY <1>5 DEF TypeOK
  <2>2. at'[l] \in Nat /\ cursor'[l] \in Nat
    BY <1>5
  <2> QED
    BY <1>5, <2>1, <2>2
<1>9. stopped' \in BOOLEAN
  BY <1>3 DEF TypeOK
<1>10. TypeOK'
  BY <1>2, <1>4, <1>5, <1>6, <1>8, <1>9 DEF TypeOK
<1>11. Bounds'
  BY <1>2, <1>6, <1>7 DEF Bounds
<1> QED
  BY <1>10, <1>11

LEMMA TypeStep ==
    ASSUME TypeOK, Bounds, [Next]_vars
    PROVE  TypeOK' /\ Bounds'
<1> USE DEF TypeOK, Bounds, Idle, Awaiting, Emitting
<1> USE BoundsAssumption, CapacityAssumption
<1>1. ASSUME NEW l \in Loops, RunLoop(l) PROVE TypeOK' /\ Bounds'
  BY <1>1, LoopType
<1>2. CASE EmitInteraction
  <2>1. /\ queue' \in Seq(Event) /\ Len(queue') <= Capacity
        /\ lagged' \in BOOLEAN
        /\ \A i \in 1..Len(queue') : queue'[i].pos <= Len(log)
    <3>1. EmitEvent(UserInteractionRequested) /\ 0 <= Len(log)
      BY <1>2 DEF EmitInteraction
    <3> QED
      BY <3>1, ChannelType, ItemFacts
  <2> QED
    BY <1>2, <2>1 DEF EmitInteraction, LoopOnly, server, client, durable, loops
<1>3. CASE LogIn
  BY <1>3 DEF LogIn, durable, channel, loops
<1>4. CASE StreamNext
  <2>1. /\ UNCHANGED <<log, expired, loggedIn, stopped, pc, cursor, at, owner,
                       store, saved, faults>>
        /\ stream' \in {"closed", "open", "ended"}
        /\ lagged' \in BOOLEAN
    BY <1>4 DEF StreamNext, AppOnly, server, client, durable, channel, loops
  <2>2. /\ queue' \in Seq(Event) /\ Len(queue') <= Capacity
        /\ \A i \in 1..Len(queue') : queue'[i].pos <= Len(log)
    <3>1. CASE queue' = queue
      BY <3>1
    <3>2. CASE queue # <<>> /\ queue' = Tail(queue)
      BY <3>2
    <3> QED
      BY <1>4, <3>1, <3>2 DEF StreamNext, channel
  <2>3. hand' \in Event \cup {StreamError, Nothing} /\ hand'.pos <= Len(log)
    <3>1. CASE hand' = hand
      BY <3>1
    <3>2. CASE hand' = StreamError
      BY <3>2, ItemFacts
    <3>3. CASE queue # <<>> /\ hand' = Head(queue)
      BY <3>3
    <3> QED
      BY <1>4, <3>1, <3>2, <3>3 DEF StreamNext
  <2> QED
    BY <2>1, <2>2, <2>3
<1>5. CASE HandleItem
  <2>1. /\ UNCHANGED <<log, expired, loggedIn, stopped, pc, cursor, at, owner,
                       stream, queue, lagged, faults>>
        /\ hand' = Nothing /\ hand'.pos <= Len(log)
    BY <1>5, ItemFacts
    DEF HandleItem, AppOnly, server, client, loops, channel
  <2>2. hand \in Event
    BY <1>5, ItemFacts DEF HandleItem, EventTypes
  <2>3. /\ store' \in SUBSET Event
        /\ \A e \in store' : e.pos <= Len(log)
    <3>1. store' \subseteq store \cup {hand}
      BY <1>5 DEF HandleItem
    <3> QED
      BY <2>2, <3>1
  <2>4. saved' \in 0..Len(log)
    BY <1>5, <2>2, ItemFacts DEF HandleItem
  <2> QED
    BY <2>1, <2>3, <2>4
<1>6. ASSUME DropStream, UNCHANGED server, faults' \in 0..MaxFaults
       PROVE  TypeOK' /\ Bounds'
  <2>1. /\ UNCHANGED <<log, expired, loggedIn, stopped, cursor, at, owner,
                       store, saved>>
        /\ stream' = "closed" /\ lagged' = FALSE /\ hand' = Nothing
        /\ queue' = <<>>
    BY <1>6 DEF DropStream, server, client, durable
  <2>2. /\ pc' \in [Loops -> Idle \cup Awaiting \cup Emitting]
        /\ \A l \in Loops : pc'[l] = "message" => pc[l] = "message"
    BY <1>6 DEF DropStream
  <2>9. /\ queue' \in Seq(Event) /\ Len(queue') <= Capacity
        /\ \A i \in 1..Len(queue') : queue'[i].pos <= Len(log')
    BY <2>1, EmptyQueue
  <2>8. hand' \in {StreamError, Nothing} /\ hand'.pos = 0
    BY <2>1, ItemFacts
  <2>10. pc' \in [Loops -> Idle \cup Awaiting \cup Emitting]
    BY <2>2
  <2>11. hand' \in Event \cup {StreamError, Nothing} /\ hand'.pos <= Len(log')
    BY <2>1, <2>8
  <2>12. /\ log' \in Seq(Inbox!Kinds) /\ Len(log') <= MaxLog
         /\ cursor' \in [Loops -> 0..Len(log')]
         /\ at' \in [Loops -> Nat]
         /\ \A l \in Loops : at'[l] \in 1..(cursor'[l] + 1)
         /\ \A l \in Loops : pc'[l] = "message" => at'[l] <= cursor'[l]
    BY <2>1, <2>2
  <2>13. /\ store' \in SUBSET Event /\ saved' \in 0..Len(log')
         /\ \A e \in store' : e.pos <= Len(log')
         /\ expired' \in BOOLEAN /\ loggedIn' \in BOOLEAN
         /\ stopped' \in BOOLEAN /\ lagged' \in BOOLEAN
         /\ faults' \in 0..MaxFaults
    BY <1>6, <2>1 DEF server
  <2> QED
    BY <2>1, <2>9, <2>10, <2>11, <2>12, <2>13
<1>7. CASE LeaveOnItem \/ LeaveEarly
  <2>1. DropStream /\ UNCHANGED server
    BY <1>7 DEF LeaveOnItem, LeaveEarly, AppOnly
  <2>2. faults' \in 0..MaxFaults
    BY <1>7 DEF LeaveOnItem, LeaveEarly, AppOnly, Fault
  <2> QED
    BY <1>6, <2>1, <2>2
<1>8. CASE Stop
  BY <1>8 DEF Stop, Fault, server, durable, channel, loops
<1>9. CASE Crash
  <2>1. /\ UNCHANGED <<log, expired, cursor, at, owner, store, saved>>
        /\ stream' = "closed" /\ lagged' = FALSE /\ hand' = Nothing
        /\ queue' = <<>> /\ loggedIn' = FALSE /\ stopped' = FALSE
        /\ faults' \in 0..MaxFaults
        /\ pc' = [l \in Loops |-> "none"]
    BY <1>9 DEF Crash, Fault, server, durable
  <2>9. /\ queue' \in Seq(Event) /\ Len(queue') <= Capacity
        /\ \A i \in 1..Len(queue') : queue'[i].pos <= Len(log')
    BY <2>1, EmptyQueue
  <2>8. hand' \in {StreamError, Nothing} /\ hand'.pos = 0
    BY <2>1, ItemFacts
  <2>10. pc' \in [Loops -> Idle \cup Awaiting \cup Emitting]
    BY <2>1
  <2>11. hand' \in Event \cup {StreamError, Nothing} /\ hand'.pos <= Len(log')
    BY <2>1, <2>8
  <2>12. /\ log' \in Seq(Inbox!Kinds) /\ Len(log') <= MaxLog
         /\ cursor' \in [Loops -> 0..Len(log')]
         /\ at' \in [Loops -> Nat]
         /\ \A l \in Loops : at'[l] \in 1..(cursor'[l] + 1)
         /\ \A l \in Loops : pc'[l] = "message" => at'[l] <= cursor'[l]
    BY <2>1
  <2>13. /\ store' \in SUBSET Event /\ saved' \in 0..Len(log')
         /\ \A e \in store' : e.pos <= Len(log')
         /\ expired' \in BOOLEAN /\ loggedIn' \in BOOLEAN
         /\ stopped' \in BOOLEAN /\ lagged' \in BOOLEAN
         /\ faults' \in 0..MaxFaults
    BY <2>1
  <2> QED
    BY <2>1, <2>9, <2>10, <2>11, <2>12, <2>13
<1>10. CASE MessageArrives
  <2>1. /\ UNCHANGED <<expired, loggedIn, stopped, pc, cursor, at, owner,
                       stream, queue, lagged, hand, store, saved, faults>>
    BY <1>10 DEF MessageArrives, client, loops, channel, durable
  <2>2. PICK kind \in Inbox!Kinds : log' = Append(log, kind)
    BY <1>10 DEF MessageArrives
  <2>3. /\ log' \in Seq(Inbox!Kinds) /\ Len(log') = Len(log) + 1
        /\ Len(log') <= MaxLog
    BY <1>10, <2>2 DEF MessageArrives
  <2>4. hand.pos <= Len(log') /\ \A e \in store : e.pos <= Len(log')
    <3>1. hand.pos \in Nat /\ \A e \in store : e.pos \in Nat
      BY ItemFacts
    <3> QED
      BY <2>3, <3>1
  <2>5. \A i \in 1..Len(queue) : queue[i].pos <= Len(log')
    <3>1. \A i \in 1..Len(queue) : queue[i].pos \in Nat
      BY ItemFacts
    <3> QED
      BY <2>3, <3>1
  <2> QED
    BY <2>1, <2>3, <2>4, <2>5
<1>11. CASE SessionExpires
  BY <1>11 DEF SessionExpires, Fault, client, durable, channel, loops
<1>12. ASSUME NEW l \in Loops, EventsFromCursor(l)
       PROVE  TypeOK' /\ Bounds'
  <2>1. /\ UNCHANGED <<log, expired, loggedIn, stopped, hand, store, saved,
                       faults>>
        /\ stream' = "open" /\ lagged' = FALSE /\ queue' = <<>>
        /\ owner' = l
    BY <1>12 DEF EventsFromCursor, AppOnly, server, client, durable
  <2>2. /\ pc' \in [Loops -> Idle \cup Awaiting \cup Emitting]
        /\ cursor' \in [Loops -> 0..Len(log)]
        /\ at' \in [Loops -> Nat]
        /\ \A m \in Loops : at'[m] \in 1..(cursor'[m] + 1)
        /\ \A m \in Loops : pc'[m] = "message" => at'[m] <= cursor'[m]
    BY <1>12 DEF EventsFromCursor
  <2>9. /\ queue' \in Seq(Event) /\ Len(queue') <= Capacity
        /\ \A i \in 1..Len(queue') : queue'[i].pos <= Len(log')
    BY <2>1, EmptyQueue
  <2> QED
    BY <2>1, <2>2, <2>9
<1>13. CASE UNCHANGED vars
  BY <1>13 DEF vars
<1> QED
  BY <1>1, <1>2, <1>3, <1>4, <1>5, <1>6, <1>7, <1>8, <1>9, <1>10, <1>11, <1>12,
     <1>13
  DEF Next, Application

\* TypeOK holds whatever the number of loops, the capacity and the bounds: no
\* interleaving overfills the channel or puts a loop or a cursor beyond the log.
THEOREM TypeCorrect == Spec => [](TypeOK /\ Bounds)
<1>1. Init => TypeOK /\ Bounds
  BY TypeInit
<1>2. TypeOK /\ Bounds /\ [Next]_vars => TypeOK' /\ Bounds'
  BY TypeStep
<1> QED
  BY <1>1, <1>2, PTL DEF Spec
-----------------------------------------------------------------------------
(* The account's history. *)

LEMMA EventsOfFacts ==
    ASSUME NEW p
    PROVE  /\ \A e \in EventsOf(p) : e = ContextObserved(p) \/ e = Message(p)
           /\ log[p] = "plain" => EventsOf(p) = {Message(p)}
           /\ log[p] = "other" => EventsOf(p) = {}
  BY DEF EventsOf, Inbox!EventsOf, ContextObserved, Message

\* The history of an unchanged log, and of the old part of one that grows, does
\* not change.
LEMMA HistoryStable ==
    ASSUME UNCHANGED log
    PROVE  /\ \A p : EventsOf(p)' = EventsOf(p)
           /\ \A e : Before(e)' = Before(e)
  BY DEF Before, EventsOf, Inbox!EventsOf

LEMMA HistoryGrows ==
    ASSUME log \in Seq(Inbox!Kinds), NEW kind \in Inbox!Kinds,
           log' = Append(log, kind)
    PROVE  /\ \A p \in 1..Len(log) : EventsOf(p)' = EventsOf(p)
           /\ \A e : e.pos \in 0..Len(log) => Before(e)' = Before(e)
<1>1. \A p \in 1..Len(log) : log'[p] = log[p]
  OBVIOUS
<1>2. \A p \in 1..Len(log) : EventsOf(p)' = EventsOf(p)
  BY <1>1 DEF EventsOf, Inbox!EventsOf
<1>3. ASSUME NEW e, e.pos \in 0..Len(log)
      PROVE  Before(e)' = Before(e)
  <2>1. 1..e.pos \subseteq 1..Len(log)
    BY <1>3
  <2> QED
    BY <1>2, <2>1 DEF Before
<1> QED
  BY <1>2, <1>3

\* What comes before each kind of event.
LEMMA BeforeContext ==
    ASSUME NEW p \in Nat
    PROVE  \A d \in Before(ContextObserved(p)) :
              \E q \in 1..(p - 1) : d \in EventsOf(q)
<1> TAKE d \in Before(ContextObserved(p))
<1>1. PICK q \in 1..p : d \in EventsOf(q)
  BY EventFacts DEF Before
<1>2. d.pos = q
  BY <1>1, EventsOfFacts, EventFacts
<1>3. d.pos # p
  BY EventFacts DEF Before
<1> QED
  BY <1>1, <1>2, <1>3

LEMMA BeforeMessage ==
    ASSUME NEW p \in Nat
    PROVE  \A d \in Before(Message(p)) :
              \/ \E q \in 1..(p - 1) : d \in EventsOf(q)
              \/ d = ContextObserved(p) /\ d \in EventsOf(p)
<1> TAKE d \in Before(Message(p))
<1>1. PICK q \in 1..p : d \in EventsOf(q)
  BY EventFacts DEF Before
<1>2. CASE q = p
  <2>1. d.type = "ContextObserved"
    BY <1>1, <1>2, EventsOfFacts, EventFacts DEF Before
  <2> QED
    BY <1>1, <1>2, <2>1, EventsOfFacts, EventFacts
<1>3. CASE q # p
  BY <1>1, <1>3
<1> QED
  BY <1>2, <1>3

LEMMA BeforeCursor ==
    ASSUME NEW e, e.type = "CursorAdvanced"
    PROVE  /\ \A d \in Before(e) : \E q \in 1..e.pos : d \in EventsOf(q)
           /\ \A q \in 1..e.pos : EventsOf(q) \subseteq Before(e)
  BY DEF Before

LEMMA BeforeOther ==
    ASSUME NEW e, e.pos = 0
    PROVE  Before(e) = {}
  BY DEF Before

-----------------------------------------------------------------------------
(* Nothing is skipped. *)

\* Emitting an event after what must come before it keeps the channel complete.
LEMMA EmitComplete ==
    ASSUME TypeOK, Complete, NEW e \in Event, EmitEvent(e),
           UNCHANGED <<log, stream, hand, store, saved>>,
           Reading => \A d \in Before(e) : Delivered(d),
           Reading'
    PROVE  /\ Reading
           /\ \A d : Delivered(d) => Delivered(d)'
           /\ Delivered(e)'
           /\ \A i \in 1..Len(queue') :
                 \A d \in Before(queue[i])' : DeliveredBefore(d, i)'
<1>1. /\ queue \in Seq(Event) /\ queue' \in Seq(Event)
      /\ stream = "open" /\ ~lagged /\ Reading
      /\ Len(queue') = Len(queue) + 1
      /\ queue'[Len(queue) + 1] = e
      /\ \A i \in 1..Len(queue) : queue'[i] = queue[i]
  BY EmitEventAppends, EmitEventType DEF TypeOK, Reading
<1>2. Len(queue) \in Nat
  BY <1>1
<1>3. \A d, i : i \in 1..(Len(queue) + 1) /\ DeliveredBefore(d, i)
                   => DeliveredBefore(d, i)'
  BY <1>1, <1>2 DEF DeliveredBefore
<1>4. \A d : Delivered(d) => Delivered(d)'
  BY <1>1, <1>2 DEF DeliveredBefore, Delivered
<1>5. Delivered(e)'
  BY <1>1, <1>2 DEF DeliveredBefore, Delivered
<1>6. ASSUME NEW i \in 1..Len(queue'), NEW d \in Before(queue[i])'
      PROVE  DeliveredBefore(d, i)'
  <2>1. d \in Before(queue'[i])
    BY HistoryStable
  <2>2. CASE i \in 1..Len(queue)
    <3>1. DeliveredBefore(d, i)
      BY <1>1, <2>1, <2>2 DEF Complete
    <3> QED
      BY <1>2, <1>3, <2>2, <3>1
  <2>3. CASE i = Len(queue) + 1
    <3>1. Delivered(d)
      BY <1>1, <2>1, <2>3
    <3> QED
      BY <1>2, <1>3, <2>3, <3>1 DEF Delivered
  <2> QED
    BY <1>1, <1>2, <2>2, <2>3
<1> QED
  BY <1>1, <1>4, <1>5, <1>6
\* A loop that emits is the stream's own when the stream is open.
LEMMA OwnerStep ==
    ASSUME TypeOK, AwaitsAbort, OnlyOwnerEmits, [Next]_vars
    PROVE  OnlyOwnerEmits'
<1> USE DEF OnlyOwnerEmits, Idle, Awaiting, Emitting
<1>1. ASSUME NEW l \in Loops, RunLoop(l) PROVE OnlyOwnerEmits'
  <2>1. /\ UNCHANGED <<stream, owner>>
        /\ pc[l] \notin Idle
        /\ \A m \in Loops \ {l} : pc'[m] = pc[m]
    BY <1>1 DEF RunLoop, Emit, Begin, CheckStopped, GetUpdates, GetNothing,
                GetError, GetSessionExpired, WakeUp, EmitContext, EmitMessage,
                SkipMessage, EmitCursor, NotifyStopped, AbortLands, LoopOnly,
                Goto, TypeOK
  <2> QED
    BY <2>1
<1>2. ASSUME NEW l \in Loops, EventsFromCursor(l) PROVE OnlyOwnerEmits'
  <2>1. /\ owner' = l
        /\ \A m \in Loops \ {l} : pc[m] \in Idle /\ pc'[m] = pc[m]
    BY <1>2 DEF EventsFromCursor, TypeOK
  <2> QED
    BY <2>1
<1>3. CASE LeaveOnItem \/ LeaveEarly \/ Crash
  BY <1>3 DEF LeaveOnItem, LeaveEarly, Crash, DropStream
<1>4. CASE StreamNext
  BY <1>4 DEF StreamNext, loops
<1>5. CASE EmitInteraction \/ LogIn \/ HandleItem \/ Stop \/ MessageArrives
             \/ SessionExpires \/ UNCHANGED vars
  BY <1>5 DEF EmitInteraction, LogIn, HandleItem, Stop, MessageArrives,
              SessionExpires, LoopOnly, loops, vars
<1> QED
  BY <1>1, <1>2, <1>3, <1>4, <1>5 DEF Next, Application

\* A step of a loop that emits nothing, and passes at most a message that has no
\* events.
LEMMA QuietLoopComplete ==
    ASSUME TypeOK, Complete, NEW l \in Loops,
           UNCHANGED <<log, owner, stream, hand, store, saved, channel>>,
           \A m \in Loops \ {l} : pc'[m] = pc[m] /\ at'[m] = at[m],
           pc'[l] # "message",
           \/ at'[l] = at[l]
           \/ at'[l] = at[l] + 1 /\ EventsOf(at[l]) = {}
    PROVE  Complete'
<1>1. Before(hand)' \subseteq store' /\ NoGap' /\ CursorCoversStore'
  BY HistoryStable DEF Complete, NoGap, CursorCoversStore
<1>2. \A d, i : DeliveredBefore(d, i)' = DeliveredBefore(d, i)
  BY DEF DeliveredBefore, channel
<1>3. \A d : Delivered(d)' = Delivered(d)
  BY DEF Delivered, DeliveredBefore, channel
<1>4. ASSUME Reading'
      PROVE  /\ \A p \in 1..(at'[owner'] - 1) :
                   \A e \in EventsOf(p)' : Delivered(e)'
             /\ pc'[owner'] = "message" => Delivered(ContextObserved(at[owner]))'
             /\ \A i \in 1..Len(queue') :
                   \A d \in Before(queue[i])' : DeliveredBefore(d, i)'
  <2>1. Reading /\ owner' = owner /\ queue' = queue
    BY <1>4 DEF Reading, channel
  <2>2. \A p \in 1..(at'[owner] - 1) : \A e \in EventsOf(p) : Delivered(e)
    <3>1. \A p \in 1..(at[owner] - 1) : \A e \in EventsOf(p) : Delivered(e)
      BY <2>1 DEF Complete
    <3>2. at[owner] \in Nat
      BY DEF TypeOK
    <3>3. \/ at'[owner] = at[owner]
          \/ at'[owner] = at[owner] + 1 /\ EventsOf(at[owner]) = {}
      <4>1. owner \in Loops
        BY DEF TypeOK
      <4>2. CASE owner = l
        BY <4>2
      <4>3. CASE owner # l
        BY <4>1, <4>3
      <4> QED
        BY <4>2, <4>3
    <3> QED
      BY <3>1, <3>2, <3>3
  <2>3. pc'[owner] = "message" => Delivered(ContextObserved(at[owner]))'
    BY <1>3, <2>1 DEF Complete, TypeOK
  <2> QED
    BY <1>2, <1>3, <2>1, <2>2, <2>3, HistoryStable DEF Complete
<1> QED
  BY <1>1, <1>4 DEF Complete
\* A step of the stream's loop that emits e, and then waits, is in the middle of
\* the message whose context it emitted, or is past the message it emitted.
LEMMA EmittingLoopComplete ==
    ASSUME TypeOK, Bounds, OnlyOwnerEmits, Complete, NEW l \in Loops,
           pc[l] \notin Idle,
           UNCHANGED <<log, owner, stream, hand, store, saved>>,
           NEW e \in Event, EmitEvent(e),
           Reading /\ l = owner => \A d \in Before(e) : Delivered(d),
           pc'[l] = "message" =>
               at'[l] = at[l] /\ e = ContextObserved(at[l]),
           \/ at'[l] = at[l]
           \/ at'[l] = 1
           \/ /\ at'[l] = at[l] + 1
              /\ e = Message(at[l])
              /\ pc[l] = "message" \/ EventsOf(at[l]) = {Message(at[l])}
    PROVE  Complete'
<1>1. Before(hand)' \subseteq store' /\ NoGap' /\ CursorCoversStore'
  BY HistoryStable DEF Complete, NoGap, CursorCoversStore
<1>2. ASSUME Reading'
      PROVE  /\ \A p \in 1..(at'[owner'] - 1) :
                   \A d \in EventsOf(p)' : Delivered(d)'
             /\ pc'[owner'] = "message" => Delivered(ContextObserved(at[owner]))'
             /\ \A i \in 1..Len(queue') :
                   \A d \in Before(queue[i])' : DeliveredBefore(d, i)'
  <2>1. l = owner /\ owner' = owner
    BY <1>2 DEF Reading, OnlyOwnerEmits
  <2>2. /\ Reading
        /\ \A d : Delivered(d) => Delivered(d)'
        /\ Delivered(e)'
        /\ \A i \in 1..Len(queue') :
              \A d \in Before(queue[i])' : DeliveredBefore(d, i)'
    BY <1>2, <2>1, EmitComplete
  <2>3. pc'[owner'] = "message" => Delivered(ContextObserved(at[owner]))'
    BY <2>1, <2>2
  <2>4. \A p \in 1..(at[l] - 1) : \A d \in EventsOf(p) : Delivered(d)'
    BY <2>1, <2>2 DEF Complete
  <2>5. at[l] \in Nat /\ at[l] >= 1
    BY DEF TypeOK
  <2>6. ASSUME at'[l] = at[l] + 1, e = Message(at[l]),
               pc[l] = "message" \/ EventsOf(at[l]) = {Message(at[l])}
        PROVE  \A d \in EventsOf(at[l]) : Delivered(d)'
    <3>1. pc[l] = "message"
            => \A d : d = ContextObserved(at[l]) => Delivered(d)'
      BY <2>1, <2>2 DEF Complete
    <3> QED
      BY <2>2, <2>6, <3>1, EventsOfFacts
  <2>7. \A p \in 1..(at'[l] - 1) : \A d \in EventsOf(p) : Delivered(d)'
    BY <2>4, <2>5, <2>6
  <2> QED
    BY <2>1, <2>2, <2>3, <2>7, HistoryStable
<1> QED
  BY <1>1, <1>2 DEF Complete
LEMMA LoopComplete ==
    ASSUME TypeOK, Bounds, OnlyOwnerEmits, Complete,
           NEW l \in Loops, RunLoop(l)
    PROVE  Complete'
<1>1. at[l] \in Nat /\ cursor[l] \in Nat
  BY DEF TypeOK
<1>2. CASE \/ Begin(l) \/ CheckStopped(l) \/ GetUpdates(l) \/ GetNothing(l)
           \/ GetError(l) \/ WakeUp(l) \/ NotifyStopped(l) \/ AbortLands(l)
  <2>1. /\ UNCHANGED <<log, owner, stream, hand, store, saved, channel, at>>
        /\ \A m \in Loops \ {l} : pc'[m] = pc[m]
        /\ pc'[l] # "message"
    BY <1>2 DEF Begin, CheckStopped, GetUpdates, GetNothing, GetError, WakeUp,
                NotifyStopped, AbortLands, LoopOnly, Goto, server, durable,
                TypeOK
  <2> QED
    BY <2>1, QuietLoopComplete
<1>3. CASE SkipMessage(l)
  <2>1. /\ UNCHANGED <<log, owner, stream, hand, store, saved, channel, pc>>
        /\ \A m \in Loops \ {l} : at'[m] = at[m]
        /\ pc[l] # "message"
        /\ at'[l] = at[l] + 1
        /\ EventsOf(at[l]) = {}
    BY <1>3, EventsOfFacts DEF SkipMessage, LoopOnly, server, durable, TypeOK
  <2> QED
    BY <2>1, QuietLoopComplete
<1>4. CASE GetSessionExpired(l)
  <2>1. /\ pc[l] \notin Idle
        /\ UNCHANGED <<log, owner, stream, hand, store, saved>>
        /\ EmitEvent(AuthSessionExpired)
        /\ pc'[l] # "message" /\ at'[l] = 1
    BY <1>4 DEF GetSessionExpired, LoopOnly, Goto, server, durable, TypeOK, Idle
  <2> QED
    BY <2>1, EmittingLoopComplete, ItemFacts, BeforeOther
<1>5. CASE EmitContext(l)
  <2>1. /\ pc[l] \notin Idle
        /\ UNCHANGED <<log, owner, stream, hand, store, saved, at>>
        /\ EmitEvent(ContextObserved(at[l]))
    BY <1>5 DEF EmitContext, LoopOnly, server, durable, Idle
  <2>2. Reading /\ l = owner =>
          \A d \in Before(ContextObserved(at[l])) : Delivered(d)
    BY <1>1, BeforeContext DEF Complete
  <2>3. ContextObserved(at[l]) \in Event
    BY <1>1, EventFacts
  <2> QED
    BY <2>1, <2>2, <2>3, EmittingLoopComplete
<1>6. CASE EmitMessage(l)
  <2>1. /\ pc[l] \notin Idle
        /\ UNCHANGED <<log, owner, stream, hand, store, saved>>
        /\ EmitEvent(Message(at[l]))
        /\ pc'[l] = "batch"
        /\ at'[l] = at[l] + 1
    BY <1>6 DEF EmitMessage, LoopOnly, Goto, server, durable, Idle, TypeOK
  <2>2. pc[l] = "message" \/ EventsOf(at[l]) = {Message(at[l])}
    BY <1>6, EventsOfFacts DEF EmitMessage
  <2>3. ASSUME Reading, l = owner, NEW d \in Before(Message(at[l]))
        PROVE  Delivered(d)
    <3>1. CASE \E q \in 1..(at[l] - 1) : d \in EventsOf(q)
      BY <2>3, <3>1 DEF Complete
    <3>2. CASE d = ContextObserved(at[l]) /\ d \in EventsOf(at[l])
      <4>1. d # Message(at[l])
        BY <1>1, <3>2, EventFacts
      <4>2. pc[l] = "message"
        BY <2>2, <3>2, <4>1
      <4> QED
        BY <2>3, <3>2, <4>2 DEF Complete
    <3> QED
      BY <1>1, <3>1, <3>2, BeforeMessage
  <2>4. Message(at[l]) \in Event
    BY <1>1, EventFacts
  <2> QED
    BY <2>1, <2>2, <2>3, <2>4, EmittingLoopComplete
<1>7. CASE EmitCursor(l)
  <2>1. /\ pc[l] \notin Idle
        /\ UNCHANGED <<log, owner, stream, hand, store, saved, at>>
        /\ EmitEvent(CursorAdvanced(cursor[l]))
        /\ pc'[l] # "message"
    BY <1>7 DEF EmitCursor, LoopOnly, Goto, server, durable, Idle, TypeOK
  <2>2. CursorAdvanced(cursor[l]) \in Event
    BY <1>1, EventFacts
  <2>3. ASSUME Reading, l = owner, NEW d \in Before(CursorAdvanced(cursor[l]))
        PROVE  Delivered(d)
    <3>1. PICK q \in 1..cursor[l] : d \in EventsOf(q)
      BY <1>1, EventFacts, BeforeCursor
    <3>2. q \in 1..(at[l] - 1)
      BY <1>1, <1>7 DEF EmitCursor
    <3> QED
      BY <2>3, <3>1, <3>2 DEF Complete
  <2> QED
    BY <2>1, <2>2, <2>3, EmittingLoopComplete
<1> QED
  BY <1>2, <1>3, <1>4, <1>5, <1>6, <1>7 DEF RunLoop, Emit
\* No event of the history is what stands for an empty hand.
LEMMA NotNothing ==
    ASSUME TypeOK, NEW p \in Nat, NEW d \in EventsOf(p)
    PROVE  d # Nothing /\ d.type # "CursorAdvanced"
  BY EventsOfFacts, EventFacts, ItemFacts

LEMMA BeforeInHistory ==
    ASSUME NEW e, e.pos \in Nat, NEW d \in Before(e)
    PROVE  \E p \in Nat : d \in EventsOf(p)
  BY DEF Before

LEMMA CompleteStep ==
    ASSUME TypeOK, Bounds, OnlyOwnerEmits, Complete, [Next]_vars
    PROVE  Complete'
<1>1. ASSUME NEW l \in Loops, RunLoop(l) PROVE Complete'
  BY <1>1, LoopComplete
<1>2. CASE \/ LogIn \/ Stop \/ SessionExpires \/ UNCHANGED vars
  <2>1. UNCHANGED <<log, pc, cursor, at, owner, stream, queue, lagged, hand,
                    store, saved>>
    <3>1. CASE LogIn
      BY <3>1 DEF LogIn, loops, channel, durable
    <3>2. CASE Stop
      BY <3>2 DEF Stop, server, loops, channel, durable
    <3>3. CASE SessionExpires
      BY <3>3 DEF SessionExpires, loops, channel, durable
    <3>4. CASE UNCHANGED vars
      BY <3>4 DEF vars
    <3> QED
      BY <1>2, <3>1, <3>2, <3>3, <3>4
  <2> QED
    BY <2>1, HistoryStable DEF Complete, Reading, Delivered, DeliveredBefore,
                               NoGap, CursorCoversStore
<1>3. CASE EmitInteraction
  <2>1. /\ UNCHANGED <<log, pc, cursor, at, owner, stream, hand, store, saved>>
        /\ EmitEvent(UserInteractionRequested)
    BY <1>3 DEF EmitInteraction, LoopOnly, server, loops, durable
  <2>2. Before(hand)' \subseteq store' /\ NoGap' /\ CursorCoversStore'
    BY <2>1, HistoryStable DEF Complete, NoGap, CursorCoversStore
  <2>3. ASSUME Reading'
        PROVE  /\ Reading
               /\ \A d : Delivered(d) => Delivered(d)'
               /\ \A i \in 1..Len(queue') :
                     \A d \in Before(queue[i])' : DeliveredBefore(d, i)'
    BY <2>1, <2>3, EmitComplete, ItemFacts, BeforeOther
  <2>4. ASSUME Reading'
        PROVE  /\ \A p \in 1..(at'[owner'] - 1) :
                     \A d \in EventsOf(p)' : Delivered(d)'
               /\ pc'[owner'] = "message" =>
                     Delivered(ContextObserved(at[owner]))'
    BY <2>1, <2>3, <2>4, HistoryStable DEF Complete
  <2> QED
    BY <2>2, <2>3, <2>4 DEF Complete
<1>4. ASSUME NEW l \in Loops, EventsFromCursor(l) PROVE Complete'
  <2>1. /\ UNCHANGED <<log, hand, store, saved>>
        /\ owner' = l /\ queue' = <<>>
        /\ pc'[l] = "spawned" /\ at'[l] = saved + 1
    BY <1>4 DEF EventsFromCursor, AppOnly, server, durable, TypeOK
  <2>2. Before(hand)' \subseteq store' /\ NoGap' /\ CursorCoversStore'
    BY <2>1, HistoryStable DEF Complete, NoGap, CursorCoversStore
  <2>3. \A p \in 1..(at'[owner'] - 1) : \A d \in EventsOf(p)' : Delivered(d)'
    <3>1. at'[owner'] - 1 = saved
      BY <2>1 DEF TypeOK
    <3> QED
      BY <2>1, <3>1, HistoryStable
      DEF Complete, CursorCoversStore, Delivered, DeliveredBefore
  <2> QED
    BY <2>1, <2>2, <2>3, EmptyQueue DEF Complete
<1>5. CASE StreamNext
  <2>1. UNCHANGED <<log, pc, cursor, at, owner, store, saved>>
    BY <1>5 DEF StreamNext, AppOnly, server, loops, durable
  <2>2. CASE ~Reading' /\ hand' \in {StreamError, hand}
    <3>1. Before(hand)' \subseteq store'
      BY <2>1, <2>2, HistoryStable, ItemFacts, BeforeOther DEF Complete
    <3> QED
      BY <2>1, <2>2, <3>1, HistoryStable
      DEF Complete, NoGap, CursorCoversStore
  <2>3. CASE /\ hand = Nothing /\ queue # <<>> /\ hand' = Head(queue)
             /\ queue' = Tail(queue) /\ ~lagged
             /\ UNCHANGED <<lagged, stream>> /\ stream = "open"
    <3>1. /\ queue \in Seq(Event) /\ Len(queue) >= 1 /\ Len(queue) \in Nat
          /\ hand' = queue[1] /\ Len(queue') = Len(queue) - 1
          /\ \A i \in 1..Len(queue') : queue'[i] = queue[i + 1]
          /\ Reading
      BY <2>3, ItemFacts DEF TypeOK, Reading
    <3>2. \A e : e # Nothing =>
             \A i \in 1..(Len(queue) + 1) : i >= 2 =>
                (DeliveredBefore(e, i) => DeliveredBefore(e, i - 1)')
      <4> SUFFICES ASSUME NEW e, e # Nothing, NEW i \in 2..(Len(queue) + 1),
                          DeliveredBefore(e, i)
                   PROVE  \/ e \in store' \/ e = hand'
                          \/ \E j \in 1..(i - 2) : e = queue'[j]
        BY <3>1 DEF DeliveredBefore
      <4>1. CASE e \in store
        BY <2>1, <4>1
      <4>2. CASE \E j \in 1..(i - 1) : e = queue[j]
        <5>1. PICK j \in 1..(i - 1) : e = queue[j]
          BY <4>2
        <5>2. CASE j = 1
          BY <3>1, <5>1, <5>2
        <5>3. CASE j # 1
          <6>1. j - 1 \in 1..(i - 2) /\ j - 1 \in 1..Len(queue')
            BY <3>1, <5>3
          <6>2. queue'[j - 1] = queue[(j - 1) + 1] /\ (j - 1) + 1 = j
            BY <3>1, <6>1
          <6> QED
            BY <5>1, <6>1, <6>2
        <5> QED
          BY <5>2, <5>3
      <4> QED
        BY <2>3, <4>1, <4>2 DEF DeliveredBefore
    <3>3. \A e : e # Nothing /\ Delivered(e) => Delivered(e)'
      BY <3>1, <3>2 DEF Delivered
    <3>4. Before(hand)' \subseteq store'
      <4> SUFFICES ASSUME NEW d \in Before(queue[1]) PROVE d \in store
        BY <2>1, <3>1, HistoryStable
      <4>1. DeliveredBefore(d, 1)
        BY <3>1 DEF Complete
      <4>2. d # Nothing
        BY <3>1, NotNothing, BeforeInHistory, ItemFacts
      <4> QED
        BY <2>3, <4>1, <4>2 DEF DeliveredBefore
    <3>5. \A p \in 1..(at'[owner'] - 1) :
             \A d \in EventsOf(p)' : Delivered(d)'
      BY <2>1, <3>1, <3>3, NotNothing, HistoryStable DEF Complete, TypeOK
    <3>6. pc'[owner'] = "message" => Delivered(ContextObserved(at[owner]))'
      <4>1. ContextObserved(at[owner]) # Nothing
        BY EventFacts, ItemFacts DEF TypeOK
      <4> QED
        BY <2>1, <3>1, <3>3, <4>1 DEF Complete
    <3>7. ASSUME NEW i \in 1..Len(queue'), NEW d \in Before(queue[i])'
          PROVE  DeliveredBefore(d, i)'
      <4>1. d \in Before(queue[i + 1]) /\ i + 1 \in 1..Len(queue)
        BY <2>1, <3>1, HistoryStable
      <4>2. DeliveredBefore(d, i + 1)
        BY <3>1, <4>1 DEF Complete
      <4>3. d # Nothing
        BY <3>1, <4>1, NotNothing, BeforeInHistory, ItemFacts
      <4>4. DeliveredBefore(d, (i + 1) - 1)'
        BY <3>1, <3>2, <4>1, <4>2, <4>3
      <4> QED
        BY <3>1, <4>4
    <3> QED
      BY <2>1, <3>4, <3>5, <3>6, <3>7, HistoryStable
      DEF Complete, NoGap, CursorCoversStore
  <2> QED
    BY <1>5, <2>2, <2>3 DEF StreamNext, Reading
<1>6. CASE HandleItem
  <2>1. /\ UNCHANGED <<log, pc, cursor, at, owner, stream, queue, lagged>>
        /\ hand' = Nothing /\ hand # StreamError
        /\ store \subseteq store'
        /\ hand.type # "CursorAdvanced" => saved' = saved
        /\ hand.type = "CursorAdvanced" => saved' = hand.pos /\ store' = store
        /\ store' \subseteq store \cup {hand}
        /\ hand.type \in {"ContextObserved", "Message"} => hand \in store'
    BY <1>6, ItemFacts
    DEF HandleItem, AppOnly, server, loops, channel, EventTypes
  <2>2. NoGap'
    BY <2>1, HistoryStable DEF Complete, NoGap
  <2>3. CursorCoversStore'
    <3>1. CASE hand.type = "CursorAdvanced"
      BY <2>1, <3>1, BeforeCursor, HistoryStable
      DEF Complete, CursorCoversStore
    <3>2. CASE hand.type # "CursorAdvanced"
      BY <2>1, <3>2, HistoryStable DEF Complete, CursorCoversStore
    <3> QED
      BY <3>1, <3>2
  <2>4. Before(hand)' = {}
    BY <2>1, HistoryStable, ItemFacts, BeforeOther
  <2>5. \A p \in Nat : \A d \in EventsOf(p) : d = hand => d \in store'
    <3> SUFFICES ASSUME NEW p \in Nat, hand \in EventsOf(p)
                 PROVE  hand \in store'
      OBVIOUS
    <3> QED
      BY <2>1, EventsOfFacts, EventFacts
  <2>6. \A p \in Nat : \A d \in EventsOf(p) : \A i :
           DeliveredBefore(d, i) => DeliveredBefore(d, i)'
    BY <2>1, <2>5 DEF DeliveredBefore
  <2>7. ASSUME Reading'
        PROVE  /\ \A p \in 1..(at'[owner'] - 1) :
                     \A d \in EventsOf(p)' : Delivered(d)'
               /\ pc'[owner'] = "message" =>
                     Delivered(ContextObserved(at[owner]))'
               /\ \A i \in 1..Len(queue') :
                     \A d \in Before(queue[i])' : DeliveredBefore(d, i)'
    <3>1. Reading
      BY <2>1, <2>7 DEF Reading
    <3>2. \A p \in 1..(at'[owner'] - 1) :
             \A d \in EventsOf(p)' : Delivered(d)'
      <4>1. 1..(at[owner] - 1) \subseteq Nat
        BY DEF TypeOK
      <4> QED
        BY <2>1, <2>6, <3>1, <4>1, HistoryStable DEF Complete, Delivered
    <3>3. pc[owner] = "message" =>
             Delivered(ContextObserved(at[owner]))'
      <4>1. at[owner] \in Nat
        BY DEF TypeOK
      <4>2. ContextObserved(at[owner]) = hand => hand \in store'
        BY <2>1, <4>1, EventFacts
      <4> QED
        BY <2>1, <3>1, <4>2 DEF Complete, Delivered, DeliveredBefore
    <3>4. ASSUME NEW i \in 1..Len(queue'), NEW d \in Before(queue[i])'
          PROVE  DeliveredBefore(d, i)'
      <4>1. d \in Before(queue[i]) /\ i \in 1..Len(queue)
        BY <2>1, HistoryStable
      <4>2. queue[i].pos \in Nat
        BY <4>1, ItemFacts DEF TypeOK
      <4> QED
        BY <2>6, <3>1, <4>1, <4>2, BeforeInHistory DEF Complete
    <3> QED
      BY <2>1, <3>2, <3>3, <3>4
  <2> QED
    BY <2>2, <2>3, <2>4, <2>7 DEF Complete
<1>7. CASE LeaveOnItem \/ LeaveEarly \/ Crash
  <2>1. /\ UNCHANGED <<log, store, saved>>
        /\ hand' = Nothing /\ stream' # "open"
    BY <1>7 DEF LeaveOnItem, LeaveEarly, Crash, DropStream, AppOnly, server,
                durable
  <2>2. Before(hand)' = {}
    BY <2>1, HistoryStable, ItemFacts, BeforeOther
  <2> QED
    BY <2>1, <2>2, HistoryStable
    DEF Complete, Reading, NoGap, CursorCoversStore
<1>8. CASE MessageArrives
  <2>1. UNCHANGED <<pc, cursor, at, owner, stream, queue, lagged, hand, store,
                    saved>>
    BY <1>8 DEF MessageArrives, client, loops, channel, durable
  <2>2. PICK kind \in Inbox!Kinds : log' = Append(log, kind)
    BY <1>8 DEF MessageArrives
  <2>3. \A p \in 1..Len(log) : EventsOf(p)' = EventsOf(p)
    BY <2>2, HistoryGrows DEF TypeOK
  <2>4. \A e : e.pos \in 0..Len(log) => Before(e)' = Before(e)
    BY <2>2, HistoryGrows DEF TypeOK
  <2>5. /\ hand.pos \in 0..Len(log)
        /\ \A e \in store : e.pos \in 0..Len(log)
        /\ \A i \in 1..Len(queue) : queue[i].pos \in 0..Len(log)
    BY ItemFacts DEF TypeOK, Bounds
  <2>6. /\ 1..saved \subseteq 1..Len(log)
        /\ 1..(at[owner] - 1) \subseteq 1..Len(log)
    BY DEF TypeOK
  <2>7. Before(hand)' \subseteq store' /\ NoGap' /\ CursorCoversStore'
    BY <2>1, <2>3, <2>4, <2>5, <2>6 DEF Complete, NoGap, CursorCoversStore
  <2>8. ASSUME Reading'
        PROVE  /\ \A p \in 1..(at'[owner'] - 1) :
                     \A d \in EventsOf(p)' : Delivered(d)'
               /\ pc'[owner'] = "message" =>
                     Delivered(ContextObserved(at[owner]))'
               /\ \A i \in 1..Len(queue') :
                     \A d \in Before(queue[i])' : DeliveredBefore(d, i)'
    <3>1. Reading /\ \A d, i : DeliveredBefore(d, i)' = DeliveredBefore(d, i)
      BY <2>1, <2>8 DEF Reading, DeliveredBefore
    <3> QED
      BY <2>1, <2>3, <2>4, <2>5, <2>6, <3>1 DEF Complete, Delivered
  <2> QED
    BY <2>7, <2>8 DEF Complete
<1> QED
  BY <1>1, <1>2, <1>3, <1>4, <1>5, <1>6, <1>7, <1>8 DEF Next, Application

LEMMA CompleteInit == Init => OnlyOwnerEmits /\ Complete
<1> SUFFICES ASSUME Init PROVE OnlyOwnerEmits /\ Complete
  OBVIOUS
<1>1. stream = "closed" /\ store = {} /\ saved = 0 /\ Before(hand) = {}
  BY ItemFacts, BeforeOther DEF Init
<1> QED
  BY <1>1 DEF OnlyOwnerEmits, Complete, Reading, NoGap, CursorCoversStore

\* The inductive invariant of the stream.
LEMMA StreamInvariant ==
    ASSUME AwaitsAbort
    PROVE  Spec => [](TypeOK /\ Bounds /\ OnlyOwnerEmits /\ Complete)
<1>1. Init => TypeOK /\ Bounds /\ OnlyOwnerEmits /\ Complete
  BY TypeInit, CompleteInit
<1>2. TypeOK /\ Bounds /\ OnlyOwnerEmits /\ Complete /\ [Next]_vars
        => (TypeOK /\ Bounds /\ OnlyOwnerEmits /\ Complete)'
  BY TypeStep, OwnerStep, CompleteStep
<1> QED
  BY <1>1, <1>2, PTL DEF Spec

\* The cursor an application has persisted never covers an event it has not
\* processed: no schedule of the loop, the channel and the application, no
\* overflow of the channel and no crash makes a restart skip a message.
THEOREM CursorSafe ==
    ASSUME AwaitsAbort
    PROVE  Spec => []CursorCoversStore
<1>1. Complete => CursorCoversStore
  BY DEF Complete
<1> QED
  BY <1>1, StreamInvariant, PTL

\* What the application has processed is at all times a prefix of the account's
\* history: messages in order, each after its context.
THEOREM PrefixProcessed ==
    ASSUME AwaitsAbort
    PROVE  Spec => []NoGap
<1>1. Complete => NoGap
  BY DEF Complete
<1> QED
  BY <1>1, StreamInvariant, PTL
-----------------------------------------------------------------------------
(* The stream goes forward. *)

\* Emitting appends an event, and may drop the oldest one.
LEMMA EmitEventShifts ==
    ASSUME NEW e \in Event, queue \in Seq(Event), Len(queue) <= Capacity,
           EmitEvent(e), stream = "open"
    PROVE  \E k \in {0, 1} :
              /\ k <= Len(queue)
              /\ Len(queue') = Len(queue) + 1 - k
              /\ queue'[Len(queue) + 1 - k] = e
              /\ \A i \in 1..(Len(queue) - k) : queue'[i] = queue[i + k]
<1>1. CASE Len(queue) < Capacity
  <2>1. queue' = Append(queue, e)
    BY <1>1 DEF EmitEvent
  <2> QED
    BY <2>1
<1>2. CASE Len(queue) = Capacity
  <2>1. queue' = Append(Tail(queue), e)
    BY <1>2 DEF EmitEvent
  <2>2. /\ Tail(queue) \in Seq(Event) /\ Len(Tail(queue)) = Len(queue) - 1
        /\ \A i \in 1..(Len(queue) - 1) : Tail(queue)[i] = queue[i + 1]
    BY <1>2, CapacityAssumption
  <2>3. /\ Len(queue') = Len(queue) + 1 - 1
        /\ queue'[Len(queue) + 1 - 1] = e
        /\ \A i \in 1..(Len(queue) - 1) : queue'[i] = queue[i + 1]
    BY <1>2, <2>1, <2>2, CapacityAssumption
  <2> QED
    BY <1>2, <2>3, CapacityAssumption
<1> QED
  BY <1>1, <1>2, CapacityAssumption

\* Emitting an event that follows every cursor announced so far.
LEMMA EmitForward ==
    ASSUME TypeOK, ChannelForward, NEW e \in Event, EmitEvent(e),
           stream = "open", UNCHANGED <<hand, saved>>,
           e.type \in {"ContextObserved", "Message", "CursorAdvanced"}
               => MarksBelow(e.pos)
    PROVE  /\ ChannelForward'
           /\ \A b \in Nat :
                 MarksBelow(b) /\ (e.type = "CursorAdvanced" => e.pos < b)
                     => MarksBelow(b)'
<1>1. PICK k \in {0, 1} :
              /\ k <= Len(queue)
              /\ Len(queue') = Len(queue) + 1 - k
              /\ queue'[Len(queue) + 1 - k] = e
              /\ \A i \in 1..(Len(queue) - k) : queue'[i] = queue[i + k]
  BY EmitEventShifts DEF TypeOK
<1>2. Len(queue) \in Nat /\ saved \in Nat /\ e.pos \in Nat
  BY ItemFacts DEF TypeOK
<1>3. \A i \in 1..Len(queue') :
         \/ queue'[i] = e /\ i = Len(queue')
         \/ /\ i + k \in 1..Len(queue) /\ queue'[i] = queue[i + k]
            /\ i < Len(queue')
  BY <1>1, <1>2
<1>4. \A i \in 1..Len(queue') : Follows(queue'[i], saved)
  BY <1>2, <1>3 DEF ChannelForward, Follows, MarksBelow
<1>5. hand.type = "CursorAdvanced" =>
         /\ hand.pos > saved
         /\ \A i \in 1..Len(queue') : Follows(queue'[i], hand.pos)
  BY <1>2, <1>3 DEF ChannelForward, Follows, MarksBelow
<1>6. ASSUME NEW i \in 1..Len(queue'), NEW j \in 1..Len(queue'),
             i < j, queue'[i].type = "CursorAdvanced"
      PROVE  Follows(queue'[j], queue'[i].pos)
  <2>1. i + k \in 1..Len(queue) /\ queue'[i] = queue[i + k]
    BY <1>1, <1>2, <1>3, <1>6
  <2>2. CASE queue'[j] = e
    BY <1>6, <2>1, <2>2 DEF Follows, MarksBelow
  <2>3. CASE j + k \in 1..Len(queue) /\ queue'[j] = queue[j + k]
    <3>1. i + k < j + k
      BY <1>6
    <3> QED
      BY <1>6, <2>1, <2>3, <3>1 DEF ChannelForward
  <2> QED
    BY <1>3, <2>2, <2>3
<1>7. ChannelForward'
  BY <1>4, <1>5, <1>6 DEF ChannelForward, Follows
<1>8. ASSUME NEW b \in Nat, MarksBelow(b), e.type = "CursorAdvanced" => e.pos < b
      PROVE  MarksBelow(b)'
  BY <1>3, <1>8 DEF MarksBelow
<1> QED
  BY <1>7, <1>8
LEMMA LoopForward ==
    ASSUME TypeOK, OnlyOwnerEmits, Forward, NEW l \in Loops, RunLoop(l)
    PROVE  Forward'
<1> USE DEF Idle, Awaiting, Emitting
<1>1. UNCHANGED <<log, owner, stream, hand, saved>>
  BY DEF RunLoop, Emit, Begin, CheckStopped, GetUpdates, GetNothing, GetError,
         GetSessionExpired, WakeUp, EmitContext, EmitMessage, SkipMessage,
         EmitCursor, NotifyStopped, AbortLands, LoopOnly, server, durable
<1> SUFFICES ASSUME stream = "open"
             PROVE  Forward'
  BY <1>1 DEF Forward
<1>2. pc[l] \notin Idle
  BY DEF RunLoop, Emit, Begin, CheckStopped, GetUpdates, GetNothing, GetError,
         GetSessionExpired, WakeUp, EmitContext, EmitMessage, SkipMessage,
         EmitCursor, NotifyStopped, AbortLands
<1>3. l = owner
  BY <1>2 DEF OnlyOwnerEmits
<1>4. /\ at[l] \in Nat /\ cursor[l] \in Nat
      /\ at[l] >= 1 /\ at[l] <= cursor[l] + 1
  BY DEF TypeOK
<1>5. CASE \/ Begin(l) \/ CheckStopped(l) \/ GetNothing(l) \/ GetError(l)
           \/ WakeUp(l) \/ NotifyStopped(l)
  <2>1. UNCHANGED <<queue, at, cursor>>
    BY <1>5 DEF Begin, CheckStopped, GetNothing, GetError, WakeUp,
                NotifyStopped, channel
  <2>2. /\ pc'[l] \notin Emitting
        /\ pc'[l] \in Awaiting \ {"stopping"} =>
              pc[l] \in Awaiting \ {"stopping"}
    BY <1>5 DEF Begin, CheckStopped, GetNothing, GetError, WakeUp,
                NotifyStopped, Goto, TypeOK
  <2> QED
    BY <1>1, <1>3, <2>1, <2>2
    DEF Forward, ChannelForward, MarksBelow, Follows
<1>6. CASE GetUpdates(l)
  <2>1. /\ UNCHANGED <<queue, at>>
        /\ pc[l] = "polling" /\ pc'[l] = "batch"
        /\ cursor'[l] > cursor[l] /\ cursor'[l] \in Nat
    BY <1>4, <1>6 DEF GetUpdates, Goto, TypeOK, channel
  <2>2. ChannelForward /\ MarksBelow(at[l]) /\ at[l] = cursor[l] + 1
    BY <1>3, <2>1 DEF Forward
  <2>3. MarksBelow(cursor'[l])
    <3>1. at[l] <= cursor'[l]
      BY <1>4, <2>1, <2>2
    <3>2. /\ saved \in Nat /\ hand.pos \in Nat
          /\ \A i \in 1..Len(queue) : queue[i].pos \in Nat
      BY ItemFacts DEF TypeOK
    <3> QED
      BY <1>4, <2>1, <2>2, <3>1, <3>2 DEF MarksBelow
  <2> QED
    BY <1>1, <1>3, <2>1, <2>2, <2>3
    DEF Forward, ChannelForward, MarksBelow, Follows
<1>7. CASE GetSessionExpired(l)
  <2>1. EmitEvent(AuthSessionExpired) /\ pc'[l] = "stopping"
    BY <1>7 DEF GetSessionExpired, Goto, TypeOK
  <2>2. ChannelForward'
    BY <1>1, <2>1, EmitForward, ItemFacts DEF Forward
  <2> QED
    BY <1>1, <1>3, <2>1, <2>2 DEF Forward
<1>8. CASE EmitContext(l)
  <2>1. /\ EmitEvent(ContextObserved(at[l]))
        /\ pc[l] \in Emitting /\ pc'[l] = "message"
        /\ UNCHANGED <<at, cursor>>
    BY <1>8 DEF EmitContext, Goto, TypeOK
  <2>2. ChannelForward /\ MarksBelow(at[l]) /\ MarksBelow(cursor[l])
    BY <1>3, <2>1 DEF Forward
  <2>3. ContextObserved(at[l]) \in Event
    BY <1>4, EventFacts
  <2>4. ChannelForward' /\ \A b \in Nat : MarksBelow(b) => MarksBelow(b)'
    BY <1>1, <1>4, <2>1, <2>2, <2>3, EmitForward, EventFacts
  <2> QED
    BY <1>1, <1>3, <1>4, <2>1, <2>2, <2>4 DEF Forward
<1>9. CASE EmitMessage(l)
  <2>1. /\ EmitEvent(Message(at[l]))
        /\ pc[l] \in Emitting /\ pc'[l] = "batch"
        /\ at'[l] = at[l] + 1 /\ cursor' = cursor
    BY <1>9 DEF EmitMessage, Goto, TypeOK
  <2>2. ChannelForward /\ MarksBelow(at[l]) /\ MarksBelow(cursor[l])
    BY <1>3, <2>1 DEF Forward
  <2>3. Message(at[l]) \in Event
    BY <1>4, EventFacts
  <2>4. ChannelForward' /\ \A b \in Nat : MarksBelow(b) => MarksBelow(b)'
    BY <1>1, <1>4, <2>1, <2>2, <2>3, EmitForward, EventFacts
  <2>5. MarksBelow(at[l] + 1)
    <3>1. /\ saved \in Nat /\ hand.pos \in Nat
          /\ \A i \in 1..Len(queue) : queue[i].pos \in Nat
      BY ItemFacts DEF TypeOK
    <3> QED
      BY <1>4, <2>2, <3>1 DEF MarksBelow
  <2> QED
    BY <1>1, <1>3, <1>4, <2>1, <2>2, <2>4, <2>5 DEF Forward
<1>10. CASE SkipMessage(l)
  <2>1. /\ pc[l] \in Emitting /\ UNCHANGED <<pc, cursor, queue>>
        /\ at'[l] = at[l] + 1
    BY <1>10 DEF SkipMessage, TypeOK, channel
  <2>2. ChannelForward /\ MarksBelow(at[l]) /\ MarksBelow(cursor[l])
    BY <1>3, <2>1 DEF Forward
  <2>3. MarksBelow(at[l] + 1)
    <3>1. /\ saved \in Nat /\ hand.pos \in Nat
          /\ \A i \in 1..Len(queue) : queue[i].pos \in Nat
      BY ItemFacts DEF TypeOK
    <3> QED
      BY <1>4, <2>2, <3>1 DEF MarksBelow
  <2> QED
    BY <1>1, <1>3, <2>1, <2>2, <2>3
    DEF Forward, ChannelForward, MarksBelow, Follows
<1>11. CASE EmitCursor(l)
  <2>1. /\ EmitEvent(CursorAdvanced(cursor[l]))
        /\ pc[l] \in Emitting /\ pc'[l] = "check"
        /\ UNCHANGED <<at, cursor>> /\ at[l] > cursor[l]
    BY <1>3, <1>11 DEF EmitCursor, Goto, TypeOK
  <2>2. ChannelForward /\ MarksBelow(at[l]) /\ MarksBelow(cursor[l])
    BY <1>3, <2>1 DEF Forward
  <2>3. CursorAdvanced(cursor[l]) \in Event
    BY <1>4, EventFacts
  <2>4. ChannelForward' /\ MarksBelow(at[l])'
    <3>1. /\ ChannelForward'
          /\ \A b \in Nat : MarksBelow(b) /\ cursor[l] < b => MarksBelow(b)'
      BY <1>1, <1>4, <2>1, <2>2, <2>3, EmitForward, EventFacts
    <3> QED
      BY <1>4, <2>1, <2>2, <3>1
  <2>5. at[l] = cursor[l] + 1
    BY <1>4, <2>1
  <2> QED
    BY <1>1, <1>3, <2>1, <2>4, <2>5 DEF Forward
<1>12. CASE AbortLands(l)
  BY <1>3, <1>12 DEF AbortLands
<1> QED
  BY <1>5, <1>6, <1>7, <1>8, <1>9, <1>10, <1>11, <1>12 DEF RunLoop, Emit
LEMMA ForwardStep ==
    ASSUME TypeOK, OnlyOwnerEmits, Forward, [Next]_vars
    PROVE  Forward'
<1>1. ASSUME NEW l \in Loops, RunLoop(l) PROVE Forward'
  BY <1>1, LoopForward
<1>2. CASE \/ LogIn \/ Stop \/ SessionExpires \/ MessageArrives
           \/ UNCHANGED vars
  <2>1. UNCHANGED <<pc, cursor, at, owner, stream, queue, hand, saved>>
    <3>1. CASE LogIn
      BY <3>1 DEF LogIn, loops, channel, durable
    <3>2. CASE Stop
      BY <3>2 DEF Stop, loops, channel, durable
    <3>3. CASE SessionExpires
      BY <3>3 DEF SessionExpires, loops, channel, durable
    <3>4. CASE MessageArrives
      BY <3>4 DEF MessageArrives, loops, channel, durable
    <3>5. CASE UNCHANGED vars
      BY <3>5 DEF vars
    <3> QED
      BY <1>2, <3>1, <3>2, <3>3, <3>4, <3>5
  <2> QED
    BY <2>1 DEF Forward, ChannelForward, MarksBelow, Follows
<1>3. CASE EmitInteraction
  <2>1. /\ UNCHANGED <<pc, cursor, at, owner, stream, hand, saved>>
        /\ EmitEvent(UserInteractionRequested) /\ stream = "open"
    BY <1>3 DEF EmitInteraction, LoopOnly, loops, durable
  <2>2. ChannelForward' /\ \A b \in Nat : MarksBelow(b) => MarksBelow(b)'
    BY <2>1, EmitForward, ItemFacts DEF Forward
  <2>3. at[owner] \in Nat /\ cursor[owner] \in Nat
    BY DEF TypeOK
  <2> QED
    BY <2>1, <2>2, <2>3 DEF Forward
<1>4. ASSUME NEW l \in Loops, EventsFromCursor(l) PROVE Forward'
  <2>1. /\ UNCHANGED <<hand, saved>> /\ hand.type # "CursorAdvanced"
        /\ owner' = l /\ queue' = <<>> /\ Len(queue') = 0
        /\ pc'[l] = "spawned" /\ at'[l] = saved + 1 /\ cursor'[l] = saved
    BY <1>4, EmptyQueue, ItemFacts
    DEF EventsFromCursor, AppOnly, server, durable, TypeOK
  <2>2. ChannelForward' /\ MarksBelow(at[owner])'
    BY <2>1 DEF ChannelForward, MarksBelow, TypeOK
  <2> QED
    BY <2>1, <2>2 DEF Forward, Emitting
<1>5. CASE StreamNext
  <2>1. /\ UNCHANGED <<pc, cursor, at, owner, saved>>
        /\ stream = "open" /\ hand = Nothing
    BY <1>5 DEF StreamNext, AppOnly, server, loops, durable
  <2>2. CASE queue' = queue /\ hand' \in {StreamError, hand}
    BY <2>1, <2>2, ItemFacts DEF Forward, ChannelForward, MarksBelow, Follows
  <2>3. CASE queue # <<>> /\ hand' = Head(queue) /\ queue' = Tail(queue)
    <3>1. /\ Len(queue) \in Nat /\ 1 \in 1..Len(queue)
          /\ hand' = queue[1] /\ Len(queue') = Len(queue) - 1
          /\ \A i \in 1..Len(queue') :
                /\ queue'[i] = queue[i + 1]
                /\ i + 1 \in 1..Len(queue) /\ 1 < i + 1
      BY <2>3 DEF TypeOK
    <3>2. ChannelForward
      BY <2>1 DEF Forward
    <3>3. \A i \in 1..Len(queue') : Follows(queue'[i], saved)
      BY <3>1, <3>2 DEF ChannelForward
    <3>4. hand'.type = "CursorAdvanced" =>
             /\ hand'.pos > saved
             /\ \A i \in 1..Len(queue') : Follows(queue'[i], hand'.pos)
      BY <3>1, <3>2 DEF ChannelForward, Follows
    <3>5. ASSUME NEW i \in 1..Len(queue'), NEW j \in 1..Len(queue'), i < j,
                 queue'[i].type = "CursorAdvanced"
          PROVE  Follows(queue'[j], queue'[i].pos)
      <4>1. i + 1 < j + 1
        BY <3>5
      <4> QED
        BY <3>1, <3>2, <3>5, <4>1 DEF ChannelForward
    <3>6. ChannelForward'
      BY <2>1, <3>3, <3>4, <3>5 DEF ChannelForward, Follows
    <3>7. \A b : MarksBelow(b) => MarksBelow(b)'
      BY <2>1, <3>1 DEF MarksBelow
    <3> QED
      BY <2>1, <3>6, <3>7 DEF Forward
  <2> QED
    BY <1>5, <2>2, <2>3 DEF StreamNext, channel
<1>6. CASE HandleItem
  <2>1. /\ UNCHANGED <<pc, cursor, at, owner, stream, queue>>
        /\ hand'.type # "CursorAdvanced"
        /\ \/ saved' = saved
           \/ hand.type = "CursorAdvanced" /\ saved' = hand.pos
    BY <1>6, ItemFacts DEF HandleItem, AppOnly, server, loops, channel
  <2>2. ChannelForward => ChannelForward'
    BY <2>1 DEF ChannelForward, Follows
  <2>3. \A b : MarksBelow(b) => MarksBelow(b)'
    BY <2>1 DEF MarksBelow
  <2> QED
    BY <2>1, <2>2, <2>3 DEF Forward
<1>7. CASE LeaveOnItem \/ LeaveEarly \/ Crash
  BY <1>7 DEF LeaveOnItem, LeaveEarly, Crash, DropStream, Forward
<1> QED
  BY <1>1, <1>2, <1>3, <1>4, <1>5, <1>6, <1>7 DEF Next, Application

LEMMA ForwardInvariant ==
    ASSUME AwaitsAbort
    PROVE  Spec => [](TypeOK /\ Bounds /\ OnlyOwnerEmits /\ Complete /\ Forward)
<1>1. Init => Forward
  BY DEF Init, Forward
<1>2. TypeOK /\ OnlyOwnerEmits /\ Forward /\ [Next]_vars => Forward'
  BY ForwardStep
<1> QED
  BY <1>1, <1>2, StreamInvariant, PTL DEF Spec

\* Restart without replay: no event that an application takes from a stream is
\* about a message that its persisted cursor already covers.
THEOREM RestartWithoutReplay ==
    ASSUME AwaitsAbort
    PROVE  Spec => NoReplay
<1>1. TypeOK /\ Forward /\ [Next]_vars
        => [hand' # hand /\ hand'.type \in {"ContextObserved", "Message"}
               => hand'.pos > saved]_vars
  <2> SUFFICES ASSUME TypeOK, Forward, Next, hand' # hand,
                      hand'.type \in {"ContextObserved", "Message"}
               PROVE  hand'.pos > saved
    BY DEF vars
  <2>1. StreamNext
    <3>1. ASSUME NEW l \in Loops, RunLoop(l) PROVE FALSE
      BY <3>1 DEF RunLoop, Emit, Begin, CheckStopped, GetUpdates, GetNothing,
                  GetError, GetSessionExpired, WakeUp, EmitContext,
                  EmitMessage, SkipMessage, EmitCursor, NotifyStopped,
                  AbortLands, LoopOnly
    <3>2. ASSUME NEW l \in Loops, EventsFromCursor(l) PROVE FALSE
      BY <3>2 DEF EventsFromCursor
    <3>3. CASE HandleItem \/ LeaveOnItem \/ LeaveEarly \/ Crash
      BY <3>3, ItemFacts DEF HandleItem, LeaveOnItem, LeaveEarly, Crash,
                             DropStream
    <3>4. CASE EmitInteraction \/ LogIn \/ Stop \/ MessageArrives
                  \/ SessionExpires
      BY <3>4 DEF EmitInteraction, LogIn, Stop, MessageArrives,
                  SessionExpires, LoopOnly
    <3> QED
      BY <3>1, <3>2, <3>3, <3>4 DEF Next, Application
  <2>2. stream = "open" /\ queue # <<>> /\ hand' = Head(queue)
    BY <2>1, ItemFacts DEF StreamNext
  <2>3. 1 \in 1..Len(queue) /\ hand' = queue[1]
    BY <2>2 DEF TypeOK
  <2> QED
    BY <2>2, <2>3 DEF Forward, ChannelForward, Follows
<1> QED
  BY <1>1, ForwardInvariant, PTL DEF Spec, NoReplay

-----------------------------------------------------------------------------
(* Nothing is made up. *)

LEMMA GenuineStable ==
    ASSUME UNCHANGED log
    PROVE  \A e : Genuine(e)' = Genuine(e)
  BY HistoryStable DEF Genuine

LEMMA GenuineOther ==
    ASSUME NEW e, e.type \notin {"ContextObserved", "Message"}
    PROVE  Genuine(e)
  BY DEF Genuine

LEMMA FromLogLoop ==
    ASSUME TypeOK, Bounds, FromLog, NEW l \in Loops, RunLoop(l)
    PROVE  FromLog'
<1>1. /\ UNCHANGED <<log, stream, hand>>
      /\ \A m \in Loops \ {l} : pc'[m] = pc[m] /\ at'[m] = at[m]
      /\ pc'[l] = "message" => EmitContext(l)
  <2>1. /\ UNCHANGED <<log, stream, hand>>
        /\ \A m \in Loops \ {l} : pc'[m] = pc[m] /\ at'[m] = at[m]
    BY DEF RunLoop, Emit, Begin, CheckStopped, GetUpdates, GetNothing, GetError,
           GetSessionExpired, WakeUp, EmitContext, EmitMessage, SkipMessage,
           EmitCursor, NotifyStopped, AbortLands, LoopOnly, Goto, server,
           TypeOK
  <2>2. pc'[l] = "message" => EmitContext(l)
    BY DEF RunLoop, Emit, Begin, CheckStopped, GetUpdates, GetNothing, GetError,
           GetSessionExpired, WakeUp, EmitMessage, SkipMessage, EmitCursor,
           NotifyStopped, AbortLands, Goto, TypeOK
  <2> QED
    BY <2>1, <2>2
<1>2. \A m \in Loops : pc'[m] = "message" => log'[at'[m]] = "context"
  <2>1. EmitContext(l) => log[at[l]] = "context" /\ at' = at
    BY DEF EmitContext
  <2> QED
    BY <1>1, <2>1 DEF FromLog
<1>3. at[l] \in Nat /\ cursor[l] \in 0..Len(log) /\ at[l] >= 1
  BY DEF TypeOK
<1>4. ASSUME NEW e \in Event, EmitEvent(e), Genuine(e)
      PROVE  \A i \in 1..Len(queue') : Genuine(queue[i])'
  <2>1. \A i \in 1..Len(queue') :
           \/ queue'[i] = e
           \/ \E j \in 1..Len(queue) : queue'[i] = queue[j]
    BY <1>4, EmitEventType DEF TypeOK
  <2> QED
    BY <1>1, <1>4, <2>1, GenuineStable DEF FromLog
<1>5. \A i \in 1..Len(queue') : Genuine(queue[i])'
  <2>1. CASE UNCHANGED channel
    BY <1>1, <2>1, GenuineStable DEF FromLog, channel
  <2>2. CASE GetSessionExpired(l)
    BY <1>4, <2>2, ItemFacts, GenuineOther DEF GetSessionExpired
  <2>3. CASE EmitContext(l)
    <3>1. ContextObserved(at[l]) \in EventsOf(at[l])
      BY <2>3 DEF EmitContext, EventsOf, Inbox!EventsOf, ContextObserved
    <3>2. at[l] \in 1..Len(log)
      BY <1>3, <2>3 DEF EmitContext
    <3>3. Genuine(ContextObserved(at[l])) /\ ContextObserved(at[l]) \in Event
      BY <1>3, <3>1, <3>2, EventFacts DEF Genuine
    <3> QED
      BY <1>4, <2>3, <3>3 DEF EmitContext
  <2>4. CASE EmitMessage(l)
    <3>1. log[at[l]] \in {"context", "plain"} /\ at[l] <= cursor[l]
      BY <2>4 DEF EmitMessage, FromLog, Bounds
    <3>2. Message(at[l]) \in EventsOf(at[l])
      BY <3>1 DEF EventsOf, Inbox!EventsOf, Message
    <3>3. at[l] \in 1..Len(log)
      BY <1>3, <3>1
    <3>4. Genuine(Message(at[l])) /\ Message(at[l]) \in Event
      BY <1>3, <3>2, <3>3, EventFacts DEF Genuine
    <3> QED
      BY <1>4, <2>4, <3>4 DEF EmitMessage
  <2>5. CASE EmitCursor(l)
    <3>1. /\ CursorAdvanced(cursor[l]) \in Event
          /\ CursorAdvanced(cursor[l]).type = "CursorAdvanced"
      BY <1>3, EventFacts
    <3> QED
      BY <1>4, <2>5, <3>1, GenuineOther DEF EmitCursor
  <2> QED
    BY <2>1, <2>2, <2>3, <2>4, <2>5
    DEF RunLoop, Emit, Begin, CheckStopped, GetUpdates, GetNothing, GetError,
        WakeUp, SkipMessage, NotifyStopped, AbortLands
<1> QED
  BY <1>1, <1>2, <1>5, GenuineStable DEF FromLog

LEMMA FromLogStep ==
    ASSUME TypeOK, Bounds, FromLog, [Next]_vars
    PROVE  FromLog'
<1>1. ASSUME NEW l \in Loops, RunLoop(l) PROVE FromLog'
  BY <1>1, FromLogLoop
<1>2. CASE LogIn \/ Stop \/ SessionExpires \/ UNCHANGED vars
  <2>1. UNCHANGED <<log, pc, at, stream, queue, hand>>
    <3>1. CASE LogIn
      BY <3>1 DEF LogIn, loops, channel
    <3>2. CASE Stop
      BY <3>2 DEF Stop, server, loops, channel
    <3>3. CASE SessionExpires
      BY <3>3 DEF SessionExpires, loops, channel
    <3>4. CASE UNCHANGED vars
      BY <3>4 DEF vars
    <3> QED
      BY <1>2, <3>1, <3>2, <3>3, <3>4
  <2> QED
    BY <2>1, GenuineStable DEF FromLog
<1>3. CASE EmitInteraction
  <2>1. /\ UNCHANGED <<log, pc, at, stream, hand>>
        /\ EmitEvent(UserInteractionRequested)
    BY <1>3 DEF EmitInteraction, LoopOnly, server, loops
  <2>2. \A i \in 1..Len(queue') :
           \/ queue'[i] = UserInteractionRequested
           \/ \E j \in 1..Len(queue) : queue'[i] = queue[j]
    BY <2>1, EmitEventType, ItemFacts DEF TypeOK
  <2>3. Genuine(UserInteractionRequested)
    BY ItemFacts, GenuineOther
  <2> QED
    BY <2>1, <2>2, <2>3, GenuineStable DEF FromLog
<1>4. ASSUME NEW l \in Loops, EventsFromCursor(l) PROVE FromLog'
  <2>1. /\ UNCHANGED <<log, hand>> /\ stream' = "open" /\ Len(queue') = 0
        /\ pc'[l] # "message"
        /\ \A m \in Loops \ {l} : pc'[m] = pc[m] /\ at'[m] = at[m]
    BY <1>4, EmptyQueue DEF EventsFromCursor, AppOnly, server, TypeOK
  <2> QED
    BY <2>1, GenuineStable DEF FromLog
<1>5. CASE StreamNext
  <2>1. /\ UNCHANGED <<log, pc, at>> /\ stream = "open" /\ hand = Nothing
    BY <1>5 DEF StreamNext, AppOnly, server, loops
  <2>2. CASE queue' = queue /\ hand' \in {StreamError, Nothing}
    <3>1. Genuine(StreamError) /\ Genuine(Nothing)
      BY ItemFacts, GenuineOther
    <3> QED
      BY <2>1, <2>2, <3>1, GenuineStable DEF FromLog
  <2>3. CASE /\ queue # <<>> /\ hand' = Head(queue) /\ queue' = Tail(queue)
             /\ stream' = stream
    <3>1. /\ 1 \in 1..Len(queue) /\ hand' = queue[1]
          /\ \A i \in 1..Len(queue') :
                queue'[i] = queue[i + 1] /\ i + 1 \in 1..Len(queue)
      BY <2>3 DEF TypeOK
    <3> QED
      BY <2>1, <2>3, <3>1, GenuineStable DEF FromLog
  <2> QED
    BY <1>5, <2>1, <2>2, <2>3 DEF StreamNext, channel
<1>6. CASE HandleItem
  <2>1. UNCHANGED <<log, pc, at, stream, queue>> /\ hand' = Nothing
    BY <1>6 DEF HandleItem, AppOnly, server, loops, channel
  <2> QED
    BY <2>1, GenuineStable, GenuineOther, ItemFacts DEF FromLog
<1>7. CASE LeaveOnItem \/ LeaveEarly \/ Crash
  <2>1. /\ UNCHANGED <<log, at>> /\ hand' = Nothing /\ Len(queue') = 0
        /\ \A l \in Loops : pc'[l] = "message" => pc[l] = "message"
    BY <1>7, EmptyQueue
    DEF LeaveOnItem, LeaveEarly, Crash, DropStream, AppOnly, server, TypeOK
  <2> QED
    BY <2>1, GenuineStable, GenuineOther, ItemFacts DEF FromLog
<1>8. CASE MessageArrives
  <2>1. UNCHANGED <<pc, at, stream, queue, hand>>
    BY <1>8 DEF MessageArrives, loops, channel
  <2>2. PICK kind \in Inbox!Kinds : log' = Append(log, kind)
    BY <1>8 DEF MessageArrives
  <2>3. /\ Len(log') = Len(log) + 1 /\ Len(log) \in Nat
        /\ \A p \in 1..Len(log) : log'[p] = log[p]
    BY <2>2 DEF TypeOK
  <2>4. \A p \in 1..Len(log) : EventsOf(p)' = EventsOf(p)
    BY <2>2, HistoryGrows DEF TypeOK
  <2>5. \A e : Genuine(e) => Genuine(e)'
    BY <2>3, <2>4 DEF Genuine
  <2>6. \A l \in Loops : pc[l] = "message" => at[l] \in 1..Len(log)
    BY DEF TypeOK, Bounds
  <2> QED
    BY <2>1, <2>3, <2>5, <2>6 DEF FromLog
<1> QED
  BY <1>1, <1>2, <1>3, <1>4, <1>5, <1>6, <1>7, <1>8 DEF Next, Application

LEMMA FromLogInit == Init => FromLog
<1> SUFFICES ASSUME Init PROVE FromLog
  OBVIOUS
<1>1. /\ Len(queue) = 0 /\ hand = Nothing
      /\ \A l \in Loops : pc[l] # "message"
  BY EmptyQueue DEF Init
<1> QED
  BY <1>1, ItemFacts, GenuineOther DEF FromLog

\* All that the safety properties rest on, in one invariant: only the stream's own
\* loop emits to it, and what is on its way to the store is complete, in order and
\* comes from the log.
THEOREM StreamInvHolds ==
    ASSUME AwaitsAbort
    PROVE  Spec => []StreamInv
<1>1. Init => FromLog
  BY FromLogInit
<1>2. TypeOK /\ Bounds /\ FromLog /\ [Next]_vars => FromLog'
  BY FromLogStep
<1>3. OnlyOwnerEmits /\ Complete /\ Forward /\ FromLog => StreamInv
  BY DEF StreamInv
<1> QED
  BY <1>1, <1>2, <1>3, ForwardInvariant, PTL DEF Spec

\* UpdatesStream implements DurableInbox: every step of the server, the loops, the
\* stream and the application either leaves log, store and cursor alone or is an
\* arrival, the processing of an event of the log, or the acknowledgement of a
\* longer prefix whose events are all in the store.
THEOREM Refinement ==
    ASSUME AwaitsAbort
    PROVE  Spec => RefinesInbox
<1>1. Init => Inbox!InboxInit /\ FromLog
  BY FromLogInit DEF Init, Inbox!InboxInit
<1>2. TypeOK /\ Bounds /\ FromLog /\ [Next]_vars => FromLog'
  BY FromLogStep
<1>3. TypeOK /\ Bounds /\ Complete /\ Forward /\ FromLog /\ [Next]_vars
        => [Inbox!InboxNext]_(Inbox!inboxVars)
  <2> SUFFICES ASSUME TypeOK, Bounds, Complete, Forward, FromLog, [Next]_vars
               PROVE  \/ Inbox!InboxNext
                      \/ UNCHANGED <<log, store, saved>>
    BY DEF Inbox!inboxVars
  <2>1. CASE MessageArrives
    BY <2>1 DEF MessageArrives, durable, Inbox!InboxNext, Inbox!Arrive
  <2>2. CASE HandleItem
    <3>1. log' = log /\ hand \notin {Nothing, StreamError}
      BY <2>2, ItemFacts DEF HandleItem, AppOnly, server, EventTypes
    <3>2. CASE hand.type \in {"ContextObserved", "Message"}
      <4>1. store' = store \cup {hand} /\ saved' = saved
        BY <2>2, <3>2 DEF HandleItem
      <4>2. hand.pos \in 1..Len(log) /\ hand \in Inbox!EventsOf(hand.pos)
        BY <3>2 DEF FromLog, Genuine, EventsOf
      <4>3. Inbox!Process
        BY <3>1, <4>1, <4>2 DEF Inbox!Process
      <4> QED
        BY <4>3 DEF Inbox!InboxNext
    <3>3. CASE hand.type = "CursorAdvanced"
      <4>1. store' = store /\ saved' = hand.pos
        BY <2>2, <3>3 DEF HandleItem
      <4>2. hand.pos > saved
        BY <3>1, <3>3 DEF FromLog, Forward, ChannelForward
      <4>3. hand.pos \in (saved + 1)..Len(log)
        BY <3>1, <4>2, ItemFacts DEF TypeOK, Bounds
      <4>4. \A p \in 1..hand.pos : Inbox!EventsOf(p) \subseteq store
        BY <3>3, BeforeCursor DEF Complete, EventsOf
      <4>5. Inbox!Acknowledge
        BY <3>1, <4>1, <4>3, <4>4 DEF Inbox!Acknowledge
      <4> QED
        BY <4>5 DEF Inbox!InboxNext
    <3>4. CASE hand.type \notin {"ContextObserved", "Message", "CursorAdvanced"}
      BY <2>2, <3>1, <3>4 DEF HandleItem
    <3> QED
      BY <3>2, <3>3, <3>4
  <2>3. ASSUME NEW l \in Loops, RunLoop(l) PROVE UNCHANGED <<log, store, saved>>
    BY <2>3 DEF RunLoop, Emit, Begin, CheckStopped, GetUpdates, GetNothing,
                GetError, GetSessionExpired, WakeUp, EmitContext, EmitMessage,
                SkipMessage, EmitCursor, NotifyStopped, AbortLands, LoopOnly,
                server, durable
  <2>4. ASSUME NEW l \in Loops, EventsFromCursor(l)
        PROVE  UNCHANGED <<log, store, saved>>
    BY <2>4 DEF EventsFromCursor, AppOnly, server, durable
  <2>5. CASE LeaveOnItem \/ LeaveEarly \/ Crash
    BY <2>5 DEF LeaveOnItem, LeaveEarly, Crash, DropStream, AppOnly, server,
                durable
  <2>6. CASE EmitInteraction \/ LogIn \/ Stop \/ SessionExpires
    BY <2>6 DEF EmitInteraction, LogIn, Stop, SessionExpires, LoopOnly, server,
                durable
  <2>7. CASE StreamNext
    BY <2>7 DEF StreamNext, AppOnly, server, durable
  <2>8. CASE UNCHANGED vars
    BY <2>8 DEF vars
  <2> QED
    BY <2>1, <2>2, <2>3, <2>4, <2>5, <2>6, <2>7, <2>8 DEF Next, Application
<1> QED
  BY <1>1, <1>2, <1>3, ForwardInvariant, PTL DEF Spec, RefinesInbox,
     Inbox!InboxSpec
=============================================================================
