---------------------------- MODULE DurableInbox ----------------------------
(***************************************************************************)
(* What an application is promised when it consumes events_from_cursor the *)
(* way the README says: the server keeps a log of messages, the            *)
(* application owns a durable store of the message-derived events it has   *)
(* processed and a durable cursor, and the cursor only ever moves forward  *)
(* over messages whose events are all in the store.  Processing is at      *)
(* least once: an event may be processed again, it is never skipped.       *)
(***************************************************************************)
EXTENDS Naturals, Sequences

VARIABLES
    log,     \* the account's messages at the server, oldest first
    store,   \* the events the application has processed durably
    saved    \* the cursor the application has persisted (0: none yet)

inboxVars == <<log, store, saved>>

\* A message is sent by the user and carries a context token, is sent by the
\* user without one, or is not a user message (the client ignores it).
Kinds == {"context", "plain", "other"}

ContextObserved(p) == [type |-> "ContextObserved", pos |-> p]
Message(p) == [type |-> "Message", pos |-> p]

\* The events that the message at position p must produce.
EventsOf(p) ==
    CASE log[p] = "context" -> {ContextObserved(p), Message(p)}
      [] log[p] = "plain" -> {Message(p)}
      [] OTHER -> {}

-----------------------------------------------------------------------------
InboxInit ==
    /\ log = <<>>
    /\ store = {}
    /\ saved = 0

Arrive ==
    /\ \E kind \in Kinds : log' = Append(log, kind)
    /\ UNCHANGED <<store, saved>>

Process ==
    /\ \E p \in 1..Len(log) : \E e \in EventsOf(p) : store' = store \cup {e}
    /\ UNCHANGED <<log, saved>>

\* The cursor advances over a prefix of the log that is in the store.
Acknowledge ==
    /\ \E c \in (saved + 1)..Len(log) :
          /\ \A p \in 1..c : EventsOf(p) \subseteq store
          /\ saved' = c
    /\ UNCHANGED <<log, store>>

InboxNext == Arrive \/ Process \/ Acknowledge

InboxSpec == InboxInit /\ [][InboxNext]_inboxVars
=============================================================================
