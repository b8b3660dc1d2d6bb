------------------------------ MODULE RateLimit ------------------------------
(***************************************************************************)
(* The rate-limit policy of a client: tasks that send through              *)
(* retry_rate_limited and count what was sent                              *)
(* (record_successful_message_send), and the polling loop that resets an   *)
(* account when its user writes (reset_account_rate_limit).                *)
(*                                                                         *)
(* They share the per-account state behind one mutex and one Notify for    *)
(* all accounts; tasks run on several workers, so anything may happen      *)
(* between two locks, and a clock that is read before a lock may be old    *)
(* when it is used under it.  Instants are kept relative to now: a         *)
(* deadline is the time left, a timestamp is its age, and Tick moves all.  *)
(***************************************************************************)
EXTENDS Integers, Sequences, FiniteSets

CONSTANTS
    Senders,        \* tasks of the application that send
    Accounts,       \* account keys
    NoAccount,      \* the empty key: credentials that name no account
    RetryAfter,     \* rate_limit.retry_after
    RetryAttempts,  \* rate_limit.retry_attempts
    Window,         \* rate_limit.interaction_window
    Threshold,      \* rate_limit.interaction_threshold
    MaxDelay,       \* bound: from reading the clock to holding the mutex
    MaxSent         \* bound: sends in the window of an account, or under way

ASSUME AccountsAssumption == NoAccount \notin Accounts
ASSUME PolicyAssumption ==
    /\ RetryAfter \in Nat
    /\ RetryAttempts \in Nat
    /\ Window \in Nat
    /\ Threshold \in Nat
ASSUME BoundsAssumption == MaxDelay \in Nat /\ MaxSent \in Nat

Keys == Accounts \cup {NoAccount}

VARIABLES
    account,   \* the account key of the installed credentials
    backoff,   \* per key: time left until next_allowed_at, 0 when none or past
    sent,      \* per key: ages of sent_at, in the order they were pushed
    warned,    \* per key: interaction requested since the last user message
    poll,      \* where the polling loop is
    pollKey,   \* the key it attributes its batch to
    pc,        \* per sender: where its call is
    key,       \* per sender: the key it read last
    retries,   \* per sender
    timer,     \* per sender: time left of its wait
    since      \* per sender: age of its last reading of the clock

limits == <<backoff, sent, warned>>
loop == <<poll, pollKey>>
calls == <<pc, key, retries, timer, since>>
vars == <<account, backoff, sent, warned, poll, pollKey, pc, key, retries,
          timer, since>>

\* A call has its key, sends, has been rate-limited and is about to take the
\* mutex, is about to wait, waits; it has been accepted, has the key to count it
\* for, and has read the clock to count it with.
Locking == {"deferring", "counting"}
Steps == {"idle", "keyed", "sending", "limited", "waiting", "accepted",
          "stamping"} \cup Locking

\* Ages beyond the oldest that a property tells apart are all the same.
OldAge == Window + 2 * MaxDelay + 1

Init ==
    /\ account \in Keys
    /\ backoff = [a \in Keys |-> 0]
    /\ sent = [a \in Keys |-> <<>>]
    /\ warned = [a \in Keys |-> FALSE]
    /\ poll = "polling"
    /\ pollKey = NoAccount
    /\ pc = [s \in Senders |-> "idle"]
    /\ key = [s \in Senders |-> NoAccount]
    /\ retries = [s \in Senders |-> 0]
    /\ timer = [s \in Senders |-> 0]
    /\ since = [s \in Senders |-> 0]

Larger(m, n) == IF m < n THEN n ELSE m

Goto(s, label) == pc' = [pc EXCEPT ![s] = label]

\* The call returns, and its locals are gone.
Return(s) ==
    /\ Goto(s, "idle")
    /\ key' = [key EXCEPT ![s] = NoAccount]
    /\ retries' = [retries EXCEPT ![s] = 0]

-----------------------------------------------------------------------------
(* retry_rate_limited *)

\* The bound on what a state holds: sends that still count, and calls under way.
Room ==
    \A a \in Accounts :
        Cardinality({i \in 1..Len(sent[a]) : sent[a][i] <= Window})
            + Cardinality({s \in Senders : pc[s] # "idle"}) < MaxSent

\* A call reads the account key once, for all its attempts.
Call(s) ==
    /\ pc[s] = "idle"
    /\ Room
    /\ key' = [key EXCEPT ![s] = account]
    /\ Goto(s, "keyed")
    /\ UNCHANGED <<account, limits, loop, retries, timer, since>>

\* active_rate_limit_backoff: an account in backoff refuses the call at once,
\* otherwise the first attempt goes out.
Admit(s) ==
    /\ pc[s] = "keyed"
    /\ \/ backoff[key[s]] > 0 /\ Return(s)
       \/ backoff[key[s]] = 0 /\ Goto(s, "sending") /\ UNCHANGED <<key, retries>>
    /\ UNCHANGED <<account, limits, loop, timer, since>>

\* The server accepts the attempt, and retry_rate_limited returns; a message is
\* counted, anything else is not.
Accept(s) ==
    /\ pc[s] = "sending"
    /\ \/ Return(s)
       \/ /\ Goto(s, "accepted")
          /\ key' = [key EXCEPT ![s] = NoAccount]
          /\ retries' = [retries EXCEPT ![s] = 0]
    /\ UNCHANGED <<account, limits, loop, timer, since>>

\* Any error but a rate limit ends the call.
Fail(s) ==
    /\ pc[s] = "sending"
    /\ Return(s)
    /\ UNCHANGED <<account, limits, loop, timer, since>>

\* The server answers -2; the end of the backoff is computed before the mutex.
RateLimited(s) ==
    /\ pc[s] = "sending"
    /\ Goto(s, "deferring")
    /\ since' = [since EXCEPT ![s] = 0]
    /\ UNCHANGED <<account, limits, loop, key, retries, timer>>

\* Mutant: one retry too many.
SpendRetryLate(s) ==
    \/ /\ retries[s] > RetryAttempts
       /\ Return(s)
    \/ /\ retries[s] <= RetryAttempts
       /\ retries' = [retries EXCEPT ![s] = @ + 1]
       /\ Goto(s, "limited")
       /\ UNCHANGED key

\* Mutant: an attempt that was refused does not use up the budget.
SpendRetryNever(s) ==
    /\ Goto(s, "limited")
    /\ UNCHANGED <<key, retries>>

\* The retry budget is looked at after the account is deferred.
SpendRetry(s) ==
    \/ /\ retries[s] >= RetryAttempts
       /\ Return(s)
    \/ /\ retries[s] < RetryAttempts
       /\ retries' = [retries EXCEPT ![s] = @ + 1]
       /\ Goto(s, "limited")
       /\ UNCHANGED key

\* Mutant: the last answer to get the mutex decides, whenever it came.
DeferLastWins(s) ==
    /\ pc[s] = "deferring"
    /\ backoff' = [backoff EXCEPT ![key[s]] =
                      IF key[s] = NoAccount THEN @ ELSE Larger(0, RetryAfter - since[s])]
    /\ SpendRetry(s)
    /\ since' = [since EXCEPT ![s] = 0]
    /\ UNCHANGED <<account, sent, warned, loop, timer>>

\* defer_account_rate_limit, under the mutex: the backoff is never shortened.
Defer(s) ==
    /\ pc[s] = "deferring"
    /\ backoff' = [backoff EXCEPT ![key[s]] =
                      IF key[s] = NoAccount THEN @ ELSE Larger(@, RetryAfter - since[s])]
    /\ SpendRetry(s)
    /\ since' = [since EXCEPT ![s] = 0]
    /\ UNCHANGED <<account, sent, warned, loop, timer>>

\* wait_for_rate_limit_reset_or_timeout: from here on a notification wakes the
\* call; one that came before is lost.  Without an account, or without a delay,
\* the next attempt goes out at once.
Wait(s) ==
    /\ pc[s] = "limited"
    /\ \/ /\ key[s] = NoAccount \/ RetryAfter = 0
          /\ Goto(s, "sending")
          /\ UNCHANGED timer
       \/ /\ key[s] # NoAccount /\ RetryAfter > 0
          /\ Goto(s, "waiting")
          /\ timer' = [timer EXCEPT ![s] = RetryAfter]
    /\ UNCHANGED <<account, limits, loop, key, retries, since>>

\* The next attempt goes out without another look at the account's backoff.
TimeOut(s) ==
    /\ pc[s] = "waiting"
    /\ timer[s] = 0
    /\ Goto(s, "sending")
    /\ UNCHANGED <<account, limits, loop, key, retries, timer, since>>

-----------------------------------------------------------------------------
(* record_successful_message_send *)

\* The account key is read again, after the server's answer.
ReadKey(s) ==
    /\ pc[s] = "accepted"
    /\ \/ /\ account = NoAccount \/ Threshold = 0
          /\ Return(s)
       \/ /\ account # NoAccount /\ Threshold > 0
          /\ key' = [key EXCEPT ![s] = account]
          /\ Goto(s, "stamping")
          /\ UNCHANGED retries
    /\ UNCHANGED <<account, limits, loop, timer, since>>

\* The clock is read before the mutex is taken.
ReadClock(s) ==
    /\ pc[s] = "stamping"
    /\ Goto(s, "counting")
    /\ since' = [since EXCEPT ![s] = 0]
    /\ UNCHANGED <<account, limits, loop, key, retries, timer>>

\* Mutant: only the oldest send is looked at.
PrunedOnce(ages, d) ==
    IF ages # <<>> /\ Head(ages) - d > Window THEN Tail(ages) ELSE ages

\* sent_at without the sends at its front that are out of the window, at a time
\* d ago: it stops at the first send that is in the window.
Pruned(ages, d) ==
    LET stale(i) == ages[i] - d > Window
        n == CHOOSE n \in 0..Len(ages) :
                /\ \A i \in 1..n : stale(i)
                /\ n < Len(ages) => ~stale(n + 1)
    IN  SubSeq(ages, n + 1, Len(ages))

\* sent_at after the send that read the clock d ago is pushed.
Counted(ages, d) == Append(Pruned(ages, d), d)

\* Mutant: the interaction is requested when the threshold is exceeded.
CountPastThreshold(s) ==
    LET a == key[s]
        ages == Counted(sent[a], since[s])
    IN  /\ pc[s] = "counting"
        /\ sent' = [sent EXCEPT ![a] = ages]
        /\ warned' = [warned EXCEPT ![a] = @ \/ Len(ages) > Threshold]
        /\ Return(s)
        /\ since' = [since EXCEPT ![s] = 0]
        /\ UNCHANGED <<account, backoff, loop, timer>>

\* Under the mutex: prune, push, and request an interaction when the count is
\* exactly the threshold.
Count(s) ==
    LET a == key[s]
        ages == Counted(sent[a], since[s])
    IN  /\ pc[s] = "counting"
        /\ sent' = [sent EXCEPT ![a] = ages]
        /\ warned' = [warned EXCEPT ![a] = @ \/ Len(ages) = Threshold]
        /\ Return(s)
        /\ since' = [since EXCEPT ![s] = 0]
        /\ UNCHANGED <<account, backoff, loop, timer>>

-----------------------------------------------------------------------------
(* The polling loop and the rest of the application. *)

\* A batch with a user's message: the loop reads the account key.
UserMessage ==
    /\ poll = "polling"
    /\ account # NoAccount
    /\ pollKey' = account
    /\ poll' = "answered"
    /\ UNCHANGED <<account, limits, calls>>

\* reset_account_rate_limit, under the mutex.
Reset ==
    /\ poll = "answered"
    /\ sent' = [sent EXCEPT ![pollKey] = <<>>]
    /\ backoff' = [backoff EXCEPT ![pollKey] = 0]
    /\ warned' = [warned EXCEPT ![pollKey] = FALSE]
    /\ poll' = "notifying"
    /\ UNCHANGED <<account, pollKey, calls>>

\* The mutex is free again when every call that waits is woken, whatever its
\* account; its timer is dropped, and the loop is done with its key.
NotifyWaiters ==
    /\ poll = "notifying"
    /\ poll' = "polling"
    /\ pollKey' = NoAccount
    /\ pc' = [s \in Senders |-> IF pc[s] = "waiting" THEN "sending" ELSE pc[s]]
    /\ timer' = [s \in Senders |-> 0]
    /\ UNCHANGED <<account, limits, key, retries, since>>

\* Other credentials are installed.
SetCredentials ==
    /\ account' \in Keys \ {account}
    /\ UNCHANGED <<limits, loop, calls>>

\* Time passes; nobody who has read the clock to use it under the mutex is kept
\* from it for longer than MaxDelay.
Tick ==
    /\ \A s \in Senders : pc[s] \in Locking => since[s] < MaxDelay
    /\ backoff' = [a \in Keys |-> Larger(0, backoff[a] - 1)]
    /\ sent' = [a \in Keys |->
                  [i \in 1..Len(sent[a]) |->
                      IF sent[a][i] < OldAge THEN sent[a][i] + 1 ELSE OldAge]]
    /\ timer' = [s \in Senders |-> Larger(0, timer[s] - 1)]
    /\ since' = [s \in Senders |-> since[s] + (IF pc[s] \in Locking THEN 1 ELSE 0)]
    /\ UNCHANGED <<account, warned, loop, pc, key, retries>>

-----------------------------------------------------------------------------
Proceed(s) ==
    \/ Admit(s)
    \/ Accept(s)
    \/ Fail(s)
    \/ RateLimited(s)
    \/ Defer(s)
    \/ Wait(s)
    \/ TimeOut(s)
    \/ ReadKey(s)
    \/ ReadClock(s)
    \/ Count(s)

Next ==
    \/ \E s \in Senders : Call(s) \/ Proceed(s)
    \/ UserMessage
    \/ Reset
    \/ NotifyWaiters
    \/ SetCredentials
    \/ Tick

Spec == Init /\ [][Next]_vars

\* A task that is ready runs, every request is answered or times out, and time
\* passes although MaxDelay may hold Tick up now and again.  Nobody has to send, to
\* write or to log in.
Fairness ==
    /\ \A s \in Senders : WF_vars(Proceed(s))
    /\ SF_vars(Tick)

FairSpec == Spec /\ Fairness

-----------------------------------------------------------------------------
(* Properties *)

\* Every variable stays in its domain: a call retries at most RetryAttempts times,
\* no backoff reaches further than RetryAfter ahead, nothing is ever recorded
\* under the empty key.
TypeOK ==
    /\ account \in Keys
    /\ backoff \in [Keys -> 0..RetryAfter] /\ backoff[NoAccount] = 0
    /\ sent \in [Keys -> Seq(0..OldAge)] /\ sent[NoAccount] = <<>>
    /\ warned \in [Keys -> BOOLEAN]
    /\ poll \in {"polling", "answered", "notifying"}
    /\ pollKey \in Keys
    /\ pc \in [Senders -> Steps]
    /\ key \in [Senders -> Keys]
    /\ \A s \in Senders : pc[s] \in {"stamping", "counting"} => key[s] # NoAccount
    /\ retries \in [Senders -> 0..RetryAttempts]
    /\ timer \in [Senders -> 0..RetryAfter]
    /\ since \in [Senders -> 0..MaxDelay]

\* While an account has Threshold sends in its window or more, its user's
\* interaction has been requested since the user last wrote: `==' cannot step
\* over the threshold, whatever the tasks' order and the window's moving.
WarnedAtThreshold ==
    Threshold > 0 =>
        \A a \in Accounts : Len(sent[a]) >= Threshold => warned[a]

\* A backoff ends by time or by the account's own user: rate-limited answers that
\* get the mutex late or out of order never shorten it.
BackoffHolds ==
    [][\A a \in Accounts :
          backoff'[a] < backoff[a] =>
              \/ UNCHANGED <<account, loop, pc>>
              \/ poll = "answered" /\ pollKey = a]_vars

\* What is counted is recent: when a send is counted, no send that is counted with
\* it is older than the window by more than the delays of two tasks between the
\* clock and the mutex, although timestamps may be pushed out of order.
WindowAccurate ==
    [][\A s \in Senders :
          pc[s] = "counting" /\ pc'[s] = "idle" =>
              \A i \in 1..Len(sent'[key[s]]) :
                  sent'[key[s]][i] <= Window + 2 * MaxDelay]_vars

\* Every call returns: retries are bounded, and no lost notification leaves a call
\* waiting for ever.
CallsReturn ==
    \A s \in Senders : pc[s] # "idle" ~> pc[s] = "idle"

\* A call that waits out the delay of its account retries when the delay is over or
\* because the user of that account wrote, not because another account's did.
DelayBeforeRetry ==
    [][\A s \in Senders :
          pc[s] = "waiting" /\ pc'[s] = "sending" =>
              timer[s] = 0 \/ pollKey = key[s]]_vars
=============================================================================
