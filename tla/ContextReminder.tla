-------------------------- MODULE ContextReminder --------------------------
(***************************************************************************)
(* The contexts a client's polling loops observe, and the reminders that   *)
(* they are about to expire.  A context belongs to an account and a user;  *)
(* its lifetime starts anew whenever a message of that user is processed.  *)
(*                                                                         *)
(* The clock is the wall clock, which may be set back, and it is read      *)
(* before the mutex of the contexts is taken: lag is the age of a reading, *)
(* left the time until a context expires.  Loops of one client share its   *)
(* contexts, and other credentials may be installed while a loop waits for *)
(* its updates.                                                            *)
(***************************************************************************)
EXTENDS Integers

CONSTANTS
    Loops,         \* run_loop tasks of the client
    Accounts,      \* accounts whose credentials may be installed
    NoAccount,     \* stands for an account that has not been read
    Users,         \* users who write
    Ttl,           \* context_ttl
    RemindBefore,  \* context_remind_before
    MaxBatch,      \* bound: messages with a context in a batch
    MaxDelay,      \* bound: time between reading the clock and the mutex
    MaxBack        \* bound: how far the wall clock is ever set back

ASSUME LifetimeAssumption == Ttl \in Nat \ {0} /\ RemindBefore \in Nat
ASSUME NoAccountAssumption == NoAccount \notin Accounts
ASSUME BoundsAssumption == MaxBatch \in Nat /\ MaxDelay \in Nat /\ MaxBack \in Nat

VARIABLES
    account,   \* account of the installed credentials
    tracked,   \* client: keys of context_refresh_states
    left,      \* client: per key, expires_at - now
    reminded,  \* client: per key, the flag of its state
    told,      \* history: per key, reminders since its last observation
    back,      \* how far the clock has been set back
    pc,        \* per loop: where run_loop is
    polled,    \* per loop: the account whose token the request carries
    key,       \* per loop: the account key the batch is attributed to
    todo,      \* per loop: messages of the batch not yet processed
    user,      \* per loop: the user of the message it processes
    lag        \* per loop: the age of its reading of the clock

contexts == <<tracked, left, reminded, told>>
request == <<polled, key>>
reading == <<todo, user, lag>>
vars == <<account, contexts, back, pc, request, reading>>

Keys == Accounts \X Users

\* Reading the account key follows an answer, the mutex a reading of the clock.
Steps == {"head", "waiting", "answered", "batch", "observing", "checking"}

\* Expired for longer than this is all the same.
LongAgo == -(1 + MaxDelay + MaxBack - back)

Init ==
    /\ account \in Accounts
    /\ tracked = {}
    /\ left = [k \in Keys |-> 0]
    /\ reminded = [k \in Keys |-> FALSE]
    /\ told = [k \in Keys |-> 1]
    /\ back = 0
    /\ pc = [l \in Loops |-> "head"]
    /\ polled = [l \in Loops |-> NoAccount]
    /\ key = [l \in Loops |-> NoAccount]
    /\ todo = [l \in Loops |-> 0]
    /\ user \in {[l \in Loops |-> u] : u \in Users}
    /\ lag = [l \in Loops |-> 0]

Goto(l, p) == pc' = [pc EXCEPT ![l] = p]

\* The next turn of the loop: what this one knew of accounts is out of scope.
NextTurn(l) ==
    /\ Goto(l, "head")
    /\ polled' = [polled EXCEPT ![l] = NoAccount]
    /\ key' = [key EXCEPT ![l] = NoAccount]

-----------------------------------------------------------------------------
(* The polling loop. *)

\* get_auth, and the request for updates with that account's token.
Request(l) ==
    /\ pc[l] = "head"
    /\ polled' = [polled EXCEPT ![l] = account]
    /\ Goto(l, "waiting")
    /\ UNCHANGED <<account, contexts, back, key, reading>>

\* An error of any kind: no context is looked at, the loop sleeps and goes on.
PollFails(l) ==
    /\ pc[l] = "waiting"
    /\ NextTurn(l)
    /\ UNCHANGED <<account, contexts, back, reading>>

\* A batch, possibly empty.
PollSucceeds(l) ==
    /\ pc[l] = "waiting"
    /\ \E n \in 0..MaxBatch : todo' = [todo EXCEPT ![l] = n]
    /\ Goto(l, "answered")
    /\ UNCHANGED <<account, contexts, back, request, user, lag>>

\* The account key of the batch is that of the credentials installed by now.
Attribute(l) ==
    /\ pc[l] = "answered"
    /\ key' = [key EXCEPT ![l] = account]
    /\ polled' = [polled EXCEPT ![l] = NoAccount]
    /\ Goto(l, "batch")
    /\ UNCHANGED <<account, contexts, back, reading>>

\* The next message has a context: observe_context_for_interaction reads the clock.
ReadClock(l) ==
    /\ pc[l] = "batch"
    /\ todo[l] > 0
    /\ \E u \in Users : user' = [user EXCEPT ![l] = u]
    /\ todo' = [todo EXCEPT ![l] = @ - 1]
    /\ lag' = [lag EXCEPT ![l] = 0]
    /\ Goto(l, "observing")
    /\ UNCHANGED <<account, contexts, back, request>>

\* Mutant: the lifetime is added in another unit.
ObserveInMillis(l) ==
    LET k == <<key[l], user[l]>>
    IN  /\ pc[l] = "observing"
        /\ tracked' = tracked \cup {k}
        /\ left' = [left EXCEPT ![k] = 1000 * Ttl - lag[l]]
        /\ reminded' = [reminded EXCEPT ![k] = FALSE]
        /\ told' = [told EXCEPT ![k] = 0]
        /\ lag' = [lag EXCEPT ![l] = 0]
        /\ Goto(l, "batch")
        /\ UNCHANGED <<account, back, request, todo, user>>

\* Under the mutex: the state of the context is replaced, whatever it was.
Observe(l) ==
    LET k == <<key[l], user[l]>>
    IN  /\ pc[l] = "observing"
        /\ tracked' = tracked \cup {k}
        /\ left' = [left EXCEPT ![k] = Ttl - lag[l]]
        /\ reminded' = [reminded EXCEPT ![k] = FALSE]
        /\ told' = [told EXCEPT ![k] = 0]
        /\ lag' = [lag EXCEPT ![l] = 0]
        /\ Goto(l, "batch")
        /\ UNCHANGED <<account, back, request, todo, user>>

\* Mutant: the contexts are looked at only when a message has just been processed.
FinishBatchWithMessages(l) ==
    /\ pc[l] = "batch"
    /\ todo[l] = 0
    /\ \/ \E u \in Users : left[<<key[l], u>>] >= Ttl /\ Goto(l, "checking") /\ UNCHANGED request
       \/ (\A u \in Users : left[<<key[l], u>>] < Ttl) /\ NextTurn(l)
    /\ lag' = [lag EXCEPT ![l] = 0]
    /\ UNCHANGED <<account, contexts, back, todo, user>>

\* The batch is processed, empty or not: emit_due_context_interaction_requests
\* reads the clock.
FinishBatch(l) ==
    /\ pc[l] = "batch"
    /\ todo[l] = 0
    /\ lag' = [lag EXCEPT ![l] = 0]
    /\ Goto(l, "checking")
    /\ UNCHANGED <<account, contexts, back, request, todo, user>>

\* At the time that loop l has read.
Expired(l, k) == left[k] + lag[l] < 0
Due(l, k) == left[k] + lag[l] <= RemindBefore

\* Mutant: every context that has expired is forgotten.
ForgottenExpired(l) == {k \in tracked : Expired(l, k)}

\* Reminded contexts are forgotten once they have expired, no others.
Forgotten(l) == {k \in tracked : reminded[k] /\ Expired(l, k)}

\* Mutant: a context in its last phase is reminded at every poll.
ToRemindAgain(l) == {k \in tracked \ Forgotten(l) : Due(l, k)}

\* The contexts that are due and have not been reminded.
ToRemind(l) == {k \in tracked \ Forgotten(l) : ~reminded[k] /\ Due(l, k)}

\* Under the mutex; the reminders are emitted after it.
EmitDue(l) ==
    /\ pc[l] = "checking"
    /\ tracked' = tracked \ Forgotten(l)
    /\ left' = [k \in Keys |-> IF k \in tracked' THEN left[k] ELSE 0]
    /\ reminded' = [k \in Keys |-> k \in tracked' /\ (reminded[k] \/ k \in ToRemind(l))]
    /\ told' = [k \in Keys |-> IF k \in ToRemind(l) THEN told[k] + 1 ELSE told[k]]
    /\ lag' = [lag EXCEPT ![l] = 0]
    /\ NextTurn(l)
    /\ UNCHANGED <<account, back, todo, user>>

-----------------------------------------------------------------------------
(* The rest of the application, and time. *)

\* Credentials of another account are installed.
SetCredentials ==
    /\ account' \in Accounts \ {account}
    /\ UNCHANGED <<contexts, back, pc, request, reading>>

Shifted(d) ==
    left' = [k \in Keys |->
                IF k \in tracked /\ left[k] + d >= LongAgo THEN left[k] + d ELSE left[k]]

Reads(l) == pc[l] \in {"observing", "checking"}

\* Time passes; nobody who has read the clock is kept from the mutex for longer
\* than MaxDelay.
Tick ==
    /\ \A l \in Loops : Reads(l) => lag[l] < MaxDelay
    /\ Shifted(-1)
    /\ lag' = [l \in Loops |-> IF Reads(l) THEN lag[l] + 1 ELSE lag[l]]
    /\ UNCHANGED <<account, tracked, reminded, told, back, pc, request, todo, user>>

\* The wall clock is set back.
SetBack ==
    /\ back < MaxBack
    /\ back' = back + 1
    /\ Shifted(1)
    /\ lag' = [l \in Loops |-> IF Reads(l) THEN lag[l] - 1 ELSE lag[l]]
    /\ UNCHANGED <<account, tracked, reminded, told, pc, request, todo, user>>

-----------------------------------------------------------------------------
Proceed(l) ==
    \/ Request(l)
    \/ PollFails(l)
    \/ PollSucceeds(l)
    \/ Attribute(l)
    \/ ReadClock(l)
    \/ Observe(l)
    \/ FinishBatch(l)
    \/ EmitDue(l)

Next ==
    \/ \E l \in Loops : Proceed(l)
    \/ SetCredentials
    \/ Tick
    \/ SetBack

Spec == Init /\ [][Next]_vars

\* A loop that is ready runs, now and again a poll succeeds, and time passes
\* although MaxDelay may hold Tick up.
Fairness ==
    /\ \A l \in Loops : WF_vars(Proceed(l)) /\ SF_vars(PollSucceeds(l))
    /\ SF_vars(Tick)

FairSpec == Spec /\ Fairness

-----------------------------------------------------------------------------
(* Properties *)

\* Every variable stays in its domain; only tracked contexts have a state.
TypeOK ==
    /\ account \in Accounts
    /\ tracked \subseteq Keys
    /\ left \in [Keys -> -(1 + MaxDelay + MaxBack)..(Ttl + MaxBack)]
    /\ reminded \in [Keys -> BOOLEAN]
    /\ told \in [Keys -> Nat]
    /\ back \in 0..MaxBack
    /\ pc \in [Loops -> Steps]
    /\ polled \in [Loops -> Accounts \cup {NoAccount}]
    /\ key \in [Loops -> Accounts \cup {NoAccount}]
    /\ todo \in [Loops -> 0..MaxBatch]
    /\ user \in [Loops -> Users]
    /\ lag \in [Loops -> -MaxBack..MaxDelay]

\* One observation, one reminder: no order of two loops in the mutex and no
\* setting back of the clock reminds twice of a context that has not been
\* observed again.
RemindedOnce == \A k \in Keys : told[k] <= 1

\* A context whose user has not been reminded is still kept to be: it is not
\* forgotten when it expires while no poll succeeds.
OwedIsTracked ==
    \A k \in Keys : told[k] = 0 => k \in tracked /\ ~reminded[k]

Observes(k) == \E l \in Loops : Observe(l) /\ <<key[l], user[l]>> = k

\* A user who falls silent is reminded, however long the polls fail in between,
\* and though the polls that succeed bring nothing.
SilentUserReminded ==
    \A k \in Keys :
        <>[][~Observes(k)]_vars => (told[k] = 0 ~> told[k] = 1)

\* The contexts of a batch name the account whose token it was polled with, whatever
\* is installed while the request is under way.
ContextOfItsAccount ==
    [][\A l \in Loops :
          pc[l] = "answered" /\ pc'[l] = "batch" /\ todo[l] > 0 => key'[l] = polled[l]]_vars
=============================================================================
