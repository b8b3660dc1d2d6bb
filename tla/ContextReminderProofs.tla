----------------------- MODULE ContextReminderProofs -----------------------
(***************************************************************************)
(* The safety of the reminders for any loops, accounts and users, however  *)
(* late a loop gets the mutex and however far the clock is set back.       *)
(***************************************************************************)
EXTENDS ContextReminder, TLAPS

\* A tracked context that is not flagged has not been told of, so that the flag
\* and the history say the same.
Flags ==
    \A k \in Keys :
        /\ told[k] \in {0, 1}
        /\ told[k] = 0 => k \in tracked /\ ~reminded[k]
        /\ k \in tracked /\ ~reminded[k] => told[k] = 0

\* The clock readings and lifetimes are off by what the clock has been set back.
Clock ==
    /\ \A l \in Loops : lag[l] >= -back
    /\ \A k \in Keys : left[k] <= Ttl + back

\* What the domains say of the loops; the contexts' are Flags' and Clock's.
LoopTypes ==
    /\ account \in Accounts
    /\ back \in 0..MaxBack
    /\ pc \in [Loops -> Steps]
    /\ polled \in [Loops -> Accounts \cup {NoAccount}]
    /\ key \in [Loops -> Accounts \cup {NoAccount}]
    /\ \A l \in Loops : pc[l] \in {"batch", "observing", "checking"} => key[l] \in Accounts
    /\ todo \in [Loops -> 0..MaxBatch]
    /\ user \in [Loops -> Users]

ContextTypes ==
    /\ tracked \subseteq Keys
    /\ left \in [Keys -> -(1 + MaxDelay + MaxBack)..(Ttl + MaxBack)]
    /\ reminded \in [Keys -> BOOLEAN]
    /\ told \in [Keys -> Nat]
    /\ lag \in [Loops -> -MaxBack..MaxDelay]

IInv == LoopTypes /\ ContextTypes /\ Clock /\ Flags

-----------------------------------------------------------------------------
\* A function stays in its domain when one of its values is replaced.
LEMMA Update ==
    ASSUME NEW D, NEW S, NEW f \in [D -> S], NEW d \in D, NEW v \in S
    PROVE  [f EXCEPT ![d] = v] \in [D -> S]
  OBVIOUS

\* Members of the ranges.
LEMMA Ranges ==
    /\ 0 \in 0..MaxBack /\ 0 \in 0..MaxBatch /\ 0 \in -MaxBack..MaxDelay
    /\ 0 \in -(1 + MaxDelay + MaxBack)..(Ttl + MaxBack)
    /\ \A g \in -MaxBack..MaxDelay :
          Ttl - g \in -(1 + MaxDelay + MaxBack)..(Ttl + MaxBack)
    /\ \A n \in 0..MaxBatch : n > 0 => n - 1 \in 0..MaxBatch
  BY BoundsAssumption, LifetimeAssumption

LEMMA InitIInv == Init => IInv
<1> SUFFICES ASSUME Init PROVE IInv
  OBVIOUS
<1> USE DEF Init
<1>1. PICK u \in Users : user = [l \in Loops |-> u]
  OBVIOUS
<1>2. LoopTypes
  BY <1>1, Ranges DEF LoopTypes, Steps
<1>3. ContextTypes
  BY Ranges DEF ContextTypes
<1>4. Clock
  BY LifetimeAssumption DEF Clock
<1>5. Flags
  BY DEF Flags
<1> QED
  BY <1>2, <1>3, <1>4, <1>5 DEF IInv

\* The loops' own variables.
LEMMA LoopTypesStep == IInv /\ [Next]_vars => LoopTypes'
<1> SUFFICES ASSUME LoopTypes, [Next]_vars PROVE LoopTypes'
  BY DEF IInv
<1> USE Ranges DEF LoopTypes, Goto, NextTurn, Steps, contexts, request, reading
<1>1. ASSUME NEW l \in Loops, Proceed(l) PROVE LoopTypes'
  <2>1. CASE Request(l)
    BY <2>1 DEF Request
  <2>2. CASE PollFails(l)
    BY <2>2 DEF PollFails
  <2>3. CASE PollSucceeds(l)
    <3>1. PICK n \in 0..MaxBatch : todo' = [todo EXCEPT ![l] = n]
      BY <2>3 DEF PollSucceeds
    <3> QED
      BY <2>3, <3>1 DEF PollSucceeds
  <2>4. CASE Attribute(l)
    BY <2>4 DEF Attribute
  <2>5. CASE ReadClock(l)
    <3>1. PICK u \in Users : user' = [user EXCEPT ![l] = u]
      BY <2>5 DEF ReadClock
    <3> QED
      BY <2>5, <3>1 DEF ReadClock
  <2>6. CASE Observe(l)
    BY <2>6 DEF Observe
  <2>7. CASE FinishBatch(l)
    BY <2>7 DEF FinishBatch
  <2>8. CASE EmitDue(l)
    BY <2>8 DEF EmitDue
  <2> QED
    BY <1>1, <2>1, <2>2, <2>3, <2>4, <2>5, <2>6, <2>7, <2>8 DEF Proceed
<1>2. CASE SetCredentials
  BY <1>2 DEF SetCredentials
<1>3. CASE Tick
  BY <1>3 DEF Tick
<1>4. CASE SetBack
  BY <1>4, BoundsAssumption DEF SetBack
<1>5. CASE UNCHANGED vars
  BY <1>5 DEF vars
<1> QED
  BY <1>1, <1>2, <1>3, <1>4, <1>5 DEF Next

\* The contexts, the lifetimes and the readings of the clock.
LEMMA ContextTypesStep == IInv /\ [Next]_vars => ContextTypes' /\ Clock'
<1> SUFFICES ASSUME LoopTypes, ContextTypes, Clock, [Next]_vars
             PROVE  ContextTypes' /\ Clock'
  BY DEF IInv
<1> USE Ranges DEF ContextTypes, Clock, contexts, request, reading
<1>0. back \in Nat /\ \A l \in Loops : lag[l] \in Int
  BY BoundsAssumption DEF LoopTypes
<1>1. ASSUME NEW l \in Loops, Observe(l) PROVE ContextTypes' /\ Clock'
  <2> DEFINE k == <<key[l], user[l]>>
  <2>1. k \in Keys
    BY <1>1 DEF Observe, LoopTypes, Keys
  <2>2. Ttl - lag[l] \in -(1 + MaxDelay + MaxBack)..(Ttl + MaxBack)
    OBVIOUS
  <2>3. /\ tracked' = tracked \cup {k}
        /\ left' = [left EXCEPT ![k] = Ttl - lag[l]]
        /\ reminded' = [reminded EXCEPT ![k] = FALSE]
        /\ told' = [told EXCEPT ![k] = 0]
        /\ lag' = [lag EXCEPT ![l] = 0]
        /\ back' = back
    BY <1>1 DEF Observe
  <2> HIDE DEF k
  <2>4. ContextTypes'
    BY <2>1, <2>2, <2>3, Update
  <2>5. \A q \in Keys : left'[q] <= Ttl + back
    BY <1>0, <2>1, <2>2, <2>3, LifetimeAssumption
  <2>6. \A m \in Loops : lag'[m] >= -back
    BY <1>0, <2>3
  <2> QED
    BY <2>3, <2>4, <2>5, <2>6
<1>2. ASSUME NEW l \in Loops, EmitDue(l) PROVE ContextTypes' /\ Clock'
  <2>1. \A k \in Keys : told[k] + 1 \in Nat
    OBVIOUS
  <2>2. /\ tracked' \subseteq tracked
        /\ left' = [k \in Keys |-> IF k \in tracked' THEN left[k] ELSE 0]
        /\ reminded' = [k \in Keys |-> k \in tracked' /\ (reminded[k] \/ k \in ToRemind(l))]
        /\ told' = [k \in Keys |-> IF k \in ToRemind(l) THEN told[k] + 1 ELSE told[k]]
        /\ lag' = [lag EXCEPT ![l] = 0]
        /\ back' = back
    BY <1>2 DEF EmitDue
  <2>3. reminded' \in [Keys -> BOOLEAN]
    BY <2>2, Zenon
  <2>4. ContextTypes'
    BY <2>1, <2>2, <2>3, Update
  <2>5. Clock'
    BY <1>0, <2>2, LifetimeAssumption
  <2> QED
    BY <2>4, <2>5
<1>3. ASSUME NEW l \in Loops,
             Request(l) \/ PollFails(l) \/ PollSucceeds(l) \/ Attribute(l)
      PROVE  ContextTypes' /\ Clock'
  BY <1>3 DEF Request, PollFails, PollSucceeds, Attribute
<1>4. ASSUME NEW l \in Loops, ReadClock(l) \/ FinishBatch(l)
      PROVE  ContextTypes' /\ Clock'
  <2>1. UNCHANGED <<contexts, back>> /\ lag' = [lag EXCEPT ![l] = 0]
    BY <1>4 DEF ReadClock, FinishBatch
  <2> QED
    BY <1>0, <2>1, Update
<1>5. CASE SetCredentials
  BY <1>5 DEF SetCredentials
<1>6. CASE Tick
  <2>1. UNCHANGED <<tracked, reminded, told, back>>
    BY <1>6 DEF Tick
  <2>2. left' = [k \in Keys |->
                   IF k \in tracked /\ left[k] + (-1) >= LongAgo
                   THEN left[k] + (-1) ELSE left[k]]
    BY <1>6 DEF Tick, Shifted
  <2>3. lag' = [l \in Loops |-> IF Reads(l) THEN lag[l] + 1 ELSE lag[l]]
        /\ \A l \in Loops : Reads(l) => lag[l] < MaxDelay
    BY <1>6 DEF Tick
  <2>4. \A k \in Keys : left'[k] \in -(1 + MaxDelay + MaxBack)..(Ttl + MaxBack)
                       /\ left'[k] <= left[k]
    BY <1>0, <2>2, BoundsAssumption, LifetimeAssumption DEF LongAgo
  <2>5. \A l \in Loops : lag'[l] \in -MaxBack..MaxDelay /\ lag'[l] >= lag[l]
    BY <1>0, <2>3, BoundsAssumption
  <2>6. ContextTypes'
    BY <2>1, <2>2, <2>3, <2>4, <2>5
  <2>7. Clock'
    BY <1>0, <2>1, <2>4, <2>5, BoundsAssumption, LifetimeAssumption
  <2> QED
    BY <2>6, <2>7
<1>7. CASE SetBack
  <2>1. UNCHANGED <<tracked, reminded, told>> /\ back' = back + 1 /\ back < MaxBack
    BY <1>7 DEF SetBack
  <2>2. left' = [k \in Keys |->
                   IF k \in tracked /\ left[k] + 1 >= LongAgo
                   THEN left[k] + 1 ELSE left[k]]
    BY <1>7 DEF SetBack, Shifted
  <2>3. lag' = [l \in Loops |-> IF Reads(l) THEN lag[l] - 1 ELSE lag[l]]
    BY <1>7 DEF SetBack
  <2>4. \A k \in Keys : left'[k] \in -(1 + MaxDelay + MaxBack)..(Ttl + MaxBack)
                       /\ left'[k] <= Ttl + back + 1
    BY <1>0, <2>1, <2>2, BoundsAssumption, LifetimeAssumption
  <2>5. \A l \in Loops : lag'[l] \in -MaxBack..MaxDelay /\ lag'[l] >= -(back + 1)
    BY <1>0, <2>1, <2>3, BoundsAssumption
  <2>6. ContextTypes'
    BY <2>1, <2>2, <2>3, <2>4, <2>5
  <2>7. Clock'
    BY <1>0, <2>1, <2>4, <2>5, BoundsAssumption, LifetimeAssumption
  <2> QED
    BY <2>6, <2>7
<1>8. CASE UNCHANGED vars
  BY <1>8 DEF vars
<1> QED
  BY <1>1, <1>2, <1>3, <1>4, <1>5, <1>6, <1>7, <1>8 DEF Next, Proceed

\* Two critical sections move the flag and the history, both together.
LEMMA FlagsStep == IInv /\ [Next]_vars => Flags'
<1> SUFFICES ASSUME LoopTypes, ContextTypes, Flags, [Next]_vars PROVE Flags'
  BY DEF IInv
<1>1. ASSUME NEW l \in Loops, Observe(l) PROVE Flags'
  <2> DEFINE k == <<key[l], user[l]>>
  <2>1. k \in Keys
    BY <1>1 DEF Observe, LoopTypes, Keys
  <2>2. /\ tracked' = tracked \cup {k}
        /\ reminded' = [reminded EXCEPT ![k] = FALSE]
        /\ told' = [told EXCEPT ![k] = 0]
    BY <1>1 DEF Observe
  <2> HIDE DEF k
  <2> QED
    BY <2>1, <2>2 DEF Flags, ContextTypes
<1>2. ASSUME NEW l \in Loops, EmitDue(l) PROVE Flags'
  <2>1. ASSUME NEW k \in Keys, k \in ToRemind(l)
        PROVE  told'[k] = 1 /\ reminded'[k] /\ k \in tracked'
    <3>1. k \in tracked \ Forgotten(l) /\ ~reminded[k]
      BY <2>1 DEF ToRemind
    <3>2. told[k] = 0
      BY <3>1 DEF Flags
    <3>3. told'[k] = told[k] + 1 /\ tracked' = tracked \ Forgotten(l)
      BY <1>2, <2>1 DEF EmitDue
    <3>4. reminded'[k] <=> (k \in tracked' /\ (reminded[k] \/ k \in ToRemind(l)))
      BY <1>2, Zenon DEF EmitDue
    <3> QED
      BY <2>1, <3>1, <3>2, <3>3, <3>4
  <2>2. ASSUME NEW k \in Keys, k \notin ToRemind(l)
        PROVE  /\ told'[k] = told[k]
               /\ k \in tracked' <=> k \in tracked \ Forgotten(l)
               /\ k \in tracked' => (reminded'[k] <=> reminded[k])
    BY <1>2, <2>2 DEF EmitDue, ContextTypes
  <2>3. ASSUME NEW k \in Keys, k \in Forgotten(l) PROVE k \in tracked /\ reminded[k]
    BY <2>3 DEF Forgotten
  <2> QED
    BY <2>1, <2>2, <2>3 DEF Flags
<1>3. CASE UNCHANGED <<tracked, reminded, told>>
  BY <1>3 DEF Flags
<1>4. ASSUME NEW l \in Loops, Proceed(l), ~Observe(l), ~EmitDue(l)
      PROVE  UNCHANGED <<tracked, reminded, told>>
  BY <1>4 DEF Proceed, Request, PollFails, PollSucceeds, Attribute, ReadClock,
              FinishBatch, contexts
<1>5. SetCredentials \/ Tick \/ SetBack \/ UNCHANGED vars
        => UNCHANGED <<tracked, reminded, told>>
  BY DEF SetCredentials, Tick, SetBack, vars, contexts
<1> QED
  BY <1>1, <1>2, <1>3, <1>4, <1>5 DEF Next

\* The inductive invariant holds throughout.
LEMMA IInvHolds == Spec => []IInv
<1>1. IInv /\ [Next]_vars => IInv'
  BY LoopTypesStep, ContextTypesStep, FlagsStep DEF IInv
<1> QED
  BY InitIInv, <1>1, PTL DEF Spec

-----------------------------------------------------------------------------
(* Theorems *)

\* Every variable of the loops, the contexts and the clock keeps to its domain.
THEOREM TypeCorrect == Spec => []TypeOK
<1>1. IInv => TypeOK
  BY DEF IInv, LoopTypes, ContextTypes, TypeOK
<1> QED
  BY IInvHolds, <1>1, PTL

\* No user is reminded twice of the same observation.
THEOREM RemindedOnceHolds == Spec => []RemindedOnce
<1>1. IInv => RemindedOnce
  BY DEF IInv, Flags, RemindedOnce
<1> QED
  BY IInvHolds, <1>1, PTL

\* No context is forgotten before its user has been reminded.
THEOREM OwedIsTrackedHolds == Spec => []OwedIsTracked
<1>1. IInv => OwedIsTracked
  BY DEF IInv, Flags, OwedIsTracked
<1> QED
  BY IInvHolds, <1>1, PTL
=============================================================================
