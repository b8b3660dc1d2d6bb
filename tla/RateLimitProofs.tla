--------------------------- MODULE RateLimitProofs ---------------------------
(***************************************************************************)
(* Theorems about RateLimit for every set of tasks and accounts and every  *)
(* policy.                                                                 *)
(***************************************************************************)
EXTENDS RateLimit, FiniteSetTheorems, SequenceTheorems, WellFoundedInduction,
        TLAPS

-----------------------------------------------------------------------------
(* Ages and sequences of them. *)

Ages == 0..OldAge

\* A non-empty set of natural numbers has a least element, by the strict inclusion
\* of the intervals up to its elements.
LEMMA LeastNatural ==
    ASSUME NEW T, T \subseteq Nat, T # {}
    PROVE  \E m \in T : \A n \in T : m <= n
<1> DEFINE R == StrictSubsetOrdering(Nat)
           Upto == {0..m : m \in T}
<1>1. IsWellFoundedOn(R, FiniteSubsetsOf(Nat))
  BY FS_StrictSubsetOrderingWellFounded
<1>2. \A m \in Nat : 0..m \in FiniteSubsetsOf(Nat)
  <2> SUFFICES ASSUME NEW m \in Nat PROVE 0..m \in FiniteSubsetsOf(Nat)
    OBVIOUS
  <2>1. IsFiniteSet(0..m)
    BY FS_Interval
  <2> QED
    BY <2>1 DEF FiniteSubsetsOf
<1>3. Upto \subseteq FiniteSubsetsOf(Nat) /\ Upto # {}
  BY <1>2
<1>4. \E I \in Upto : \A J \in Upto : ~ (<<J, I>> \in R)
  <2> HIDE DEF R, Upto
  <2> QED
    BY <1>1, <1>3, WFMin
<1>5. PICK m \in T : \A n \in T : ~ (<<0..n, 0..m>> \in R)
  BY <1>4
<1>6. ASSUME NEW n \in T, n < m PROVE FALSE
  <2>1. 0..n \subseteq 0..m /\ m \in 0..m /\ m \notin 0..n
    BY <1>6
  <2>2. 0..n \in SUBSET Nat /\ 0..m \in SUBSET Nat /\ 0..n # 0..m
    BY <2>1, <1>6
  <2>3. <<0..n, 0..m>> \in R
    BY <2>1, <2>2 DEF StrictSubsetOrdering
  <2> QED
    BY <2>3, <1>5
<1>7. \A n \in T : ~ (n < m)
  BY <1>6
<1> QED
  BY <1>7

\* Pruned drops a prefix, and stops at an age that is in the window.
LEMMA PrunedSuffix ==
    ASSUME NEW S, S \subseteq Nat, NEW ages \in Seq(S), NEW d \in Nat
    PROVE  \E n \in 0..Len(ages) :
              /\ Pruned(ages, d) = SubSeq(ages, n + 1, Len(ages))
              /\ \A i \in 1..n : ages[i] - d > Window
              /\ n < Len(ages) => ages[n + 1] - d <= Window
<1> DEFINE stale(i) == ages[i] - d > Window
           Stop == {k \in 0..Len(ages) : k < Len(ages) => ~stale(k + 1)}
           First(n) == /\ \A i \in 1..n : stale(i)
                       /\ n < Len(ages) => ~stale(n + 1)
<1>1. PICK m \in Stop : \A k \in Stop : m <= k
  <2>1. Len(ages) \in Stop /\ Stop \subseteq Nat
    OBVIOUS
  <2> HIDE DEF Stop
  <2> QED
    BY <2>1, LeastNatural
<1>2. \A i \in 1..m : stale(i)
  <2> SUFFICES ASSUME NEW i \in 1..m, ~stale(i) PROVE FALSE
    OBVIOUS
  <2>1. i - 1 \in 0..Len(ages) /\ (i - 1) + 1 = i /\ i - 1 < m /\ m \in Nat
    BY <1>1
  <2>2. i - 1 \in Stop
    BY <2>1
  <2>3. m <= i - 1
    <3> HIDE DEF Stop
    <3> QED
      BY <1>1, <2>2
  <2> QED
    BY <2>1, <2>3
<1>3. m \in 0..Len(ages) /\ First(m)
  BY <1>1, <1>2
<1>4. PICK n \in 0..Len(ages) :
         /\ n = CHOOSE k \in 0..Len(ages) : First(k)
         /\ First(n)
  <2> HIDE DEF First
  <2> QED
    BY <1>3
<1>5. Pruned(ages, d) = SubSeq(ages, n + 1, Len(ages))
  BY <1>4 DEF Pruned
<1>6. n < Len(ages) => ages[n + 1] - d <= Window
  <2>1. ASSUME n < Len(ages) PROVE ages[n + 1] \in Nat
    <3>1. n + 1 \in 1..Len(ages) /\ ages \in [1..Len(ages) -> S]
      BY <2>1, LenProperties
    <3> QED
      BY <3>1
  <2> QED
    BY <1>4, <2>1, PolicyAssumption
<1> QED
  BY <1>4, <1>5, <1>6

\* The ages that Count leaves: those after the stale ones at the front, the first
\* of them in the window, and the new one.
LEMMA CountedAges ==
    ASSUME NEW ages \in Seq(Ages), NEW d \in 0..MaxDelay
    PROVE  \E k \in 0..Len(ages) :
              /\ Counted(ages, d) \in Seq(Ages)
              /\ Len(Counted(ages, d)) = Len(ages) - k + 1
              /\ \A i \in 1..(Len(ages) - k) : Counted(ages, d)[i] = ages[k + i]
              /\ Counted(ages, d)[Len(ages) - k + 1] = d
              /\ k < Len(ages) => ages[k + 1] - d <= Window
<1>1. d \in Nat /\ d \in Ages /\ Ages \subseteq Nat
  BY PolicyAssumption, BoundsAssumption DEF Ages, OldAge
<1>2. PICK k \in 0..Len(ages) :
         /\ Pruned(ages, d) = SubSeq(ages, k + 1, Len(ages))
         /\ k < Len(ages) => ages[k + 1] - d <= Window
  BY <1>1, PrunedSuffix
<1>3. /\ Len(ages) \in Nat /\ k \in Nat
      /\ \A i \in (k + 1)..Len(ages) : ages[i] \in Ages
  <2>1. Len(ages) \in Nat /\ ages \in [1..Len(ages) -> Ages]
    BY LenProperties
  <2> QED
    BY <2>1
<1> DEFINE rest == SubSeq(ages, k + 1, Len(ages))
<1>4. /\ rest \in Seq(Ages)
      /\ Len(rest) = IF k + 1 <= Len(ages) THEN Len(ages) - (k + 1) + 1 ELSE 0
      /\ \A i \in 1..(Len(ages) - (k + 1) + 1) : rest[i] = ages[k + 1 + i - 1]
  <2>1. k + 1 \in Int /\ Len(ages) \in Int
    BY <1>3
  <2> QED
    BY <2>1, <1>3, SubSeqProperties
<1>5. /\ Len(rest) = Len(ages) - k
      /\ \A i \in 1..(Len(ages) - k) : rest[i] = ages[k + i]
  <2>1. \A i \in 1..(Len(ages) - k) : k + 1 + i - 1 = k + i
    BY <1>3
  <2> HIDE DEF rest
  <2> QED
    BY <1>3, <1>4, <2>1
<1>6. /\ Append(rest, d) \in Seq(Ages)
      /\ Len(Append(rest, d)) = Len(ages) - k + 1
      /\ \A i \in 1..(Len(ages) - k) : Append(rest, d)[i] = ages[k + i]
      /\ Append(rest, d)[Len(ages) - k + 1] = d
  <2> HIDE DEF rest
  <2>1. /\ Append(rest, d) \in Seq(Ages)
        /\ Len(Append(rest, d)) = Len(rest) + 1
        /\ \A i \in 1..Len(rest) : Append(rest, d)[i] = rest[i]
        /\ Append(rest, d)[Len(rest) + 1] = d
    BY <1>1, <1>4, AppendProperties
  <2> QED
    BY <1>5, <2>1
<1>7. Counted(ages, d) = Append(rest, d)
  BY <1>2 DEF Counted
<1> QED
  BY <1>2, <1>6, <1>7

\* A sequence of ages, one tick older.
Older(ages) == [i \in 1..Len(ages) |->
                   IF ages[i] < OldAge THEN ages[i] + 1 ELSE OldAge]

LEMMA OlderAges ==
    ASSUME NEW ages \in Seq(Ages)
    PROVE  Older(ages) \in Seq(Ages) /\ Len(Older(ages)) = Len(ages)
<1>1. OldAge \in Nat
  BY PolicyAssumption, BoundsAssumption DEF OldAge
<1>2. Len(ages) \in Nat /\ ages \in [1..Len(ages) -> Ages]
  BY LenProperties
<1>3. Older(ages) \in [1..Len(ages) -> Ages]
  BY <1>1, <1>2 DEF Older, Ages
<1> QED
  BY <1>2, <1>3

-----------------------------------------------------------------------------
(* Type correctness. *)

LEMMA LargerType ==
    \A m, n \in Int : Larger(m, n) \in {m, n} /\ Larger(m, n) >= m /\ Larger(m, n) >= n
  BY DEF Larger

LEMMA TypeInit == Init => TypeOK
<1> SUFFICES ASSUME Init PROVE TypeOK
  OBVIOUS
<1>1. <<>> \in Seq(0..OldAge) /\ NoAccount \in Keys
  BY DEF Keys
<1>2. /\ 0 \in 0..RetryAfter /\ 0 \in 0..RetryAttempts /\ 0 \in 0..MaxDelay
  BY PolicyAssumption, BoundsAssumption
<1> QED
  BY <1>1, <1>2 DEF Init, TypeOK, Steps

\* The steps of a call that leave what the client knows of its accounts alone.
LEMMA QuietCallType ==
    ASSUME TypeOK, NEW s \in Senders,
           \/ Call(s) \/ Admit(s) \/ Accept(s) \/ Fail(s) \/ RateLimited(s)
           \/ Wait(s) \/ TimeOut(s) \/ ReadKey(s) \/ ReadClock(s)
    PROVE  TypeOK'
<1>1. pc' \in [Senders -> Steps] /\ key' \in [Senders -> Keys]
  <2>1. key' \in [Senders -> Keys]
    BY DEF TypeOK, Call, Admit, Accept, Fail, RateLimited, Wait, TimeOut, ReadKey,
           ReadClock, Return, Keys
  <2>2. PICK label \in Steps : Goto(s, label)
    <3>1. CASE Call(s) \/ Fail(s) \/ RateLimited(s) \/ TimeOut(s) \/ ReadClock(s)
      BY <3>1 DEF Steps, Locking, Call, Fail, RateLimited, TimeOut, ReadClock, Return
    <3>2. CASE Admit(s)
      BY <3>2 DEF Steps, Admit, Return
    <3>3. CASE Accept(s)
      BY <3>3 DEF Steps, Accept, Return
    <3>4. CASE Wait(s)
      BY <3>4 DEF Steps, Wait
    <3>5. CASE ReadKey(s)
      BY <3>5 DEF Steps, ReadKey, Return
    <3> QED
      BY <3>1, <3>2, <3>3, <3>4, <3>5
  <2> QED
    BY <2>1, <2>2 DEF TypeOK, Goto
<1>4. retries' \in [Senders -> 0..RetryAttempts]
  <2>1. 0 \in 0..RetryAttempts
    BY PolicyAssumption
  <2> QED
    BY <2>1 DEF TypeOK, Call, Admit, Accept, Fail, RateLimited, Wait, TimeOut,
                ReadKey, ReadClock, Return
<1>5. timer' \in [Senders -> 0..RetryAfter]
  <2>1. RetryAfter \in 0..RetryAfter
    BY PolicyAssumption
  <2> QED
    BY <2>1 DEF TypeOK, Call, Admit, Accept, Fail, RateLimited, Wait, TimeOut,
                ReadKey, ReadClock, Return
<1>6. since' \in [Senders -> 0..MaxDelay]
  <2>1. 0 \in 0..MaxDelay
    BY BoundsAssumption
  <2> QED
    BY <2>1 DEF TypeOK, Call, Admit, Accept, Fail, RateLimited, Wait, TimeOut,
                ReadKey, ReadClock, Return
<1>2. \A t \in Senders : pc'[t] \in {"stamping", "counting"} => key'[t] # NoAccount
  BY DEF TypeOK, Steps, Call, Admit, Accept, Fail, RateLimited, Wait, TimeOut,
         ReadKey, ReadClock, Return, Goto
<1>3. UNCHANGED <<account, limits, loop>>
  BY DEF Call, Admit, Accept, Fail, RateLimited, Wait, TimeOut, ReadKey, ReadClock
<1> QED
  BY <1>1, <1>2, <1>3, <1>4, <1>5, <1>6 DEF TypeOK, limits, loop

LEMMA DeferType ==
    ASSUME TypeOK, NEW s \in Senders, Defer(s)
    PROVE  TypeOK'
<1>1. backoff' \in [Keys -> 0..RetryAfter] /\ backoff'[NoAccount] = 0
  <2>1. /\ key[s] \in Keys /\ NoAccount \in Keys /\ since[s] \in 0..MaxDelay
        /\ backoff[key[s]] \in 0..RetryAfter
    BY DEF TypeOK, Keys
  <2>2. Larger(backoff[key[s]], RetryAfter - since[s]) \in 0..RetryAfter
    BY <2>1, PolicyAssumption, BoundsAssumption DEF Larger
  <2> QED
    BY <2>1, <2>2 DEF TypeOK, Defer
<1>2. /\ pc' \in [Senders -> Steps] /\ retries' \in [Senders -> 0..RetryAttempts]
      /\ since' \in [Senders -> 0..MaxDelay]
  <2>1. pc' \in [Senders -> Steps]
    BY DEF TypeOK, Steps, Defer, SpendRetry, Return, Goto
  <2>2. ASSUME retries[s] >= RetryAttempts
        PROVE  retries' \in [Senders -> 0..RetryAttempts]
    <3>1. retries' = [retries EXCEPT ![s] = 0]
      BY <2>2, PolicyAssumption DEF TypeOK, Defer, SpendRetry, Return
    <3> QED
      BY <3>1, PolicyAssumption DEF TypeOK
  <2>3. ASSUME retries[s] < RetryAttempts
        PROVE  retries' \in [Senders -> 0..RetryAttempts]
    <3>1. retries[s] + 1 \in 0..RetryAttempts
      BY <2>3, PolicyAssumption DEF TypeOK
    <3>2. retries' = [retries EXCEPT ![s] = retries[s] + 1]
      BY <2>3, PolicyAssumption DEF TypeOK, Defer, SpendRetry
    <3> QED
      BY <3>1, <3>2 DEF TypeOK
  <2>4. retries' \in [Senders -> 0..RetryAttempts]
    BY <2>2, <2>3, PolicyAssumption DEF TypeOK
  <2>5. 0 \in 0..MaxDelay
    BY BoundsAssumption
  <2> QED
    BY <2>1, <2>4, <2>5 DEF TypeOK, Defer
<1>3. \A t \in Senders : pc'[t] \in {"stamping", "counting"} => key'[t] # NoAccount
  BY DEF TypeOK, Defer, SpendRetry, Return, Goto
<1>4. key' \in [Senders -> Keys]
  BY DEF TypeOK, Defer, SpendRetry, Return, Keys
<1> QED
  BY <1>1, <1>2, <1>3, <1>4 DEF TypeOK, Defer, loop

LEMMA CountType ==
    ASSUME TypeOK, NEW s \in Senders, Count(s)
    PROVE  TypeOK'
<1>1. /\ key[s] \in Keys /\ key[s] # NoAccount /\ since[s] \in 0..MaxDelay
      /\ sent[key[s]] \in Seq(Ages)
  BY DEF TypeOK, Count, Ages
<1>2. Counted(sent[key[s]], since[s]) \in Seq(Ages)
  BY <1>1, CountedAges
<1>3. sent' \in [Keys -> Seq(Ages)] /\ sent'[NoAccount] = <<>>
  BY <1>1, <1>2 DEF TypeOK, Count, Ages, Keys
<1>4. warned' \in [Keys -> BOOLEAN]
  BY <1>1 DEF TypeOK, Count
<1>5. pc' \in [Senders -> Steps] /\ since' \in [Senders -> 0..MaxDelay]
  BY BoundsAssumption DEF TypeOK, Steps, Count, Return, Goto
<1>6. \A t \in Senders : pc'[t] \in {"stamping", "counting"} => key'[t] # NoAccount
  BY DEF TypeOK, Count, Return, Goto
<1>7. key' \in [Senders -> Keys] /\ retries' \in [Senders -> 0..RetryAttempts]
  BY PolicyAssumption DEF TypeOK, Count, Return, Keys
<1> QED
  BY <1>3, <1>4, <1>5, <1>6, <1>7 DEF TypeOK, Count, loop, Ages

LEMMA TickType ==
    ASSUME TypeOK, Tick
    PROVE  TypeOK'
<1>1. backoff' \in [Keys -> 0..RetryAfter] /\ backoff'[NoAccount] = 0
  <2>1. NoAccount \in Keys
    BY DEF Keys
  <2>2. \A n \in 0..RetryAfter : Larger(0, n - 1) \in 0..RetryAfter
    BY PolicyAssumption DEF Larger
  <2>3. Larger(0, 0 - 1) = 0
    BY DEF Larger
  <2> QED
    BY <2>1, <2>2, <2>3 DEF TypeOK, Tick
<1>2. sent' \in [Keys -> Seq(Ages)] /\ sent'[NoAccount] = <<>>
  <2>1. sent' = [a \in Keys |-> Older(sent[a])]
    BY DEF Tick, Older
  <2>2. \A a \in Keys : sent[a] \in Seq(Ages) /\ Older(sent[a]) \in Seq(Ages)
    BY OlderAges DEF TypeOK, Ages
  <2>3. NoAccount \in Keys /\ Len(Older(sent[NoAccount])) = Len(sent[NoAccount])
    BY <2>2, OlderAges DEF Keys
  <2>4. Older(sent[NoAccount]) = <<>>
    BY <2>2, <2>3 DEF TypeOK
  <2> QED
    BY <2>1, <2>2, <2>3, <2>4
<1>3. timer' \in [Senders -> 0..RetryAfter]
  <2>1. \A n \in 0..RetryAfter : Larger(0, n - 1) \in 0..RetryAfter
    BY PolicyAssumption DEF Larger
  <2> QED
    BY <2>1 DEF TypeOK, Tick
<1>4. since' \in [Senders -> 0..MaxDelay]
  <2>1. \A s \in Senders :
           since[s] + (IF pc[s] \in Locking THEN 1 ELSE 0) \in 0..MaxDelay
    <3> SUFFICES ASSUME NEW s \in Senders
                 PROVE  since[s] + (IF pc[s] \in Locking THEN 1 ELSE 0) \in 0..MaxDelay
      OBVIOUS
    <3>1. since[s] \in 0..MaxDelay /\ (pc[s] \in Locking => since[s] < MaxDelay)
      BY DEF TypeOK, Tick
    <3> QED
      BY <3>1, BoundsAssumption
  <2> QED
    BY <2>1 DEF Tick
<1> QED
  BY <1>1, <1>2, <1>3, <1>4 DEF TypeOK, Tick, loop, Ages

LEMMA TypeStep == TypeOK /\ [Next]_vars => TypeOK'
<1> SUFFICES ASSUME TypeOK, [Next]_vars PROVE TypeOK'
  OBVIOUS
<1>1. ASSUME NEW s \in Senders, Call(s) \/ Proceed(s) PROVE TypeOK'
  BY <1>1, QuietCallType, DeferType, CountType DEF Proceed
<1>2. CASE UserMessage
  BY <1>2 DEF UserMessage, TypeOK, limits, calls
<1>3. CASE Reset
  <2>1. <<>> \in Seq(0..OldAge) /\ 0 \in 0..RetryAfter
    BY PolicyAssumption
  <2>2. /\ sent' \in [Keys -> Seq(0..OldAge)] /\ sent'[NoAccount] = <<>>
        /\ backoff' \in [Keys -> 0..RetryAfter] /\ backoff'[NoAccount] = 0
        /\ warned' \in [Keys -> BOOLEAN]
    BY <1>3, <2>1 DEF Reset, TypeOK, Keys
  <2> QED
    BY <1>3, <2>2 DEF Reset, TypeOK, calls
<1>4. CASE NotifyWaiters
  <2>1. pc' \in [Senders -> Steps]
    BY <1>4 DEF NotifyWaiters, TypeOK, Steps
  <2>2. \A t \in Senders : pc'[t] \in {"stamping", "counting"} => key'[t] # NoAccount
    BY <1>4 DEF NotifyWaiters, TypeOK
  <2>3. pollKey' \in Keys /\ timer' \in [Senders -> 0..RetryAfter]
    BY <1>4, PolicyAssumption DEF NotifyWaiters, Keys
  <2> QED
    BY <1>4, <2>1, <2>2, <2>3 DEF NotifyWaiters, TypeOK, limits
<1>5. CASE SetCredentials
  BY <1>5 DEF SetCredentials, TypeOK, limits, loop, calls
<1>6. CASE Tick
  BY <1>6, TickType
<1>7. CASE UNCHANGED vars
  BY <1>7 DEF vars, TypeOK
<1> QED
  BY <1>1, <1>2, <1>3, <1>4, <1>5, <1>6, <1>7 DEF Next

\* No schedule of calls, resets, switches of credentials and ticks takes a variable
\* out of its domain: retries stay in their budget, a backoff within RetryAfter,
\* and the empty key has no entry.
THEOREM TypeCorrect == Spec => []TypeOK
<1> QED
  BY TypeInit, TypeStep, PTL DEF Spec

-----------------------------------------------------------------------------
(* The interaction request. *)

\* The steps that leave the accounts' counters alone.
LEMMA QuietStep ==
    ASSUME [Next]_vars, ~ \E s \in Senders : Count(s), ~Reset, ~Tick
    PROVE  UNCHANGED <<sent, warned>>
<1>1. ASSUME NEW s \in Senders, Call(s) \/ Proceed(s)
      PROVE  UNCHANGED <<sent, warned>>
  BY <1>1 DEF Proceed, Call, Admit, Accept, Fail, RateLimited, Defer, Wait,
              TimeOut, ReadKey, ReadClock, limits
<1>2. CASE UserMessage \/ NotifyWaiters \/ SetCredentials
  BY <1>2 DEF UserMessage, NotifyWaiters, SetCredentials, limits
<1> QED
  BY <1>1, <1>2 DEF Next, vars

LEMMA WarnedStep == TypeOK /\ WarnedAtThreshold /\ [Next]_vars => WarnedAtThreshold'
<1> SUFFICES ASSUME TypeOK, WarnedAtThreshold, [Next]_vars, Threshold > 0,
                    NEW a \in Accounts, Len(sent'[a]) >= Threshold
             PROVE  warned'[a]
  BY DEF WarnedAtThreshold
<1>1. /\ a \in Keys /\ sent[a] \in Seq(Ages) /\ Len(sent[a]) \in Nat
      /\ Len(sent[a]) >= Threshold => warned[a]
  <2>1. a \in Keys /\ sent[a] \in Seq(Ages)
    BY DEF Keys, TypeOK, Ages
  <2> QED
    BY <2>1 DEF WarnedAtThreshold
<1>2. CASE \E s \in Senders : Count(s)
  <2>1. PICK s \in Senders : Count(s)
    BY <1>2
  <2>2. CASE key[s] # a
    <3>1. sent'[a] = sent[a] /\ warned'[a] = warned[a]
      BY <2>1, <2>2, <1>1 DEF Count, TypeOK
    <3> QED
      BY <3>1, <1>1
  <2>3. CASE key[s] = a
    <3>1. /\ sent'[a] = Counted(sent[a], since[s])
          /\ warned'[a] = (warned[a] \/ Len(sent'[a]) = Threshold)
      BY <2>1, <2>3, <1>1 DEF Count, TypeOK
    <3>2. since[s] \in 0..MaxDelay
      BY DEF TypeOK
    <3>3. PICK k \in 0..Len(sent[a]) :
             Len(Counted(sent[a], since[s])) = Len(sent[a]) - k + 1
      <4>1. sent[a] \in Seq(Ages)
        BY <1>1
      <4> QED
        BY <3>2, <4>1, CountedAges
    <3>4. Len(sent'[a]) = Threshold \/ Len(sent[a]) >= Threshold
      <4>1. Len(sent'[a]) = Len(sent[a]) - k + 1
        BY <3>1, <3>3
      <4> QED
        BY <1>1, <4>1, PolicyAssumption
    <3> QED
      BY <1>1, <3>1, <3>4
  <2> QED
    BY <2>2, <2>3
<1>3. CASE Reset
  <2>1. CASE a = pollKey
    <3>1. sent'[a] = <<>>
      BY <1>1, <1>3, <2>1 DEF Reset, TypeOK
    <3>2. Len(sent'[a]) = 0
      BY <3>1
    <3> QED
      BY <3>2, PolicyAssumption
  <2>2. CASE a # pollKey
    BY <1>1, <1>3, <2>2 DEF Reset, TypeOK
  <2> QED
    BY <2>1, <2>2
<1>4. CASE Tick
  <2>1. sent'[a] = Older(sent[a]) /\ warned' = warned
    BY <1>1, <1>4 DEF Tick, Older
  <2>2. Len(sent'[a]) = Len(sent[a])
    BY <1>1, <2>1, OlderAges
  <2> QED
    BY <1>1, <2>1, <2>2
<1>5. CASE (~ \E s \in Senders : Count(s)) /\ ~Reset /\ ~Tick
  <2>1. sent' = sent /\ warned' = warned
    BY <1>5, QuietStep
  <2> QED
    BY <1>1, <2>1
<1> QED
  BY <1>2, <1>3, <1>4, <1>5

\* The interaction of an account's user has been requested whenever the account
\* has Threshold sends or more in its window: tasks that count at the same time,
\* the moving window and the resets cannot step over the `== threshold' test.
THEOREM InteractionRequested == Spec => []WarnedAtThreshold
<1>1. Init => WarnedAtThreshold
  <2> SUFFICES ASSUME Init, NEW a \in Accounts, Threshold > 0
               PROVE  ~ (Len(sent[a]) >= Threshold)
    BY DEF WarnedAtThreshold
  <2>1. sent[a] = <<>>
    BY DEF Init, Keys
  <2>2. Len(sent[a]) = 0
    BY <2>1
  <2> QED
    BY <2>2, PolicyAssumption
<1> QED
  BY <1>1, WarnedStep, TypeCorrect, PTL DEF Spec

-----------------------------------------------------------------------------
(* Backoff. *)

LEMMA DeferKeeps ==
    ASSUME TypeOK, NEW s \in Senders, Defer(s), NEW a \in Accounts
    PROVE  ~ (backoff'[a] < backoff[a])
<1>1. /\ a \in Keys /\ backoff[a] \in 0..RetryAfter /\ since[s] \in 0..MaxDelay
  BY DEF TypeOK, Keys
<1>2. \/ backoff'[a] = backoff[a]
      \/ backoff'[a] = Larger(backoff[a], RetryAfter - since[s])
  BY <1>1 DEF TypeOK, Defer
<1> QED
  BY <1>1, <1>2, PolicyAssumption, BoundsAssumption DEF Larger

\* A backoff, once set, ends by time or by a message of the account's own user:
\* no answer that is processed late or out of order shortens it.
THEOREM BackoffOnlyExtended == Spec => BackoffHolds
<1> DEFINE Kept == \A a \in Accounts :
                      backoff'[a] < backoff[a] =>
                          \/ UNCHANGED <<account, loop, pc>>
                          \/ poll = "answered" /\ pollKey = a
<1>1. TypeOK /\ [Next]_vars => [Kept]_vars
  <2> SUFFICES ASSUME TypeOK, [Next]_vars, NEW a \in Accounts,
                      backoff'[a] < backoff[a]
               PROVE  \/ UNCHANGED <<account, loop, pc>>
                      \/ poll = "answered" /\ pollKey = a
    OBVIOUS
  <2>1. a \in Keys /\ backoff[a] \in 0..RetryAfter
    BY DEF TypeOK, Keys
  <2>2. backoff' # backoff
    BY <2>1, PolicyAssumption
  <2>3. ASSUME NEW s \in Senders, Call(s) \/ Proceed(s) PROVE FALSE
    <3>1. Defer(s)
      BY <2>2, <2>3 DEF Proceed, Call, Admit, Accept, Fail, RateLimited, Wait,
                        TimeOut, ReadKey, ReadClock, Count, limits
    <3> QED
      BY <3>1, DeferKeeps
  <2>4. CASE Reset
    BY <2>1, <2>2, <2>4, PolicyAssumption DEF Reset, TypeOK
  <2>5. CASE Tick
    BY <2>5 DEF Tick
  <2>6. CASE UserMessage \/ NotifyWaiters \/ SetCredentials \/ UNCHANGED vars
    BY <2>2, <2>6 DEF UserMessage, NotifyWaiters, SetCredentials, limits, vars
  <2> QED
    BY <2>3, <2>4, <2>5, <2>6 DEF Next
<1> QED
  BY <1>1, TypeCorrect, PTL DEF Spec, BackoffHolds

-----------------------------------------------------------------------------
(* The window. *)

\* Timestamps are pushed out of order by MaxDelay at most: a later entry is no
\* older than an earlier one but for that.
NearlySorted ==
    \A a \in Keys : \A i, j \in 1..Len(sent[a]) :
        i < j => sent[a][j] <= sent[a][i] + MaxDelay

LEMMA CountedSorted ==
    ASSUME NEW ages \in Seq(Ages), NEW d \in 0..MaxDelay,
           \A i, j \in 1..Len(ages) : i < j => ages[j] <= ages[i] + MaxDelay,
           NEW counted, counted = Counted(ages, d)
    PROVE  /\ \A i, j \in 1..Len(counted) :
                 i < j => counted[j] <= counted[i] + MaxDelay
           /\ \A i \in 1..Len(counted) : counted[i] <= Window + 2 * MaxDelay
<1>1. PICK k \in 0..Len(ages) :
         /\ Len(counted) = Len(ages) - k + 1
         /\ \A i \in 1..(Len(ages) - k) : counted[i] = ages[k + i]
         /\ counted[Len(ages) - k + 1] = d
         /\ k < Len(ages) => ages[k + 1] - d <= Window
  BY CountedAges
<1>2. /\ Len(ages) \in Nat /\ Window \in Nat /\ MaxDelay \in Nat
      /\ \A i \in 1..Len(ages) : ages[i] \in Nat
  <2>1. ages \in [1..Len(ages) -> Ages] /\ OldAge \in Nat
    BY LenProperties, PolicyAssumption, BoundsAssumption DEF OldAge
  <2> QED
    BY <2>1, PolicyAssumption, BoundsAssumption DEF Ages
<1>3. ASSUME NEW i \in 1..Len(counted), NEW j \in 1..Len(counted), i < j
      PROVE  counted[j] <= counted[i] + MaxDelay
  <2>1. /\ i \in 1..(Len(ages) - k) /\ counted[i] = ages[k + i]
        /\ k + i \in 1..Len(ages)
    BY <1>1, <1>2, <1>3
  <2>2. CASE j = Len(ages) - k + 1
    BY <1>1, <1>2, <2>1, <2>2
  <2>3. CASE j # Len(ages) - k + 1
    <3>1. j \in 1..(Len(ages) - k)
      <4>1. /\ k \in Int /\ Len(ages) \in Int /\ j \in Int
            /\ 1 <= j /\ j <= Len(ages) - k + 1
        BY <1>1, <1>2
      <4> QED
        BY <2>3, <4>1
    <3>2. k + j \in 1..Len(ages) /\ k + i < k + j
      BY <1>2, <1>3, <2>1, <3>1
    <3> QED
      BY <1>1, <2>1, <3>1, <3>2
  <2> QED
    BY <2>2, <2>3
<1>4. ASSUME NEW i \in 1..Len(counted)
      PROVE  counted[i] <= Window + 2 * MaxDelay
  <2>1. CASE i = Len(ages) - k + 1
    BY <1>1, <1>2, <2>1
  <2>2. CASE i # Len(ages) - k + 1
    <3>0. i \in 1..(Len(ages) - k)
      <4>1. /\ k \in Int /\ Len(ages) \in Int /\ i \in Int
            /\ 1 <= i /\ i <= Len(ages) - k + 1
        BY <1>1, <1>2
      <4> QED
        BY <2>2, <4>1
    <3>1. /\ counted[i] = ages[k + i] /\ k + i \in 1..Len(ages)
          /\ k + 1 \in 1..Len(ages) /\ k < Len(ages)
      BY <1>1, <1>2, <3>0
    <3>2. ages[k + 1] <= Window + MaxDelay
      <4>1. ages[k + 1] - d <= Window /\ ages[k + 1] \in Nat
        BY <1>1, <1>2, <3>1
      <4>2. d \in Nat /\ d <= MaxDelay
        BY BoundsAssumption
      <4> QED
        BY <1>2, <4>1, <4>2
    <3>3. ages[k + i] <= ages[k + 1] + MaxDelay
      <4>1. CASE i = 1
        BY <1>2, <3>1, <4>1
      <4>2. CASE i # 1
        <5>1. k + 1 < k + i
          BY <1>1, <4>2
        <5> QED
          BY <3>1, <5>1
      <4> QED
        BY <4>1, <4>2
    <3> QED
      BY <1>2, <3>1, <3>2, <3>3
  <2> QED
    BY <2>1, <2>2
<1> QED
  BY <1>3, <1>4

LEMMA SortedStep == TypeOK /\ NearlySorted /\ [Next]_vars => NearlySorted'
<1> SUFFICES ASSUME TypeOK, NearlySorted, [Next]_vars, NEW a \in Keys
             PROVE  \A i, j \in 1..Len(sent'[a]) :
                        i < j => sent'[a][j] <= sent'[a][i] + MaxDelay
  BY DEF NearlySorted
<1>1. /\ sent[a] \in Seq(Ages)
      /\ \A i, j \in 1..Len(sent[a]) : i < j => sent[a][j] <= sent[a][i] + MaxDelay
  BY DEF TypeOK, Ages, NearlySorted
<1>2. CASE \E s \in Senders : Count(s)
  <2>1. PICK s \in Senders : Count(s)
    BY <1>2
  <2>2. since[s] \in 0..MaxDelay
    BY DEF TypeOK
  <2>3. CASE key[s] = a
    <3>1. sent'[a] = Counted(sent[a], since[s])
      BY <2>1, <2>3 DEF Count, TypeOK
    <3> QED
      BY <1>1, <2>2, <3>1, CountedSorted
  <2>4. CASE key[s] # a
    <3>1. sent'[a] = sent[a]
      BY <2>1, <2>4 DEF Count, TypeOK
    <3> QED
      BY <1>1, <3>1
  <2> QED
    BY <2>3, <2>4
<1>3. CASE Reset
  <2>1. sent'[a] = sent[a] \/ sent'[a] = <<>>
    BY <1>3 DEF Reset, TypeOK
  <2> QED
    BY <1>1, <2>1
<1>4. CASE Tick
  <2>1. sent'[a] = Older(sent[a]) /\ Len(Older(sent[a])) = Len(sent[a])
    BY <1>1, <1>4, OlderAges DEF Tick, Older
  <2>2. /\ OldAge \in Nat /\ MaxDelay \in Nat /\ Len(sent[a]) \in Nat
        /\ \A i \in 1..Len(sent[a]) : sent[a][i] \in 0..OldAge
    BY <1>1, LenProperties, PolicyAssumption, BoundsAssumption DEF OldAge, Ages
  <2> SUFFICES ASSUME NEW i \in 1..Len(sent[a]), NEW j \in 1..Len(sent[a]), i < j
               PROVE  Older(sent[a])[j] <= Older(sent[a])[i] + MaxDelay
    BY <2>1
  <2>3. sent[a][j] <= sent[a][i] + MaxDelay
    BY <1>1
  <2>4. /\ Older(sent[a])[i] = IF sent[a][i] < OldAge THEN sent[a][i] + 1 ELSE OldAge
        /\ Older(sent[a])[j] = IF sent[a][j] < OldAge THEN sent[a][j] + 1 ELSE OldAge
    BY DEF Older
  <2> QED
    BY <2>2, <2>3, <2>4
<1>5. CASE (~ \E s \in Senders : Count(s)) /\ ~Reset /\ ~Tick
  BY <1>1, <1>5, QuietStep
<1> QED
  BY <1>2, <1>3, <1>4, <1>5

\* Whenever a send is counted, every send that is counted with it is within the
\* window, but for the delays of two tasks between the clock and the mutex.
THEOREM CountIsRecent == Spec => WindowAccurate
<1>1. Init => NearlySorted
  <2> SUFFICES ASSUME Init, NEW a \in Keys PROVE sent[a] = <<>>
    BY DEF NearlySorted
  <2> QED
    BY DEF Init
<1> DEFINE Recent == \A s \in Senders :
              pc[s] = "counting" /\ pc'[s] = "idle" =>
                  \A i \in 1..Len(sent'[key[s]]) :
                      sent'[key[s]][i] <= Window + 2 * MaxDelay
<1>2. TypeOK /\ NearlySorted /\ [Next]_vars => [Recent]_vars
  <2> SUFFICES ASSUME TypeOK, NearlySorted, [Next]_vars,
                      NEW s \in Senders, pc[s] = "counting", pc'[s] = "idle"
               PROVE  \A i \in 1..Len(sent'[key[s]]) :
                          sent'[key[s]][i] <= Window + 2 * MaxDelay
    OBVIOUS
  <2>1. ASSUME NEW t \in Senders, Call(t) \/ Proceed(t) PROVE Count(s)
    <3>1. CASE t = s
      BY <2>1, <3>1 DEF Proceed, Call, Admit, Accept, Fail, RateLimited, Defer,
                        Wait, TimeOut, ReadKey, ReadClock
    <3>2. CASE t # s
      <4>1. PICK label : Goto(t, label)
        BY <2>1 DEF Proceed, Call, Admit, Accept, Fail, RateLimited, Defer,
                    SpendRetry, Return, Wait, TimeOut, ReadKey, ReadClock, Count
      <4>2. pc'[s] = pc[s]
        BY <3>2, <4>1 DEF Goto, TypeOK
      <4> QED
        BY <4>2
    <3> QED
      BY <3>1, <3>2
  <2>2. ASSUME NotifyWaiters PROVE FALSE
    BY <2>2 DEF NotifyWaiters
  <2>3. ASSUME UserMessage \/ Reset \/ SetCredentials \/ Tick \/ UNCHANGED vars
        PROVE  FALSE
    BY <2>3 DEF UserMessage, Reset, SetCredentials, Tick, calls, vars
  <2>4. Count(s)
    BY <2>1, <2>2, <2>3 DEF Next
  <2>5. /\ key[s] \in Keys /\ since[s] \in 0..MaxDelay
        /\ sent[key[s]] \in Seq(Ages)
    BY DEF TypeOK, Ages
  <2>6. sent'[key[s]] = Counted(sent[key[s]], since[s])
    BY <2>4, <2>5 DEF Count, TypeOK
  <2> QED
    BY <2>5, <2>6, CountedSorted DEF NearlySorted
<1> QED
  BY <1>1, <1>2, SortedStep, TypeCorrect, PTL DEF Spec, WindowAccurate

-----------------------------------------------------------------------------
(* The delay of a call that waits. *)

\* A call that waits has an account, and so has the loop when it answered a user.
HaveAccounts ==
    /\ \A s \in Senders : pc[s] = "waiting" => key[s] # NoAccount
    /\ poll # "polling" => pollKey # NoAccount

LEMMA HaveAccountsStep == TypeOK /\ HaveAccounts /\ [Next]_vars => HaveAccounts'
<1> SUFFICES ASSUME TypeOK, HaveAccounts, [Next]_vars PROVE HaveAccounts'
  OBVIOUS
<1>1. ASSUME NEW s \in Senders, Call(s) \/ Proceed(s) PROVE HaveAccounts'
  <2>1. UNCHANGED loop
    BY <1>1 DEF Call, Proceed, Admit, Accept, Fail, RateLimited, Defer, Wait, TimeOut,
                ReadKey, ReadClock, Count
  <2>2. \A t \in Senders : t # s => pc'[t] = pc[t] /\ key'[t] = key[t]
    BY <1>1 DEF TypeOK, Call, Proceed, Admit, Accept, Fail, RateLimited, Defer, SpendRetry,
                Return, Wait, TimeOut, ReadKey, ReadClock, Count, Goto
  <2>3. pc'[s] = "waiting" => key'[s] # NoAccount
    BY <1>1 DEF TypeOK, Call, Proceed, Admit, Accept, Fail, RateLimited, Defer, SpendRetry,
                Return, Wait, TimeOut, ReadKey, ReadClock, Count, Goto
  <2> QED
    BY <2>1, <2>2, <2>3 DEF HaveAccounts, loop
<1>2. CASE UserMessage \/ Reset \/ SetCredentials \/ Tick
  BY <1>2 DEF UserMessage, Reset, SetCredentials, Tick, HaveAccounts, calls, loop
<1>3. CASE NotifyWaiters
  BY <1>3 DEF NotifyWaiters, HaveAccounts
<1>4. CASE UNCHANGED vars
  BY <1>4 DEF vars, HaveAccounts
<1> QED
  BY <1>1, <1>2, <1>3, <1>4 DEF Next

\* With one account a call that waits goes on when its delay is over or its user
\* wrote: that all accounts share one Notify is all that can cut a delay short.
THEOREM DelayHoldsForOneAccount ==
    ASSUME \A a, b \in Accounts : a = b
    PROVE  Spec => DelayBeforeRetry
<1>1. Init => HaveAccounts
  BY DEF Init, HaveAccounts
<1> DEFINE Delayed == \A s \in Senders :
              pc[s] = "waiting" /\ pc'[s] = "sending" => timer[s] = 0 \/ pollKey = key[s]
<1>2. TypeOK /\ HaveAccounts /\ [Next]_vars => [Delayed]_vars
  <2> SUFFICES ASSUME TypeOK, HaveAccounts, [Next]_vars,
                      NEW s \in Senders, pc[s] = "waiting", pc'[s] = "sending"
               PROVE  timer[s] = 0 \/ pollKey = key[s]
    OBVIOUS
  <2>1. ASSUME NEW t \in Senders, Call(t) \/ Proceed(t) PROVE timer[s] = 0
    <3>1. CASE t = s
      BY <2>1, <3>1 DEF Proceed, Call, Admit, Accept, Fail, RateLimited, Defer,
                        Wait, TimeOut, ReadKey, ReadClock, Count
    <3>2. CASE t # s
      BY <2>1, <3>2 DEF Proceed, Call, Admit, Accept, Fail, RateLimited, Defer,
                        SpendRetry, Return, Wait, TimeOut, ReadKey, ReadClock, Count, Goto,
                          TypeOK
    <3> QED
      BY <3>1, <3>2
  <2>2. CASE NotifyWaiters
    <3>1. pollKey \in Accounts /\ key[s] \in Accounts
      BY <2>2 DEF NotifyWaiters, HaveAccounts, TypeOK, Keys
    <3> QED
      BY <3>1
  <2>3. CASE UserMessage \/ Reset \/ SetCredentials \/ Tick \/ UNCHANGED vars
    BY <2>3 DEF UserMessage, Reset, SetCredentials, Tick, calls, vars
  <2> QED
    BY <2>1, <2>2, <2>3 DEF Next
<1> QED
  BY <1>1, <1>2, HaveAccountsStep, TypeCorrect, PTL DEF Spec, DelayBeforeRetry

-----------------------------------------------------------------------------
(* Why a call returns: what is left of it. *)

\* The steps after the last attempt, and four for each attempt: it goes out, is
\* refused, is about to wait and waits.
Rank ==
    [label \in Steps |->
        CASE label = "idle" -> 0
          [] label = "counting" -> 1
          [] label = "stamping" -> 2
          [] label = "accepted" -> 3
          [] label = "deferring" -> 4
          [] label = "sending" -> 5
          [] label = "waiting" -> 6
          [] label = "limited" -> 7
          [] OTHER -> 8]

StepsLeft(s) ==
    IF pc[s] \in {"idle", "accepted", "stamping", "counting"}
    THEN Rank[pc[s]]
    ELSE Rank[pc[s]] + 4 * (RetryAttempts - (IF pc[s] = "keyed" THEN 0 ELSE retries[s]))

\* Every step of a call, and a notification that wakes it, leaves less of it, and
\* nothing but a new call leaves more: whatever the server answers, a call takes at
\* most 4 * (RetryAttempts + 2) steps.
CallsAdvance ==
    [][\A s \in Senders :
          \/ pc[s] = "idle"
          \/ pc'[s] = pc[s] /\ StepsLeft(s)' = StepsLeft(s)
          \/ StepsLeft(s)' < StepsLeft(s)]_vars

LEMMA CallAdvances ==
    ASSUME TypeOK, NEW s \in Senders, Proceed(s)
    PROVE  StepsLeft(s)' < StepsLeft(s)
<1>1. /\ retries[s] \in 0..RetryAttempts /\ retries'[s] \in 0..RetryAttempts
      /\ RetryAttempts \in Nat
      /\ pc[s] \in Steps
  <2>1. TypeOK'
    BY TypeStep DEF Next
  <2> QED
    BY <2>1, PolicyAssumption DEF TypeOK
<1>2. \A label : Goto(s, label) => pc'[s] = label
  BY DEF Goto, TypeOK
<1>3. CASE Admit(s)
  <2>1. /\ pc[s] = "keyed"
        /\ \/ pc'[s] = "idle"
           \/ pc'[s] = "sending" /\ retries'[s] = retries[s]
    <3>1. pc[s] = "keyed"
      BY <1>3 DEF Admit
    <3>2. CASE Return(s)
      <4>1. pc'[s] = "idle"
        BY <3>2 DEF Return, Goto, TypeOK
      <4> QED
        BY <3>1, <4>1
    <3>3. CASE Goto(s, "sending") /\ UNCHANGED <<key, retries>>
      BY <1>2, <3>1, <3>3
    <3> QED
      BY <1>3, <3>2, <3>3 DEF Admit
  <2> QED
    BY <1>1, <2>1 DEF StepsLeft, Rank, Steps, Locking
<1>4. CASE Accept(s) \/ Fail(s) \/ RateLimited(s)
  <2>1. /\ pc[s] = "sending"
        /\ \/ pc'[s] \in {"accepted", "idle"}
           \/ pc'[s] = "deferring" /\ retries'[s] = retries[s]
    BY <1>2, <1>4 DEF Accept, Fail, RateLimited, Return
  <2> QED
    BY <1>1, <2>1 DEF StepsLeft, Rank, Steps, Locking
<1>5. CASE Defer(s)
  <2>1. /\ pc[s] = "deferring"
        /\ \/ pc'[s] = "idle"
           \/ pc'[s] = "limited" /\ retries'[s] = retries[s] + 1
    BY <1>2, <1>5 DEF Defer, SpendRetry, Return, TypeOK
  <2>2. CASE pc'[s] = "idle"
    BY <1>1, <2>1, <2>2 DEF StepsLeft, Rank, Steps, Locking
  <2>3. CASE pc'[s] = "limited" /\ retries'[s] = retries[s] + 1
    BY <1>1, <2>1, <2>3 DEF StepsLeft, Rank, Steps, Locking
  <2> QED
    BY <2>1, <2>2, <2>3
<1>6. CASE Wait(s) \/ TimeOut(s)
  <2>1. /\ \/ pc[s] = "limited" /\ pc'[s] \in {"sending", "waiting"}
           \/ pc[s] = "waiting" /\ pc'[s] = "sending"
        /\ retries'[s] = retries[s]
    BY <1>2, <1>6 DEF Wait, TimeOut
  <2> QED
    BY <1>1, <2>1 DEF StepsLeft, Rank, Steps, Locking
<1>7. CASE ReadKey(s) \/ ReadClock(s) \/ Count(s)
  <2>1. \/ pc[s] = "accepted" /\ pc'[s] \in {"idle", "stamping"}
        \/ pc[s] = "stamping" /\ pc'[s] = "counting"
        \/ pc[s] = "counting" /\ pc'[s] = "idle"
    BY <1>2, <1>7 DEF ReadKey, ReadClock, Count, Return
  <2> QED
    BY <1>1, <2>1 DEF StepsLeft, Rank, Steps, Locking
<1> QED
  BY <1>3, <1>4, <1>5, <1>6, <1>7 DEF Proceed

\* retry_rate_limited and record_successful_message_send: a call that runs comes to
\* its end; that it runs is the fairness of the scheduler.
THEOREM CallsAdvanceHolds == Spec => CallsAdvance
<1> DEFINE Advance(s) == \/ pc[s] = "idle"
                         \/ pc'[s] = pc[s] /\ StepsLeft(s)' = StepsLeft(s)
                         \/ StepsLeft(s)' < StepsLeft(s)
           Advances == \A s \in Senders : Advance(s)
<1>1. TypeOK /\ [Next]_vars => [Advances]_vars
  <2> SUFFICES ASSUME TypeOK, [Next]_vars, NEW s \in Senders PROVE Advance(s)
    OBVIOUS
  <2>1. ASSUME NEW t \in Senders, Call(t) \/ Proceed(t) PROVE Advance(s)
    <3>1. CASE t = s
      <4>1. CASE Call(s)
        BY <4>1 DEF Call
      <4>2. CASE Proceed(s)
        BY <4>2, CallAdvances
      <4> QED
        BY <2>1, <3>1, <4>1, <4>2
    <3>2. CASE t # s
      <4>1. pc'[s] = pc[s] /\ retries'[s] = retries[s]
        BY <2>1, <3>2 DEF Proceed, Call, Admit, Accept, Fail, RateLimited, Defer,
                          SpendRetry, Return, Wait, TimeOut, ReadKey, ReadClock, Count, Goto,
                          TypeOK
      <4> QED
        BY <4>1 DEF StepsLeft
    <3> QED
      BY <3>1, <3>2
  <2>2. CASE NotifyWaiters
    <3>1. CASE pc[s] = "waiting"
      <4>1. pc'[s] = "sending" /\ retries'[s] = retries[s]
        BY <2>2, <3>1 DEF NotifyWaiters
      <4>2. retries[s] \in 0..RetryAttempts /\ RetryAttempts \in Nat
        BY PolicyAssumption DEF TypeOK
      <4> QED
        BY <3>1, <4>1, <4>2 DEF StepsLeft, Rank, Steps, Locking
    <3>2. CASE pc[s] # "waiting"
      BY <2>2, <3>2 DEF NotifyWaiters, StepsLeft
    <3> QED
      BY <3>1, <3>2
  <2>3. CASE UserMessage \/ Reset \/ SetCredentials \/ Tick \/ UNCHANGED vars
    BY <2>3 DEF UserMessage, Reset, SetCredentials, Tick, calls, vars, StepsLeft
  <2> QED
    BY <2>1, <2>2, <2>3 DEF Next
<1> QED
  BY <1>1, TypeCorrect, PTL DEF Spec, CallsAdvance
=============================================================================
