-------------------------- MODULE TokenBucketProofs -------------------------
(***************************************************************************)
(* The limiter never admits more than a burst plus the accrual of a        *)
(* window, for every rate, burst, clock resolution and set of waiters.     *)
(***************************************************************************)
EXTENDS TokenBucket, BucketProofs

-----------------------------------------------------------------------------
(***************************************************************************)
(* Type correctness: the bucket stays within 0 .. burst under every        *)
(* interleaving of Allow, Wait and the clock.                              *)
(***************************************************************************)
THEOREM TypeCorrect == Spec => []TypeOK
<1>1. Init => TypeOK
  BY PositiveParameters, BucketAssumption, WindowAssumption
     DEF Init, TypeOK, Buckets, FullBucket
<1>2. TypeOK /\ [Next]_vars => TypeOK'
  <2> SUFFICES ASSUME TypeOK, [Next]_vars
               PROVE  TypeOK'
    OBVIOUS
  <2> USE DEF TypeOK
  <2>1. ASSUME Take
        PROVE  /\ bucket' \in Buckets
               /\ windowElapsed' \in 0 .. MaxWindow
               /\ windowTaken' \in Nat
    BY <2>1, TakeTokenFacts DEF Take
  <2>2. ASSUME Deny
        PROVE  /\ bucket' \in Buckets
               /\ windowElapsed' \in 0 .. MaxWindow
               /\ windowTaken' \in Nat
    BY <2>2, RefillFacts DEF Deny, window
  <2>3. CASE Allow
    BY <2>1, <2>2, <2>3 DEF Allow
  <2>4. ASSUME NEW w \in Waiters, StartWait(w)
        PROVE  TypeOK'
    BY <2>4 DEF StartWait
  <2>5. ASSUME NEW w \in Waiters, CheckGrant(w)
        PROVE  TypeOK'
    BY <2>1, <2>5 DEF CheckGrant
  <2>6. ASSUME NEW w \in Waiters, CheckSleep(w)
        PROVE  TypeOK'
    <3>1. bucket' \in Buckets
      BY <2>2, <2>6 DEF CheckSleep
    <3>2. WaitTime(bucket') \in Nat
      BY <3>1, WaitTimeType
    <3>3. QED
      BY <2>2, <2>6, <3>2 DEF CheckSleep
  <2>7. ASSUME NEW w \in Waiters, TimerFires(w)
        PROVE  TypeOK'
    BY <2>7 DEF TimerFires
  <2>8. ASSUME NEW w \in Waiters, WaitCancelled(w)
        PROVE  TypeOK'
    BY <2>8 DEF WaitCancelled
  <2>9. ASSUME NEW w \in Waiters, CancelContext(w)
        PROVE  TypeOK'
    BY <2>9 DEF CancelContext
  <2>10. CASE Tick
    <3>1. bucket' \in Buckets
      BY <2>10, OlderFacts DEF Tick
    <3>2. timer' \in [Waiters -> Nat]
      BY <2>10 DEF Tick
    <3>3. windowElapsed' \in 0 .. MaxWindow /\ windowTaken' \in Nat
      BY <2>10, WindowAssumption DEF Tick
    <3>4. QED
      BY <2>10, <3>1, <3>2, <3>3 DEF Tick
  <2>11. CASE OpenWindow
    BY <2>11, WindowAssumption DEF OpenWindow
  <2>12. CASE UNCHANGED vars
    BY <2>12 DEF vars
  <2>13. QED
    BY <2>3, <2>4, <2>5, <2>6, <2>7, <2>8, <2>9, <2>10, <2>11, <2>12
       DEF Next, WaitStep
<1>3. QED
  BY <1>1, <1>2, PTL DEF Spec
-----------------------------------------------------------------------------
(***************************************************************************)
(* Every critical section of Allow and Wait, every tick and every new      *)
(* window keeps the ledger of the window balanced.  TypeOK /\ WindowLedger *)
(* is the inductive invariant of the limiter.                              *)
(***************************************************************************)
THEOREM WindowLedgerHolds == Spec => []WindowLedger
<1>1. Init => WindowLedger
  <2> SUFFICES ASSUME Init
               PROVE  WindowLedger
    OBVIOUS
  <2>1. Rate * 0 = 0 /\ 0 * Token = 0
    BY PositiveParameters
  <2>2. QED
    BY <2>1, PositiveParameters DEF Init, FullBucket, WindowLedger
<1>2. TypeOK /\ TypeOK' /\ WindowLedger /\ [Next]_vars => WindowLedger'
  <2> SUFFICES ASSUME TypeOK, TypeOK', WindowLedger, [Next]_vars
               PROVE  WindowLedger'
    OBVIOUS
  <2> DEFINE t == bucket.tokens
             a == bucket.age
             k == windowTaken
             e == windowElapsed
  <2>1. /\ bucket \in Buckets
        /\ t \in 0 .. Capacity
        /\ a \in 0 .. MaxAge
        /\ e \in 0 .. MaxWindow
        /\ k \in Nat
    BY DEF TypeOK, Buckets
  <2>2. a \in Nat /\ e \in Nat
    BY <2>1, BucketAssumption, WindowAssumption
  <2>3. /\ Rate * a \in Nat
        /\ Rate * e \in Nat
        /\ k * Token \in Nat
        /\ (k + 1) * Token = k * Token + Token
    BY <2>1, <2>2, RateTimes, TokenTimes
  <2>4. \/ a > e /\ k = 0
        \/ t + k * Token + Rate * a <= Capacity + Rate * e
    BY DEF WindowLedger
  <2>5. Rate * 0 = 0 /\ 0 * Token = 0
    BY PositiveParameters
  <2>6. /\ Refill(bucket).age = 0
        /\ Refill(bucket).tokens \in 0 .. Capacity
        /\ Refill(bucket).tokens <= t + Rate * a
    BY <2>1, RefillFacts
  \* What the refill adds was in the ledger already, or nothing was taken.
  <2>7. Refill(bucket).tokens + k * Token <= Capacity + Rate * e
    <3>1. CASE a > e /\ k = 0
      BY <3>1, <2>3, <2>5, <2>6, PositiveParameters
    <3>2. CASE t + k * Token + Rate * a <= Capacity + Rate * e
      BY <3>2, <2>1, <2>3, <2>6, PositiveParameters
    <3>3. QED
      BY <2>4, <3>1, <3>2
  <2>8. ASSUME Take
        PROVE  WindowLedger'
    <3>1. /\ bucket'.age = 0
          /\ bucket'.tokens = Refill(bucket).tokens - Token
          /\ windowTaken' = k + 1
          /\ windowElapsed' = e
      BY <2>1, <2>8, TakeTokenFacts DEF Take
    <3>2. bucket'.tokens + windowTaken' * Token + Rate * bucket'.age
            <= Capacity + Rate * windowElapsed'
      BY <3>1, <2>3, <2>5, <2>6, <2>7, PositiveParameters
    <3>3. QED
      BY <3>2 DEF WindowLedger
  <2>9. ASSUME Deny
        PROVE  WindowLedger'
    <3>1. /\ bucket'.age = 0
          /\ bucket'.tokens = Refill(bucket).tokens
          /\ windowTaken' = k
          /\ windowElapsed' = e
      BY <2>6, <2>9 DEF Deny, window
    <3>2. bucket'.tokens + windowTaken' * Token + Rate * bucket'.age
            <= Capacity + Rate * windowElapsed'
      BY <3>1, <2>3, <2>5, <2>6, <2>7, PositiveParameters
    <3>3. QED
      BY <3>2 DEF WindowLedger
  <2>10. ASSUME UNCHANGED <<bucket, windowElapsed, windowTaken>>
         PROVE  WindowLedger'
    BY <2>10 DEF WindowLedger
  <2>11. ASSUME windowElapsed' = 0, windowTaken' = 0
         PROVE  WindowLedger'
    <3>1. bucket' \in Buckets
      BY DEF TypeOK
    <3>2. bucket'.tokens \in 0 .. Capacity /\ bucket'.age \in 0 .. MaxAge
      BY <3>1 DEF Buckets
    <3>3. CASE bucket'.age > 0
      BY <2>11, <3>3 DEF WindowLedger
    <3>4. CASE bucket'.age = 0
      BY <2>5, <2>11, <3>2, <3>4, PositiveParameters DEF WindowLedger
    <3>5. QED
      BY <3>2, <3>3, <3>4, BucketAssumption
  <2>12. CASE Tick
    <3>1. CASE windowElapsed < MaxWindow
      <4>1. /\ bucket'.tokens = t
            /\ bucket'.age = a + 1 \/ bucket'.age = a
            /\ windowElapsed' = e + 1
            /\ windowTaken' = k
        BY <2>1, <2>12, <3>1, OlderFacts DEF Tick
      <4>2. /\ Rate * (a + 1) = Rate * a + Rate
            /\ Rate * (e + 1) = Rate * e + Rate
        BY <2>2, RateTimes
      <4>3. CASE t + k * Token + Rate * a <= Capacity + Rate * e
        <5>1. Rate * bucket'.age <= Rate * a + Rate
          BY <2>3, <4>1, <4>2, PositiveParameters
        <5>2. Rate * bucket'.age \in Nat
          BY <2>3, <4>1, <4>2, PositiveParameters
        <5>3. QED
          BY <2>1, <2>3, <4>1, <4>2, <4>3, <5>1, <5>2, PositiveParameters
             DEF WindowLedger
      <4>4. CASE a > e /\ k = 0
        <5>1. bucket'.age \in Nat
          BY <2>2, <4>1
        <5>2. CASE bucket'.age > e + 1
          BY <4>1, <4>4, <5>2 DEF WindowLedger
        <5>3. CASE bucket'.age <= e + 1
          <6>1. Rate * bucket'.age <= Rate * (e + 1)
            BY <2>2, <5>1, <5>3, RateTimes
          <6>2. Rate * bucket'.age \in Nat /\ Rate * (e + 1) \in Nat
            BY <2>2, <5>1, RateTimes
          <6>3. QED
            BY <2>1, <2>5, <4>1, <4>4, <6>1, <6>2, PositiveParameters
               DEF WindowLedger
        <5>4. QED
          BY <2>2, <5>1, <5>2, <5>3
      <4>5. QED
        BY <2>4, <4>3, <4>4
    <3>2. CASE ~(windowElapsed < MaxWindow)
      BY <2>11, <2>12, <3>2 DEF Tick
    <3>3. QED
      BY <3>1, <3>2
  <2>13. CASE Allow
    BY <2>8, <2>9, <2>13 DEF Allow
  <2>14. CASE \E w \in Waiters : StartWait(w) \/ WaitStep(w) \/ CancelContext(w)
    BY <2>8, <2>9, <2>10, <2>14
       DEF StartWait, WaitStep, CheckGrant, CheckSleep, TimerFires,
           WaitCancelled, CancelContext
  <2>15. CASE OpenWindow
    BY <2>11, <2>15 DEF OpenWindow
  <2>16. CASE UNCHANGED vars
    BY <2>10, <2>16 DEF vars
  <2>17. QED
    BY <2>12, <2>13, <2>14, <2>15, <2>16 DEF Next
<1>3. QED
  BY <1>1, <1>2, TypeCorrect, PTL DEF Spec

(***************************************************************************)
(* The promise of ratelimit.Limiter, for every rate, burst and number of   *)
(* callers.                                                                *)
(***************************************************************************)
THEOREM WindowBoundHolds == Spec => []WindowBound
<1>1. TypeOK /\ WindowLedger => WindowBound
  <2> SUFFICES ASSUME TypeOK, WindowLedger
               PROVE  WindowBound
    OBVIOUS
  <2>1. /\ bucket.tokens \in 0 .. Capacity
        /\ bucket.age \in Nat
        /\ windowElapsed \in Nat
        /\ windowTaken \in Nat
    BY BucketAssumption, WindowAssumption DEF TypeOK, Buckets
  <2>2. /\ Rate * bucket.age \in Nat
        /\ Rate * windowElapsed \in Nat
        /\ windowTaken * Token \in Nat
        /\ 0 * Token = 0
    BY <2>1, RateTimes, TokenTimes, PositiveParameters
  <2>3. QED
    BY <2>1, <2>2, PositiveParameters DEF WindowLedger, WindowBound
<1>2. QED
  BY <1>1, TypeCorrect, WindowLedgerHolds, PTL
-----------------------------------------------------------------------------
(***************************************************************************)
(* NoOversleep is not inductive: it says nothing of a bucket without a     *)
(* token, which a refill may be about to fill.  A waiter that has more     *)
(* than one tick to sleep sleeps on a bucket that will not hold more than  *)
(* one token by the time at which it wakes.                                *)
(***************************************************************************)
SleepsForItsToken ==
    \A w \in Waiters :
        pc[w] = "sleep" /\ timer[w] > 1 =>
            bucket.tokens + Rate * bucket.age + Rate * timer[w] <= Token

\* The truncated wait never covers more than the deficit, unless it is minimal.
LEMMA WaitTimeCovers ==
    ASSUME NEW b \in Buckets, WaitTime(b) > 1
    PROVE  b.tokens + Rate * WaitTime(b) <= Token
<1>1. b.tokens \in Nat /\ Token - b.tokens \in Int
  BY PositiveParameters DEF Buckets
<1>2. \A x \in Int, r \in Nat \ {0} : r * (x \div r) <= x /\ x \div r \in Int
  OBVIOUS
<1>3. WaitTime(b) = (Token - b.tokens) \div Rate
  BY DEF WaitTime
<1>4. Rate * WaitTime(b) <= Token - b.tokens /\ WaitTime(b) \in Int
  BY <1>1, <1>2, <1>3, PositiveParameters
<1>5. Rate * WaitTime(b) \in Int
  BY <1>4, PositiveParameters
<1>6. QED
  BY <1>1, <1>4, <1>5, PositiveParameters

\* A critical section may take from the bucket and never adds to it what the
\* waiters did not count on.
LEMMA SectionKeepsSleep ==
    ASSUME TypeOK, Take \/ Deny
    PROVE  /\ bucket' \in Buckets
           /\ bucket'.age = 0
           /\ bucket'.tokens <= bucket.tokens + Rate * bucket.age
<1>1. bucket \in Buckets
  BY DEF TypeOK
<1>2. bucket.tokens \in 0 .. Capacity /\ bucket.age \in Nat
  BY <1>1, BucketAssumption DEF Buckets
<1>3. Rate * bucket.age \in Nat
  BY <1>2, RateTimes
<1>4. CASE Take
  BY <1>1, <1>2, <1>3, <1>4, RefillFacts, TakeTokenFacts, PositiveParameters DEF Take
<1>5. CASE Deny
  BY <1>1, <1>5, RefillFacts DEF Deny
<1>6. QED
  BY <1>4, <1>5

\* TypeOK /\ SleepsForItsToken is inductive.
THEOREM SleepsForItsTokenHolds == Spec => []SleepsForItsToken
<1>1. Init => SleepsForItsToken
  BY DEF Init, SleepsForItsToken
<1>2. TypeOK /\ SleepsForItsToken /\ [Next]_vars => SleepsForItsToken'
  <2> SUFFICES ASSUME TypeOK, SleepsForItsToken, [Next]_vars,
                      NEW w \in Waiters, pc'[w] = "sleep", timer'[w] > 1
               PROVE  bucket'.tokens + Rate * bucket'.age + Rate * timer'[w] <= Token
    BY DEF SleepsForItsToken
  <2> DEFINE before == bucket.tokens + Rate * bucket.age + Rate * timer[w]
  <2>1. /\ bucket \in Buckets
        /\ bucket.tokens \in 0 .. Capacity
        /\ bucket.age \in 0 .. MaxAge
        /\ pc \in [Waiters -> {"idle", "check", "sleep", "granted", "cancelled"}]
        /\ timer \in [Waiters -> Nat]
    BY DEF TypeOK, Buckets
  <2>2. bucket.age \in Nat /\ timer[w] \in Nat
    BY <2>1, BucketAssumption
  <2>3. Rate * bucket.age \in Nat /\ Rate * timer[w] \in Nat /\ Rate * 0 = 0
    BY <2>2, RateTimes, PositiveParameters
  <2>4. pc[w] = "sleep" /\ timer[w] > 1 => before <= Token
    BY DEF SleepsForItsToken
  <2>5. ASSUME UNCHANGED bucket, timer'[w] = timer[w], pc[w] = "sleep"
        PROVE  bucket'.tokens + Rate * bucket'.age + Rate * timer'[w] <= Token
    BY <2>4, <2>5
  \* A waiter that sleeps through another's critical section.
  <2>6. ASSUME Take \/ Deny, timer'[w] = timer[w], pc[w] = "sleep"
        PROVE  bucket'.tokens + Rate * bucket'.age + Rate * timer'[w] <= Token
    <3>1. /\ bucket'.tokens \in 0 .. Capacity
          /\ bucket'.age = 0
          /\ bucket'.tokens <= bucket.tokens + Rate * bucket.age
      BY <2>6, SectionKeepsSleep DEF Buckets
    <3>2. QED
      BY <2>1, <2>3, <2>4, <2>6, <3>1, PositiveParameters
  <2>7. CASE Allow
    BY <2>6, <2>7 DEF Allow
  <2>8. ASSUME NEW q \in Waiters,
               StartWait(q) \/ TimerFires(q) \/ WaitCancelled(q) \/ CancelContext(q)
        PROVE  bucket'.tokens + Rate * bucket'.age + Rate * timer'[w] <= Token
    BY <2>1, <2>5, <2>8 DEF StartWait, TimerFires, WaitCancelled, CancelContext
  <2>9. ASSUME NEW q \in Waiters, CheckGrant(q)
        PROVE  bucket'.tokens + Rate * bucket'.age + Rate * timer'[w] <= Token
    BY <2>1, <2>6, <2>9 DEF CheckGrant
  <2>10. ASSUME NEW q \in Waiters, CheckSleep(q)
         PROVE  bucket'.tokens + Rate * bucket'.age + Rate * timer'[w] <= Token
    <3>1. CASE q = w
      <4>1. /\ bucket' \in Buckets /\ bucket'.age = 0
            /\ timer'[w] = WaitTime(bucket')
        BY <2>1, <2>10, <3>1, SectionKeepsSleep DEF CheckSleep
      <4>2. bucket'.tokens + Rate * timer'[w] <= Token
        BY <4>1, WaitTimeCovers
      <4>3. bucket'.tokens \in Nat /\ Rate * timer'[w] \in Nat
        BY <4>1, WaitTimeType, RateTimes, PositiveParameters DEF Buckets
      <4>4. QED
        BY <2>3, <4>1, <4>2, <4>3
    <3>2. CASE q # w
      BY <2>1, <2>6, <2>10, <3>2 DEF CheckSleep
    <3>3. QED
      BY <3>1, <3>2
  <2>11. CASE Tick
    <3>1. /\ pc[w] = "sleep"
          /\ timer[w] = timer'[w] + 1
          /\ timer'[w] \in Nat
      BY <2>1, <2>2, <2>11 DEF Tick
    <3>2. /\ bucket'.tokens = bucket.tokens
          /\ bucket'.age = bucket.age + 1 \/ bucket'.age = bucket.age
      BY <2>1, <2>11, OlderFacts DEF Tick
    <3>3. /\ Rate * (bucket.age + 1) = Rate * bucket.age + Rate
          /\ Rate * timer[w] = Rate * timer'[w] + Rate
          /\ Rate * timer'[w] \in Nat
      BY <2>2, <3>1, RateTimes
    <3>4. before <= Token
      BY <2>4, <3>1
    <3>5. QED
      BY <2>1, <2>3, <3>2, <3>3, <3>4, PositiveParameters
  <2>12. CASE OpenWindow \/ UNCHANGED vars
    BY <2>5, <2>12 DEF OpenWindow, vars
  <2>13. QED
    BY <2>7, <2>8, <2>9, <2>10, <2>11, <2>12 DEF Next, WaitStep
<1>3. QED
  BY <1>1, <1>2, TypeCorrect, PTL DEF Spec

(***************************************************************************)
(* No waiter oversleeps, for every rate, burst, clock resolution and       *)
(* number of callers, whatever the others take while it sleeps.            *)
(***************************************************************************)
THEOREM NobodyOversleeps == Spec => []NoOversleep
<1>1. TypeOK /\ SleepsForItsToken => NoOversleep
  <2> SUFFICES ASSUME TypeOK, SleepsForItsToken, NEW w \in Waiters,
                      pc[w] = "sleep", timer[w] > 1
               PROVE  ~HasToken(bucket)
    BY DEF NoOversleep, TypeOK
  <2>1. /\ bucket \in Buckets
        /\ bucket.tokens \in 0 .. Capacity
        /\ bucket.age \in Nat
        /\ timer[w] \in Nat
    BY BucketAssumption DEF TypeOK, Buckets
  <2>2. /\ Rate * bucket.age \in Nat
        /\ Rate * timer[w] \in Nat
        /\ Rate <= Rate * timer[w]
    <3>1. Rate * bucket.age \in Nat
      BY <2>1, RateTimes
    <3>2. Rate * 1 <= Rate * timer[w] /\ Rate * timer[w] \in Nat
      BY <2>1, RateTimes
    <3>3. Rate * 1 = Rate
      BY PositiveParameters
    <3>4. QED
      BY <3>1, <3>2, <3>3
  <2>3. bucket.tokens + Rate * bucket.age + Rate * timer[w] <= Token
    BY DEF SleepsForItsToken
  <2>4. bucket.tokens + Rate * bucket.age < Token
    BY <2>1, <2>2, <2>3, PositiveParameters
  <2>5. QED
    BY <2>1, <2>2, <2>4, RefillFacts, PositiveParameters DEF HasToken
<1>2. QED
  BY <1>1, TypeCorrect, SleepsForItsTokenHolds, PTL
=============================================================================
