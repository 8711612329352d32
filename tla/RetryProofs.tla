----------------------------- MODULE RetryProofs ------------------------------
(***************************************************************************)
(* One call of Do, for every set of policies, whatever errors the function *)
(* returns and whatever the width of a Duration.                           *)
(***************************************************************************)
EXTENDS RetryInRouter, SequenceInduction

(***************************************************************************)
(* What TypeOK and ResultIsDue need to be inductive: between two tries one *)
(* is left, and wherever the answer of a try is dealt with one was begun.  *)
(***************************************************************************)
TriesLeft ==
    /\ pc \in {"head", "double", "sleep"} => attempt < Attempts
    /\ pc \in {"calling", "double", "sleep"} => attempt >= 1

RetryInv == TypeOK /\ TriesLeft
-----------------------------------------------------------------------------
\* There is always a try, and the number of tries is fixed.
LEMMA AttemptsFacts ==
    ASSUME policy \in Policies
    PROVE  Attempts \in Nat /\ Attempts >= 1
BY RetryAssumption DEF Attempts

\* What doubles comes round within the width of a Duration.
LEMMA WrapType ==
    ASSUME NEW d \in Durations
    PROVE  Wrap(2 * d) \in Durations
BY RetryAssumption DEF Wrap, Durations

\* The errors that a try may end in.
LEMMA ErrorTypes ==
    ASSUME ctx \in {"live"} \cup ContextCauses,
           NEW err \in FnErrors \cup {TransportError(c) : c \in {ctx} \ {"live"}}
    PROVE  err \in Errors /\ err.kind # "context"
<1>1. CASE err \in FnErrors
  BY <1>1, RetryAssumption
<1>2. CASE err \in {TransportError(c) : c \in {ctx} \ {"live"}}
  <2>1. err = [kind |-> "transport", status |-> 0, cause |-> ctx] /\ ctx \in ContextCauses
    BY <1>2 DEF TransportError
  <2>2. QED
    BY <2>1 DEF Errors
<1>3. QED
  BY <1>1, <1>2

\* Jitter takes away from a delay and adds nothing to it.
LEMMA JitterShortens ==
    ASSUME NEW d \in Durations, NEW t \in Jittered(d)
    PROVE  /\ t \in Int
           /\ t <= d
           /\ t <= MaxDuration
<1>1. d \in Int /\ d <= MaxDuration /\ MaxDuration \in Int
  BY RetryAssumption DEF Durations
<1>2. CASE policy.jitter /\ d > 0
  <2>1. t \in d \div 2 .. 2 * (d \div 2)
    BY <1>2 DEF Jittered
  <2>2. d \div 2 \in Int /\ 2 * (d \div 2) <= d
    BY <1>1
  <2>3. QED
    BY <1>1, <2>1, <2>2
<1>3. CASE ~(policy.jitter /\ d > 0)
  BY <1>1, <1>3 DEF Jittered
<1>4. QED
  BY <1>2, <1>3

\* What a sleep of a Duration leaves behind.
LEMMA SleepFacts ==
    ASSUME RetryInv, pc = "double", NEW d \in Durations, Sleep(d)
    PROVE  /\ RetryInv'
           /\ pc' \in {"head", "sleep"}
           /\ pc' = "sleep" => timer' <= d
           /\ UNCHANGED <<policy, ctx, attempt, result>>
<1>1. UNCHANGED <<policy, attempt, i, idle, ctx, result>> /\ delay' \in Durations
  BY DEF Sleep
<1>2. PICK t \in Jittered(d) :
        IF t <= 0 THEN pc' = "head" /\ timer' = 0 ELSE pc' = "sleep" /\ timer' = t
  BY DEF Sleep
<1>3. t \in Int /\ t <= d /\ t <= MaxDuration /\ MaxDuration \in Nat
  BY JitterShortens, RetryAssumption
<1>4. /\ pc' \in {"head", "sleep"}
      /\ timer' \in 0 .. MaxDuration
      /\ pc' = "sleep" => timer' <= d
  BY <1>2, <1>3
<1>5. Attempts' = Attempts
  BY <1>1 DEF Attempts
<1>6. TypeOK'
  BY <1>1, <1>4, <1>5 DEF RetryInv, TypeOK
<1>7. TriesLeft'
  BY <1>1, <1>4, <1>5 DEF RetryInv, TriesLeft
<1>8. QED
  BY <1>1, <1>4, <1>6, <1>7 DEF RetryInv

\* The delay that a turn of the loop in backoff ends with is a Duration.
LEMMA CappedType ==
    ASSUME policy \in Policies, NEW d \in Durations
    PROVE  Capped(d) \in Durations /\ policy.maxDelay \in Durations
BY RetryAssumption DEF Capped
-----------------------------------------------------------------------------
(***************************************************************************)
(* The inductive invariant.                                                *)
(***************************************************************************)
LEMMA InitInv == Init => RetryInv
<1> SUFFICES ASSUME Init PROVE RetryInv
  OBVIOUS
<1>1. policy \in Policies /\ Attempts \in Nat /\ Attempts >= 1
  BY AttemptsFacts DEF Init
<1>2. QED
  BY <1>1, RetryAssumption DEF Init, RetryInv, TypeOK, TriesLeft, Durations, NoError

LEMMA StepInv ==
    ASSUME RetryInv, [Next]_vars
    PROVE  RetryInv'
<1>1. /\ policy \in Policies
      /\ Attempts \in Nat
      /\ Attempts >= 1
      /\ MaxDuration \in Nat
      /\ ctx \in {"live"} \cup ContextCauses
      /\ attempt \in 0 .. Attempts
  BY AttemptsFacts, RetryAssumption DEF RetryInv, TypeOK
<1>2. policy' = policy => Attempts' = Attempts
  BY DEF Attempts
<1>3. ctx # "live" => ContextError(ctx) \in Errors
  BY <1>1 DEF ContextError, Errors
<1>4. CASE GiveUp
  BY <1>1, <1>2, <1>3, <1>4 DEF GiveUp, Return, RetryInv, TypeOK, TriesLeft
<1>5. CASE Call
  BY <1>1, <1>2, <1>5 DEF Call, RetryInv, TypeOK, TriesLeft
<1>6. CASE CallSucceeds
  BY <1>1, <1>2, <1>6 DEF CallSucceeds, Return, RetryInv, TypeOK, TriesLeft
<1>7. CASE CallFails
  <2>1. PICK err \in FnErrors \cup {TransportError(c) : c \in {ctx} \ {"live"}} :
          IF TriesAgain(err)
          THEN pc' = "double" /\ delay' = policy.baseDelay /\ i' = 1 /\ UNCHANGED result
          ELSE Return(err) /\ UNCHANGED <<i, delay>>
    BY <1>7 DEF CallFails
  <2>2. err \in Errors
    BY <1>1, <2>1, ErrorTypes
  <2>3. policy.baseDelay \in Durations
    BY <1>1, RetryAssumption
  <2>4. pc = "calling" /\ idle' = 0 /\ UNCHANGED <<policy, attempt, timer, ctx>>
    BY <1>7 DEF CallFails
  <2>5. CASE TriesAgain(err)
    <3>1. attempt < Attempts
      BY <1>1, <2>5 DEF TriesAgain
    <3>2. QED
      BY <1>1, <1>2, <2>1, <2>3, <2>4, <2>5, <3>1 DEF RetryInv, TypeOK, TriesLeft
  <2>6. CASE ~TriesAgain(err)
    BY <1>1, <1>2, <2>1, <2>2, <2>4, <2>6 DEF Return, RetryInv, TypeOK, TriesLeft
  <2>7. QED
    BY <2>5, <2>6
<1>8. CASE Double
  <2>1. Wrap(2 * delay) \in Durations
    BY WrapType DEF RetryInv, TypeOK
  <2>2. i' \in 1 .. Attempts
    BY <1>1, <1>8 DEF Double, RetryInv, TypeOK
  <2>3. QED
    BY <1>1, <1>2, <1>8, <2>1, <2>2 DEF Double, RetryInv, TypeOK, TriesLeft
<1>9. CASE BreakAtCap
  BY <1>1, <1>9, CappedType, SleepFacts DEF BreakAtCap, RetryInv, TypeOK
<1>10. CASE Doubled
  BY <1>1, <1>10, CappedType, SleepFacts DEF Doubled, RetryInv, TypeOK
<1>11. CASE TimerFires
  BY <1>1, <1>2, <1>11 DEF TimerFires, RetryInv, TypeOK, TriesLeft
<1>12. CASE SleepCancelled
  BY <1>1, <1>2, <1>3, <1>12 DEF SleepCancelled, Return, RetryInv, TypeOK, TriesLeft
<1>13. CASE EndContext
  BY <1>1, <1>2, <1>13 DEF EndContext, RetryInv, TypeOK, TriesLeft
<1>14. CASE Tick
  BY <1>1, <1>2, <1>14 DEF Tick, RetryInv, TypeOK, TriesLeft
<1>15. CASE Done
  BY <1>2, <1>15 DEF Done, vars, RetryInv, TypeOK, TriesLeft
<1>16. CASE UNCHANGED vars
  BY <1>2, <1>16 DEF vars, RetryInv, TypeOK, TriesLeft
<1>17. QED
  BY <1>4, <1>5, <1>6, <1>7, <1>8, <1>9, <1>10, <1>11, <1>12, <1>13, <1>14, <1>15, <1>16
     DEF Next, Step

LEMMA Invariance == Spec => []RetryInv
BY InitInv, StepInv, PTL DEF Spec

(***************************************************************************)
(* Type correctness, which includes that no timer is set to a negative     *)
(* delay and that no more tries are made than the policy has.              *)
(***************************************************************************)
THEOREM TypeCorrect == Spec => []TypeOK
<1>1. RetryInv => TypeOK
  BY DEF RetryInv
<1>2. QED
  BY <1>1, Invariance, PTL
-----------------------------------------------------------------------------
(***************************************************************************)
(* "MaxDelay caps the backoff between attempts", also when the doubling    *)
(* overflows and comes round.                                              *)
(***************************************************************************)
THEOREM SleepIsCappedHolds == Spec => []SleepIsCapped
<1>1. Init => SleepIsCapped
  BY DEF Init, SleepIsCapped
<1>2. ASSUME RetryInv, SleepIsCapped, [Next]_vars
      PROVE  SleepIsCapped'
  <2>1. policy \in Policies /\ delay \in Durations /\ timer \in Int
    BY <1>2, RetryAssumption DEF RetryInv, TypeOK
  <2>2. policy.maxDelay \in Int /\ Capped(delay) \in Int
    BY <2>1, CappedType, RetryAssumption DEF Durations
  <2>3. CASE BreakAtCap
    BY <1>2, <2>1, <2>3, CappedType, SleepFacts DEF BreakAtCap, SleepIsCapped
  <2>4. CASE Doubled
    <3>1. pc' = "sleep" => timer' <= Capped(delay)
      BY <1>2, <2>1, <2>4, CappedType, SleepFacts DEF Doubled
    <3>2. policy' = policy /\ timer' \in Int
      BY <1>2, <2>1, <2>4, CappedType, SleepFacts, StepInv, RetryAssumption
         DEF Doubled, RetryInv, TypeOK
    <3>3. policy.maxDelay > 0 => Capped(delay) <= policy.maxDelay
      BY <2>1, <2>2, RetryAssumption DEF Capped, Durations
    <3>4. QED
      BY <2>2, <3>1, <3>2, <3>3 DEF SleepIsCapped
  <2>5. CASE Tick
    BY <1>2, <2>1, <2>2, <2>5 DEF Tick, SleepIsCapped
  <2>6. CASE GiveUp \/ Call \/ CallSucceeds \/ Double \/ TimerFires \/ SleepCancelled
    BY <1>2, <2>6
       DEF GiveUp, Call, CallSucceeds, Double, TimerFires, SleepCancelled, Return,
           SleepIsCapped
  <2>7. CASE CallFails
    BY <2>7 DEF CallFails, Return, SleepIsCapped
  <2>8. CASE EndContext \/ Done \/ UNCHANGED vars
    BY <1>2, <2>8 DEF EndContext, Done, vars, SleepIsCapped
  <2>9. QED
    BY <1>2, <2>3, <2>4, <2>5, <2>6, <2>7, <2>8 DEF Next, Step
<1>3. QED
  BY <1>1, <1>2, Invariance, PTL DEF Spec

(***************************************************************************)
(* Do returns what is due: an error that another try could mend only when  *)
(* no try is left, and a context's only if the context ended.              *)
(***************************************************************************)
THEOREM ResultIsDueHolds == Spec => []ResultIsDue
<1>1. Init => ResultIsDue
  BY DEF Init, ResultIsDue
<1>2. ASSUME RetryInv, ResultIsDue, [Next]_vars
      PROVE  ResultIsDue'
  <2>1. /\ attempt \in Nat
        /\ ctx \in {"live"} \cup ContextCauses
        /\ policy' = policy => Attempts' = Attempts
    BY <1>2, AttemptsFacts DEF RetryInv, TypeOK, Attempts
  <2>2. CASE GiveUp \/ SleepCancelled
    <3>1. /\ result' = [kind |-> "context", status |-> 0, cause |-> ctx]
          /\ UNCHANGED ctx
      BY <2>2 DEF GiveUp, SleepCancelled, Return, ContextError
    <3>2. ~IsRetryable(result')
      BY <3>1 DEF IsRetryable
    <3>3. QED
      BY <3>1, <3>2 DEF ResultIsDue
  <2>3. CASE CallSucceeds
    BY <1>2, <2>1, <2>3
       DEF CallSucceeds, Return, NoError, IsRetryable, ResultIsDue, RetryInv, TriesLeft
  <2>4. CASE CallFails
    <3>1. PICK err \in FnErrors \cup {TransportError(c) : c \in {ctx} \ {"live"}} :
            IF TriesAgain(err)
            THEN pc' = "double" /\ delay' = policy.baseDelay /\ i' = 1 /\ UNCHANGED result
            ELSE Return(err) /\ UNCHANGED <<i, delay>>
      BY <2>4 DEF CallFails
    <3>2. err.kind # "context"
      BY <2>1, <3>1, ErrorTypes
    <3>3. pc = "calling" /\ UNCHANGED <<policy, attempt, ctx>>
      BY <2>4 DEF CallFails
    <3>4. attempt >= 1
      BY <1>2, <3>3 DEF RetryInv, TriesLeft
    <3>5. CASE TriesAgain(err)
      BY <3>1, <3>5 DEF ResultIsDue
    <3>6. CASE ~TriesAgain(err)
      <4>1. result' = err /\ (IsRetryable(err) => attempt = Attempts)
        BY <3>1, <3>6 DEF TriesAgain, Return
      <4>2. QED
        BY <2>1, <3>2, <3>3, <3>4, <4>1 DEF ResultIsDue
    <3>7. QED
      BY <3>5, <3>6
  <2>5. CASE BreakAtCap \/ Doubled
    BY <2>5 DEF BreakAtCap, Doubled, Sleep, ResultIsDue
  <2>6. CASE Call \/ Double \/ TimerFires \/ EndContext \/ Tick
    BY <2>6 DEF Call, Double, TimerFires, EndContext, Tick, ResultIsDue
  <2>7. CASE Done \/ UNCHANGED vars
    BY <1>2, <2>1, <2>7 DEF Done, vars, ResultIsDue
  <2>8. QED
    BY <1>2, <2>2, <2>3, <2>4, <2>5, <2>6, <2>7 DEF Next, Step
<1>3. QED
  BY <1>1, <1>2, Invariance, PTL DEF Spec
-----------------------------------------------------------------------------
\* The powers up to some number are defined in one way.
PowersTo(n, f) ==
    /\ f \in [0 .. n -> Nat]
    /\ f[0] = 1
    /\ \A k \in 0 .. n : k > 0 => f[k] = 2 * f[k - 1]

LEMMA PowersExist ==
    \A n \in Nat : \E f : PowersTo(n, f)
<1> DEFINE T == {n \in Nat : \E f : PowersTo(n, f)}
<1>1. 0 \in T
  <2>1. PowersTo(0, [k \in 0 .. 0 |-> 1])
    BY DEF PowersTo
  <2>2. QED
    BY <2>1
<1>2. ASSUME NEW n \in T
      PROVE  n + 1 \in T
  <2>1. PICK f : PowersTo(n, f)
    OBVIOUS
  <2> DEFINE g == [k \in 0 .. n + 1 |-> IF k = n + 1 THEN 2 * f[n] ELSE f[k]]
  <2>2. g \in [0 .. n + 1 -> Nat]
    BY <2>1 DEF PowersTo
  <2>3. g[0] = 1
    BY <2>1 DEF PowersTo
  <2>4. \A k \in 0 .. n + 1 : k > 0 => g[k] = 2 * g[k - 1]
    BY <2>1 DEF PowersTo
  <2>5. PowersTo(n + 1, g)
    <3> HIDE DEF g
    <3>1. QED
      BY <2>2, <2>3, <2>4 DEF PowersTo
  <2>6. QED
    BY <2>5
<1>3. T = Nat
  BY <1>1, <1>2, NatIsInductive
<1>4. QED
  BY <1>3

LEMMA PowersAgree ==
    ASSUME NEW m \in Nat, NEW n \in Nat, NEW f, NEW g, PowersTo(m, f), PowersTo(n, g),
           NEW k \in Nat, k <= m, k <= n
    PROVE  f[k] = g[k]
<1> DEFINE T == {j \in Nat : j <= m /\ j <= n => f[j] = g[j]}
<1>1. 0 \in T
  BY DEF PowersTo
<1>2. ASSUME NEW j \in T PROVE j + 1 \in T
  <2> SUFFICES ASSUME j + 1 <= m, j + 1 <= n
               PROVE  f[j + 1] = g[j + 1]
    OBVIOUS
  <2>1. f[j] = g[j]
    OBVIOUS
  <2>2. j + 1 \in 0 .. m /\ j + 1 \in 0 .. n /\ j + 1 > 0 /\ j + 1 - 1 = j
    OBVIOUS
  <2>3. f[j + 1] = 2 * f[j] /\ g[j + 1] = 2 * g[j]
    BY <2>2 DEF PowersTo
  <2>4. QED
    BY <2>1, <2>3
<1>3. T = Nat
  BY <1>1, <1>2, NatIsInductive
<1>4. QED
  BY <1>3

LEMMA PowerFacts ==
    /\ Power \in [Nat -> Nat]
    /\ Power[0] = 1
    /\ \A n \in Nat : Power[n + 1] = 2 * Power[n]
<1> DEFINE p == [n \in Nat |-> (CHOOSE f : PowersTo(n, f))[n]]
           Def(f) == f = [n \in Nat |-> IF n = 0 THEN 1 ELSE 2 * f[n - 1]]
<1>1. \A n \in Nat : PowersTo(n, CHOOSE f : PowersTo(n, f))
  BY PowersExist
<1>2. \A n \in Nat : p[n] = IF n = 0 THEN 1 ELSE 2 * p[n - 1]
  <2> SUFFICES ASSUME NEW n \in Nat
               PROVE  p[n] = IF n = 0 THEN 1 ELSE 2 * p[n - 1]
    OBVIOUS
  <2>1. CASE n = 0
    BY <1>1, <2>1 DEF PowersTo
  <2>2. CASE n # 0
    <3> DEFINE f == CHOOSE f : PowersTo(n, f)
               g == CHOOSE g : PowersTo(n - 1, g)
    <3>1. PowersTo(n, f) /\ PowersTo(n - 1, g) /\ n - 1 \in Nat
      BY <1>1, <2>2
    <3>2. p[n] = f[n] /\ p[n - 1] = g[n - 1]
      BY <3>1
    <3> HIDE DEF f, g, p
    <3>3. f[n - 1] = g[n - 1]
      BY <3>1, PowersAgree
    <3>4. f[n] = 2 * f[n - 1]
      BY <2>2, <3>1 DEF PowersTo
    <3>5. QED
      BY <2>2, <3>2, <3>3, <3>4
  <2>3. QED
    BY <2>1, <2>2
<1>3. Def(p)
  <2> HIDE DEF p
  <2>1. p = [n \in Nat |-> p[n]]
    BY DEF p
  <2>2. QED
    BY <1>2, <2>1
<1>4. Def(Power)
  <2> HIDE DEF p
  <2>1. Power = CHOOSE f : Def(f)
    BY DEF Power
  <2>2. QED
    BY <1>3, <2>1
<1>5. /\ Power[0] = 1
      /\ \A n \in Nat : Power[n + 1] = 2 * Power[n]
  BY <1>4
<1>6. \A n \in Nat : Power[n] \in Nat
  <2> DEFINE T == {n \in Nat : Power[n] \in Nat}
  <2>1. 0 \in T
    BY <1>5
  <2>2. ASSUME NEW n \in T PROVE n + 1 \in T
    BY <1>5
  <2>3. T = Nat
    BY <2>1, <2>2, NatIsInductive
  <2>4. QED
    BY <2>3
<1>7. QED
  BY <1>4, <1>5, <1>6

LEMMA PowerGrows ==
    ASSUME NEW m \in Nat, NEW n \in Nat, m <= n
    PROVE  Power[m] <= Power[n]
<1> DEFINE T == {k \in Nat : Power[m] <= Power[m + k]}
<1>1. 0 \in T
  BY PowerFacts
<1>2. ASSUME NEW k \in T PROVE k + 1 \in T
  <2>1. Power[(m + k) + 1] = 2 * Power[m + k] /\ Power[m + k] \in Nat /\ Power[m] \in Nat
    BY PowerFacts
  <2>2. m + (k + 1) = (m + k) + 1
    OBVIOUS
  <2>3. QED
    BY <2>1, <2>2
<1>3. T = Nat
  BY <1>1, <1>2, NatIsInductive
<1>4. n - m \in T
  <2>1. n - m \in Nat
    OBVIOUS
  <2> HIDE DEF T
  <2>2. QED
    BY <1>3, <2>1
<1>5. m + (n - m) = n
  OBVIOUS
<1>6. QED
  BY <1>4, <1>5
-----------------------------------------------------------------------------
(***************************************************************************)
(* The documented backoff.                                                 *)
(***************************************************************************)
LEMMA ExponentialFacts ==
    ASSUME policy \in Policies, policy.baseDelay >= 0
    PROVE  /\ Exponential(1) = policy.baseDelay
           /\ \A n \in Nat \ {0} :
                /\ Exponential(n) \in Nat
                /\ Exponential(n + 1) = 2 * Exponential(n)
           /\ \A m, n \in Nat \ {0} : m <= n => Exponential(m) <= Exponential(n)
<1> DEFINE base == policy.baseDelay
<1>1. base \in Nat
  BY RetryAssumption DEF Durations
<1> HIDE DEF base
<1>2. \A n \in Nat : Exponential(n) = base * Power[n - 1]
  BY DEF Exponential, base
<1>3. Exponential(1) = base
  <2>1. 1 - 1 = 0 /\ base * 1 = base
    BY <1>1
  <2>2. QED
    BY <1>2, <2>1, PowerFacts
<1>4. ASSUME NEW n \in Nat \ {0}
      PROVE  Exponential(n) \in Nat /\ Exponential(n + 1) = 2 * Exponential(n)
  <2>1. /\ n - 1 \in Nat /\ (n + 1) - 1 = n /\ (n - 1) + 1 = n
    OBVIOUS
  <2>2. Power[n] = 2 * Power[n - 1] /\ Power[n - 1] \in Nat
    BY <2>1, PowerFacts
  <2>3. \A b, x \in Nat : b * x \in Nat /\ b * (2 * x) = 2 * (b * x)
    OBVIOUS
  <2>4. Exponential(n) = base * Power[n - 1] /\ Exponential(n + 1) = base * Power[n]
    BY <1>2, <2>1
  <2>5. QED
    BY <1>1, <2>2, <2>3, <2>4
<1>5. ASSUME NEW m \in Nat \ {0}, NEW n \in Nat \ {0}, m <= n
      PROVE  Exponential(m) <= Exponential(n)
  <2>1. m - 1 \in Nat /\ n - 1 \in Nat /\ m - 1 <= n - 1
    BY <1>5
  <2>2. /\ Power[m - 1] <= Power[n - 1]
        /\ Power[m - 1] \in Nat /\ Power[n - 1] \in Nat
    BY <2>1, PowerGrows, PowerFacts
  <2>3. \A b, x, y \in Nat : x <= y => b * x <= b * y
    OBVIOUS
  <2>4. QED
    BY <1>1, <1>2, <2>2, <2>3
<1>6. QED
  BY <1>3, <1>4, <1>5 DEF base

\* A documented backoff that fits is a Duration that can be slept.
LEMMA DocumentedFits ==
    ASSUME policy \in Policies, NEW n \in Nat \ {0}, Fits(n)
    PROVE  /\ Documented(n) \in 0 .. MaxDuration
           /\ Rest(n) \in 0 .. MaxDuration
<1>1. /\ policy.baseDelay >= 0
      /\ policy.maxDelay \in Int /\ policy.maxDelay <= MaxDuration
      /\ MaxDuration \in Nat
  BY RetryAssumption DEF Fits, Durations
<1>2. Exponential(n) \in Nat
  BY <1>1, ExponentialFacts
<1>3. Documented(n) \in 0 .. MaxDuration
  BY <1>1, <1>2 DEF Documented, Fits
<1>4. \A d \in 0 .. MaxDuration : d \div 2 \in 0 .. MaxDuration
  BY <1>1
<1>5. QED
  BY <1>3, <1>4 DEF Rest
-----------------------------------------------------------------------------
(***************************************************************************)
(* The loop of backoff: as long as the documented backoff fits, each turn  *)
(* doubles the delay without overflow and stays below the cap.             *)
(***************************************************************************)
DelayIsDoubled ==
    pc = "double" /\ Fits(attempt) =>
        /\ i <= attempt
        /\ delay = Exponential(i)
        /\ policy.maxDelay > 0 => i = 1 \/ delay <= policy.maxDelay

\* What the proofs about the loop start from.
LEMMA InLoop ==
    ASSUME RetryInv, DelayIsDoubled, pc = "double", Fits(attempt)
    PROVE  /\ policy \in Policies
           /\ attempt \in Nat \ {0} /\ i \in Nat \ {0} /\ i <= attempt
           /\ delay = Exponential(i) /\ delay \in Nat
           /\ policy.baseDelay \in Nat /\ policy.maxDelay \in Int /\ MaxDuration \in Nat
           /\ policy.maxDelay > 0 => i = 1 \/ delay <= policy.maxDelay
<1>1. /\ policy \in Policies /\ attempt \in Nat /\ i \in Nat /\ i >= 1
      /\ attempt >= 1
  BY AttemptsFacts DEF RetryInv, TypeOK, TriesLeft
<1>2. /\ policy.baseDelay \in Int /\ policy.maxDelay \in Int /\ MaxDuration \in Nat
      /\ policy.baseDelay >= 0
  BY <1>1, RetryAssumption DEF Fits, Durations
<1>3. delay = Exponential(i)
  BY DEF DelayIsDoubled
<1>4. QED
  BY <1>1, <1>2, <1>3, ExponentialFacts DEF DelayIsDoubled

\* Doubling once more does not overflow if there is a turn left.
LEMMA NoOverflow ==
    ASSUME RetryInv, DelayIsDoubled, pc = "double", Fits(attempt), i < attempt
    PROVE  /\ Wrap(2 * delay) = 2 * delay
           /\ 2 * delay = Exponential(i + 1)
<1>1. /\ delay = Exponential(i) /\ delay \in Nat /\ MaxDuration \in Nat
      /\ policy.baseDelay \in Nat /\ policy.maxDelay \in Int
      /\ i \in Nat \ {0} /\ i + 1 \in Nat \ {0} /\ attempt \in Nat \ {0}
      /\ policy \in Policies
      /\ policy.maxDelay > 0 => i = 1 \/ delay <= policy.maxDelay
  BY InLoop
<1>2. 2 * delay = Exponential(i + 1) /\ Exponential(1) = policy.baseDelay
  BY <1>1, ExponentialFacts
<1>3. 2 * delay <= MaxDuration
  <2>1. CASE policy.maxDelay > 0
    BY <1>1, <1>2, <2>1 DEF Fits
  <2>2. CASE ~(policy.maxDelay > 0)
    <3>1. Exponential(i + 1) <= Exponential(attempt)
      BY <1>1, ExponentialFacts
    <3>2. Exponential(attempt) \in Nat /\ Exponential(attempt) <= MaxDuration
      BY <1>1, <2>2, ExponentialFacts DEF Fits
    <3>3. QED
      BY <1>1, <1>2, <3>1, <3>2
  <2>3. QED
    BY <2>1, <2>2
<1>4. QED
  BY <1>1, <1>2, <1>3 DEF Wrap

LEMMA DoublingStep ==
    ASSUME RetryInv, DelayIsDoubled, [Next]_vars
    PROVE  DelayIsDoubled'
<1> SUFFICES ASSUME pc' = "double", Fits(attempt)'
             PROVE  /\ i' <= attempt'
                    /\ delay' = Exponential(i)'
                    /\ policy'.maxDelay > 0 => i' = 1 \/ delay' <= policy'.maxDelay
  BY DEF DelayIsDoubled
<1>1. ASSUME UNCHANGED <<policy, attempt>>
      PROVE  Fits(attempt)
  BY <1>1 DEF Fits, Exponential
<1>2. CASE CallFails
  <2>1. /\ i' = 1 /\ delay' = policy.baseDelay
        /\ UNCHANGED <<policy, attempt>> /\ pc = "calling"
    BY <1>2 DEF CallFails, Return
  <2>2. policy \in Policies /\ attempt \in Nat /\ attempt >= 1
    BY <2>1, AttemptsFacts DEF RetryInv, TypeOK, TriesLeft
  <2>3. policy.baseDelay >= 0
    BY <1>1, <2>1 DEF Fits
  <2>4. Exponential(1) = policy.baseDelay
    BY <2>2, <2>3, ExponentialFacts
  <2>5. Exponential(i)' = Exponential(1)
    BY <2>1 DEF Exponential
  <2>6. QED
    BY <2>1, <2>2, <2>4, <2>5
<1>3. CASE Double
  <2>1. /\ pc = "double" /\ i < attempt
        /\ ~ExceedsCap(Wrap(2 * delay))
        /\ delay' = Wrap(2 * delay) /\ i' = i + 1
        /\ UNCHANGED <<policy, attempt>>
    BY <1>3 DEF Double
  <2>2. Fits(attempt)
    BY <1>1, <2>1
  <2>3. delay' = 2 * delay /\ 2 * delay = Exponential(i + 1)
    BY <2>1, <2>2, NoOverflow
  <2>4. Exponential(i)' = Exponential(i + 1)
    BY <2>1 DEF Exponential
  <2>5. /\ i \in Nat /\ attempt \in Nat /\ policy.maxDelay \in Int
        /\ delay \in Nat
    BY <2>1, <2>2, InLoop
  <2>6. policy.maxDelay > 0 => 2 * delay <= policy.maxDelay
    BY <2>1, <2>3, <2>5 DEF ExceedsCap
  <2>7. QED
    BY <2>1, <2>3, <2>4, <2>5, <2>6
<1>4. CASE EndContext \/ Tick \/ Done \/ UNCHANGED vars
  <2>1. UNCHANGED <<policy, pc, attempt, i, delay>>
    BY <1>4 DEF EndContext, Tick, Done, vars
  <2>2. Exponential(i)' = Exponential(i)
    BY <2>1 DEF Exponential
  <2>3. QED
    BY <1>1, <2>1, <2>2 DEF DelayIsDoubled
<1>5. CASE GiveUp \/ Call \/ CallSucceeds \/ BreakAtCap \/ Doubled \/ TimerFires
           \/ SleepCancelled
  BY <1>5
     DEF GiveUp, Call, CallSucceeds, BreakAtCap, Doubled, Sleep, TimerFires,
         SleepCancelled, Return
<1>6. QED
  BY <1>2, <1>3, <1>4, <1>5 DEF Next, Step

\* However the loop ends, it ends with the documented backoff.
LEMMA SleepsAsDocumented ==
    ASSUME RetryInv, DelayIsDoubled, Fits(attempt), BreakAtCap \/ Doubled
    PROVE  pc = "double" /\ Sleep(Documented(attempt))
<1>1. pc = "double"
  BY DEF BreakAtCap, Doubled
<1>2. /\ policy \in Policies /\ attempt \in Nat \ {0} /\ i \in Nat \ {0}
      /\ delay = Exponential(i) /\ delay \in Nat
      /\ policy.baseDelay >= 0 /\ policy.maxDelay \in Int
  BY <1>1, InLoop
<1>3. CASE BreakAtCap
  <2>1. i < attempt /\ ExceedsCap(Wrap(2 * delay)) /\ Sleep(policy.maxDelay)
    BY <1>3 DEF BreakAtCap
  <2>2. policy.maxDelay > 0 /\ Exponential(i + 1) > policy.maxDelay
    BY <1>1, <2>1, NoOverflow DEF ExceedsCap
  <2>3. i + 1 \in Nat \ {0} /\ i + 1 <= attempt
    BY <1>2, <2>1
  <2>4. /\ Exponential(i + 1) <= Exponential(attempt)
        /\ Exponential(i + 1) \in Nat /\ Exponential(attempt) \in Nat
    BY <1>2, <2>3, ExponentialFacts
  <2>5. Documented(attempt) = policy.maxDelay
    BY <1>2, <2>2, <2>4 DEF Documented
  <2>6. QED
    BY <1>1, <2>1, <2>5
<1>4. CASE Doubled
  <2>1. i = attempt /\ Sleep(Capped(delay))
    BY <1>4 DEF Doubled
  <2>2. Capped(delay) = Documented(attempt)
    BY <1>2, <2>1 DEF Capped, Documented
  <2>3. QED
    BY <1>1, <2>1, <2>2
<1>5. QED
  BY <1>3, <1>4

THEOREM DelayIsDoubledHolds == Spec => []DelayIsDoubled
<1>1. Init => DelayIsDoubled
  BY DEF Init, DelayIsDoubled
<1>2. QED
  BY <1>1, DoublingStep, Invariance, PTL DEF Spec

(***************************************************************************)
(* No sleep is longer than the documented backoff, for every policy whose  *)
(* backoff fits into a Duration and after any number of tries.             *)
(***************************************************************************)
THEOREM SleepIsBoundedHolds == Spec => []SleepIsBounded
<1>1. Init => SleepIsBounded
  BY DEF Init, SleepIsBounded
<1>2. ASSUME RetryInv, DelayIsDoubled, SleepIsBounded, [Next]_vars
      PROVE  SleepIsBounded'
  <2> SUFFICES ASSUME pc' = "sleep", Fits(attempt)'
               PROVE  timer' <= Documented(attempt)'
    BY DEF SleepIsBounded
  <2>1. policy \in Policies /\ attempt \in Nat
    BY <1>2, AttemptsFacts DEF RetryInv, TypeOK
  <2>2. ASSUME UNCHANGED <<policy, attempt>>
        PROVE  Fits(attempt) /\ Documented(attempt)' = Documented(attempt)
    BY <2>2 DEF Fits, Documented, Exponential
  <2>3. CASE BreakAtCap \/ Doubled
    <3>1. UNCHANGED <<policy, attempt>> /\ pc = "double"
      BY <2>3 DEF BreakAtCap, Doubled, Sleep
    <3>2. Sleep(Documented(attempt))
      BY <1>2, <2>2, <2>3, <3>1, SleepsAsDocumented
    <3>3. attempt \in Nat \ {0}
      BY <1>2, <2>1, <3>1 DEF RetryInv, TriesLeft
    <3>4. Documented(attempt) \in 0 .. MaxDuration
      BY <2>1, <2>2, <3>1, <3>3, DocumentedFits
    <3>5. Documented(attempt) \in Durations
      BY <3>4, RetryAssumption DEF Durations
    <3>6. timer' <= Documented(attempt)
      BY <1>2, <3>1, <3>2, <3>5, SleepFacts
    <3>7. QED
      BY <2>2, <3>1, <3>6
  <2>4. CASE Tick
    <3>1. /\ UNCHANGED <<policy, attempt>> /\ pc = "sleep"
          /\ timer' = IF timer > 0 THEN timer - 1 ELSE 0
      BY <2>4 DEF Tick
    <3>2. timer \in Nat
      BY <1>2, RetryAssumption DEF RetryInv, TypeOK
    <3>3. timer <= Documented(attempt)
      BY <1>2, <2>2, <3>1 DEF SleepIsBounded
    <3>4. attempt \in Nat \ {0}
      BY <1>2, <2>1, <3>1 DEF RetryInv, TriesLeft
    <3>5. Documented(attempt) \in Int
      BY <2>1, <2>2, <3>1, <3>4, DocumentedFits, RetryAssumption
    <3>6. timer' <= Documented(attempt)
      BY <3>1, <3>2, <3>3, <3>5
    <3>7. QED
      BY <2>2, <3>1, <3>6
  <2>5. CASE EndContext \/ Done \/ UNCHANGED vars
    <3>1. UNCHANGED <<policy, pc, attempt, timer>>
      BY <2>5 DEF EndContext, Done, vars
    <3>2. QED
      BY <1>2, <2>2, <3>1 DEF SleepIsBounded
  <2>6. CASE GiveUp \/ Call \/ CallSucceeds \/ Double \/ TimerFires \/ SleepCancelled
    BY <2>6
       DEF GiveUp, Call, CallSucceeds, Double, TimerFires, SleepCancelled, Return
  <2>7. CASE CallFails
    BY <2>7 DEF CallFails, Return
  <2>8. QED
    BY <1>2, <2>3, <2>4, <2>5, <2>6, <2>7 DEF Next, Step
<1>3. QED
  BY <1>1, <1>2, Invariance, DelayIsDoubledHolds, PTL DEF Spec
-----------------------------------------------------------------------------
(***************************************************************************)
(* What ProviderIsSpared needs to be inductive: the rest that a provider   *)
(* is due is what it had and what the timer still holds.                   *)
(***************************************************************************)
RestIsKept ==
    /\ pc = "sleep" /\ Fits(attempt) => idle + timer >= Rest(attempt)
    /\ pc = "head" /\ attempt >= 1 /\ Fits(attempt) => idle >= Rest(attempt)
    /\ ProviderIsSpared

\* Jitter leaves at least half of a delay.
LEMMA JitterLeavesHalf ==
    ASSUME NEW d \in Nat, NEW t \in Jittered(d)
    PROVE  t >= IF policy.jitter THEN d \div 2 ELSE d
<1>1. d \div 2 \in Nat /\ 0 \div 2 = 0
  OBVIOUS
<1>2. CASE policy.jitter /\ d > 0
  BY <1>1, <1>2 DEF Jittered
<1>3. CASE policy.jitter /\ ~(d > 0)
  <2>1. t = d /\ d = 0
    BY <1>3 DEF Jittered
  <2>2. QED
    BY <1>1, <1>3, <2>1
<1>4. CASE ~policy.jitter
  BY <1>4 DEF Jittered
<1>5. QED
  BY <1>2, <1>3, <1>4

LEMMA RestStep ==
    ASSUME RetryInv, DelayIsDoubled, RestIsKept, [Next]_vars
    PROVE  RestIsKept'
<1>1. /\ policy \in Policies /\ attempt \in Nat
      /\ timer \in Nat /\ timer <= MaxDuration
      /\ idle \in Nat /\ idle <= MaxDuration
      /\ MaxDuration \in Nat
  BY AttemptsFacts, RetryAssumption DEF RetryInv, TypeOK
<1>2. \A n \in Nat \ {0} : Fits(n) => Rest(n) \in Nat /\ Rest(n) <= MaxDuration
  BY <1>1, DocumentedFits
<1>3. CASE BreakAtCap \/ Doubled
  <2>1. /\ UNCHANGED <<policy, attempt, idle>>
        /\ pc = "double"
        /\ pc' \in {"head", "sleep"}
    BY <1>3 DEF BreakAtCap, Doubled, Sleep
  <2>2. ASSUME Fits(attempt)
        PROVE  /\ pc' = "sleep" => idle + timer' >= Rest(attempt)
               /\ pc' = "head" => idle >= Rest(attempt)
    <3> DEFINE d == Documented(attempt)
    <3>1. Sleep(d)
      BY <1>3, <2>2, SleepsAsDocumented
    <3>2. attempt \in Nat \ {0}
      BY <1>1, <2>1 DEF RetryInv, TriesLeft
    <3>3. d \in Nat /\ Rest(attempt) \in Nat
      BY <1>1, <1>2, <2>2, <3>2, DocumentedFits
    <3>4. PICK t \in Jittered(d) :
            IF t <= 0 THEN pc' = "head" /\ timer' = 0 ELSE pc' = "sleep" /\ timer' = t
      BY <3>1 DEF Sleep
    <3>5. t >= Rest(attempt)
      BY <3>3, <3>4, JitterLeavesHalf DEF Rest
    <3>6. t \in Int
      <4>1. d \in Durations
        BY <1>1, <2>2, <3>2, DocumentedFits DEF Durations
      <4>2. QED
        BY <3>4, <4>1, JitterShortens
    <3>7. QED
      BY <1>1, <3>3, <3>4, <3>5, <3>6
  <2>3. Fits(attempt)' <=> Fits(attempt)
    BY <2>1 DEF Fits, Exponential
  <2>4. Rest(attempt)' = Rest(attempt)
    BY <2>1 DEF Rest, Documented, Exponential
  <2>5. QED
    BY <2>1, <2>2, <2>3, <2>4 DEF RestIsKept, ProviderIsSpared
<1>4. CASE Call
  <2>1. /\ pc = "head" /\ pc' = "calling" /\ attempt' = attempt + 1
        /\ UNCHANGED <<policy, idle>>
    BY <1>4 DEF Call
  <2>2. attempt' - 1 = attempt
    BY <1>1, <2>1
  <2>3. Fits(attempt - 1)' <=> Fits(attempt)
    BY <2>1, <2>2 DEF Fits, Exponential
  <2>4. Rest(attempt - 1)' = Rest(attempt)
    BY <2>1, <2>2 DEF Rest, Documented, Exponential
  <2>5. QED
    BY <1>1, <2>1, <2>3, <2>4 DEF RestIsKept, ProviderIsSpared
<1>5. CASE TimerFires
  <2>1. /\ pc = "sleep" /\ pc' = "head" /\ timer = 0
        /\ UNCHANGED <<policy, attempt, idle>>
    BY <1>5 DEF TimerFires
  <2>2. (Fits(attempt)' <=> Fits(attempt)) /\ Rest(attempt)' = Rest(attempt)
    BY <2>1 DEF Fits, Rest, Documented, Exponential
  <2>3. QED
    BY <1>1, <2>1, <2>2 DEF RestIsKept, ProviderIsSpared
<1>6. CASE Tick
  <2>1. /\ pc # "calling"
        /\ timer' = IF timer > 0 THEN timer - 1 ELSE 0
        /\ idle' = IF idle < MaxDuration THEN idle + 1 ELSE idle
        /\ UNCHANGED <<policy, pc, attempt>>
    BY <1>6 DEF Tick
  <2>2. (Fits(attempt)' <=> Fits(attempt)) /\ Rest(attempt)' = Rest(attempt)
    BY <2>1 DEF Fits, Rest, Documented, Exponential
  <2>3. ASSUME pc = "sleep", Fits(attempt)
        PROVE  idle' + timer' >= Rest(attempt)
    <3>1. attempt \in Nat \ {0}
      BY <1>1, <2>3 DEF RetryInv, TriesLeft
    <3>2. /\ Rest(attempt) \in Nat /\ Rest(attempt) <= MaxDuration
          /\ idle + timer >= Rest(attempt)
      BY <1>2, <2>3, <3>1 DEF RestIsKept
    <3>3. QED
      BY <1>1, <2>1, <3>2
  <2>4. ASSUME pc = "head", attempt >= 1, Fits(attempt)
        PROVE  idle' >= Rest(attempt)
    <3>1. /\ Rest(attempt) \in Nat
          /\ idle >= Rest(attempt)
      BY <1>1, <1>2, <2>4 DEF RestIsKept
    <3>2. QED
      BY <1>1, <2>1, <3>1
  <2>5. QED
    BY <2>1, <2>2, <2>3, <2>4 DEF RestIsKept, ProviderIsSpared
<1>7. CASE EndContext \/ Done \/ UNCHANGED vars
  <2>1. UNCHANGED <<policy, pc, attempt, timer, idle>>
    BY <1>7 DEF EndContext, Done, vars
  <2>2. /\ Fits(attempt)' <=> Fits(attempt)
        /\ Fits(attempt - 1)' <=> Fits(attempt - 1)
        /\ Rest(attempt)' = Rest(attempt)
        /\ Rest(attempt - 1)' = Rest(attempt - 1)
    BY <2>1 DEF Fits, Rest, Documented, Exponential
  <2>3. QED
    BY <2>1, <2>2 DEF RestIsKept, ProviderIsSpared
<1>8. CASE GiveUp \/ CallSucceeds \/ Double \/ SleepCancelled
  BY <1>8
     DEF GiveUp, CallSucceeds, Double, SleepCancelled, Return, RestIsKept,
         ProviderIsSpared
<1>9. CASE CallFails
  BY <1>9 DEF CallFails, Return, RestIsKept, ProviderIsSpared
<1>10. QED
  BY <1>3, <1>4, <1>5, <1>6, <1>7, <1>8, <1>9 DEF Next, Step

(***************************************************************************)
(* Between two tries a provider is left alone for the documented backoff,  *)
(* or half of it with jitter, for every policy whose backoff fits and      *)
(* after any number of tries.                                              *)
(***************************************************************************)
THEOREM ProviderIsSparedHolds == Spec => []ProviderIsSpared
<1>1. Init => RestIsKept
  BY DEF Init, RestIsKept, ProviderIsSpared
<1>2. RestIsKept => ProviderIsSpared
  BY DEF RestIsKept
<1>3. QED
  BY <1>1, <1>2, RestStep, Invariance, DelayIsDoubledHolds, PTL DEF Spec
-----------------------------------------------------------------------------
(***************************************************************************)
(* Do inside the router.  RouterPc and what else RetryInRouter makes of    *)
(* the state of Do are the state of the only request; each of the lemmas   *)
(* takes one step of Do to the step of the router that it is.              *)
(***************************************************************************)
\* A function of the one request.
LEMMA OfTheRequest ==
    ASSUME NEW x, NEW y
    PROVE  [[r |-> x] EXCEPT !["r"] = y] = [r |-> y] /\ [r |-> x]["r"] = x
OBVIOUS

\* What the loop never touches.
LEMMA RouterKept ==
    ASSUME NEW n, UNCHANGED ctx
    PROVE  UNCHANGED <<In(n)!config, [l \in {} |-> 0], [r |-> ctx], [r |-> <<TheTarget>>],
                       [r |-> "noLimiter"], 0, [l \in {} |-> {}],
                       [r |-> IF ctx = "live" THEN 0 ELSE 1]>>
BY DEF In!config

LEMMA SameAttempts ==
    ASSUME NEW n, policy.maxAttempts = n
    PROVE  In(n)!Attempts = Attempts
BY DEF In!Attempts, Attempts

LEMMA Unfinished ==
    ASSUME TypeOK, pc # "done"
    PROVE  RouterPc \notin {"target"} /\ RouterPos = 1 /\ RouterFailures = <<>>
<1>1. RouterFailures = <<>>
  BY DEF RouterFailures
<1>2. CASE pc = "head"
  BY <1>1, <1>2 DEF RouterPc, RouterPos
<1>3. CASE pc # "head"
  BY <1>1, <1>3 DEF TypeOK, RouterPc, RouterPos
<1>4. QED
  BY <1>2, <1>3

LEMMA CallStarts ==
    ASSUME RetryInv, NEW n, policy.maxAttempts = n, Call
    PROVE  In(n)!StartCall("r")
<1>1. /\ pc = "head" /\ pc' = "calling" /\ ctx = "live" /\ attempt' = attempt + 1
      /\ UNCHANGED <<ctx, result>> /\ attempt \in Nat /\ attempt < Attempts
  BY AttemptsFacts DEF Call, RetryInv, TypeOK, TriesLeft
<1>2. /\ RouterPc = "attempt" /\ RouterPc' = "calling"
      /\ RouterPos = 1 /\ RouterPos' = 1
      /\ RouterFailures = <<>> /\ RouterFailures' = <<>>
  BY <1>1 DEF RouterPc, RouterPos, RouterFailures
<1>3. RouterCalls' = RouterCalls \cup {<<<<"r", 1>>, attempt'>>}
  <2>1. 1 .. attempt + 1 = (1 .. attempt) \cup {attempt + 1}
    BY <1>1
  <2>2. QED
    BY <1>1, <2>1 DEF RouterCalls
<1>4. [l \in {"noLimiter"} |-> RouterCalls]' =
        [[l \in {"noLimiter"} |-> RouterCalls] EXCEPT !["noLimiter"] =
            @ \cup {<<<<"r", 1>>, attempt'>>}]
  BY <1>3
<1>5. ~In(n)!Ended("r")
  BY <1>1, OfTheRequest DEF In!Ended
<1>6. QED
  BY <1>1, <1>2, <1>4, <1>5, SameAttempts, RouterKept, OfTheRequest DEF In!StartCall

\* An error that Do returns is what the router finishes the target with.
LEMMA TerminalIsTheRouters ==
    ASSUME NEW n, NEW err
    PROVE  In(n)!Terminal("r", err) <=> Terminal(err)
<1>1. In(n)!Ended("r") <=> ctx # "live"
  BY OfTheRequest DEF In!Ended
<1>2. In(n)!IsContextError(err) <=> err.cause \in ContextCauses
  BY DEF In!IsContextError, In!ContextCauses, ContextCauses
<1>3. QED
  BY <1>1, <1>2 DEF In!Terminal, Terminal

LEMMA ErrorFinishes ==
    ASSUME TypeOK, NEW n, NEW err, err # NoError, pc # "done", Return(err), UNCHANGED ctx
    PROVE  In(n)!Finish("r", err)
<1>1. pc' = "done" /\ result' = err /\ ctx' = ctx
  BY DEF Return
<1>2. RouterPos = 1 /\ RouterFailures = <<>>
  BY Unfinished
<1>3. RouterPc' = IF Terminal(err) THEN "routeError" ELSE "target"
  BY <1>1 DEF RouterPc, Terminal
<1>4. RouterPos' = IF Terminal(err) THEN 1 ELSE 2
  BY <1>3 DEF RouterPos
<1>5. RouterFailures' = <<[target |-> TheTarget, err |-> err]>>
  BY <1>1 DEF RouterFailures
<1>6. In(n)!Target("r") = TheTarget
  BY <1>2 DEF In!Target
<1>7. [r |-> RouterFailures]' = In(n)!Recorded("r", err)
  BY <1>2, <1>5, <1>6, OfTheRequest DEF In!Recorded
<1>8. CASE Terminal(err)
  BY <1>2, <1>3, <1>4, <1>7, <1>8, TerminalIsTheRouters, OfTheRequest DEF In!Finish
<1>9. CASE ~Terminal(err)
  <2>1. RouterPos' = RouterPos + 1 /\ RouterPc' = "target"
    BY <1>2, <1>3, <1>4, <1>9
  <2>2. [r |-> RouterPos'] = [[r |-> RouterPos] EXCEPT !["r"] = @ + 1]
    BY <2>1
  <2>3. In(n)!NextTarget("r", err)
    BY <1>7, <2>1, <2>2, OfTheRequest DEF In!NextTarget
  <2>4. QED
    BY <1>9, <2>3, TerminalIsTheRouters DEF In!Finish
<1>10. QED
  BY <1>8, <1>9

\* A failure of the try is one that the router expects.
LEMMA ErrorIsExpected ==
    ASSUME NEW n, NEW err \in FnErrors \cup {TransportError(c) : c \in {ctx} \ {"live"}}
    PROVE  err \in In(n)!CallErrors("r")
<1> DEFINE statuses == {e.status : e \in FnErrors}
<1>1. In(n)!CallErrors("r") = In(n)!ProviderFailures(ctx, statuses)
  BY OfTheRequest DEF In!CallErrors
<1>2. In(n)!ProviderFailures(ctx, statuses) = ProviderFailures(ctx, statuses)
  BY DEF In!ProviderFailures, ProviderFailures, In!HTTPError, HTTPError,
         In!PlainError, PlainError, In!TransportError, TransportError
<1>3. CASE err \in FnErrors
  <2>1. err \in ProviderFailures("live", statuses)
    BY <1>3, InRouterAssumption
  <2>2. err \in ProviderFailures(ctx, statuses)
    BY <2>1 DEF ProviderFailures
  <2>3. QED
    BY <2>2, <1>1, <1>2
<1>4. CASE err \in {TransportError(c) : c \in {ctx} \ {"live"}}
  BY <1>1, <1>2, <1>4 DEF ProviderFailures
<1>5. QED
  BY <1>3, <1>4

LEMMA RetryableIsTheRouters ==
    ASSUME NEW n, NEW err
    PROVE  In(n)!IsRetryable(err) <=> IsRetryable(err)
BY DEF In!IsRetryable, IsRetryable, In!RetryableStatus, RetryableStatus

LEMMA SuccessServes ==
    ASSUME RetryInv, NEW n, CallSucceeds
    PROVE  In(n)!ReturnOK("r")
<1>1. /\ pc = "calling" /\ pc' = "done" /\ result' = NoError
      /\ UNCHANGED <<ctx, attempt>> /\ TypeOK
  BY DEF CallSucceeds, Return, RetryInv
<1>2. /\ RouterPc = "calling" /\ RouterPos = 1 /\ RouterFailures = <<>>
  BY <1>1, Unfinished DEF RouterPc
<1>3. RouterPc' = "served"
  BY <1>1 DEF RouterPc
<1>4. RouterPos' = 1 /\ RouterFailures' = <<>> /\ RouterCalls' = RouterCalls
  BY <1>1, <1>3 DEF RouterPos, RouterFailures, RouterCalls
<1>5. QED
  BY <1>1, <1>2, <1>3, <1>4, RouterKept, OfTheRequest DEF In!ReturnOK, In!history

LEMMA FailureIsTheRouters ==
    ASSUME RetryInv, NEW n, policy.maxAttempts = n, CallFails
    PROVE  In(n)!ReturnError("r")
<1>1. /\ pc = "calling" /\ UNCHANGED <<policy, attempt, ctx>> /\ TypeOK
  BY DEF CallFails, RetryInv
<1>2. RouterPc = "calling" /\ RouterPos = 1 /\ RouterFailures = <<>>
  BY <1>1, Unfinished DEF RouterPc
<1>3. PICK err \in FnErrors \cup {TransportError(c) : c \in {ctx} \ {"live"}} :
         IF TriesAgain(err)
         THEN pc' = "double" /\ UNCHANGED result
         ELSE Return(err)
  BY DEF CallFails
<1>4. RouterCalls' = RouterCalls
  BY <1>1 DEF RouterCalls
<1>5. In(n)!TriesAgain("r", err) <=> TriesAgain(err)
  BY SameAttempts, RetryableIsTheRouters, OfTheRequest DEF In!TriesAgain, TriesAgain
<1>6. CASE TriesAgain(err)
  <2>1. pc' = "double" /\ RouterPc' = "backoff"
    BY <1>3, <1>6 DEF RouterPc
  <2>2. RouterPos' = 1 /\ RouterFailures' = <<>>
    BY <2>1 DEF RouterPos, RouterFailures
  <2>3. QED
    BY <1>1, <1>2, <1>4, <1>5, <1>6, <2>1, <2>2, ErrorIsExpected, RouterKept, OfTheRequest
    DEF In!ReturnError, In!history
<1>7. CASE ~TriesAgain(err)
  <2>1. err # NoError
    BY RetryAssumption DEF NoError, TransportError, Errors
  <2>2. In(n)!Finish("r", err)
    BY <1>1, <1>3, <1>7, <2>1, ErrorFinishes
  <2>3. QED
    BY <1>1, <1>2, <1>4, <1>5, <1>7, <2>2, ErrorIsExpected, RouterKept, OfTheRequest
    DEF In!ReturnError, In!history
<1>8. QED
  BY <1>6, <1>7

LEMMA GivingUpIsTheRouters ==
    ASSUME RetryInv, NEW n, policy.maxAttempts = n, GiveUp
    PROVE  In(n)!GiveUpBeforeCall("r")
<1>1. /\ pc = "head" /\ ctx # "live" /\ Return(ContextError(ctx))
      /\ UNCHANGED <<policy, attempt, ctx>> /\ TypeOK
      /\ attempt \in Nat /\ attempt < Attempts
  BY AttemptsFacts DEF GiveUp, RetryInv, TypeOK, TriesLeft
<1>2. RouterPc = "attempt" /\ RouterCalls' = RouterCalls
  BY <1>1 DEF RouterPc, RouterCalls
<1>3. ContextError(ctx) # NoError /\ In(n)!ContextError(ctx) = ContextError(ctx)
  BY DEF ContextError, NoError, In!ContextError
<1>4. In(n)!Finish("r", ContextError(ctx))
  BY <1>1, <1>3, ErrorFinishes
<1>5. In(n)!Ended("r")
  BY <1>1, OfTheRequest DEF In!Ended
<1>6. QED
  BY <1>1, <1>2, <1>3, <1>4, <1>5, SameAttempts, RouterKept, OfTheRequest
  DEF In!GiveUpBeforeCall, In!history

LEMMA CancelledSleepIsTheRouters ==
    ASSUME RetryInv, NEW n, SleepCancelled
    PROVE  In(n)!BackoffCancelled("r")
<1>1. /\ pc = "sleep" /\ ctx # "live" /\ Return(ContextError(ctx))
      /\ UNCHANGED <<policy, attempt, ctx>> /\ TypeOK
  BY DEF SleepCancelled, RetryInv
<1>2. RouterPc = "backoff" /\ RouterCalls' = RouterCalls
  BY <1>1 DEF RouterPc, RouterCalls
<1>3. ContextError(ctx) # NoError /\ In(n)!ContextError(ctx) = ContextError(ctx)
  BY DEF ContextError, NoError, In!ContextError
<1>4. In(n)!Finish("r", ContextError(ctx))
  BY <1>1, <1>3, ErrorFinishes
<1>5. In(n)!Ended("r")
  BY <1>1, OfTheRequest DEF In!Ended
<1>6. QED
  BY <1>1, <1>2, <1>3, <1>4, <1>5, RouterKept, OfTheRequest
  DEF In!BackoffCancelled, In!history

\* The loop reaches its head again when the backoff is over, also when it had
\* nothing to sleep for.
LEMMA HeadEndsBackoff ==
    ASSUME RetryInv, NEW n, pc \in {"double", "sleep"}, pc' = "head",
           UNCHANGED <<attempt, ctx>>
    PROVE  In(n)!BackoffElapses("r")
<1>1. RouterPc = "backoff" /\ RouterPos = 1 /\ RouterFailures = <<>>
  BY Unfinished DEF RouterPc, RetryInv
<1>2. RouterPc' = "attempt" /\ RouterCalls' = RouterCalls
  BY DEF RouterPc, RouterCalls
<1>3. RouterPos' = 1 /\ RouterFailures' = <<>>
  BY <1>2 DEF RouterPos, RouterFailures
<1>4. QED
  BY <1>1, <1>2, <1>3, RouterKept, OfTheRequest DEF In!BackoffElapses, In!history

LEMMA ContextEndIsTheRouters ==
    ASSUME RetryInv, NEW n, EndContext
    PROVE  In(n)!EndContext("r", ctx')
<1>1. /\ ctx = "live" /\ ctx' \in ContextCauses /\ pc # "done"
      /\ UNCHANGED <<pc, attempt, result>> /\ TypeOK
  BY DEF EndContext, RetryInv
<1>2. RouterPc \in {"attempt", "calling", "backoff"} /\ RouterPc' = RouterPc
  BY <1>1 DEF RouterPc, TypeOK
<1>3. /\ RouterPos = 1 /\ RouterPos' = 1 /\ RouterFailures' = RouterFailures
      /\ RouterCalls' = RouterCalls
  BY <1>1, <1>2 DEF RouterPos, RouterFailures, RouterCalls
<1>4. ctx' # "live"
  BY <1>1 DEF ContextCauses
<1>5. QED
  BY <1>1, <1>2, <1>3, <1>4, OfTheRequest
  DEF In!EndContext, In!Ended, In!Working, In!config, In!local, In!history

\* Do goes on and the router does not notice.
RouterStutters == UNCHANGED <<RouterPc, ctx, attempt, result>>

LEMMA SleepIsTheRouters ==
    ASSUME RetryInv, NEW n, pc = "double", NEW d, Sleep(d)
    PROVE  In(n)!BackoffElapses("r") \/ RouterStutters
<1>1. pc' \in {"head", "sleep"} /\ UNCHANGED <<attempt, ctx, result>>
  BY DEF Sleep
<1>2. CASE pc' = "head"
  BY <1>1, <1>2, HeadEndsBackoff
<1>3. CASE pc' = "sleep"
  BY <1>1, <1>3 DEF RouterStutters, RouterPc
<1>4. QED
  BY <1>1, <1>2, <1>3

LEMMA StepIsTheRouters ==
    ASSUME RetryInv, [Next]_vars, NEW n, policy.maxAttempts = n
    PROVE  In(n)!Serve \/ RouterStutters
<1> SUFFICES ASSUME ~RouterStutters
             PROVE  \/ In(n)!Step("r")
                    \/ \E c \in ContextCauses : In(n)!EndContext("r", c)
  BY DEF In!Serve
<1>1. CASE GiveUp
  BY <1>1, GivingUpIsTheRouters DEF In!Step
<1>2. CASE Call
  BY <1>2, CallStarts DEF In!Step
<1>3. CASE CallSucceeds
  BY <1>3, SuccessServes DEF In!Step
<1>4. CASE CallFails
  BY <1>4, FailureIsTheRouters DEF In!Step
<1>5. CASE Double
  BY <1>5 DEF Double, RouterStutters, RouterPc
<1>6. CASE BreakAtCap
  BY <1>6, SleepIsTheRouters DEF BreakAtCap, In!Step
<1>7. CASE Doubled
  BY <1>7, SleepIsTheRouters DEF Doubled, In!Step
<1>8. CASE TimerFires
  BY <1>8, HeadEndsBackoff DEF TimerFires, In!Step
<1>9. CASE SleepCancelled
  BY <1>9, CancelledSleepIsTheRouters DEF In!Step
<1>10. CASE EndContext
  <2>1. ctx' \in ContextCauses
    BY <1>10 DEF EndContext
  <2>2. QED
    BY <1>10, <2>1, ContextEndIsTheRouters
<1>11. CASE Tick
  BY <1>11 DEF Tick, RouterStutters, RouterPc, Terminal
<1>12. CASE UNCHANGED vars
  BY <1>12 DEF vars, RouterStutters, RouterPc, Terminal
<1>13. QED
  BY <1>1, <1>2, <1>3, <1>4, <1>5, <1>6, <1>7, <1>8, <1>9, <1>10, <1>11, <1>12
  DEF Next, Step, Done

(***************************************************************************)
(* One call of Do is the retry loop of the router, for every set of        *)
(* policies, all errors of fn and every width of a Duration: each of its   *)
(* steps is one of the router's or nothing that the router sees, with      *)
(* delays that are capped, jittered, overflow or are no delays at all.     *)
(***************************************************************************)
THEOREM RetryRefines == Spec => RetryIsTheRouters
<1>1. RetryInv /\ [Next]_vars
        => [\A n \in {p.maxAttempts : p \in Policies} :
               policy.maxAttempts = n => In(n)!Serve]_<<RouterPc, ctx, attempt, result>>
  BY StepIsTheRouters DEF RouterStutters
<1>2. QED
  BY <1>1, Invariance, PTL DEF Spec, RetryIsTheRouters
=============================================================================
