-------------------------------- MODULE Retry ---------------------------------
(***************************************************************************)
(* internal/retry: one call of Do with its exponential backoff, in time.   *)
(* Router leaves the length of a backoff open; here it is computed as the  *)
(* code does, one turn of the loop at a time.                              *)
(*                                                                         *)
(* Durations are signed integers of a fixed width, whose largest value is  *)
(* MaxDuration: int64 nanoseconds in the code, few ticks in an instance.   *)
(* "idle" counts the ticks for which the provider was left alone and       *)
(* saturates at MaxDuration.                                               *)
(***************************************************************************)
EXTENDS ProviderErrors

CONSTANTS
    Policies,     \* the policies that Do may be called with
    FnErrors,     \* the errors that fn may return while the context lives
    MaxDuration   \* the largest Duration

Durations == -MaxDuration - 1 .. MaxDuration

ASSUME RetryAssumption ==
    /\ MaxDuration \in Nat \ {0}
    /\ Policies \subseteq [maxAttempts : Int, baseDelay : Durations,
                           maxDelay : Durations, jitter : BOOLEAN]
    /\ FnErrors \subseteq Errors
    /\ \A err \in FnErrors : err.kind # "context"

VARIABLES
    policy,   \* p
    pc,       \* where Do is
    attempt,  \* the tries that were begun
    i,        \* of the loop in backoff
    delay,    \* of backoff
    timer,    \* ticks until the timer of sleep fires
    idle,     \* ticks since the last try returned; stands still during a try
    ctx,      \* ctx.Err()
    result    \* what Do returned

vars == <<policy, pc, attempt, i, delay, timer, idle, ctx, result>>

NoError == [kind |-> "nil", status |-> 0, cause |-> "none"]

\* A MaxAttempts below one still means one try.
Attempts == IF policy.maxAttempts < 1 THEN 1 ELSE policy.maxAttempts

TypeOK ==
    /\ policy \in Policies
    /\ pc \in {"head", "calling", "double", "sleep", "done"}
    /\ attempt \in 0 .. Attempts
    /\ i \in 1 .. Attempts
    /\ delay \in Durations
    /\ timer \in 0 .. MaxDuration
    /\ idle \in 0 .. MaxDuration
    /\ ctx \in {"live"} \cup ContextCauses
    /\ result \in Errors \cup {NoError}

Init ==
    /\ policy \in Policies
    /\ pc = "head"
    /\ attempt = 0
    /\ i = 1
    /\ delay = 0
    /\ timer = 0
    /\ idle = 0
    /\ ctx = "live"
    /\ result = NoError

Return(err) == pc' = "done" /\ result' = err
-----------------------------------------------------------------------------
(* Do.                                                                     *)

GiveUp ==
    /\ pc = "head"
    /\ ctx # "live"
    /\ Return(ContextError(ctx))
    /\ UNCHANGED <<policy, attempt, i, delay, timer, idle, ctx>>

\* Mutant: the tries are not counted.
CallUncounted ==
    /\ pc = "head"
    /\ ctx = "live"
    /\ pc' = "calling"
    /\ UNCHANGED <<policy, attempt, i, delay, timer, idle, ctx, result>>

\* The last try ends the loop by itself, so the head is only reached with
\* tries left.
Call ==
    /\ pc = "head"
    /\ ctx = "live"
    /\ attempt' = attempt + 1
    /\ pc' = "calling"
    /\ UNCHANGED <<policy, i, delay, timer, idle, ctx, result>>

CallSucceeds ==
    /\ pc = "calling"
    /\ Return(NoError)
    /\ UNCHANGED <<policy, attempt, i, delay, timer, idle, ctx>>

\* Mutant: the last try is like the others.
TriesAgainAlways(err) == IsRetryable(err)

TriesAgain(err) == IsRetryable(err) /\ attempt # Attempts

CallFails ==
    /\ pc = "calling"
    /\ \E err \in FnErrors \cup {TransportError(c) : c \in {ctx} \ {"live"}} :
         IF TriesAgain(err)
         THEN /\ pc' = "double"
              /\ delay' = policy.baseDelay
              /\ i' = 1
              /\ UNCHANGED result
         ELSE Return(err) /\ UNCHANGED <<i, delay>>
    /\ idle' = 0
    /\ UNCHANGED <<policy, attempt, timer, ctx>>
-----------------------------------------------------------------------------
(* Policy.backoff and sleep.                                               *)

\* Two's complement: what is too large comes round as a negative number.
Wrap(d) == IF d > MaxDuration THEN d - 2 * (MaxDuration + 1)
           ELSE IF d < -MaxDuration - 1 THEN d + 2 * (MaxDuration + 1)
           ELSE d

ExceedsCap(d) == policy.maxDelay > 0 /\ d > policy.maxDelay

\* Mutant: the cap is left to the loop.
NotCapped(d) == d

\* The cap at the end, for a delay that was not doubled.
Capped(d) == IF policy.maxDelay > 0 /\ d > policy.maxDelay THEN policy.maxDelay ELSE d

\* Mutant: the random part is as large as the whole delay.
JitteredTooFar(d) ==
    IF policy.jitter /\ d > 0 THEN d \div 2 .. d \div 2 + d ELSE {d}

\* What jitter may make of a delay; of a delay of one it makes none.
Jittered(d) ==
    IF policy.jitter /\ d > 0 THEN d \div 2 .. 2 * (d \div 2) ELSE {d}

\* backoff returns, and sleep sets a timer if there is time to wait.
Sleep(d) ==
    /\ \E t \in Jittered(d) :
         IF t <= 0 THEN pc' = "head"  /\ timer' = 0
                   ELSE pc' = "sleep" /\ timer' = t
    /\ delay' = d
    /\ UNCHANGED <<policy, attempt, i, idle, ctx, result>>

Double ==
    /\ pc = "double"
    /\ i < attempt
    /\ ~ExceedsCap(Wrap(2 * delay))
    /\ delay' = Wrap(2 * delay)
    /\ i' = i + 1
    /\ UNCHANGED <<policy, pc, attempt, timer, idle, ctx, result>>

BreakAtCap ==
    /\ pc = "double"
    /\ i < attempt
    /\ ExceedsCap(Wrap(2 * delay))
    /\ Sleep(policy.maxDelay)

\* Mutant: one turn less.
DoubledOnceLess ==
    /\ pc = "double"
    /\ i + 1 >= attempt
    /\ Sleep(Capped(delay))

Doubled ==
    /\ pc = "double"
    /\ i = attempt
    /\ Sleep(Capped(delay))

\* The select of sleep; either branch when both are ready.
TimerFires ==
    /\ pc = "sleep"
    /\ timer = 0
    /\ pc' = "head"
    /\ UNCHANGED <<policy, attempt, i, delay, timer, idle, ctx, result>>

\* Mutant: the error of the last try is returned in place of the context's.
SleepCancelledWithLastError ==
    /\ pc = "sleep"
    /\ ctx # "live"
    /\ Return(TransportError("none"))
    /\ timer' = 0
    /\ UNCHANGED <<policy, attempt, i, delay, idle, ctx>>

SleepCancelled ==
    /\ pc = "sleep"
    /\ ctx # "live"
    /\ Return(ContextError(ctx))
    /\ timer' = 0
    /\ UNCHANGED <<policy, attempt, i, delay, idle, ctx>>
-----------------------------------------------------------------------------
(* The environment.                                                        *)

EndContext ==
    /\ ctx = "live"
    /\ pc # "done"
    /\ ctx' \in ContextCauses
    /\ UNCHANGED <<policy, pc, attempt, i, delay, timer, idle, result>>

Tick ==
    /\ pc \notin {"calling", "done"}
    /\ timer' = IF timer > 0 THEN timer - 1 ELSE 0
    /\ idle' = IF idle < MaxDuration THEN idle + 1 ELSE idle
    /\ UNCHANGED <<policy, pc, attempt, i, delay, ctx, result>>

Done == pc = "done" /\ UNCHANGED vars

Step ==
    \/ GiveUp
    \/ Call
    \/ CallSucceeds
    \/ CallFails
    \/ Double
    \/ BreakAtCap
    \/ Doubled
    \/ TimerFires
    \/ SleepCancelled

Next == Step \/ EndContext \/ Tick \/ Done

\* The goroutine is scheduled, the HTTP client's timeout ends every call of
\* fn, and the clock advances.
Spec == Init /\ [][Next]_vars /\ WF_vars(Step) /\ WF_vars(Tick)
-----------------------------------------------------------------------------
(***************************************************************************)
(* The backoff that a policy documents: "the backoff before the second     *)
(* attempt; it doubles each time", and "MaxDelay caps the backoff".  It    *)
(* can be had if the doubling never overflows a Duration: the code doubles *)
(* first and looks at the cap afterwards.                                  *)
(***************************************************************************)
Power[n \in Nat] == IF n = 0 THEN 1 ELSE 2 * Power[n - 1]

Exponential(n) == policy.baseDelay * Power[n - 1]

Documented(n) ==
    IF policy.maxDelay > 0 /\ Exponential(n) > policy.maxDelay
    THEN policy.maxDelay ELSE Exponential(n)

Fits(n) ==
    /\ policy.baseDelay >= 0
    /\ IF policy.maxDelay > 0
       THEN 2 * policy.maxDelay <= MaxDuration /\ 2 * policy.baseDelay <= MaxDuration
       ELSE Exponential(n) <= MaxDuration

(***************************************************************************)
(* No sleep outlasts a positive MaxDelay: neither before the first retry,  *)
(* which no doubling precedes, nor when the doubling overflows.            *)
(***************************************************************************)
SleepIsCapped ==
    pc = "sleep" /\ policy.maxDelay > 0 => timer <= policy.maxDelay

(***************************************************************************)
(* No sleep is longer than the documented backoff of the tries so far.     *)
(***************************************************************************)
SleepIsBounded ==
    pc = "sleep" /\ Fits(attempt) => timer <= Documented(attempt)

(***************************************************************************)
(* A provider that fails is spared: between the end of one try and the     *)
(* beginning of the next it is left alone for the documented backoff, or   *)
(* for half of it with jitter, however often the delay was doubled.        *)
(***************************************************************************)
Rest(n) == IF policy.jitter THEN Documented(n) \div 2 ELSE Documented(n)

ProviderIsSpared ==
    pc = "calling" /\ attempt > 1 /\ Fits(attempt - 1) => idle >= Rest(attempt - 1)

(***************************************************************************)
(* "It stops early on a non-retryable error, on success, or when ctx is    *)
(* cancelled.  The last error is returned when attempts are exhausted":    *)
(* an error that another try could mend is returned only after all of      *)
(* them, a context is blamed only if it ended, and only it can make Do     *)
(* return without a try.                                                   *)
(***************************************************************************)
ResultIsDue ==
    pc = "done" =>
        /\ IsRetryable(result) => attempt = Attempts
        /\ result.kind = "context" => result.cause = ctx
        /\ attempt = 0 => result.kind = "context"

(***************************************************************************)
(* Do returns, whatever the policy: also without a single try allowed,     *)
(* with negative delays and with delays that overflow.                     *)
(***************************************************************************)
DoReturns == <>(pc = "done")
=============================================================================
