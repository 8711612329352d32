---------------------------- MODULE TokenBucket -----------------------------
(***************************************************************************)
(* ratelimit.Limiter under concurrent callers.  Allow is called by any     *)
(* number of anonymous goroutines; each waiter of Waiters makes one call   *)
(* of Wait with a context of its own.  Every critical section of l.mu is   *)
(* one step.                                                               *)
(*                                                                         *)
(* An observer watches a window of time: it opens one whenever it likes    *)
(* and counts the ticks that pass and the tokens that are taken while the  *)
(* window is open.  Its two variables are history: no action of the        *)
(* limiter reads them.                                                     *)
(***************************************************************************)
EXTENDS Bucket

CONSTANTS
    Waiters,    \* the goroutines that call Wait
    MaxWindow   \* length at which the observer starts a new window

ASSUME WindowAssumption == MaxWindow \in Nat \ {0}

VARIABLES
    bucket,         \* rate, burst, tokens and last of the Limiter
    pc,             \* where each waiter is in Wait
    timer,          \* ticks until each waiter's timer fires
    ctx,            \* whether each waiter's context is cancelled
    windowElapsed,  \* ticks since the window was opened
    windowTaken     \* tokens taken since the window was opened

window == <<windowElapsed, windowTaken>>
vars   == <<bucket, pc, timer, ctx, windowElapsed, windowTaken>>

TypeOK ==
    /\ bucket \in Buckets
    /\ pc \in [Waiters -> {"idle", "check", "sleep", "granted", "cancelled"}]
    /\ timer \in [Waiters -> Nat]
    /\ ctx \in [Waiters -> {"live", "canceled"}]
    /\ windowElapsed \in 0 .. MaxWindow
    /\ windowTaken \in Nat

Init ==
    /\ bucket = FullBucket
    /\ pc = [w \in Waiters |-> "idle"]
    /\ timer = [w \in Waiters |-> 0]
    /\ ctx = [w \in Waiters |-> "live"]
    /\ windowElapsed = 0
    /\ windowTaken = 0
-----------------------------------------------------------------------------
\* The two ways a critical section can end.
Take ==
    /\ HasToken(bucket)
    /\ bucket' = TakeToken(bucket)
    /\ windowTaken' = windowTaken + 1
    /\ UNCHANGED windowElapsed

Deny ==
    /\ ~HasToken(bucket)
    /\ bucket' = Refill(bucket)
    /\ UNCHANGED window

\* Any number of goroutines call Allow.
Allow ==
    /\ Take \/ Deny
    /\ UNCHANGED <<pc, timer, ctx>>

StartWait(w) ==
    /\ pc[w] = "idle"
    /\ pc' = [pc EXCEPT ![w] = "check"]
    /\ UNCHANGED <<bucket, timer, ctx, windowElapsed, windowTaken>>

\* One turn of the loop of Wait, up to the select.
CheckGrant(w) ==
    /\ pc[w] = "check"
    /\ Take
    /\ pc' = [pc EXCEPT ![w] = "granted"]
    /\ UNCHANGED <<timer, ctx>>

CheckSleep(w) ==
    /\ pc[w] = "check"
    /\ Deny
    /\ timer' = [timer EXCEPT ![w] = WaitTime(bucket')]
    /\ pc' = [pc EXCEPT ![w] = "sleep"]
    /\ UNCHANGED ctx

\* The two branches of the select; either may be chosen when both are ready.
TimerFires(w) ==
    /\ pc[w] = "sleep"
    /\ timer[w] = 0
    /\ pc' = [pc EXCEPT ![w] = "check"]
    /\ UNCHANGED <<bucket, timer, ctx, windowElapsed, windowTaken>>

WaitCancelled(w) ==
    /\ pc[w] = "sleep"
    /\ ctx[w] # "live"
    /\ pc' = [pc EXCEPT ![w] = "cancelled"]
    /\ timer' = [timer EXCEPT ![w] = 0]
    /\ UNCHANGED <<bucket, ctx, windowElapsed, windowTaken>>

\* The environment: callers give up, time passes, the observer looks away.
CancelContext(w) ==
    /\ ctx[w] = "live"
    /\ ctx' = [ctx EXCEPT ![w] = "canceled"]
    /\ UNCHANGED <<bucket, pc, timer, windowElapsed, windowTaken>>

Tick ==
    /\ bucket' = Older(bucket)
    /\ timer' = [w \in Waiters |-> IF timer[w] > 0 THEN timer[w] - 1 ELSE 0]
    /\ IF windowElapsed < MaxWindow
       THEN windowElapsed' = windowElapsed + 1 /\ UNCHANGED windowTaken
       ELSE windowElapsed' = 0 /\ windowTaken' = 0
    /\ UNCHANGED <<pc, ctx>>

OpenWindow ==
    /\ windowElapsed' = 0
    /\ windowTaken' = 0
    /\ UNCHANGED <<bucket, pc, timer, ctx>>

WaitStep(w) ==
    CheckGrant(w) \/ CheckSleep(w) \/ TimerFires(w) \/ WaitCancelled(w)

Next ==
    \/ Allow
    \/ \E w \in Waiters : StartWait(w) \/ WaitStep(w) \/ CancelContext(w)
    \/ Tick
    \/ OpenWindow

\* Goroutines are scheduled and the clock advances; nobody has to call Wait,
\* to cancel a context or to observe.
Fairness ==
    /\ \A w \in Waiters : WF_vars(WaitStep(w))
    /\ WF_vars(Tick)

Spec == Init /\ [][Next]_vars /\ Fairness
-----------------------------------------------------------------------------
(***************************************************************************)
(* The promise of a token bucket: over any window of time the limiter      *)
(* admits no more than a burst plus what the rate accrues in the window,   *)
(* however Allow and Wait interleave and however the refills fall.         *)
(***************************************************************************)
WindowBound ==
    windowTaken * Token <= Capacity + Rate * windowElapsed

(***************************************************************************)
(* WindowBound is not inductive: it does not say what is still in the      *)
(* bucket.  Either the bucket was not touched since the window was opened  *)
(* (and then nothing was taken), or what was taken, what is left and what  *)
(* the next refill will add fit into the allowance of the window.          *)
(***************************************************************************)
WindowLedger ==
    \/ bucket.age > windowElapsed /\ windowTaken = 0
    \/ bucket.tokens + windowTaken * Token + Rate * bucket.age
            <= Capacity + Rate * windowElapsed

(***************************************************************************)
(* Wait never oversleeps: once a token can be had, no waiter is bound to   *)
(* sleep for longer than the minimal wait, whatever the others took while  *)
(* it slept (the wait is computed from the deficit, then the lock is       *)
(* dropped).                                                               *)
(***************************************************************************)
NoOversleep ==
    \A w \in Waiters :
        pc[w] = "sleep" /\ HasToken(bucket) => timer[w] <= 1

(***************************************************************************)
(* Every call of Wait returns, unless callers of Allow take tokens for     *)
(* ever: the truncated sleep may have to be repeated, and waiters and      *)
(* refused calls of Allow refill the bucket in between, but the loop ends. *)
(***************************************************************************)
AllowTakes == windowTaken' > windowTaken /\ UNCHANGED pc

WaitReturns ==
    \/ []<><<AllowTakes>>_vars
    \/ \A w \in Waiters :
           pc[w] = "check" ~> pc[w] \in {"granted", "cancelled"}
=============================================================================
