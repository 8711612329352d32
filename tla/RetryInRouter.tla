--------------------------- MODULE RetryInRouter ----------------------------
(***************************************************************************)
(* Router runs retry.Do around every provider call and leaves open how     *)
(* long it takes; Retry computes every delay.  This module puts one call   *)
(* of Do into the router, as the only request on its only target without a *)
(* limiter, and states that the two agree.                                 *)
(***************************************************************************)
EXTENDS Retry, Sequences

\* What Do runs here is the Chat of a provider.
ASSUME InRouterAssumption ==
    FnErrors \subseteq ProviderFailures("live", {err.status : err \in FnErrors})

TheTarget == [provider |-> "p", model |-> "m"]

\* What Chat makes of the error that Do returns.
Terminal(err) == ctx # "live" \/ err.cause \in ContextCauses \/ ~IsRetryable(err)

RouterPc ==
    IF pc = "head" THEN "attempt"
    ELSE IF pc = "calling" THEN "calling"
    ELSE IF pc \in {"double", "sleep"} THEN "backoff"
    ELSE IF result = NoError THEN "served"
    ELSE IF Terminal(result) THEN "routeError"
    ELSE "target"

RouterPos      == IF RouterPc = "target" THEN 2 ELSE 1
RouterCalls    == {<<<<"r", 1>>, k>> : k \in 1 .. attempt}
RouterFailures ==
    IF pc = "done" /\ result # NoError THEN <<[target |-> TheTarget, err |-> result]>>
    ELSE <<>>

\* The router with n for the MaxAttempts of its policy.
In(n) == INSTANCE Router WITH
    RatePerSecond <- 1, BurstSize <- 1, TicksPerSecond <- 1, MaxAge <- 1,
    Requests <- {"r"}, Models <- {"m"}, ModelOf <- [r |-> "m"],
    Providers <- {"p"}, Chains <- {<<>>, <<TheTarget>>},
    Limiters <- {}, NoLimiter <- "noLimiter", NoRoute <- "noRoute",
    MaxAttempts <- n, FailsOver <- IsRetryable,
    Statuses <- {err.status : err \in FnErrors},
    EndCauses <- ContextCauses, MaxClock <- 0,
    registered <- {"p"},
    limiters   <- [p |-> "noLimiter"],
    routes     <- [m |-> <<TheTarget>>],
    fallback   <- <<>>,
    buckets    <- [l \in {} |-> 0],
    pc         <- [r |-> RouterPc],
    ctx        <- [r |-> ctx],
    chain      <- [r |-> <<TheTarget>>],
    pos        <- [r |-> RouterPos],
    limiter    <- [r |-> "noLimiter"],
    attempt    <- [r |-> attempt],
    failures   <- [r |-> RouterFailures],
    clock      <- 0,
    grants     <- [l \in {} |-> {}],
    calls      <- [l \in {"noLimiter"} |-> RouterCalls],
    endedAt    <- [r |-> IF ctx = "live" THEN 0 ELSE 1]

(***************************************************************************)
(* Whatever Do does in time, with whatever delays, is what the router      *)
(* takes it to do: every step is one of its steps or leaves its state as   *)
(* it is.                                                                  *)
(***************************************************************************)
RetryIsTheRouters ==
    [][\A n \in {p.maxAttempts : p \in Policies} :
           policy.maxAttempts = n => In(n)!Serve]_<<RouterPc, ctx, attempt, result>>
=============================================================================
