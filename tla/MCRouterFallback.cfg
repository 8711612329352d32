\* Two requests take the default route, whose first provider is not registered;
\* a policy that disables retrying (MaxAttempts = 0) still tries once, and the
\* limiter is the one that New makes of (0, 0).
CONSTANTS
    RatePerSecond = 0
    BurstSize = 0
    TicksPerSecond = 1
    MaxAge = 1
    Requests = {r1, r2}
    Models <- OneModel
    ModelOf <- AskForChat
    Providers <- ThreeProviders
    Chains <- LongChains
    Limiters = {l1}
    NoLimiter = NoLimiter
    NoRoute = NoRoute
    MaxAttempts = 0
    FailsOver <- IsRetryable
    Statuses = {400, 503}
    EndCauses = {"canceled"}
    MaxClock = 1
SPECIFICATION FallbackSpec
INVARIANTS
    EndedContextStopsFailover
PROPERTIES
    Termination
    KeepsPromise
