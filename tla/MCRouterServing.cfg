\* Two requests share a limited primary, which their chain names twice with an
\* unlimited secondary between; the limiter starts with one token and refills
\* another in two ticks, so that requests are admitted, denied and admitted again.
CONSTANTS
    RatePerSecond = 1
    BurstSize = 1
    TicksPerSecond = 2
    MaxAge = 2
    Requests = {r1, r2}
    Models <- OneModel
    ModelOf <- AskForChat
    Providers <- TwoProviders
    Chains <- ServingChains
    Limiters = {l1}
    NoLimiter = NoLimiter
    NoRoute = NoRoute
    MaxAttempts = 2
    FailsOver <- IsRetryable
    Statuses = {400, 503}
    EndCauses = {"canceled", "deadline"}
    MaxClock = 3
SPECIFICATION ServingSpec
SYMMETRY RequestSymmetry
INVARIANTS
    TypeOK
    LimiterLedger
    UpstreamBudget
