\* One request whose calls are all retried.
CONSTANTS
    RatePerSecond = 1
    BurstSize = 1
    TicksPerSecond = 2
    MaxAge = 2
    Requests = {r1}
    Models <- OneModel
    ModelOf <- AskForChat
    Providers <- TwoProviders
    Chains <- ServingChains
    Limiters = {l1}
    NoLimiter = NoLimiter
    NoRoute = NoRoute
    MaxAttempts = 2
    FailsOver <- IsRetryable
    Statuses = {400, 503}
    EndCauses = {"canceled"}
    MaxClock = 3
SPECIFICATION ServingSpec
INVARIANTS
    RequestBudget
