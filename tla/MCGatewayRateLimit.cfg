\* One request in a well configured process.
CONSTANTS
    RatePerSecond = 1
    BurstSize = 1
    TicksPerSecond = 1
    MaxAge = 1
    Requests = {r1}
    Models <- ChatModel
    ModelOf <- AskForChat
    Providers <- Backends
    Chains <- GoodChains
    Limiters <- NoLimiters
    NoLimiter = NoLimiter
    NoRoute = NoRoute
    MaxAttempts = 1
    FailsOver <- IsRetryable
    Statuses = {400, 504}
    EndCauses = {"canceled"}
    MaxClock = 0
    Environments <- GoodEnvironments
    EchoedModels <- Snapshots
    Usages <- OneUsage
SPECIFICATION GatewaySpec
INVARIANTS
    CallsAreRateLimited
