\* One request in every environment, with clients that leave, deadlines that pass,
\* a listener that fails and signals.
CONSTANTS
    RatePerSecond = 1
    BurstSize = 1
    TicksPerSecond = 1
    MaxAge = 1
    Requests = {r1}
    Models <- TwoModels
    ModelOf <- AskForChat
    Providers <- Backends
    Chains <- AllChains
    Limiters <- NoLimiters
    NoLimiter = NoLimiter
    NoRoute = NoRoute
    MaxAttempts = 2
    FailsOver <- IsRetryable
    Statuses = {99, 408, 504}
    EndCauses = {"canceled"}
    MaxClock = 0
    Environments <- AllEnvironments
    EchoedModels <- Snapshots
    Usages <- AnyUsage
SPECIFICATION GatewaySpec
INVARIANTS
    GatewayTypeOK
    AnswersTellTheTruth
    NoTargetIsMissing
    BillsAreRight
PROPERTIES
    HandlersFinish
