\* One request, while providers, limiters and routes come and go; the failover
\* predicate is not the default one.
CONSTANTS
    RatePerSecond = 1
    BurstSize = 1
    TicksPerSecond = 2
    MaxAge = 2
    Requests = {r1}
    Models <- OneModel
    ModelOf <- AskForChat
    Providers <- TwoProviders
    Chains <- LibraryChains
    Limiters = {l1}
    NoLimiter = NoLimiter
    NoRoute = NoRoute
    MaxAttempts = 2
    FailsOver <- PlainErrorsToo
    Statuses = {400, 503}
    EndCauses = {"canceled"}
    MaxClock = 2
SPECIFICATION Spec
INVARIANTS
    TokensAreSpent
PROPERTIES
    ComesToAnEnd
    KeepsPromise
