\* Every small policy.
CONSTANTS
    Policies <- SmallPolicies
    FnErrors <- SomeErrors
    MaxDuration = 15
SPECIFICATION Spec
INVARIANTS
    TypeOK
    SleepIsCapped
    SleepIsBounded
    ProviderIsSpared
    ResultIsDue
PROPERTIES
    DoReturns
    RetryIsTheRouters
