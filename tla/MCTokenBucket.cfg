\* Seven units to the token and two units a tick: the truncated wait of a
\* waiter leaves it short of a token, so that it has to sleep twice.
CONSTANTS
    RatePerSecond = 2
    BurstSize = 2
    TicksPerSecond = 7
    MaxAge = 7
    MaxWindow = 8
    Waiters = {w1, w2}
SPECIFICATION Spec
INVARIANTS
    TypeOK
    WindowBound
    WindowLedger
    NoOversleep
PROPERTIES
    WaitReturns
