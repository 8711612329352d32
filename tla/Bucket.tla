------------------------------- MODULE Bucket -------------------------------
(***************************************************************************)
(* The data of internal/ratelimit: one token bucket and the operations     *)
(* that Allow and Wait perform on it while they hold the limiter's mutex.  *)
(*                                                                         *)
(* Time is counted in ticks of 1/TicksPerSecond second and the contents of *)
(* a bucket in units of 1/TicksPerSecond token, so that a rate of R tokens *)
(* per second is exactly R units per tick.  The float64 arithmetic of the  *)
(* code is taken to be exact.  A bucket is kept relative to the present:   *)
(* "age" is now() - last, and saturates at MaxAge, beyond which the bucket *)
(* is full whatever it held.                                               *)
(***************************************************************************)
EXTENDS Integers

CONSTANTS
    RatePerSecond,   \* the ratePerSecond argument of ratelimit.New
    BurstSize,       \* the burst argument of ratelimit.New
    TicksPerSecond,  \* resolution of the clock
    MaxAge           \* ticks after which the age of a bucket is not counted on

\* New replaces a rate or a burst it cannot work with.
Rate == IF RatePerSecond <= 0 THEN 1 ELSE RatePerSecond

Burst == IF BurstSize < 1 THEN 1 ELSE BurstSize

Token    == TicksPerSecond    \* the units that make one token
Capacity == Burst * Token     \* l.burst in units

ASSUME BucketAssumption ==
    /\ RatePerSecond \in Int
    /\ BurstSize \in Int
    /\ TicksPerSecond \in Nat \ {0}
    /\ MaxAge \in Nat
    /\ MaxAge * Rate >= Capacity

Buckets == [tokens : 0 .. Capacity, age : 0 .. MaxAge]

\* New: the bucket starts full.
FullBucket == [tokens |-> Capacity, age |-> 0]

\* Mutants: the cap is forgotten; "last" is not moved forward; only whole
\* tokens are added and the rest is lost.
RefillUncapped(b) == [tokens |-> b.tokens + b.age * Rate, age |-> 0]

RefillKeepsLast(b) ==
    LET accrued == b.tokens + b.age * Rate
    IN  [b EXCEPT !.tokens = IF accrued > Capacity THEN Capacity ELSE accrued]

RefillWholeTokens(b) ==
    LET accrued == b.tokens + ((b.age * Rate) \div Token) * Token
    IN  [tokens |-> IF accrued > Capacity THEN Capacity ELSE accrued,
         age    |-> 0]

\* refill: adds what accrued since the last update, up to the burst.
Refill(b) ==
    LET accrued == b.tokens + b.age * Rate
    IN  [tokens |-> IF accrued > Capacity THEN Capacity ELSE accrued,
         age    |-> 0]

\* Mutant: a part of a token is enough.
HasSomeToken(b) == Refill(b).tokens > 0

HasToken(b) == Refill(b).tokens >= Token

\* Mutant: a token is granted and not taken out.
TakeTokenForFree(b) == Refill(b)

TakeToken(b) == [Refill(b) EXCEPT !.tokens = @ - Token]

\* Mutant: the wait for a whole token, whatever the bucket holds already.
WaitTimeOfWholeToken(b) ==
    LET wait == Token \div Rate
    IN  IF wait <= 0 THEN 1 ELSE wait

\* The time for which Wait sleeps on a bucket it has just refilled and found
\* short: the deficit over the rate, truncated, and never zero.
WaitTime(b) ==
    LET wait == (Token - b.tokens) \div Rate
    IN  IF wait <= 0 THEN 1 ELSE wait

\* One tick of the clock.
Older(b) == [b EXCEPT !.age = IF @ < MaxAge THEN @ + 1 ELSE @]
=============================================================================
