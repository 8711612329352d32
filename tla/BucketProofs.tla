---------------------------- MODULE BucketProofs ----------------------------
(***************************************************************************)
(* What the operations on a token bucket return and bound, for the proofs  *)
(* about the limiter and about the router.                                 *)
(***************************************************************************)
EXTENDS Bucket, TLAPS

\* The arguments of New are replaced by a rate and a burst that are positive.
LEMMA PositiveParameters ==
    /\ Rate \in Nat \ {0}
    /\ Burst \in Nat \ {0}
    /\ Token \in Nat \ {0}
    /\ Capacity \in Nat
    /\ Token <= Capacity
<1>1. /\ Rate \in Nat \ {0}
      /\ Burst \in Nat \ {0}
      /\ Token \in Nat \ {0}
  BY BucketAssumption DEF Rate, Burst, Token
<1>2. Capacity \in Nat /\ Token <= Capacity
  <2>1. \A b, t \in Nat \ {0} : b * t \in Nat /\ t <= b * t
    OBVIOUS
  <2>2. QED
    BY <1>1, <2>1 DEF Capacity
<1>3. QED
  BY <1>1, <1>2

\* A refill keeps a bucket a bucket, loses no token and creates none beyond
\* what the rate accrued since the last one.
LEMMA RefillFacts ==
    ASSUME NEW b \in Buckets
    PROVE  /\ Refill(b) \in Buckets
           /\ Refill(b).age = 0
           /\ Refill(b).tokens \in 0 .. Capacity
           /\ Refill(b).tokens <= b.tokens + Rate * b.age
           /\ b.tokens <= Refill(b).tokens
<1>1. b.tokens \in 0 .. Capacity /\ b.age \in 0 .. MaxAge
  BY DEF Buckets
<1> DEFINE gain == b.age * Rate
<1>2. gain \in Nat /\ gain = Rate * b.age
  BY <1>1, PositiveParameters, BucketAssumption
<1>3. /\ Refill(b).tokens = IF b.tokens + gain > Capacity THEN Capacity
                                                          ELSE b.tokens + gain
      /\ Refill(b).age = 0
  BY DEF Refill
<1> HIDE DEF gain
<1>4. /\ Refill(b).tokens \in 0 .. Capacity
      /\ Refill(b).tokens <= b.tokens + Rate * b.age
      /\ b.tokens <= Refill(b).tokens
  BY <1>1, <1>2, <1>3, PositiveParameters
<1>5. Refill(b) \in Buckets
  BY <1>3, <1>4, BucketAssumption DEF Buckets, Refill
<1>6. QED
  BY <1>3, <1>4, <1>5

\* Taking a token costs one token, and the bucket is up to date afterwards.
LEMMA TakeTokenFacts ==
    ASSUME NEW b \in Buckets, HasToken(b)
    PROVE  /\ TakeToken(b) \in Buckets
           /\ TakeToken(b).age = 0
           /\ TakeToken(b).tokens = Refill(b).tokens - Token
<1>1. /\ Refill(b) \in Buckets
      /\ Refill(b).tokens \in 0 .. Capacity
      /\ Refill(b).age = 0
      /\ Refill(b).tokens >= Token
  BY RefillFacts DEF HasToken
<1>2. TakeToken(b) = [tokens |-> Refill(b).tokens - Token, age |-> 0]
  BY <1>1 DEF TakeToken, Refill
<1>3. Refill(b).tokens - Token \in 0 .. Capacity
  BY <1>1, PositiveParameters
<1>4. QED
  BY <1>2, <1>3, BucketAssumption DEF Buckets

\* A tick makes the bucket at most one tick older.
LEMMA OlderFacts ==
    ASSUME NEW b \in Buckets
    PROVE  /\ Older(b) \in Buckets
           /\ Older(b).tokens = b.tokens
           /\ Older(b).age = b.age + 1 \/ Older(b).age = b.age
           /\ b.age < MaxAge => Older(b).age = b.age + 1
<1>1. b.tokens \in 0 .. Capacity /\ b.age \in 0 .. MaxAge
  BY DEF Buckets
<1>2. Older(b) = [tokens |-> b.tokens,
                  age |-> IF b.age < MaxAge THEN b.age + 1 ELSE b.age]
  BY DEF Older, Buckets
<1>3. QED
  BY <1>1, <1>2, BucketAssumption DEF Buckets

\* The sleep of Wait is a number of ticks.
LEMMA WaitTimeType ==
    ASSUME NEW b \in Buckets
    PROVE  WaitTime(b) \in Nat \ {0}
<1>1. b.tokens \in 0 .. Capacity
  BY DEF Buckets
<1>2. (Token - b.tokens) \div Rate \in Int
  BY <1>1, PositiveParameters
<1>3. QED
  BY <1>2 DEF WaitTime
\* What the proofs need of multiplication.
LEMMA RateTimes ==
    ASSUME NEW x \in Nat, NEW y \in Nat
    PROVE  /\ Rate * x \in Nat
           /\ Rate * (x + 1) = Rate * x + Rate
           /\ x <= y => Rate * x <= Rate * y
<1>1. \A r \in Nat : /\ r * x \in Nat
                     /\ r * (x + 1) = r * x + r
                     /\ x <= y => r * x <= r * y
  OBVIOUS
<1>2. QED
  BY <1>1, PositiveParameters

LEMMA TokenTimes ==
    ASSUME NEW x \in Nat
    PROVE  x * Token \in Nat /\ (x + 1) * Token = x * Token + Token
<1>1. \A t \in Nat : x * t \in Nat /\ (x + 1) * t = x * t + t
  OBVIOUS
<1>2. QED
  BY <1>1, PositiveParameters
=============================================================================
