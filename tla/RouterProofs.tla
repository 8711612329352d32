---------------------------- MODULE RouterProofs ----------------------------
(***************************************************************************)
(* Type correctness of the router, the budget of its limiters and the end  *)
(* of a context, for any number of requests, providers, limiters and       *)
(* chains, under any reconfiguration while requests are in flight.         *)
(***************************************************************************)
EXTENDS Router, BucketProofs, FiniteSetTheorems

\* The places at which a request is busy with the target it stands at.
AtTarget == {"lookup", "admit", "attempt", "calling", "backoff"}
Trying   == {"attempt", "calling", "backoff"}

\* A request that is busy with a target has one, and one that asks a limiter
\* has one.
Positioned ==
    \A r \in Requests :
        /\ pos[r] >= 1
        /\ pc[r] \in AtTarget => pos[r] <= Len(chain[r])
        /\ pc[r] = "admit" => limiter[r] # NoLimiter

TypeInv == TypeOK /\ Positioned

\* What was admitted is behind the request, or where it is trying.
GrantsBehind ==
    \A l \in Limiters : \A visit \in grants[l] :
        /\ visit[2] <= pos[visit[1]]
        /\ visit[2] = pos[visit[1]] => pc[visit[1]] \in Trying \cup Returned

\* A request tries a limited provider on a token of its own.
TriesOnGrant ==
    \A r \in Requests :
        pc[r] \in Trying /\ limiter[r] # NoLimiter =>
            <<r, pos[r]>> \in grants[limiter[r]]

FiniteGrants == \A l \in Limiters : IsFiniteSet(grants[l])

LedgerInv == GrantsBehind /\ TriesOnGrant /\ FiniteGrants /\ LimiterLedger
-----------------------------------------------------------------------------
\* A policy always grants a first try.
LEMMA AttemptsFacts ==
    /\ Attempts \in Nat \ {0}
    /\ Tries = Attempts
BY RouterAssumption DEF Attempts, Tries

LEMMA ChainFacts ==
    ASSUME NEW c \in Chains
    PROVE  /\ c \in Seq(Targets)
           /\ Len(c) \in Nat
           /\ \A i \in 1 .. Len(c) : c[i] \in Targets
<1>1. c \in Seq(Targets)
  BY RouterAssumption DEF Targets
<1>2. QED
  BY <1>1

\* The target of a busy request is an element of its chain.
LEMMA TargetType ==
    ASSUME TypeInv, NEW r \in Requests, pc[r] \in AtTarget
    PROVE  Target(r) \in Targets
<1>1. chain[r] \in Chains /\ pos[r] \in Nat /\ pos[r] >= 1
  BY DEF TypeInv, TypeOK, Positioned
<1>2. pos[r] \in 1 .. Len(chain[r])
  BY <1>1, ChainFacts DEF TypeInv, Positioned
<1>3. QED
  BY <1>1, <1>2, ChainFacts DEF Target

\* Every error of the router and of a provider is one of Errors.
LEMMA ErrorTypes ==
    ASSUME TypeOK, NEW r \in Requests
    PROVE  /\ UnregisteredError \in Errors
           /\ RateLimitedError \in Errors
           /\ ContextError(ctx[r]) \in Errors \/ ~Ended(r)
           /\ CallErrors(r) \subseteq Errors
<1>1. ctx[r] \in {"live"} \cup ContextCauses
  BY DEF TypeOK
<1>2. QED
  BY <1>1, RouterAssumption
     DEF CallErrors, ProviderFailures, Errors, UnregisteredError, RateLimitedError,
         HTTPError, PlainError, TransportError, ContextError, ContextCauses, Ended

\* Recording a failure keeps the list of failures a list of failures.
LEMMA RecordedType ==
    ASSUME TypeInv, NEW r \in Requests, pc[r] \in AtTarget, NEW err \in Errors
    PROVE  Recorded(r, err) \in [Requests -> Seq(Failures)]
<1>1. [target |-> Target(r), err |-> err] \in Failures
  BY TargetType DEF Failures
<1>2. failures \in [Requests -> Seq(Failures)]
  BY DEF TypeInv, TypeOK
<1>3. Append(failures[r], [target |-> Target(r), err |-> err]) \in Seq(Failures)
  BY <1>1, <1>2
<1>4. QED
  BY <1>2, <1>3 DEF Recorded

\* What a step may do with the position of a request.
LEMMA NextTargetFacts ==
    ASSUME TypeInv, NEW r \in Requests, pc[r] \in AtTarget, NEW err \in Errors,
           NextTarget(r, err)
    PROVE  /\ failures' \in [Requests -> Seq(Failures)]
           /\ pos' = [pos EXCEPT ![r] = @ + 1]
           /\ pc' = [pc EXCEPT ![r] = "target"]
BY RecordedType DEF NextTarget

LEMMA FinishFacts ==
    ASSUME TypeInv, NEW r \in Requests, pc[r] \in AtTarget, NEW err \in Errors,
           Finish(r, err)
    PROVE  /\ failures' \in [Requests -> Seq(Failures)]
           /\ \/ /\ pos' = [pos EXCEPT ![r] = @ + 1]
                 /\ pc' = [pc EXCEPT ![r] = "target"]
              \/ /\ pos' = pos
                 /\ pc' = [pc EXCEPT ![r] = "routeError"]
<1>1. CASE Terminal(r, err)
  BY <1>1, RecordedType DEF Finish
<1>2. CASE ~Terminal(r, err)
  BY <1>2, NextTargetFacts DEF Finish
<1>3. QED
  BY <1>1, <1>2

\* Moving on to the next target, or ending, is in order from anywhere.
LEMMA MovesOn ==
    ASSUME TypeInv, NEW r \in Requests, pc[r] \in AtTarget,
           failures' \in [Requests -> Seq(Failures)],
           \/ /\ pos' = [pos EXCEPT ![r] = @ + 1]
              /\ pc' = [pc EXCEPT ![r] = "target"]
           \/ /\ pos' = pos
              /\ pc' = [pc EXCEPT ![r] = "routeError"],
           UNCHANGED <<config, ctx, chain, limiter, attempt, clock, history, endedAt>>,
           buckets' \in [Limiters -> Buckets]
    PROVE  TypeInv'
<1>1. /\ pos \in [Requests -> Nat]
      /\ pc \in [Requests -> Working \cup Returned]
  BY DEF TypeInv, TypeOK
<1>2. /\ pos' \in [Requests -> Nat]
      /\ pc' \in [Requests -> Working \cup Returned]
  <2>1. CASE /\ pos' = [pos EXCEPT ![r] = @ + 1]
             /\ pc' = [pc EXCEPT ![r] = "target"]
    BY <1>1, <2>1 DEF Working, Returned
  <2>2. CASE /\ pos' = pos
             /\ pc' = [pc EXCEPT ![r] = "routeError"]
    BY <1>1, <2>2 DEF Working, Returned
  <2>3. QED
    BY <2>1, <2>2
<1>3. TypeOK'
  BY <1>2 DEF TypeInv, TypeOK, config, history
<1>4. Positioned'
  BY <1>1 DEF TypeInv, Positioned, AtTarget
<1>5. QED
  BY <1>3, <1>4 DEF TypeInv
-----------------------------------------------------------------------------
(***************************************************************************)
(* Type correctness; in particular no request ever stands past the end of  *)
(* its chain when it looks up a target, and no request asks a limiter that *)
(* is nil, although SetLimiter may detach it at any time.                  *)
(***************************************************************************)
THEOREM TypeInvariant == Spec => []TypeInv
<1>1. Init => TypeInv
  <2> SUFFICES ASSUME Init
               PROVE  TypeInv
    OBVIOUS
  <2>1. FullBucket \in Buckets
    BY BucketAssumption DEF FullBucket, Buckets, Capacity, Burst, Token
  <2>2. TypeOK
    BY <2>1, RouterAssumption
       DEF Init, RequestsInit, TypeOK, Working, Visits
  <2>3. Positioned
    BY DEF Init, RequestsInit, Positioned, AtTarget
  <2>4. QED
    BY <2>2, <2>3 DEF TypeInv
<1>2. TypeInv /\ [Next]_vars => TypeInv'
  <2> SUFFICES ASSUME TypeInv, [Next]_vars
               PROVE  TypeInv'
    OBVIOUS
  <2> USE DEF TypeInv
  <2>1. CASE Configure
    <3>1. /\ registered' \subseteq Providers
          /\ limiters' \in [Providers -> Limiters \cup {NoLimiter}]
          /\ routes' \in [Models -> Chains \cup {NoRoute}]
          /\ fallback' \in Chains
      BY <2>1 DEF Configure, Register, SetLimiter, AddRoute, SetDefaultRoute, TypeOK
    <3>2. UNCHANGED <<buckets, local, ctx, clock, history, endedAt>>
      BY <2>1 DEF Configure, Register, SetLimiter, AddRoute, SetDefaultRoute
    <3>3. QED
      BY <3>1, <3>2 DEF TypeOK, Positioned, local, history
  <2>2. ASSUME NEW r \in Requests, Resolve(r)
        PROVE  TypeInv'
    <3>1. Resolved(ModelOf[r]) \in Chains
      BY RouterAssumption DEF TypeOK, Resolved
    <3>2. TypeOK'
      BY <2>2, <3>1 DEF Resolve, TypeOK, Working, Returned, config, history
    <3>3. Positioned'
      BY <2>2, <3>1 DEF Resolve, TypeOK, Positioned, AtTarget
    <3>4. QED
      BY <3>2, <3>3
  <2>3. ASSUME NEW r \in Requests, CheckContext(r)
        PROVE  TypeInv'
    <3>1. TypeOK'
      BY <2>3 DEF CheckContext, TypeOK, Working, Returned, config, history
    <3>2. Positioned'
      BY <2>3 DEF CheckContext, TypeOK, Positioned, AtTarget
    <3>3. QED
      BY <3>1, <3>2
  <2>4. ASSUME NEW r \in Requests, ChainExhausted(r)
        PROVE  TypeInv'
    <3>1. TypeOK'
      BY <2>4 DEF ChainExhausted, TypeOK, Working, Returned, config, history
    <3>2. Positioned'
      BY <2>4 DEF ChainExhausted, TypeOK, Positioned, AtTarget
    <3>3. QED
      BY <3>1, <3>2
  <2>5. ASSUME NEW r \in Requests, LookupRegistered(r)
        PROVE  TypeInv'
    <3>1. limiters[Target(r).provider] \in Limiters \cup {NoLimiter}
      BY <2>5, TargetType DEF LookupRegistered, TypeOK, Targets, AtTarget
    <3>2. TypeOK'
      BY <2>5, <3>1 DEF LookupRegistered, TypeOK, Working, Returned, config, history
    <3>3. Positioned'
      BY <2>5 DEF LookupRegistered, TypeOK, Positioned, AtTarget
    <3>4. QED
      BY <3>2, <3>3
  <2>6. ASSUME NEW r \in Requests, LookupUnregistered(r)
        PROVE  TypeInv'
    <3>1. pc[r] \in AtTarget
      BY <2>6 DEF LookupUnregistered, AtTarget
    <3>2. /\ failures' \in [Requests -> Seq(Failures)]
          /\ pos' = [pos EXCEPT ![r] = @ + 1]
          /\ pc' = [pc EXCEPT ![r] = "target"]
      BY <2>6, <3>1, NextTargetFacts, ErrorTypes DEF LookupUnregistered
    <3>3. UNCHANGED <<config, buckets, ctx, chain, limiter, attempt, clock,
                      history, endedAt>>
      BY <2>6 DEF LookupUnregistered
    <3>4. buckets' \in [Limiters -> Buckets]
      BY <3>3 DEF TypeOK
    <3>5. QED
      BY <3>1, <3>2, <3>3, <3>4, MovesOn
  <2>7. ASSUME NEW r \in Requests, Admitted(r)
        PROVE  TypeInv'
    <3>1. limiter[r] \in Limiters
      BY <2>7 DEF Admitted, TypeOK, Positioned
    <3>2. buckets' \in [Limiters -> Buckets]
      BY <2>7, <3>1, TakeTokenFacts DEF Admitted, TypeOK
    <3>3. grants' \in [Limiters -> SUBSET Visits]
      BY <2>7, <3>1 DEF Admitted, TypeOK, Visits
    <3>4. TypeOK'
      BY <2>7, <3>2, <3>3 DEF Admitted, TypeOK, Working, Returned, config
    <3>5. Positioned'
      BY <2>7 DEF Admitted, TypeOK, Positioned, AtTarget
    <3>6. QED
      BY <3>4, <3>5
  <2>8. ASSUME NEW r \in Requests, RateLimited(r)
        PROVE  TypeInv'
    <3>1. pc[r] \in AtTarget /\ limiter[r] \in Limiters
      BY <2>8 DEF RateLimited, TypeOK, Positioned, AtTarget
    <3>2. /\ failures' \in [Requests -> Seq(Failures)]
          /\ pos' = [pos EXCEPT ![r] = @ + 1]
          /\ pc' = [pc EXCEPT ![r] = "target"]
      BY <2>8, <3>1, NextTargetFacts, ErrorTypes DEF RateLimited
    <3>3. buckets' \in [Limiters -> Buckets]
      BY <2>8, <3>1, RefillFacts DEF RateLimited, TypeOK
    <3>4. UNCHANGED <<config, ctx, chain, limiter, attempt, clock, history, endedAt>>
      BY <2>8 DEF RateLimited
    <3>5. QED
      BY <3>1, <3>2, <3>3, <3>4, MovesOn
  <2>9. ASSUME NEW r \in Requests, StartCall(r)
        PROVE  TypeInv'
    <3>1. attempt'[r] = attempt[r] + 1 /\ attempt' \in [Requests -> Nat]
      BY <2>9 DEF StartCall, TypeOK
    <3>2. <<<<r, pos[r]>>, attempt'[r]>> \in Visits \X Nat
      BY <3>1 DEF TypeOK, Visits
    <3>3. calls' \in [Limiters \cup {NoLimiter} -> SUBSET (Visits \X Nat)]
      BY <2>9, <3>2 DEF StartCall, TypeOK
    <3>4. TypeOK'
      BY <2>9, <3>1, <3>3 DEF StartCall, TypeOK, Working, Returned, config
    <3>5. Positioned'
      BY <2>9 DEF StartCall, TypeOK, Positioned, AtTarget
    <3>6. QED
      BY <3>4, <3>5
  <2>10. ASSUME NEW r \in Requests, GiveUpBeforeCall(r) \/ BackoffCancelled(r)
         PROVE  TypeInv'
    <3>1. /\ pc[r] \in AtTarget
          /\ Ended(r)
          /\ Finish(r, ContextError(ctx[r]))
          /\ UNCHANGED <<config, buckets, ctx, chain, limiter, attempt, clock,
                         history, endedAt>>
      BY <2>10 DEF GiveUpBeforeCall, BackoffCancelled, AtTarget
    <3>2. ContextError(ctx[r]) \in Errors
      BY <3>1, ErrorTypes
    <3>3. buckets' \in [Limiters -> Buckets]
      BY <3>1 DEF TypeOK
    <3>4. QED
      BY <3>1, <3>2, <3>3, FinishFacts, MovesOn
  <2>11. ASSUME NEW r \in Requests, ReturnOK(r)
         PROVE  TypeInv'
    <3>1. TypeOK'
      BY <2>11 DEF ReturnOK, TypeOK, Working, Returned, config, history
    <3>2. Positioned'
      BY <2>11 DEF ReturnOK, TypeOK, Positioned, AtTarget
    <3>3. QED
      BY <3>1, <3>2
  <2>12. ASSUME NEW r \in Requests, ReturnError(r)
         PROVE  TypeInv'
    <3>1. /\ pc[r] \in AtTarget
          /\ UNCHANGED <<config, buckets, ctx, chain, limiter, attempt, clock,
                         history, endedAt>>
      BY <2>12 DEF ReturnError, AtTarget
    <3>2. PICK err \in CallErrors(r) :
            IF TriesAgain(r, err)
            THEN /\ pc' = [pc EXCEPT ![r] = "backoff"]
                 /\ UNCHANGED <<pos, failures>>
            ELSE Finish(r, err)
      BY <2>12 DEF ReturnError
    <3>3. CASE TriesAgain(r, err)
      <4>1. TypeOK'
        BY <3>1, <3>2, <3>3 DEF TypeOK, Working, Returned, config, history
      <4>2. Positioned'
        BY <3>1, <3>2, <3>3 DEF TypeOK, Positioned, AtTarget
      <4>3. QED
        BY <4>1, <4>2
    <3>4. CASE ~TriesAgain(r, err)
      <4>1. err \in Errors
        BY ErrorTypes
      <4>2. buckets' \in [Limiters -> Buckets]
        BY <3>1 DEF TypeOK
      <4>3. QED
        BY <3>1, <3>2, <3>4, <4>1, <4>2, FinishFacts, MovesOn
    <3>5. QED
      BY <3>3, <3>4
  <2>13. ASSUME NEW r \in Requests, BackoffElapses(r)
         PROVE  TypeInv'
    <3>1. TypeOK'
      BY <2>13 DEF BackoffElapses, TypeOK, Working, Returned, config, history
    <3>2. Positioned'
      BY <2>13 DEF BackoffElapses, TypeOK, Positioned, AtTarget
    <3>3. QED
      BY <3>1, <3>2
  <2>14. ASSUME NEW r \in Requests, NEW c \in EndCauses, EndContext(r, c)
         PROVE  TypeInv'
    <3>1. c \in ContextCauses
      BY RouterAssumption
    <3>2. TypeOK'
      BY <2>14, <3>1 DEF EndContext, TypeOK, local, config, history
    <3>3. Positioned'
      BY <2>14 DEF EndContext, Positioned, local
    <3>4. QED
      BY <3>2, <3>3
  <2>15. CASE Tick
    <3>1. clock' \in 0 .. MaxClock
      BY <2>15, RouterAssumption DEF Tick, TypeOK
    <3>2. buckets' \in [Limiters -> Buckets]
      BY <2>15, OlderFacts DEF Tick, TypeOK
    <3>3. TypeOK'
      BY <2>15, <3>1, <3>2 DEF Tick, TypeOK, local, config, history
    <3>4. Positioned'
      BY <2>15 DEF Tick, Positioned, local
    <3>5. QED
      BY <3>3, <3>4
  <2>16. CASE UNCHANGED vars
    BY <2>16 DEF vars, TypeOK, Positioned
  <2>17. QED
    BY <2>1, <2>2, <2>3, <2>4, <2>5, <2>6, <2>7, <2>8, <2>9, <2>10, <2>11,
       <2>12, <2>13, <2>14, <2>15, <2>16
       DEF Next, Serve, Step, AllReturned
<1>3. QED
  BY <1>1, <1>2, PTL DEF Spec

THEOREM TypeCorrect == Spec => []TypeOK
<1>1. TypeInv => TypeOK
  BY DEF TypeInv
<1>2. QED
  BY <1>1, TypeInvariant, PTL
-----------------------------------------------------------------------------
\* How a step of r may move it without asking a limiter: past its target, on
\* with its tries, or towards the limiter of its target.
Moves(r) ==
    /\ \A q \in Requests \ {r} :
         pc'[q] = pc[q] /\ pos'[q] = pos[q] /\ limiter'[q] = limiter[q]
    /\ \/ pos'[r] = pos[r] + 1 /\ pc'[r] = "target"
       \/ /\ pos'[r] = pos[r]
          /\ limiter'[r] = limiter[r]
          /\ pc[r] \in Trying
          /\ pc'[r] \in Trying \cup Returned
       \/ /\ pos'[r] = pos[r]
          /\ pc[r] \notin Trying \cup Returned
          /\ pc'[r] \in Trying => limiter'[r] = NoLimiter

LEMMA MovesKeepGrants ==
    ASSUME TypeInv, GrantsBehind, TriesOnGrant,
           NEW r \in Requests, Moves(r), UNCHANGED grants
    PROVE  GrantsBehind' /\ TriesOnGrant'
<1>1. /\ pos \in [Requests -> Nat]
      /\ \A l \in Limiters : grants[l] \subseteq Visits
  BY DEF TypeInv, TypeOK
<1>2. GrantsBehind'
  <2> SUFFICES ASSUME NEW l \in Limiters, NEW visit \in grants[l]
               PROVE  /\ visit[2] <= pos'[visit[1]]
                      /\ visit[2] = pos'[visit[1]] =>
                            pc'[visit[1]] \in Trying \cup Returned
    BY DEF GrantsBehind
  <2>1. /\ visit[1] \in Requests
        /\ visit[2] \in Nat
        /\ visit[2] <= pos[visit[1]]
        /\ visit[2] = pos[visit[1]] => pc[visit[1]] \in Trying \cup Returned
    BY <1>1 DEF GrantsBehind, Visits
  <2>2. CASE visit[1] # r
    BY <2>1, <2>2 DEF Moves
  <2>3. CASE visit[1] = r
    BY <1>1, <2>1, <2>3 DEF Moves
  <2>4. QED
    BY <2>2, <2>3
<1>3. TriesOnGrant'
  <2> SUFFICES ASSUME NEW q \in Requests,
                      pc'[q] \in Trying, limiter'[q] # NoLimiter
               PROVE  <<q, pos'[q]>> \in grants[limiter'[q]]
    BY DEF TriesOnGrant
  <2>1. CASE q # r
    BY <2>1 DEF Moves, TriesOnGrant
  <2>2. CASE q = r
    BY <2>2 DEF Moves, TriesOnGrant, Trying
  <2>3. QED
    BY <2>1, <2>2
<1>4. QED
  BY <1>2, <1>3

\* A step that leaves limiters alone leaves their accounts in order.
LEMMA LedgerUntouched ==
    ASSUME LimiterLedger, FiniteGrants, UNCHANGED <<buckets, grants, calls, clock>>
    PROVE  LimiterLedger' /\ FiniteGrants'
BY DEF LimiterLedger, FiniteGrants

\* The arithmetic of an account: what it may hold changes with a refill, a
\* token that is taken, a tick.
LEMMA AccountFacts ==
    ASSUME TypeInv, FiniteGrants, NEW l \in Limiters
    PROVE  /\ buckets[l] \in Buckets
           /\ buckets[l].tokens \in 0 .. Capacity
           /\ buckets[l].age \in Nat
           /\ Cardinality(grants[l]) \in Nat
           /\ Cardinality(grants[l]) * Token \in Nat
           /\ Rate * buckets[l].age \in Nat
           /\ clock \in Nat
           /\ Rate * clock \in Nat
           /\ Rate * 0 = 0
<1>1. /\ buckets[l] \in Buckets
      /\ clock \in Nat
  BY RouterAssumption DEF TypeInv, TypeOK
<1>2. /\ buckets[l].tokens \in 0 .. Capacity
      /\ buckets[l].age \in Nat
  BY <1>1, BucketAssumption DEF Buckets
<1>3. Cardinality(grants[l]) \in Nat
  BY FS_CardinalityType DEF FiniteGrants
<1>4. QED
  BY <1>1, <1>2, <1>3, RateTimes, TokenTimes, PositiveParameters

(***************************************************************************)
(* The accounts of every limiter balance.  The inductive invariant adds to *)
(* the ledger where the admitted visits lie: behind their requests, so     *)
(* that an admission is never counted twice, and under every try.          *)
(***************************************************************************)
THEOREM LedgerInvariant == Spec => []LedgerInv
<1>1. Init => LedgerInv
  <2> SUFFICES ASSUME Init
               PROVE  LedgerInv
    OBVIOUS
  <2>1. Rate * 0 = 0 /\ 0 * Token = 0
    BY PositiveParameters
  <2>2. LimiterLedger
    BY <2>1, PositiveParameters, FS_EmptySet
       DEF Init, RequestsInit, LimiterLedger, FullBucket
  <2>3. QED
    BY <2>2, FS_EmptySet
       DEF Init, RequestsInit, LedgerInv, GrantsBehind, TriesOnGrant,
           FiniteGrants, Trying
<1>2. TypeInv /\ LedgerInv /\ [Next]_vars => LedgerInv'
  <2> SUFFICES ASSUME TypeInv, LedgerInv, [Next]_vars
               PROVE  LedgerInv'
    OBVIOUS
  <2> USE DEF LedgerInv
  <2>0. /\ pos \in [Requests -> Nat]
        /\ pc \in [Requests -> Working \cup Returned]
        /\ limiter \in [Requests -> Limiters \cup {NoLimiter}]
        /\ grants \in [Limiters -> SUBSET Visits]
        /\ calls \in [Limiters \cup {NoLimiter} -> SUBSET (Visits \X Nat)]
        /\ attempt \in [Requests -> Nat]
        /\ buckets \in [Limiters -> Buckets]
        /\ NoLimiter \notin Limiters
    BY RouterAssumption DEF TypeInv, TypeOK
  <2>1. ASSUME UNCHANGED <<buckets, pc, pos, limiter, clock, grants, calls>>
        PROVE  LedgerInv'
    BY <2>1 DEF LimiterLedger, FiniteGrants, GrantsBehind, TriesOnGrant
  <2>2. ASSUME NEW r \in Requests, Moves(r),
               UNCHANGED <<buckets, clock, grants, calls>>
        PROVE  LedgerInv'
    BY <2>2, MovesKeepGrants, LedgerUntouched
  <2>3. ASSUME NEW r \in Requests,
               Resolve(r) \/ CheckContext(r) \/ LookupRegistered(r)
                 \/ LookupUnregistered(r)
        PROVE  LedgerInv'
    <3>1. UNCHANGED <<buckets, clock, grants, calls>>
      BY <2>3 DEF Resolve, CheckContext, LookupRegistered, LookupUnregistered, history
    <3>2. CASE Resolve(r) \/ CheckContext(r)
      BY <2>0, <2>2, <3>1, <3>2
         DEF Resolve, CheckContext, Moves, Trying, Returned
    <3>3. CASE LookupRegistered(r)
      BY <2>0, <2>2, <3>1, <3>3 DEF LookupRegistered, Moves, Trying, Returned
    <3>4. CASE LookupUnregistered(r)
      BY <2>0, <2>2, <3>1, <3>4 DEF LookupUnregistered, NextTarget, Moves
    <3>5. QED
      BY <2>3, <3>2, <3>3, <3>4
  <2>4. ASSUME NEW r \in Requests, ChainExhausted(r)
        PROVE  LedgerInv'
    <3>1. Moves(r)
      BY <2>0, <2>4 DEF ChainExhausted, Moves, Trying, Returned
    <3>2. QED
      BY <2>2, <2>4, <3>1 DEF ChainExhausted, history
  <2>5. ASSUME NEW r \in Requests, NEW err,
               pc[r] \in Trying, Finish(r, err), UNCHANGED limiter
        PROVE  Moves(r)
    BY <2>0, <2>5 DEF Finish, NextTarget, Moves, Trying, Returned
  <2>6. ASSUME NEW r \in Requests, GiveUpBeforeCall(r) \/ BackoffCancelled(r)
        PROVE  LedgerInv'
    <3>1. /\ pc[r] \in Trying
          /\ Finish(r, ContextError(ctx[r]))
          /\ UNCHANGED <<buckets, limiter, clock, grants, calls>>
      BY <2>6 DEF GiveUpBeforeCall, BackoffCancelled, Trying, history
    <3>2. QED
      BY <2>2, <2>5, <3>1
  <2>7. ASSUME NEW r \in Requests, ReturnOK(r) \/ BackoffElapses(r)
        PROVE  LedgerInv'
    <3>1. Moves(r) /\ UNCHANGED <<buckets, clock, grants, calls>>
      BY <2>0, <2>7 DEF ReturnOK, BackoffElapses, Moves, Trying, Returned, history
    <3>2. QED
      BY <2>2, <3>1
  <2>8. ASSUME NEW r \in Requests, ReturnError(r)
        PROVE  LedgerInv'
    <3>1. pc[r] \in Trying /\ UNCHANGED <<buckets, limiter, clock, grants, calls>>
      BY <2>8 DEF ReturnError, Trying, history
    <3>2. PICK err \in CallErrors(r) :
            IF TriesAgain(r, err)
            THEN /\ pc' = [pc EXCEPT ![r] = "backoff"]
                 /\ UNCHANGED <<pos, failures>>
            ELSE Finish(r, err)
      BY <2>8 DEF ReturnError
    <3>3. CASE TriesAgain(r, err)
      <4>1. Moves(r)
        BY <2>0, <3>1, <3>2, <3>3 DEF Moves, Trying
      <4>2. QED
        BY <2>2, <3>1, <4>1
    <3>4. CASE ~TriesAgain(r, err)
      BY <2>2, <2>5, <3>1, <3>2, <3>4
    <3>5. QED
      BY <3>3, <3>4
  <2>9. ASSUME NEW r \in Requests, Admitted(r)
        PROVE  LedgerInv'
    <3> DEFINE l == limiter[r]
               visit == <<r, pos[r]>>
    <3>1. /\ l \in Limiters
          /\ pc[r] = "admit"
          /\ HasToken(buckets[l])
          /\ buckets' = [buckets EXCEPT ![l] = TakeToken(buckets[l])]
          /\ grants' = [grants EXCEPT ![l] = grants[l] \cup {visit}]
          /\ pc' = [pc EXCEPT ![r] = "attempt"]
          /\ UNCHANGED <<pos, limiter, clock, calls>>
      BY <2>0, <2>9 DEF Admitted, TypeInv, Positioned
    <3>2. visit \notin grants[l]
      BY <3>1 DEF GrantsBehind, Trying, Returned
    <3>3. GrantsBehind'
      BY <2>0, <3>1 DEF GrantsBehind, Trying, Returned, Visits
    <3>4. TriesOnGrant'
      <4> SUFFICES ASSUME NEW q \in Requests,
                          pc'[q] \in Trying, limiter'[q] # NoLimiter
                   PROVE  <<q, pos'[q]>> \in grants'[limiter'[q]]
        BY DEF TriesOnGrant
      <4>1. CASE q = r
        BY <2>0, <3>1, <4>1
      <4>2. CASE q # r
        BY <2>0, <3>1, <4>2 DEF TriesOnGrant
      <4>3. QED
        BY <4>1, <4>2
    <3>5. /\ IsFiniteSet(grants'[l])
          /\ Cardinality(grants'[l]) = Cardinality(grants[l]) + 1
      BY <2>0, <3>1, <3>2, FS_AddElement DEF FiniteGrants
    <3>6. FiniteGrants'
      BY <2>0, <3>1, <3>5 DEF FiniteGrants
    <3>7. /\ buckets'[l].age = 0
          /\ buckets'[l].tokens = Refill(buckets[l]).tokens - Token
          /\ Refill(buckets[l]).tokens \in 0 .. Capacity
          /\ Refill(buckets[l]).tokens <= buckets[l].tokens + Rate * buckets[l].age
      BY <2>0, <3>1, TakeTokenFacts, RefillFacts
    <3>8. buckets'[l].tokens + Cardinality(grants'[l]) * Token
            + Rate * buckets'[l].age <= Capacity + Rate * clock'
      <4>1. (Cardinality(grants[l]) + 1) * Token
              = Cardinality(grants[l]) * Token + Token
        BY <3>1, AccountFacts, TokenTimes
      <4>2. buckets[l].tokens + Cardinality(grants[l]) * Token
              + Rate * buckets[l].age <= Capacity + Rate * clock
        BY <3>1 DEF LimiterLedger
      <4> HIDE DEF l
      <4>3. QED
        BY <3>1, <3>5, <3>7, <4>1, <4>2, AccountFacts, PositiveParameters
    <3>9. LimiterLedger'
      BY <2>0, <3>1, <3>8 DEF LimiterLedger
    <3>10. QED
      BY <3>3, <3>4, <3>6, <3>9
  <2>10. ASSUME NEW r \in Requests, RateLimited(r)
         PROVE  LedgerInv'
    <3> DEFINE l == limiter[r]
    <3>1. /\ l \in Limiters
          /\ buckets' = [buckets EXCEPT ![l] = Refill(buckets[l])]
          /\ NextTarget(r, RateLimitedError)
          /\ UNCHANGED <<limiter, clock, grants, calls>>
      BY <2>0, <2>10 DEF RateLimited, TypeInv, Positioned, history
    <3>2. Moves(r)
      BY <2>0, <3>1 DEF NextTarget, Moves
    <3>3. GrantsBehind' /\ TriesOnGrant'
      BY <3>1, <3>2, MovesKeepGrants
    <3>4. buckets'[l].tokens + Cardinality(grants'[l]) * Token
            + Rate * buckets'[l].age <= Capacity + Rate * clock'
      <4>1. /\ buckets'[l].age = 0
            /\ buckets'[l].tokens = Refill(buckets[l]).tokens
            /\ Refill(buckets[l]).tokens \in 0 .. Capacity
            /\ Refill(buckets[l]).tokens <= buckets[l].tokens + Rate * buckets[l].age
        BY <2>0, <3>1, RefillFacts
      <4>2. buckets[l].tokens + Cardinality(grants[l]) * Token
              + Rate * buckets[l].age <= Capacity + Rate * clock
        BY <3>1 DEF LimiterLedger
      <4> HIDE DEF l
      <4>3. QED
        BY <3>1, <4>1, <4>2, AccountFacts, PositiveParameters
    <3>5. LimiterLedger'
      BY <2>0, <3>1, <3>4 DEF LimiterLedger
    <3>6. QED
      BY <3>1, <3>3, <3>5 DEF FiniteGrants
  <2>11. ASSUME NEW r \in Requests, StartCall(r)
         PROVE  LedgerInv'
    <3> DEFINE call == <<<<r, pos[r]>>, attempt[r] + 1>>
    <3>1. /\ pc[r] = "attempt"
          /\ attempt[r] < Attempts
          /\ attempt'[r] = attempt[r] + 1
          /\ calls' = [calls EXCEPT ![limiter[r]] = calls[limiter[r]] \cup {call}]
          /\ pc' = [pc EXCEPT ![r] = "calling"]
          /\ UNCHANGED <<buckets, pos, limiter, clock, grants>>
      BY <2>0, <2>11 DEF StartCall
    <3>2. Moves(r)
      BY <2>0, <3>1 DEF Moves, Trying
    <3>3. GrantsBehind' /\ TriesOnGrant'
      BY <3>1, <3>2, MovesKeepGrants
    <3>4. \A l \in Limiters : calls'[l] \subseteq grants[l] \X (1 .. Tries)
      <4> SUFFICES ASSUME NEW l \in Limiters, NEW c \in calls'[l]
                   PROVE  c \in grants[l] \X (1 .. Tries)
        OBVIOUS
      <4>1. CASE c \in calls[l]
        BY <4>1 DEF LimiterLedger
      <4>2. CASE c \notin calls[l]
        <5>1. l = limiter[r] /\ c = call
          BY <2>0, <3>1, <4>2
        <5>2. <<r, pos[r]>> \in grants[l]
          BY <2>0, <3>1, <5>1 DEF TriesOnGrant, Trying
        <5>3. attempt[r] + 1 \in 1 .. Tries
          BY <2>0, <3>1, AttemptsFacts
        <5>4. QED
          BY <5>1, <5>2, <5>3
      <4>3. QED
        BY <4>1, <4>2
    <3>5. QED
      BY <3>1, <3>3, <3>4 DEF LimiterLedger, FiniteGrants
  <2>12. CASE Tick
    <3>1. /\ clock' = clock + 1
          /\ UNCHANGED <<pc, pos, limiter, grants, calls>>
          /\ \A l \in Limiters : buckets'[l] = Older(buckets[l])
      BY <2>12 DEF Tick, local, history
    <3>2. ASSUME NEW l \in Limiters
          PROVE  buckets'[l].tokens + Cardinality(grants'[l]) * Token
                   + Rate * buckets'[l].age <= Capacity + Rate * clock'
      <4>1. /\ buckets'[l].tokens = buckets[l].tokens
            /\ buckets'[l].age = buckets[l].age + 1 \/ buckets'[l].age = buckets[l].age
        BY <2>0, <3>1, OlderFacts
      <4>2. /\ Rate * (buckets[l].age + 1) = Rate * buckets[l].age + Rate
            /\ Rate * (clock + 1) = Rate * clock + Rate
        BY AccountFacts, RateTimes
      <4>3. Rate * buckets'[l].age \in Int
              /\ Rate * buckets'[l].age <= Rate * buckets[l].age + Rate
        BY <4>1, <4>2, AccountFacts, PositiveParameters
      <4>4. buckets[l].tokens + Cardinality(grants[l]) * Token
              + Rate * buckets[l].age <= Capacity + Rate * clock
        BY DEF LimiterLedger
      <4>5. QED
        BY <3>1, <4>1, <4>2, <4>3, <4>4, AccountFacts, PositiveParameters
    <3>3. LimiterLedger' /\ FiniteGrants'
      BY <3>1, <3>2 DEF LimiterLedger, FiniteGrants
    <3>4. GrantsBehind' /\ TriesOnGrant'
      BY <3>1 DEF GrantsBehind, TriesOnGrant
    <3>5. QED
      BY <3>3, <3>4
  <2>13. CASE Configure
    BY <2>1, <2>13
       DEF Configure, Register, SetLimiter, AddRoute, SetDefaultRoute, local, history
  <2>14. ASSUME NEW r \in Requests, NEW c \in EndCauses, EndContext(r, c)
         PROVE  LedgerInv'
    BY <2>1, <2>14 DEF EndContext, local, history
  <2>15. CASE UNCHANGED vars
    BY <2>1, <2>15 DEF vars
  <2>16. QED
    BY <2>3, <2>4, <2>6, <2>7, <2>8, <2>9, <2>10, <2>11, <2>12, <2>13, <2>14, <2>15
       DEF Next, Serve, Step, AllReturned
<1>3. QED
  BY <1>1, <1>2, TypeInvariant, PTL DEF Spec

(***************************************************************************)
(* The accounts of UpstreamBudget balance for any number of requests.      *)
(***************************************************************************)
THEOREM LimiterLedgerHolds == Spec => []LimiterLedger
<1>1. LedgerInv => LimiterLedger
  BY DEF LedgerInv
<1>2. QED
  BY <1>1, LedgerInvariant, PTL

(***************************************************************************)
(* The promise of a limiter to the providers behind it: however many       *)
(* requests retry and fail over, the calls stay within the tries of the    *)
(* policy times the allowance of the bucket.                               *)
(***************************************************************************)
THEOREM UpstreamBudgetHolds == Spec => []UpstreamBudget
<1>1. TypeInv /\ LedgerInv => UpstreamBudget
  <2> SUFFICES ASSUME TypeInv, LedgerInv, NEW l \in Limiters
               PROVE  Cardinality(calls[l]) * Token
                        <= Tries * (Capacity + Rate * clock)
    BY DEF UpstreamBudget
  <2> DEFINE n == Cardinality(grants[l])
             m == Cardinality(calls[l])
             allowance == Capacity + Rate * clock
  <2>1. /\ FiniteGrants
        /\ IsFiniteSet(grants[l])
        /\ calls[l] \subseteq grants[l] \X (1 .. Tries)
        /\ buckets[l].tokens + n * Token + Rate * buckets[l].age <= allowance
    BY DEF LedgerInv, FiniteGrants, LimiterLedger
  <2>2. Tries \in Nat \ {0}
    BY AttemptsFacts
  <2>3. IsFiniteSet(1 .. Tries) /\ Cardinality(1 .. Tries) = Tries
    BY <2>2, FS_Interval
  <2>4. /\ IsFiniteSet(grants[l] \X (1 .. Tries))
        /\ Cardinality(grants[l] \X (1 .. Tries)) = n * Tries
    BY <2>1, <2>3, FS_Product
  <2>5. m \in Nat /\ m <= n * Tries
    BY <2>1, <2>4, FS_Subset, FS_CardinalityType
  <2>6. n \in Nat /\ n * Token \in Nat /\ allowance \in Nat /\ n * Token <= allowance
    BY <2>1, AccountFacts, PositiveParameters
  <2> HIDE DEF n, m, allowance
  <2>7. m * Token <= (n * Tries) * Token
    BY <2>2, <2>5, <2>6, PositiveParameters
  <2>8. (n * Tries) * Token = Tries * (n * Token)
    BY <2>2, <2>6, PositiveParameters
  <2>9. Tries * (n * Token) <= Tries * allowance
    BY <2>2, <2>6
  <2>10. /\ m * Token \in Nat
         /\ (n * Tries) * Token \in Nat
         /\ Tries * allowance \in Nat
    BY <2>2, <2>5, <2>6, PositiveParameters
  <2>11. QED
    BY <2>7, <2>8, <2>9, <2>10 DEF m, allowance
<1>2. QED
  BY <1>1, TypeInvariant, LedgerInvariant, PTL
-----------------------------------------------------------------------------
(***************************************************************************)
(* What a caller's context does to the router, whenever it ends: how far a *)
(* request gets after its caller went away, and what becomes of the tokens *)
(* that the limiters gave out.                                             *)
(***************************************************************************)
\* A request whose context ended is at the target at which it ended, or found
\* out when it came to the next one.
EndedHere ==
    \A r \in Requests :
        Ended(r) =>
            /\ pos[r] <= endedAt[r] + 1
            /\ pc[r] \in AtTarget \cup {"served"} => pos[r] = endedAt[r]

\* A call is made where the request stands, and only while its context lives.
CallsBehind ==
    \A l \in Limiters \cup {NoLimiter} : \A call \in calls[l] :
        /\ call[1][2] <= pos[call[1][1]]
        /\ Ended(call[1][1]) => call[1][2] <= endedAt[call[1][1]]

\* A token is spent on a call, lost to the end of the context, or about to be
\* spent.
TokensDue ==
    \A l \in Limiters : \A visit \in grants[l] :
        \/ \E call \in calls[l] : call[1] = visit
        \/ Ended(visit[1]) /\ endedAt[visit[1]] = visit[2]
        \/ /\ pc[visit[1]] = "attempt"
           /\ pos[visit[1]] = visit[2]
           /\ limiter[visit[1]] = l

ContextInv == EndedHere /\ CallsBehind /\ TokensDue
-----------------------------------------------------------------------------
\* A step of r that makes no call and admits nothing.  It leaves the target
\* only from there; it comes to a target only while its context lives, and it
\* gives up the first call only when that has ended.
Advances(r) ==
    /\ \A q \in Requests \ {r} :
         pos'[q] = pos[q] /\ pc'[q] = pc[q] /\ limiter'[q] = limiter[q]
    /\ \/ /\ pos'[r] = pos[r]
          /\ \/ pc[r] \in AtTarget
             \/ pc'[r] \notin AtTarget \cup {"served"}
             \/ ~Ended(r)
       \/ pos'[r] = pos[r] + 1 /\ pc[r] \in AtTarget /\ pc'[r] = "target"
    /\ pc[r] = "attempt" => Ended(r)
    /\ UNCHANGED <<ctx, endedAt, grants, calls>>

\* The sets in which the requests, visits and calls of the history lie.
LEMMA HistoryTypes ==
    ASSUME TypeInv
    PROVE  /\ \A l \in Limiters : \A visit \in grants[l] :
                visit[1] \in Requests /\ visit[2] \in Nat
           /\ \A l \in Limiters \cup {NoLimiter} : \A call \in calls[l] :
                /\ call[1] = <<call[1][1], call[1][2]>>
                /\ call[1][1] \in Requests
                /\ call[1][2] \in Nat
           /\ \A r \in Requests : pos[r] \in Nat /\ endedAt[r] \in Nat
BY DEF TypeInv, TypeOK, Visits

LEMMA AdvancesKeepsContextInv ==
    ASSUME TypeInv, ContextInv, NEW r \in Requests, Advances(r)
    PROVE  ContextInv'
<1>1. \A q \in Requests : /\ pos[q] \in Nat /\ endedAt[q] \in Nat
                          /\ pos'[q] \in Nat /\ pos'[q] >= pos[q]
                          /\ Ended(q)' <=> Ended(q)
  BY HistoryTypes DEF Advances, Ended
<1>2. EndedHere'
  <2> SUFFICES ASSUME NEW q \in Requests, Ended(q)
               PROVE  /\ pos'[q] <= endedAt[q] + 1
                      /\ pc'[q] \in AtTarget \cup {"served"} => pos'[q] = endedAt[q]
    BY <1>1 DEF EndedHere, Advances
  <2>1. CASE q # r
    BY <2>1 DEF ContextInv, EndedHere, Advances
  <2>2. CASE q = r
    BY <1>1, <2>2 DEF ContextInv, EndedHere, Advances, AtTarget
  <2>3. QED
    BY <2>1, <2>2
<1>3. CallsBehind'
  <2> SUFFICES ASSUME NEW l \in Limiters \cup {NoLimiter}, NEW call \in calls[l]
               PROVE  /\ call[1][2] <= pos'[call[1][1]]
                      /\ Ended(call[1][1])' => call[1][2] <= endedAt[call[1][1]]
    BY DEF CallsBehind, Advances
  <2>1. call[1][1] \in Requests /\ call[1][2] \in Nat
    BY HistoryTypes
  <2>2. QED
    BY <1>1, <2>1 DEF ContextInv, CallsBehind
<1>4. TokensDue'
  <2> SUFFICES ASSUME NEW l \in Limiters, NEW visit \in grants[l],
                      ~ \E call \in calls[l] : call[1] = visit,
                      ~(Ended(visit[1]) /\ endedAt[visit[1]] = visit[2])
               PROVE  /\ pc'[visit[1]] = "attempt"
                      /\ pos'[visit[1]] = visit[2]
                      /\ limiter'[visit[1]] = l
    BY DEF TokensDue, Advances, Ended
  <2>1. /\ visit[1] \in Requests
        /\ pc[visit[1]] = "attempt"
        /\ pos[visit[1]] = visit[2]
        /\ limiter[visit[1]] = l
    BY HistoryTypes DEF ContextInv, TokensDue
  <2>2. visit[1] # r
    BY <2>1 DEF ContextInv, EndedHere, AtTarget, Advances
  <2>3. QED
    BY <2>1, <2>2 DEF Advances
<1>5. QED
  BY <1>2, <1>3, <1>4 DEF ContextInv

\* A step that none of the three parts looks at.
LEMMA ContextUntouched ==
    ASSUME ContextInv, UNCHANGED <<pc, pos, limiter, ctx, endedAt, grants, calls>>
    PROVE  ContextInv'
BY DEF ContextInv, EndedHere, CallsBehind, TokensDue, Ended

(***************************************************************************)
(* Where a request, its calls and its tokens are when its context ends is  *)
(* remembered by every step.                                               *)
(***************************************************************************)
THEOREM ContextInvariant == Spec => []ContextInv
<1>1. Init => ContextInv
  BY DEF Init, RequestsInit, ContextInv, EndedHere, CallsBehind, TokensDue, Ended
<1>2. TypeInv /\ ContextInv /\ [Next]_vars => ContextInv'
  <2> SUFFICES ASSUME TypeInv, ContextInv, [Next]_vars
               PROVE  ContextInv'
    OBVIOUS
  <2>0. /\ pos \in [Requests -> Nat]
        /\ pc \in [Requests -> Working \cup Returned]
        /\ limiter \in [Requests -> Limiters \cup {NoLimiter}]
        /\ ctx \in [Requests -> {"live"} \cup ContextCauses]
        /\ endedAt \in [Requests -> Nat]
        /\ grants \in [Limiters -> SUBSET Visits]
        /\ calls \in [Limiters \cup {NoLimiter} -> SUBSET (Visits \X Nat)]
    BY DEF TypeInv, TypeOK
  <2>1. ASSUME NEW r \in Requests,
               Resolve(r) \/ CheckContext(r) \/ ChainExhausted(r)
        PROVE  Advances(r)
    BY <2>0, <2>1 DEF Resolve, CheckContext, ChainExhausted, Advances, AtTarget, history
  <2>2. ASSUME NEW r \in Requests,
               LookupRegistered(r) \/ LookupUnregistered(r) \/ RateLimited(r)
        PROVE  Advances(r)
    BY <2>0, <2>2 DEF LookupRegistered, LookupUnregistered, RateLimited, NextTarget,
                      Advances, AtTarget, history
  <2>3. ASSUME NEW r \in Requests, NEW err, Finish(r, err), pc[r] \in AtTarget,
               pc[r] = "attempt" => Ended(r),
               UNCHANGED <<limiter, ctx, endedAt, grants, calls>>
        PROVE  Advances(r)
    BY <2>0, <2>3 DEF Finish, NextTarget, Advances
  <2>4. ASSUME NEW r \in Requests, GiveUpBeforeCall(r) \/ BackoffCancelled(r)
        PROVE  Advances(r)
    BY <2>3, <2>4 DEF GiveUpBeforeCall, BackoffCancelled, AtTarget, history
  <2>5. ASSUME NEW r \in Requests, ReturnOK(r) \/ BackoffElapses(r)
        PROVE  Advances(r)
    BY <2>0, <2>5 DEF ReturnOK, BackoffElapses, Advances, AtTarget, history
  <2>6. ASSUME NEW r \in Requests, ReturnError(r)
        PROVE  Advances(r)
    <3>1. PICK err \in CallErrors(r) :
            IF TriesAgain(r, err)
            THEN /\ pc' = [pc EXCEPT ![r] = "backoff"]
                 /\ UNCHANGED <<pos, failures>>
            ELSE Finish(r, err)
      BY <2>6 DEF ReturnError
    <3>2. pc[r] = "calling" /\ UNCHANGED <<limiter, ctx, endedAt, grants, calls>>
      BY <2>6 DEF ReturnError, history
    <3>3. CASE TriesAgain(r, err)
      BY <2>0, <3>1, <3>2, <3>3 DEF Advances, AtTarget
    <3>4. CASE ~TriesAgain(r, err)
      BY <2>3, <3>1, <3>2, <3>4 DEF AtTarget
    <3>5. QED
      BY <3>3, <3>4
  <2>7. ASSUME NEW r \in Requests, Admitted(r)
        PROVE  ContextInv'
    <3> DEFINE l == limiter[r]
    <3>1. /\ pc[r] = "admit" /\ pc' = [pc EXCEPT ![r] = "attempt"]
          /\ l \in Limiters
          /\ grants' = [grants EXCEPT ![l] = grants[l] \cup {<<r, pos[r]>>}]
          /\ UNCHANGED <<pos, limiter, ctx, endedAt, calls>>
      BY <2>0, <2>7 DEF Admitted, TypeInv, Positioned
    <3>2. EndedHere' /\ CallsBehind'
      BY <2>0, <3>1 DEF ContextInv, EndedHere, CallsBehind, Ended, AtTarget
    <3>3. TokensDue'
      <4> SUFFICES ASSUME NEW k \in Limiters, NEW visit \in grants'[k]
                   PROVE  \/ \E call \in calls[k] : call[1] = visit
                          \/ Ended(visit[1]) /\ endedAt[visit[1]] = visit[2]
                          \/ /\ pc'[visit[1]] = "attempt"
                             /\ pos[visit[1]] = visit[2]
                             /\ limiter[visit[1]] = k
        BY <3>1 DEF TokensDue, Ended
      <4>1. CASE visit \in grants[k]
        <5>1. visit[1] = r => pc[visit[1]] # "attempt"
          BY <3>1
        <5>2. visit[1] \in Requests
          BY <4>1, HistoryTypes
        <5>3. QED
          BY <2>0, <3>1, <4>1, <5>1, <5>2 DEF ContextInv, TokensDue
      <4>2. CASE visit \notin grants[k]
        <5>1. k = l /\ visit = <<r, pos[r]>>
          BY <2>0, <3>1, <4>2
        <5>2. QED
          BY <2>0, <3>1, <5>1
      <4>3. QED
        BY <4>1, <4>2
    <3>4. QED
      BY <3>2, <3>3 DEF ContextInv
  <2>8. ASSUME NEW r \in Requests, StartCall(r)
        PROVE  ContextInv'
    <3> DEFINE l    == limiter[r]
               new == <<<<r, pos[r]>>, attempt'[r]>>
    <3>1. /\ pc[r] = "attempt" /\ pc' = [pc EXCEPT ![r] = "calling"]
          /\ ~Ended(r)
          /\ l \in Limiters \cup {NoLimiter}
          /\ calls' = [calls EXCEPT ![l] = calls[l] \cup {new}]
          /\ UNCHANGED <<pos, limiter, ctx, endedAt, grants>>
      BY <2>0, <2>8 DEF StartCall
    <3>2. EndedHere'
      BY <2>0, <3>1 DEF ContextInv, EndedHere, Ended, AtTarget
    <3>3. CallsBehind'
      <4> SUFFICES ASSUME NEW k \in Limiters \cup {NoLimiter}, NEW call \in calls'[k]
                   PROVE  /\ call[1][2] <= pos[call[1][1]]
                          /\ Ended(call[1][1]) => call[1][2] <= endedAt[call[1][1]]
        BY <3>1 DEF CallsBehind, Ended
      <4>1. CASE call \in calls[k]
        BY <4>1 DEF ContextInv, CallsBehind
      <4>2. CASE call \notin calls[k]
        <5>1. call[1][1] = r /\ call[1][2] = pos[r]
          BY <2>0, <3>1, <4>2
        <5>2. QED
          BY <2>0, <3>1, <5>1
      <4>3. QED
        BY <4>1, <4>2
    <3>4. TokensDue'
      <4> SUFFICES ASSUME NEW k \in Limiters, NEW visit \in grants[k],
                          ~ \E call \in calls'[k] : call[1] = visit,
                          ~(Ended(visit[1]) /\ endedAt[visit[1]] = visit[2])
                   PROVE  /\ pc'[visit[1]] = "attempt"
                          /\ pos[visit[1]] = visit[2]
                          /\ limiter[visit[1]] = k
        BY <3>1 DEF TokensDue, Ended
      <4>1. /\ visit = <<visit[1], visit[2]>>
            /\ visit[1] \in Requests
        BY <2>0 DEF Visits
      <4>2. ~ \E call \in calls[k] : call[1] = visit
        BY <2>0, <3>1
      <4>3. /\ pc[visit[1]] = "attempt"
            /\ pos[visit[1]] = visit[2]
            /\ limiter[visit[1]] = k
        BY <4>2 DEF ContextInv, TokensDue
      <4>4. visit[1] # r
        <5> SUFFICES ASSUME visit[1] = r PROVE FALSE
          OBVIOUS
        <5>1. k = l /\ visit = <<r, pos[r]>>
          BY <4>1, <4>3
        <5>2. new \in calls'[k] /\ new[1] = visit
          BY <2>0, <3>1, <5>1
        <5>3. QED
          BY <5>2
      <4>5. QED
        BY <2>0, <3>1, <4>1, <4>3, <4>4
    <3>5. QED
      BY <3>2, <3>3, <3>4 DEF ContextInv
  <2>9. ASSUME NEW r \in Requests, NEW c \in EndCauses, EndContext(r, c)
        PROVE  ContextInv'
    <3>1. /\ ~Ended(r) /\ pc[r] \in Working
          /\ ctx' = [ctx EXCEPT ![r] = c]
          /\ endedAt' = [endedAt EXCEPT ![r] = pos[r]]
          /\ UNCHANGED <<pc, pos, limiter, grants, calls>>
      BY <2>9 DEF EndContext, local, history
    <3>2. EndedHere'
      BY <2>0, <3>1 DEF ContextInv, EndedHere, Ended
    <3>3. CallsBehind'
      <4> SUFFICES ASSUME NEW l \in Limiters \cup {NoLimiter}, NEW call \in calls[l]
                   PROVE  /\ call[1][2] <= pos[call[1][1]]
                          /\ Ended(call[1][1])' => call[1][2] <= endedAt'[call[1][1]]
        BY <3>1 DEF CallsBehind
      <4>1. call[1][1] \in Requests
        BY HistoryTypes
      <4>2. call[1][2] <= pos[call[1][1]]
        BY DEF ContextInv, CallsBehind
      <4>3. CASE call[1][1] = r
        BY <2>0, <3>1, <4>2, <4>3
      <4>4. CASE call[1][1] # r
        BY <2>0, <3>1, <4>1, <4>2, <4>4 DEF ContextInv, CallsBehind, Ended
      <4>5. QED
        BY <4>3, <4>4
    <3>4. TokensDue'
      <4> SUFFICES ASSUME NEW l \in Limiters, NEW visit \in grants[l],
                          Ended(visit[1]), endedAt[visit[1]] = visit[2]
                   PROVE  Ended(visit[1])' /\ endedAt'[visit[1]] = visit[2]
        BY <3>1 DEF ContextInv, TokensDue
      <4>1. visit[1] \in Requests /\ visit[1] # r
        BY <3>1, HistoryTypes
      <4>2. QED
        BY <2>0, <3>1, <4>1 DEF Ended
    <3>5. QED
      BY <3>2, <3>3, <3>4 DEF ContextInv
  <2>10. CASE Tick \/ Configure \/ UNCHANGED vars
    BY <2>10, ContextUntouched
       DEF Tick, Configure, Register, SetLimiter, AddRoute, SetDefaultRoute,
           local, history, vars
  <2>11. QED
    BY <2>1, <2>2, <2>4, <2>5, <2>6, <2>7, <2>8, <2>9, <2>10, AdvancesKeepsContextInv
       DEF Next, Serve, Step, AllReturned
<1>3. QED
  BY <1>1, <1>2, TypeInvariant, PTL DEF Spec

(***************************************************************************)
(* A caller that went away is not worked for any longer, wherever its      *)
(* context ended.                                                          *)
(***************************************************************************)
THEOREM EndedContextStops == Spec => []EndedContextStopsFailover
<1>1. TypeInv /\ ContextInv => EndedContextStopsFailover
  <2> SUFFICES ASSUME TypeInv, ContextInv, NEW r \in Requests, Ended(r)
               PROVE  /\ pos[r] <= endedAt[r] + 1
                      /\ pc[r] = "served" => pos[r] = endedAt[r]
                      /\ \A l \in DOMAIN calls : \A call \in calls[l] :
                             call[1][1] = r => call[1][2] <= endedAt[r]
    BY DEF EndedContextStopsFailover
  <2>1. DOMAIN calls = Limiters \cup {NoLimiter}
    BY DEF TypeInv, TypeOK
  <2>2. QED
    BY <2>1 DEF ContextInv, EndedHere, CallsBehind
<1>2. QED
  BY <1>1, ContextInvariant, TypeInvariant, PTL

(***************************************************************************)
(* No token is lost, except to a context that ends between the admission   *)
(* and the first call.                                                     *)
(***************************************************************************)
THEOREM TokensSpent == Spec => []TokensAreSpent
<1>1. TypeInv /\ ContextInv => TokensAreSpent
  <2> SUFFICES ASSUME TypeInv, ContextInv,
                      NEW l \in Limiters, NEW visit \in grants[l],
                      pos[visit[1]] > visit[2] \/ pc[visit[1]] \in Returned
               PROVE  \/ \E call \in calls[l] : call[1] = visit
                      \/ endedAt[visit[1]] = visit[2]
    BY DEF TokensAreSpent
  <2>1. visit[1] \in Requests /\ visit[2] \in Nat /\ pos[visit[1]] \in Nat
    BY HistoryTypes
  <2>2. ~(pc[visit[1]] = "attempt" /\ pos[visit[1]] = visit[2])
    BY <2>1 DEF Returned
  <2>3. QED
    BY <2>2 DEF ContextInv, TokensDue
<1>2. QED
  BY <1>1, ContextInvariant, TypeInvariant, PTL
-----------------------------------------------------------------------------
(***************************************************************************)
(* The moves that are left to a call of Chat.                              *)
(***************************************************************************)
\* The moves that the targets after this one may take, and MovesLeft as a
\* function of what it reads of a request.
After(length, p) == (length - p) * MovesPerTarget

Left(place, length, p, k) ==
    IF place \in Returned THEN 0
    ELSE After(length, p)
           + [target  |-> MovesPerTarget,
              lookup  |-> MovesPerTarget - 1,
              admit   |-> MovesPerTarget - 2,
              attempt |-> 3 * (Attempts - k) + 1,
              calling |-> 3 * (Attempts - k) + 3,
              backoff |-> 3 * (Attempts - k) + 2][place] + 1

\* A request begins with the first target, passes its chain by no more than the
\* head of the loop, and its tries are those of the policy.
WithinBounds ==
    \A r \in Requests :
        /\ pc[r] = "start" => pos[r] = 1
        /\ pc[r] = "target" => pos[r] <= Len(chain[r]) + 1
        /\ pc[r] \in Trying \cup {"admit"} => attempt[r] <= Attempts

LEMMA LeftIsMovesLeft ==
    ASSUME NEW r
    PROVE  /\ MovesLeft(r) = Left(pc[r], Len(chain[r]), pos[r], attempt[r])
           /\ MovesLeft(r)' = Left(pc'[r], Len(chain'[r]), pos'[r], attempt'[r])
BY DEF MovesLeft, MovesHere, Left, After

LEMMA LeftValues ==
    ASSUME NEW n \in Nat, NEW p \in Nat, NEW k \in Nat
    PROVE  /\ After(n, p) \in Int
           /\ p <= n => After(n, p) >= 0
           /\ p <= n + 1 => After(n, p) >= -(3 * Attempts + 4)
           /\ Left("target", n, p, k) = After(n, p) + 3 * Attempts + 5
           /\ Left("lookup", n, p, k) = After(n, p) + 3 * Attempts + 4
           /\ Left("admit", n, p, k) = After(n, p) + 3 * Attempts + 3
           /\ Left("attempt", n, p, k) = After(n, p) + 3 * (Attempts - k) + 2
           /\ Left("calling", n, p, k) = After(n, p) + 3 * (Attempts - k) + 4
           /\ Left("backoff", n, p, k) = After(n, p) + 3 * (Attempts - k) + 3
           /\ Left("target", n, p + 1, k) = After(n, p) + 1
           /\ \A place \in Returned : Left(place, n, p, k) = 0
<1> DEFINE W == MovesPerTarget
           before == After(n, p)
<1>1. Attempts \in Nat /\ W \in Nat /\ W = 3 * Attempts + 4
  BY AttemptsFacts DEF MovesPerTarget
<1>2. before \in Int /\ (p <= n => before >= 0)
  BY <1>1 DEF After
<1>3. After(n, p + 1) = before - W
  BY <1>1 DEF After
<1>4. p <= n + 1 => before >= -W
  <2>1. CASE p <= n
    BY <1>1, <1>2, <2>1
  <2>2. CASE p = n + 1
    BY <1>1, <2>2 DEF After
  <2>3. QED
    BY <2>1, <2>2
<1>5. /\ Left("target", n, p, k) = before + W + 1
      /\ Left("lookup", n, p, k) = before + (W - 1) + 1
      /\ Left("admit", n, p, k) = before + (W - 2) + 1
      /\ Left("attempt", n, p, k) = before + (3 * (Attempts - k) + 1) + 1
      /\ Left("calling", n, p, k) = before + (3 * (Attempts - k) + 3) + 1
      /\ Left("backoff", n, p, k) = before + (3 * (Attempts - k) + 2) + 1
      /\ Left("target", n, p + 1, k) = After(n, p + 1) + W + 1
  BY DEF Left, Returned
<1>6. \A place \in Returned : Left(place, n, p, k) = 0
  BY DEF Left
<1> HIDE DEF before, W
<1>7. /\ Left("target", n, p, k) = before + 3 * Attempts + 5
      /\ Left("lookup", n, p, k) = before + 3 * Attempts + 4
      /\ Left("admit", n, p, k) = before + 3 * Attempts + 3
      /\ Left("target", n, p + 1, k) = before + 1
  BY <1>1, <1>2, <1>3, <1>5
<1>8. /\ Left("attempt", n, p, k) = before + 3 * (Attempts - k) + 2
      /\ Left("calling", n, p, k) = before + 3 * (Attempts - k) + 4
      /\ Left("backoff", n, p, k) = before + 3 * (Attempts - k) + 3
  BY <1>1, <1>2, <1>5
<1>9. QED
  BY <1>1, <1>2, <1>4, <1>6, <1>7, <1>8 DEF before

\* What a request with a route does: it moves alone, and uses up moves.
Shortens(q) ==
    /\ \A r \in Requests \ {q} :
         UNCHANGED <<pc[r], chain[r], pos[r], limiter[r], attempt[r], failures[r]>>
    /\ 0 <= MovesLeft(q)' /\ MovesLeft(q)' < MovesLeft(q)

LEMMA LocalTypes ==
    ASSUME TypeInv, NEW r \in Requests
    PROVE  /\ Len(chain[r]) \in Nat
           /\ pos[r] \in Nat /\ pos[r] >= 1
           /\ attempt[r] \in Nat
           /\ pc[r] \in Working \cup Returned
           /\ pc[r] \in AtTarget => pos[r] <= Len(chain[r])
BY ChainFacts DEF TypeInv, TypeOK, Positioned

\* A target that is ruled out, or an error that is final, from anywhere.
LEMMA VisitEnds ==
    ASSUME TypeInv, WithinBounds, NEW q \in Requests, pc[q] \in AtTarget,
           \/ /\ pos' = [pos EXCEPT ![q] = @ + 1]
              /\ pc' = [pc EXCEPT ![q] = "target"]
           \/ /\ pos' = pos
              /\ pc' = [pc EXCEPT ![q] = "routeError"],
           \E err : failures' = Recorded(q, err),
           UNCHANGED <<chain, limiter, attempt>>
    PROVE  Shortens(q) /\ WithinBounds'
<1> DEFINE n == Len(chain[q])
           p == pos[q]
           k == attempt[q]
<1>1. /\ n \in Nat /\ p \in Nat /\ k \in Nat
      /\ p <= n
      /\ Attempts \in Nat
  BY LocalTypes, AttemptsFacts
<1>2. pc[q] \in Trying \cup {"admit"} => k <= Attempts
  BY DEF WithinBounds
<1>3. /\ MovesLeft(q) = Left(pc[q], n, p, k)
      /\ MovesLeft(q)' = Left(pc'[q], n, pos'[q], k)
  BY LeftIsMovesLeft
<1>4. \/ pc'[q] = "target" /\ pos'[q] = p + 1
      \/ pc'[q] = "routeError" /\ pos'[q] = p
  BY DEF TypeInv, TypeOK
<1> HIDE DEF n, p, k
<1>5. /\ After(n, p) \in Int /\ After(n, p) >= 0
      /\ Left("lookup", n, p, k) = After(n, p) + 3 * Attempts + 4
      /\ Left("admit", n, p, k) = After(n, p) + 3 * Attempts + 3
      /\ Left("attempt", n, p, k) = After(n, p) + 3 * (Attempts - k) + 2
      /\ Left("calling", n, p, k) = After(n, p) + 3 * (Attempts - k) + 4
      /\ Left("backoff", n, p, k) = After(n, p) + 3 * (Attempts - k) + 3
      /\ Left("target", n, p + 1, k) = After(n, p) + 1
      /\ Left("routeError", n, p, k) = 0
  BY <1>1, LeftValues DEF Returned
<1>6. MovesLeft(q) \in Int /\ MovesLeft(q) > After(n, p) + 1
  <2>1. CASE pc[q] \in {"lookup", "admit"}
    BY <1>1, <1>3, <1>5, <2>1
  <2>2. CASE pc[q] \in Trying
    BY <1>1, <1>2, <1>3, <1>5, <2>2 DEF Trying
  <2>3. QED
    BY <2>1, <2>2 DEF AtTarget, Trying
<1>7. 0 <= MovesLeft(q)' /\ MovesLeft(q)' < MovesLeft(q)
  <2>1. MovesLeft(q)' = After(n, p) + 1 \/ MovesLeft(q)' = 0
    BY <1>3, <1>4, <1>5
  <2>2. QED
    BY <1>5, <1>6, <2>1
<1>8. \A r \in Requests \ {q} :
        UNCHANGED <<pc[r], chain[r], pos[r], limiter[r], attempt[r], failures[r]>>
  BY DEF TypeInv, TypeOK, Recorded
<1>9. WithinBounds'
  <2> SUFFICES ASSUME NEW r \in Requests
               PROVE  /\ pc'[r] = "start" => pos'[r] = 1
                      /\ pc'[r] = "target" => pos'[r] <= Len(chain'[r]) + 1
                      /\ pc'[r] \in Trying \cup {"admit"} => attempt'[r] <= Attempts
    BY DEF WithinBounds
  <2>1. CASE r = q
    BY <1>1, <1>4, <2>1 DEF Trying, n, p
  <2>2. CASE r # q
    BY <1>8, <2>2 DEF WithinBounds
  <2>3. QED
    BY <2>1, <2>2
<1>10. QED
  BY <1>7, <1>8, <1>9 DEF Shortens

\* A move at a target, which may begin a try.
LEMMA VisitGoesOn ==
    ASSUME TypeInv, WithinBounds, NEW q \in Requests,
           NEW place \in (AtTarget \cup Returned), NEW tries \in Nat,
           pc' = [pc EXCEPT ![q] = place],
           attempt' = [attempt EXCEPT ![q] = tries],
           \A r \in Requests \ {q} : limiter'[r] = limiter[r],
           UNCHANGED <<chain, pos, failures>>,
           place \in Trying \cup {"admit"} => tries <= Attempts,
           LET length == Len(chain[q])
               left   == Left(place, length, pos[q], tries)
           IN  0 <= left /\ left < Left(pc[q], length, pos[q], attempt[q])
    PROVE  Shortens(q) /\ WithinBounds'
<1>1. /\ pc'[q] = place /\ attempt'[q] = tries
      /\ chain'[q] = chain[q] /\ pos'[q] = pos[q]
  BY DEF TypeInv, TypeOK
<1>2. 0 <= MovesLeft(q)' /\ MovesLeft(q)' < MovesLeft(q)
  BY <1>1, LeftIsMovesLeft
<1>3. \A r \in Requests \ {q} :
        UNCHANGED <<pc[r], chain[r], pos[r], limiter[r], attempt[r], failures[r]>>
  BY DEF TypeInv, TypeOK
<1>4. WithinBounds'
  <2> SUFFICES ASSUME NEW r \in Requests
               PROVE  /\ pc'[r] = "start" => pos'[r] = 1
                      /\ pc'[r] = "target" => pos'[r] <= Len(chain'[r]) + 1
                      /\ pc'[r] \in Trying \cup {"admit"} => attempt'[r] <= Attempts
    BY DEF WithinBounds
  <2>1. CASE r = q
    BY <1>1, <2>1 DEF AtTarget, Returned
  <2>2. CASE r # q
    BY <1>3, <2>2 DEF WithinBounds
  <2>3. QED
    BY <2>1, <2>2
<1>5. QED
  BY <1>2, <1>3, <1>4 DEF Shortens

LEMMA StepShortens ==
    ASSUME TypeInv, WithinBounds, NEW q \in Requests, Step(q), ~Resolve(q)
    PROVE  Shortens(q) /\ WithinBounds'
<1> DEFINE n == Len(chain[q])
           p == pos[q]
           k == attempt[q]
<1>1. n \in Nat /\ p \in Nat /\ k \in Nat /\ Attempts \in Nat \ {0}
  BY LocalTypes, AttemptsFacts
<1>2. /\ pc[q] \in AtTarget => p <= n
      /\ pc[q] = "target" => p <= n + 1
      /\ pc[q] \in Trying \cup {"admit"} => k <= Attempts
  BY LocalTypes DEF WithinBounds
<1>3. attempt = [attempt EXCEPT ![q] = k]
  BY DEF TypeInv, TypeOK
<1>4. /\ After(n, p) \in Int
      /\ p <= n => After(n, p) >= 0
      /\ p <= n + 1 => After(n, p) >= -(3 * Attempts + 4)
  BY <1>1, LeftValues
<1> HIDE DEF n, p, k
<1>5. ASSUME NEW t \in Nat
      PROVE  /\ Left("target", n, p, t) = After(n, p) + 3 * Attempts + 5
             /\ Left("lookup", n, p, t) = After(n, p) + 3 * Attempts + 4
             /\ Left("admit", n, p, t) = After(n, p) + 3 * Attempts + 3
             /\ Left("attempt", n, p, t) = After(n, p) + 3 * (Attempts - t) + 2
             /\ Left("calling", n, p, t) = After(n, p) + 3 * (Attempts - t) + 4
             /\ Left("backoff", n, p, t) = After(n, p) + 3 * (Attempts - t) + 3
  BY <1>1, LeftValues
<1>6. \A place \in Returned : Left(place, n, p, k) = 0
  BY <1>1, LeftValues
<1>7. CASE CheckContext(q)
  <2> DEFINE place == IF Ended(q) THEN "contextError" ELSE "lookup"
  <2>1. /\ pc[q] = "target" /\ p <= n
        /\ pc' = [pc EXCEPT ![q] = place]
        /\ UNCHANGED <<chain, pos, failures, limiter, attempt>>
    BY <1>7 DEF CheckContext, n, p
  <2>2. place \in {"contextError", "lookup"}
    OBVIOUS
  <2> HIDE DEF place
  <2>3. 0 <= Left(place, n, p, k) /\ Left(place, n, p, k) < Left(pc[q], n, p, k)
    BY <1>1, <1>4, <1>5, <1>6, <2>1, <2>2 DEF Returned
  <2>4. QED
    BY <1>1, <1>3, <2>1, <2>2, <2>3, VisitGoesOn DEF AtTarget, Returned, Trying, n, p, k
<1>8. CASE ChainExhausted(q)
  <2>1. /\ pc[q] = "target"
        /\ pc' = [pc EXCEPT ![q] = "routeError"]
        /\ UNCHANGED <<chain, pos, failures, limiter, attempt>>
    BY <1>8 DEF ChainExhausted
  <2>2. 0 <= Left("routeError", n, p, k) /\ Left("routeError", n, p, k) < Left(pc[q], n, p, k)
    BY <1>1, <1>2, <1>4, <1>5, <1>6, <2>1 DEF Returned
  <2>3. QED
    BY <1>1, <1>3, <2>1, <2>2, VisitGoesOn DEF AtTarget, Returned, Trying, n, p, k
<1>9. CASE LookupRegistered(q)
  <2> DEFINE place == IF limiter'[q] = NoLimiter THEN "attempt" ELSE "admit"
  <2>1. /\ pc[q] = "lookup"
        /\ pc' = [pc EXCEPT ![q] = place]
        /\ attempt' = [attempt EXCEPT ![q] = 0]
        /\ \A r \in Requests \ {q} : limiter'[r] = limiter[r]
        /\ UNCHANGED <<chain, pos, failures>>
    BY <1>9 DEF LookupRegistered, TypeInv, TypeOK
  <2>2. place \in {"attempt", "admit"}
    OBVIOUS
  <2> HIDE DEF place
  <2>3. 0 <= Left(place, n, p, 0) /\ Left(place, n, p, 0) < Left(pc[q], n, p, k)
    BY <1>1, <1>2, <1>4, <1>5, <2>1, <2>2 DEF AtTarget
  <2>4. 0 \in Nat /\ 0 <= Attempts
    BY <1>1
  <2>5. place \in AtTarget \cup Returned
    BY <2>2 DEF AtTarget
  <2>6. QED
    BY <2>1, <2>3, <2>4, <2>5, VisitGoesOn DEF n, p, k
<1>10. CASE Admitted(q)
  <2>1. /\ pc[q] = "admit"
        /\ pc' = [pc EXCEPT ![q] = "attempt"]
        /\ UNCHANGED <<chain, pos, failures, limiter, attempt>>
    BY <1>10 DEF Admitted
  <2>2. 0 <= Left("attempt", n, p, k) /\ Left("attempt", n, p, k) < Left(pc[q], n, p, k)
    BY <1>1, <1>2, <1>4, <1>5, <2>1 DEF AtTarget
  <2>3. QED
    BY <1>1, <1>2, <1>3, <2>1, <2>2, VisitGoesOn DEF AtTarget, n, p, k
<1>11. CASE StartCall(q)
  <2>1. /\ pc[q] = "attempt" /\ k < Attempts
        /\ pc' = [pc EXCEPT ![q] = "calling"]
        /\ attempt' = [attempt EXCEPT ![q] = k + 1]
        /\ UNCHANGED <<chain, pos, failures, limiter>>
    BY <1>11 DEF StartCall, k
  <2>2. k + 1 \in Nat /\ k + 1 <= Attempts
    BY <1>1, <2>1
  <2>3. Left("calling", n, p, k + 1) = After(n, p) + 3 * (Attempts - (k + 1)) + 4
    BY <1>5, <2>2
  <2>4. 0 <= Left("calling", n, p, k + 1) /\ Left("calling", n, p, k + 1) < Left(pc[q], n, p, k)
    BY <1>1, <1>2, <1>4, <1>5, <2>1, <2>2, <2>3 DEF AtTarget
  <2>5. QED
    BY <1>1, <2>1, <2>2, <2>4, VisitGoesOn DEF AtTarget, n, p, k
<1>12. CASE ReturnOK(q)
  <2>1. /\ pc[q] = "calling"
        /\ pc' = [pc EXCEPT ![q] = "served"]
        /\ UNCHANGED <<chain, pos, failures, limiter, attempt>>
    BY <1>12 DEF ReturnOK
  <2>2. 0 <= Left("served", n, p, k) /\ Left("served", n, p, k) < Left(pc[q], n, p, k)
    BY <1>1, <1>2, <1>4, <1>5, <1>6, <2>1 DEF Returned, AtTarget, Trying
  <2>3. QED
    BY <1>1, <1>3, <2>1, <2>2, VisitGoesOn DEF AtTarget, Returned, Trying, n, p, k
<1>13. CASE BackoffElapses(q)
  <2>1. /\ pc[q] = "backoff"
        /\ pc' = [pc EXCEPT ![q] = "attempt"]
        /\ UNCHANGED <<chain, pos, failures, limiter, attempt>>
    BY <1>13 DEF BackoffElapses
  <2>2. k <= Attempts
    BY <1>2, <2>1 DEF Trying
  <2>3. 0 <= Left("attempt", n, p, k) /\ Left("attempt", n, p, k) < Left(pc[q], n, p, k)
    BY <1>1, <1>2, <1>4, <1>5, <2>1, <2>2 DEF AtTarget
  <2>4. QED
    BY <1>1, <1>3, <2>1, <2>2, <2>3, VisitGoesOn DEF AtTarget, n, p, k
<1>14. CASE ReturnError(q)
  <2>1. pc[q] = "calling" /\ UNCHANGED <<chain, limiter, attempt>>
    BY <1>14 DEF ReturnError
  <2>2. PICK err \in CallErrors(q) :
          IF TriesAgain(q, err)
          THEN pc' = [pc EXCEPT ![q] = "backoff"] /\ UNCHANGED <<pos, failures>>
          ELSE Finish(q, err)
    BY <1>14 DEF ReturnError
  <2>3. CASE TriesAgain(q, err)
    <3>1. k <= Attempts
      BY <1>2, <2>1 DEF Trying
    <3>2. 0 <= Left("backoff", n, p, k) /\ Left("backoff", n, p, k) < Left(pc[q], n, p, k)
      BY <1>1, <1>2, <1>4, <1>5, <2>1, <3>1 DEF AtTarget
    <3>3. QED
      BY <1>1, <1>3, <2>1, <2>2, <2>3, <3>1, <3>2, VisitGoesOn DEF AtTarget, n, p, k
  <2>4. CASE ~TriesAgain(q, err)
    BY <2>1, <2>2, <2>4, VisitEnds DEF Finish, NextTarget, AtTarget
  <2>5. QED
    BY <2>3, <2>4
<1>15. CASE LookupUnregistered(q) \/ RateLimited(q)
  BY <1>15, VisitEnds DEF LookupUnregistered, RateLimited, NextTarget, AtTarget
<1>16. CASE GiveUpBeforeCall(q) \/ BackoffCancelled(q)
  BY <1>16, VisitEnds DEF GiveUpBeforeCall, BackoffCancelled, Finish, NextTarget, AtTarget
<1>17. QED
  BY <1>7, <1>8, <1>9, <1>10, <1>11, <1>12, <1>13, <1>14, <1>15, <1>16 DEF Step

(***************************************************************************)
(* A call of Chat that has its route and moves comes nearer to its end, by *)
(* one of a number of moves that is fixed with the route, for any chain,   *)
(* policy, failover predicate and reconfiguration.                         *)
(***************************************************************************)
THEOREM ComesToAnEndHolds == Spec => ComesToAnEnd
<1> DEFINE Nearer == \A r \in Requests : pc[r] # "start" => StaysOrComesNearer(r)
<1>1. Init => WithinBounds
  BY DEF Init, RequestsInit, WithinBounds, Trying
<1>2. ASSUME TypeInv, WithinBounds, [Next]_vars
      PROVE  WithinBounds' /\ Nearer
  <2>1. CASE \E q \in Requests : Resolve(q)
    <3>1. PICK q \in Requests : Resolve(q)
      BY <2>1
    <3>2. /\ pc[q] = "start" /\ pos[q] = 1
          /\ pc'[q] \in {"noRoute", "target"}
          /\ chain'[q] = Resolved(ModelOf[q]) /\ pos'[q] = pos[q]
      BY <1>2, <3>1 DEF Resolve, TypeInv, TypeOK, WithinBounds
    <3>3. \A r \in Requests \ {q} :
            UNCHANGED <<pc[r], chain[r], pos[r], limiter[r], attempt[r], failures[r]>>
      BY <1>2, <3>1 DEF Resolve, TypeInv, TypeOK
    <3>4. Len(chain'[q]) \in Nat
      <4>1. Resolved(ModelOf[q]) \in Chains
        BY <1>2, RouterAssumption DEF Resolved, TypeInv, TypeOK
      <4>2. QED
        BY <3>2, <4>1, ChainFacts
    <3>5. WithinBounds'
      <4> SUFFICES ASSUME NEW r \in Requests
                   PROVE  /\ pc'[r] = "start" => pos'[r] = 1
                          /\ pc'[r] = "target" => pos'[r] <= Len(chain'[r]) + 1
                          /\ pc'[r] \in Trying \cup {"admit"} => attempt'[r] <= Attempts
        BY DEF WithinBounds
      <4>1. CASE r = q
        BY <3>2, <3>4, <4>1 DEF Trying
      <4>2. CASE r # q
        BY <1>2, <3>3, <4>2 DEF WithinBounds
      <4>3. QED
        BY <4>1, <4>2
    <3>6. QED
      BY <3>2, <3>3, <3>5 DEF StaysOrComesNearer
  <2>2. CASE \E q \in Requests : Step(q) /\ ~Resolve(q)
    <3>1. PICK q \in Requests : Shortens(q) /\ WithinBounds'
      BY <1>2, <2>2, StepShortens
    <3>2. QED
      BY <3>1 DEF Shortens, StaysOrComesNearer
  <2>3. CASE ~(\E q \in Requests : Step(q))
    <3>1. UNCHANGED <<pc, chain, pos, limiter, attempt, failures>>
      BY <1>2, <2>3
         DEF Next, Configure, Register, SetLimiter, AddRoute, SetDefaultRoute, Serve,
             EndContext, Tick, AllReturned, vars, local
    <3>2. WithinBounds'
      BY <1>2, <3>1 DEF WithinBounds
    <3>3. QED
      BY <3>1, <3>2 DEF StaysOrComesNearer
  <2>4. QED
    BY <2>1, <2>2, <2>3
<1>3. TypeInv /\ WithinBounds /\ [Next]_vars => WithinBounds' /\ [Nearer]_vars
  BY <1>2
<1>4. ComesToAnEnd <=> [][Nearer]_vars
  BY DEF ComesToAnEnd
<1> HIDE DEF Nearer
<1>5. QED
  BY <1>1, <1>3, <1>4, TypeInvariant, PTL DEF Spec
=============================================================================
