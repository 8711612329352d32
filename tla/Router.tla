------------------------------- MODULE Router -------------------------------
(***************************************************************************)
(* internal/router with the retry loop of internal/retry that it runs      *)
(* around every provider call and the limiters of internal/ratelimit.      *)
(*                                                                         *)
(* Each request of Requests is one goroutine inside Router.Chat.  A step   *)
(* of a request is what happens between two points at which another        *)
(* goroutine can act: a critical section of r.mu or of a limiter, the call *)
(* of the provider, its return, the end of the backoff sleep.  Meanwhile   *)
(* contexts end, the clock advances and the exported methods Register,     *)
(* SetLimiter, AddRoute and SetDefaultRoute reconfigure the router.        *)
(***************************************************************************)
EXTENDS ProviderErrors, Bucket, Sequences, FiniteSets

CONSTANTS
    Requests,     \* calls of Router.Chat
    Models,       \* logical model names
    ModelOf,      \* the model each request asks for
    Providers,    \* provider names
    Chains,       \* the Targets of the routes that may be configured
    Limiters,     \* limiter objects, all made by New(RatePerSecond, BurstSize)
    NoLimiter,    \* nil in place of a limiter
    NoRoute,      \* no entry in the routes map
    MaxAttempts,  \* Policy.MaxAttempts
    FailsOver(_), \* the failover predicate, provider.IsRetryable by default
    Statuses,     \* the upstream statuses that are told apart
    EndCauses,    \* how a caller's context may end
    MaxClock      \* bound on the ticks of a behaviour

ASSUME RouterAssumption ==
    /\ ModelOf \in [Requests -> Models]
    /\ \A c \in Chains : c \in Seq([provider : Providers, model : STRING])
    /\ <<>> \in Chains
    /\ NoLimiter \notin Limiters
    /\ NoRoute \notin Chains
    /\ MaxAttempts \in Int
    /\ Statuses \subseteq Nat
    /\ EndCauses \subseteq ContextCauses
    /\ MaxClock \in Nat

VARIABLES
    \* fields of the Router, guarded by r.mu
    registered,  \* the keys of r.providers
    limiters,    \* r.limiters
    routes,      \* r.routes
    fallback,    \* r.fallback.Targets
    \* the limiters' contents
    buckets,
    \* the local state of each call of Chat
    pc,
    ctx,         \* ctx.Err() of the caller's context
    chain,       \* route.Targets
    pos,         \* position in the chain
    limiter,     \* the limiter that lookup returned
    attempt,     \* calls made for the present target
    failures,    \* routeErr.Failures
    \* history
    clock,       \* ticks so far
    grants,      \* per limiter, the visits <<request, position>> it admitted
    calls,       \* per limiter, the provider calls <<visit, attempt>> under it
    endedAt      \* per request, the position at which its context ended

config  == <<registered, limiters, routes, fallback>>
local   == <<pc, chain, pos, limiter, attempt, failures>>
history == <<grants, calls>>
vars    == <<registered, limiters, routes, fallback, buckets, pc, ctx, chain,
             pos, limiter, attempt, failures, clock, grants, calls, endedAt>>

Working  == {"start", "target", "lookup", "admit", "attempt", "calling", "backoff"}
Returned == {"served", "noRoute", "contextError", "routeError"}

Targets  == [provider : Providers, model : STRING]
Visits   == Requests \X Nat
Failures == [target : Targets, err : Errors]

\* Mutant: MaxAttempts counts the retries.
RetriesAfterFirst == IF MaxAttempts < 1 THEN 1 ELSE MaxAttempts + 1

\* Do: a MaxAttempts below one still means one try.
Attempts == IF MaxAttempts < 1 THEN 1 ELSE MaxAttempts

Target(r) == chain[r][pos[r]]
Ended(r)  == ctx[r] # "live"

TypeOK ==
    /\ registered \subseteq Providers
    /\ limiters \in [Providers -> Limiters \cup {NoLimiter}]
    /\ routes \in [Models -> Chains \cup {NoRoute}]
    /\ fallback \in Chains
    /\ buckets \in [Limiters -> Buckets]
    /\ pc \in [Requests -> Working \cup Returned]
    /\ ctx \in [Requests -> {"live"} \cup ContextCauses]
    /\ chain \in [Requests -> Chains]
    /\ pos \in [Requests -> Nat]
    /\ limiter \in [Requests -> Limiters \cup {NoLimiter}]
    /\ attempt \in [Requests -> Nat]
    /\ failures \in [Requests -> Seq(Failures)]
    /\ clock \in 0 .. MaxClock
    /\ grants \in [Limiters -> SUBSET Visits]
    /\ calls \in [Limiters \cup {NoLimiter} -> SUBSET (Visits \X Nat)]
    /\ endedAt \in [Requests -> Nat]

\* No call of Chat has begun.
RequestsInit ==
    /\ buckets = [l \in Limiters |-> FullBucket]
    /\ pc = [r \in Requests |-> "start"]
    /\ ctx = [r \in Requests |-> "live"]
    /\ chain = [r \in Requests |-> <<>>]
    /\ pos = [r \in Requests |-> 1]
    /\ limiter = [r \in Requests |-> NoLimiter]
    /\ attempt = [r \in Requests |-> 0]
    /\ failures = [r \in Requests |-> <<>>]
    /\ clock = 0
    /\ grants = [l \in Limiters |-> {}]
    /\ calls = [l \in Limiters \cup {NoLimiter} |-> {}]
    /\ endedAt = [r \in Requests |-> 0]

\* router.New: nothing is configured.
Init ==
    /\ registered = {}
    /\ limiters = [p \in Providers |-> NoLimiter]
    /\ routes = [m \in Models |-> NoRoute]
    /\ fallback = <<>>
    /\ RequestsInit
-----------------------------------------------------------------------------
(* The exported methods that configure the router.                         *)

Register(p) ==
    /\ registered' = registered \cup {p}
    /\ UNCHANGED <<limiters, routes, fallback, buckets, local, ctx, clock,
                   history, endedAt>>

SetLimiter(p, l) ==
    /\ limiters' = [limiters EXCEPT ![p] = l]
    /\ UNCHANGED <<registered, routes, fallback, buckets, local, ctx, clock,
                   history, endedAt>>

AddRoute(m, c) ==
    /\ routes' = [routes EXCEPT ![m] = c]
    /\ UNCHANGED <<registered, limiters, fallback, buckets, local, ctx, clock,
                   history, endedAt>>

SetDefaultRoute(c) ==
    /\ fallback' = c
    /\ UNCHANGED <<registered, limiters, routes, buckets, local, ctx, clock,
                   history, endedAt>>
-----------------------------------------------------------------------------
(* Router.Chat, outside the retry loop.                                    *)

\* resolve: an explicit route, even one without targets, hides the fallback.
Resolved(m) == IF routes[m] = NoRoute THEN fallback ELSE routes[m]

Resolve(r) ==
    /\ pc[r] = "start"
    /\ LET targets == Resolved(ModelOf[r])
       IN  /\ chain' = [chain EXCEPT ![r] = targets]
           /\ pc' = [pc EXCEPT ![r] = IF targets = <<>> THEN "noRoute" ELSE "target"]
    /\ UNCHANGED <<config, buckets, ctx, pos, limiter, attempt, failures,
                   clock, history, endedAt>>

\* Mutant: the context is not looked at between two targets.
ContextNotChecked(r) ==
    /\ pc[r] = "target"
    /\ pos[r] <= Len(chain[r])
    /\ pc' = [pc EXCEPT ![r] = "lookup"]
    /\ UNCHANGED <<config, buckets, ctx, chain, pos, limiter, attempt,
                   failures, clock, history, endedAt>>

\* The head of the loop over the targets.
CheckContext(r) ==
    /\ pc[r] = "target"
    /\ pos[r] <= Len(chain[r])
    /\ pc' = [pc EXCEPT ![r] = IF Ended(r) THEN "contextError" ELSE "lookup"]
    /\ UNCHANGED <<config, buckets, ctx, chain, pos, limiter, attempt,
                   failures, clock, history, endedAt>>

ChainExhausted(r) ==
    /\ pc[r] = "target"
    /\ pos[r] > Len(chain[r])
    /\ pc' = [pc EXCEPT ![r] = "routeError"]
    /\ UNCHANGED <<config, buckets, ctx, chain, pos, limiter, attempt,
                   failures, clock, history, endedAt>>

Recorded(r, err) ==
    [failures EXCEPT ![r] = Append(@, [target |-> Target(r), err |-> err])]

\* Mutant: a target without a provider is skipped and not recorded.
SkipSilently(r, err) ==
    /\ failures' = IF err = UnregisteredError THEN failures ELSE Recorded(r, err)
    /\ pos' = [pos EXCEPT ![r] = @ + 1]
    /\ pc' = [pc EXCEPT ![r] = "target"]

\* The target is ruled out with err and the next one is up.
NextTarget(r, err) ==
    /\ failures' = Recorded(r, err)
    /\ pos' = [pos EXCEPT ![r] = @ + 1]
    /\ pc' = [pc EXCEPT ![r] = "target"]

\* lookup: the provider and its limiter are read under one read lock and used
\* after it is released.
LookupRegistered(r) ==
    /\ pc[r] = "lookup"
    /\ Target(r).provider \in registered
    /\ limiter' = [limiter EXCEPT ![r] = limiters[Target(r).provider]]
    /\ attempt' = [attempt EXCEPT ![r] = 0]
    /\ pc' = [pc EXCEPT ![r] = IF limiter'[r] = NoLimiter THEN "attempt" ELSE "admit"]
    /\ UNCHANGED <<config, buckets, ctx, chain, pos, failures, clock,
                   history, endedAt>>

LookupUnregistered(r) ==
    /\ pc[r] = "lookup"
    /\ Target(r).provider \notin registered
    /\ NextTarget(r, UnregisteredError)
    /\ UNCHANGED <<config, buckets, ctx, chain, limiter, attempt, clock,
                   history, endedAt>>

\* Mutant: the sense of Allow is reversed.
AdmittedIsDenied(r) ==
    /\ pc[r] = "admit"
    /\ HasToken(buckets[limiter[r]])
    /\ buckets' = [buckets EXCEPT ![limiter[r]] = TakeToken(@)]
    /\ grants' = [grants EXCEPT ![limiter[r]] = @ \cup {<<r, pos[r]>>}]
    /\ NextTarget(r, RateLimitedError)
    /\ UNCHANGED <<config, ctx, chain, limiter, attempt, clock, calls, endedAt>>

\* limiter.Allow() on the limiter that was looked up.
Admitted(r) ==
    /\ pc[r] = "admit"
    /\ HasToken(buckets[limiter[r]])
    /\ buckets' = [buckets EXCEPT ![limiter[r]] = TakeToken(@)]
    /\ grants' = [grants EXCEPT ![limiter[r]] = @ \cup {<<r, pos[r]>>}]
    /\ pc' = [pc EXCEPT ![r] = "attempt"]
    /\ UNCHANGED <<config, ctx, chain, pos, limiter, attempt, failures, clock,
                   calls, endedAt>>

RateLimited(r) ==
    /\ pc[r] = "admit"
    /\ ~HasToken(buckets[limiter[r]])
    /\ buckets' = [buckets EXCEPT ![limiter[r]] = Refill(@)]
    /\ NextTarget(r, RateLimitedError)
    /\ UNCHANGED <<config, ctx, chain, limiter, attempt, clock, history, endedAt>>

\* Mutant: only the end of the context stops the search for a target.
TerminalIfEnded(r, err) == Ended(r) \/ IsContextError(err)

\* What Chat does with the error that retry.Do returns: an ended context is
\* terminal, and so is an error that the failover predicate does not hold of.
Terminal(r, err) == Ended(r) \/ IsContextError(err) \/ ~FailsOver(err)

Finish(r, err) ==
    IF Terminal(r, err)
    THEN /\ failures' = Recorded(r, err)
         /\ pc' = [pc EXCEPT ![r] = "routeError"]
         /\ UNCHANGED pos
    ELSE NextTarget(r, err)
-----------------------------------------------------------------------------
(* retry.Do around provider.Chat.                                          *)

\* Mutant: the tries are not counted.
CallUncounted(r) ==
    /\ pc[r] = "attempt"
    /\ attempt[r] < Attempts
    /\ ~Ended(r)
    /\ pc' = [pc EXCEPT ![r] = "calling"]
    /\ UNCHANGED <<config, buckets, ctx, chain, pos, limiter, attempt, failures,
                   clock, history, endedAt>>

\* The head of the loop over the tries, and the call.
StartCall(r) ==
    /\ pc[r] = "attempt"
    /\ attempt[r] < Attempts
    /\ ~Ended(r)
    /\ attempt' = [attempt EXCEPT ![r] = @ + 1]
    /\ calls' = [calls EXCEPT ![limiter[r]] =
                     @ \cup {<<<<r, pos[r]>>, attempt'[r]>>}]
    /\ pc' = [pc EXCEPT ![r] = "calling"]
    /\ UNCHANGED <<config, buckets, ctx, chain, pos, limiter, failures, clock,
                   grants, endedAt>>

GiveUpBeforeCall(r) ==
    /\ pc[r] = "attempt"
    /\ attempt[r] < Attempts
    /\ Ended(r)
    /\ Finish(r, ContextError(ctx[r]))
    /\ UNCHANGED <<config, buckets, ctx, chain, limiter, attempt, clock,
                   history, endedAt>>

ReturnOK(r) ==
    /\ pc[r] = "calling"
    /\ pc' = [pc EXCEPT ![r] = "served"]
    /\ UNCHANGED <<config, buckets, ctx, chain, pos, limiter, attempt,
                   failures, clock, history, endedAt>>

CallErrors(r) == ProviderFailures(ctx[r], Statuses)

\* The last try and an error that is not retryable are final.
TriesAgain(r, err) == IsRetryable(err) /\ attempt[r] # Attempts

ReturnError(r) ==
    /\ pc[r] = "calling"
    /\ \E err \in CallErrors(r) :
         IF TriesAgain(r, err)
         THEN /\ pc' = [pc EXCEPT ![r] = "backoff"]
              /\ UNCHANGED <<pos, failures>>
         ELSE Finish(r, err)
    /\ UNCHANGED <<config, buckets, ctx, chain, limiter, attempt, clock,
                   history, endedAt>>

\* sleep: either branch of the select when both are ready.
BackoffElapses(r) ==
    /\ pc[r] = "backoff"
    /\ pc' = [pc EXCEPT ![r] = "attempt"]
    /\ UNCHANGED <<config, buckets, ctx, chain, pos, limiter, attempt,
                   failures, clock, history, endedAt>>

BackoffCancelled(r) ==
    /\ pc[r] = "backoff"
    /\ Ended(r)
    /\ Finish(r, ContextError(ctx[r]))
    /\ UNCHANGED <<config, buckets, ctx, chain, limiter, attempt, clock,
                   history, endedAt>>
-----------------------------------------------------------------------------
(* The environment.                                                        *)

EndContext(r, cause) ==
    /\ ~Ended(r)
    /\ pc[r] \in Working
    /\ ctx' = [ctx EXCEPT ![r] = cause]
    /\ endedAt' = [endedAt EXCEPT ![r] = pos[r]]
    /\ UNCHANGED <<config, buckets, local, clock, history>>

Tick ==
    /\ clock < MaxClock
    /\ clock' = clock + 1
    /\ buckets' = [l \in Limiters |-> Older(buckets[l])]
    /\ UNCHANGED <<config, local, ctx, history, endedAt>>

\* Every call of Chat has returned.
AllReturned ==
    /\ \A r \in Requests : pc[r] \in Returned
    /\ UNCHANGED vars
-----------------------------------------------------------------------------
Configure ==
    \/ \E p \in Providers : Register(p)
    \/ \E p \in Providers, l \in Limiters \cup {NoLimiter} : SetLimiter(p, l)
    \/ \E m \in Models, c \in Chains : AddRoute(m, c)
    \/ \E c \in Chains : SetDefaultRoute(c)

Step(r) ==
    \/ Resolve(r)
    \/ CheckContext(r)
    \/ ChainExhausted(r)
    \/ LookupRegistered(r)
    \/ LookupUnregistered(r)
    \/ Admitted(r)
    \/ RateLimited(r)
    \/ StartCall(r)
    \/ GiveUpBeforeCall(r)
    \/ ReturnOK(r)
    \/ ReturnError(r)
    \/ BackoffElapses(r)
    \/ BackoffCancelled(r)

Serve ==
    \/ \E r \in Requests : Step(r) \/ \E c \in EndCauses : EndContext(r, c)
    \/ Tick
    \/ AllReturned

Next == Configure \/ Serve

\* A goroutine that can go on does so: the HTTP client's timeout ends every
\* provider call and a timer ends every backoff.
Fairness == \A r \in Requests : WF_vars(Step(r))

\* The router as a library: its methods are called at any time.
Spec == Init /\ [][Next]_vars

\* The router as a program uses it: configured first, then only asked.
Configured(providers, limited, routed, default) ==
    /\ registered = providers
    /\ limiters = limited
    /\ routes = routed
    /\ fallback = default
    /\ RequestsInit
-----------------------------------------------------------------------------
(***************************************************************************)
(* What the limiter buys.  Each limiter admits a burst plus the accrual of *)
(* the time that passed, and each admission covers the tries of one retry  *)
(* loop: the calls that reach the providers under a limiter stay within    *)
(* that multiple of its allowance, however requests interleave, fail over, *)
(* retry or give up and however limiters are attached and detached.        *)
(* Policy: "MaxAttempts is the total number of tries, including the first. *)
(* A value <= 1 disables retrying".                                        *)
(***************************************************************************)
Tries == IF MaxAttempts <= 1 THEN 1 ELSE MaxAttempts

UpstreamBudget ==
    \A l \in Limiters :
        Cardinality(calls[l]) * Token <= Tries * (Capacity + Rate * clock)

(***************************************************************************)
(* The accounts behind UpstreamBudget: what a limiter admitted, what it    *)
(* holds and what its next refill adds fit into the allowance; every call  *)
(* belongs to an admission and is one of its tries.                        *)
(***************************************************************************)
LimiterLedger ==
    \A l \in Limiters :
        /\ buckets[l].tokens + Cardinality(grants[l]) * Token + Rate * buckets[l].age
             <= Capacity + Rate * clock
        /\ calls[l] \subseteq grants[l] \X (1 .. Tries)

(***************************************************************************)
(* A token is not lost: a visit that a limiter admitted and that is over   *)
(* made at least one call under it, unless the caller's context ended on   *)
(* that very visit, between Allow and the first call.                      *)
(***************************************************************************)
TokensAreSpent ==
    \A l \in Limiters : \A visit \in grants[l] :
        LET r == visit[1]
            over == pos[r] > visit[2] \/ pc[r] \in Returned
        IN  over => \/ \E call \in calls[l] : call[1] = visit
                    \/ endedAt[r] = visit[2]

(***************************************************************************)
(* A caller that went away is not worked for any longer: after its context *)
(* ended at a target, the router looks at most at one more target, calls   *)
(* no provider for it, and serves the request only with an answer that was *)
(* on its way.                                                             *)
(***************************************************************************)
EndedContextStopsFailover ==
    \A r \in Requests :
        Ended(r) =>
            /\ pos[r] <= endedAt[r] + 1
            /\ pc[r] = "served" => pos[r] = endedAt[r]
            /\ \A l \in DOMAIN calls : \A call \in calls[l] :
                   call[1][1] = r => call[1][2] <= endedAt[r]

(***************************************************************************)
(* Every call of Chat returns: the tries at a target and the targets of a  *)
(* chain run out, whatever the other requests do to the limiters.          *)
(***************************************************************************)
Termination == \A r \in Requests : <>(pc[r] \in Returned)

(***************************************************************************)
(* What Termination rests on: once its route is resolved, each move of a   *)
(* call of Chat uses up one of a fixed number, so a call that moves comes  *)
(* to its end, whatever the others do and however the router is            *)
(* configured meanwhile.  A try takes at most three moves (call, backoff,  *)
(* head of the loop); a target four more (context, lookup, limiter, end).  *)
(***************************************************************************)
MovesPerTarget == 3 * Attempts + 4

MovesHere(r) ==
    LET triesLeft == Attempts - attempt[r]
    IN  [target  |-> MovesPerTarget,
         lookup  |-> MovesPerTarget - 1,
         admit   |-> MovesPerTarget - 2,
         attempt |-> 3 * triesLeft + 1,
         calling |-> 3 * triesLeft + 3,
         backoff |-> 3 * triesLeft + 2][pc[r]]

MovesLeft(r) ==
    IF pc[r] \in Returned THEN 0
    ELSE (Len(chain[r]) - pos[r]) * MovesPerTarget + MovesHere(r) + 1

StaysOrComesNearer(r) ==
    \/ UNCHANGED <<pc[r], chain[r], pos[r], limiter[r], attempt[r], failures[r]>>
    \/ 0 <= MovesLeft(r)' /\ MovesLeft(r)' < MovesLeft(r)

ComesToAnEnd ==
    [][\A r \in Requests : pc[r] # "start" => StaysOrComesNearer(r)]_vars

(***************************************************************************)
(* The router implements Failover.                                         *)
(***************************************************************************)
Reason(err) ==
    IF err.kind = "unregistered" THEN "absent"
    ELSE IF IsContextError(err) THEN "cancelled"
    ELSE IF err.kind = "limited" \/ FailsOver(err) THEN "unavailable"
    ELSE "refused"

PhaseAt(place) ==
    CASE place = "start"        -> "new"
      [] place = "noRoute"      -> "unknown"
      [] place = "served"       -> "served"
      [] place = "routeError"   -> "failed"
      [] place = "contextError" -> "abandoned"
      [] OTHER                  -> "trying"

Reasons ==
    [r \in Requests |-> [i \in DOMAIN failures[r] |-> Reason(failures[r][i].err)]]
Phases == [r \in Requests |-> PhaseAt(pc[r])]
Gone   == {r \in Requests : Ended(r)}

Promise == INSTANCE Failover WITH
    plan <- chain, reasons <- Reasons, phase <- Phases, gone <- Gone

KeepsPromise == Promise!Spec
=============================================================================
