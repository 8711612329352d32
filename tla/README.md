# A TLA+ model of the LLM gateway

This directory holds a formal model of the gateway: TLA+ modules translated
from the Go source, TLC configurations that model-check them on small
instances, and theorems about the token bucket, the retry loop, the router, the process and the
adapters that the TLA+ proof system (TLAPS) checks for every value of the constants. `PROJECT.json`
lists, per definition, the source lines it stands for, and per run the
properties it checks.

    tlc -workers 2 -config MCRouterServing.cfg MCRouter     # one run
    tlapm RouterProofs.tla                                  # the proofs of a module

## 1. The system

A client posts a chat request to the gateway. The handler passes it to the
router, which resolves the logical model name to a chain of targets (provider
and model) and tries them in order. Each target may be behind a token bucket;
each provider call is wrapped in a retry loop with backoff; the provider
adapters translate the request for Anthropic, OpenAI or Bedrock and classify
what went wrong.

| Component | State | Operations | Modules |
|---|---|---|---|
| token bucket, `internal/ratelimit` | `tokens`, `last`, under a mutex | `New`, `Allow`, `Wait`, `refill` | `Bucket`, `TokenBucket` |
| provider errors, `pkg/provider/errors.go` | none | construction, wrapping, `IsRetryable` | `ProviderErrors` |
| router, `internal/router` | `providers`, `limiters`, `routes`, `fallback`, under an RW mutex; per call the chain, the position, the recorded failures | `Register`, `SetLimiter`, `AddRoute`, `SetDefaultRoute`, `Chat` | `Router`, `Failover` |
| retry loop, `internal/retry` | per call the number of tries, the delay and a timer | `Do`, `backoff`, `sleep` | `Retry`, `RetryInRouter`, and in outline `Router` |
| server and process, `internal/server`, `cmd/gateway` | handlers, the listener, the signal context, the bills it logs | the chat handler, `Start` and shutdown, `run` | `Gateway` |
| configuration and wiring, `internal/config`, `internal/gateway` | the environment | `Load`, `validate`, `getDuration`, `Build` | `Startup`, `Gateway` |
| adapters, `pkg/provider/*` | none between calls | `Chat` of three clients | `Adapters` |
| pricing, `internal/pricing` | the price table | `Merge`, `Cost`, `Validate` | `Pricing`, used by `Startup` and `Gateway` |
| SigV4, `pkg/provider/bedrock/sigv4.go` | none | `Sign`: canonical request, key, signature | `SigV4`, used by `Adapters` |

**Interactions.** Handlers run concurrently and share the router. `Chat` takes
the router's read lock twice, for `resolve` and for `lookup`, and uses what it
copied after it released the lock; `Allow` locks the limiter. A provider call
and a backoff are the two places where a request waits. Contexts flow downward: the
client's disconnection cancels the request's context, which `retry.Do`, `sleep`
and the HTTP client watch. The HTTP client (120 s) and the server (`WriteTimeout`) have
timeouts of their own that are not visible to that context.

**What is hard.** Requests interleave at the limiters and with the methods
that reconfigure the router; a context can end at any of seven places of `Chat`;
an error travels through three layers, each of which classifies it again; the token is
taken before the retry loop, and the loop may make no call or several; the write
deadline runs while the router retries; a body never comes; a signal arrives while handlers
run, or before anything listens for it; a delay is doubled before it is capped; headers are
found in the random order of a map and signed in theirs. The `hazards`
of `PROJECT.json` name each of these at its line.

**What makes each component correct.**

- *Token bucket*: over any window of time it admits at most a burst plus the
  accrual of the window; nobody oversleeps; `Wait` returns.
- *Router and retry loop*: one chain per request, each target once and in order, a reason
  recorded for every target passed over; terminal errors end the request and
  others do not; an ended context stops the search; calls stay within the limiter's
  allowance times the tries; every call returns.
- *Backoff*: no sleep is longer than documented, a failing provider is left alone for the
  documented time, the error that is returned is the one that is due, `Do` returns.
- *Gateway*: it serves only if every target of every route can be reached; the
  status agrees with what happened and with the bill; the bill is what the operator or
  the price list says for the target that was called last; a handler finishes unless
  the process fails under it.
- *Adapters*: every backend is asked the same conversation; text, usage and finish
  reason of an answer mean the same; Bedrock accepts the signatures; the router can
  rely on the classification of errors.

## 2. The modules

`Bucket` is the data of a limiter. Time is counted in ticks and the contents in
1/TicksPerSecond tokens, so that a rate of R tokens per second is R units per tick
and all arithmetic is on integers. A bucket is kept relative to the present: `age` is `now() - last`
and saturates at `MaxAge`, which `BucketAssumption` makes long enough to fill the
bucket from empty. `Refill`, `HasToken`, `TakeToken`, `WaitTime` are `refill` and
the critical sections of `Allow` and `Wait`.

`TokenBucket` puts concurrent callers around one bucket. A step is one critical
section, one branch of the `select` of `Wait`, or a tick. An observer opens windows
and counts the ticks and the tokens taken in them (history variables).

`ProviderErrors` is an error as the router sees it: its kind, its HTTP status, and which of
`context.Canceled` and `context.DeadlineExceeded` it wraps. The error that the router itself makes for
a target whose limiter has no token is a kind of its own (`limited`): it has the status 429 and the
code `rate_limited` of the code, and is told from a 429 of a backend.

`Router` is `Router.Chat` with `retry.Do` and the limiters inlined, because the
interesting behaviour is where they meet. `pc[r]` is the place of a request:

    start -Resolve-> target -CheckContext-> lookup -LookupRegistered-> admit -Admitted-> attempt -StartCall-> calling
    calling -ReturnError-> backoff -BackoffElapses-> attempt      (retry)
    lookup, admit, attempt, calling, backoff -> target            (next target: NextTarget)
    -> served | noRoute | contextError | routeError               (Chat returned)

`Finish` is what `Chat` does with the error of `retry.Do`, in the same step as the return of the
last try, as in the code. The variables `clock`, `grants`, `calls`, `endedAt` are history.
`Configure` has the four exported methods, enabled at all times.

`Retry` is one call of `retry.Do` in time, which `Router` leaves open: the head of the loop, the
call, the turns of the doubling in `backoff`, the `select` of `sleep`, with signed durations that
come round at `MaxDuration` as int64 does. `idle` counts the ticks since the last try returned
(history). A try takes no tick, which keeps nothing out: no property speaks of its length.

`RetryInRouter` puts the two together: it maps the state of `Retry` to a router with one request
on its only target and states (`RetryIsTheRouters`) that every step of `Retry` is a step of
`Router` or leaves the mapped state as it is. The three steps of a backoff (`Double`,
`BreakAtCap`, `Doubled`) are stutters of the router's place `backoff`; what is left of
the call to `Chat` afterwards (`Finish`) is applied in the mapping.

`Failover` is the abstract promise of `Chat`: a chain is fixed, its targets are
taken in order and once each, a target makes way for the next only if it is
absent or unavailable, the first answer serves the request, a failed request has a
reason for every target taken, and while targets are left it is given up only for a
reason that the next one could not mend (a refusal, or an error that is a timeout or
a cancellation) or because its caller has gone. `Router` implements it under the mapping `Promise`
(`KeepsPromise`). An added route without targets hides the default route; `Failover` allows
any chain to be fixed and so either reading of that.

`Pricing` has the price list and the operations on it; a rate is a whole number of cents for a
million tokens. `Startup` has the predicates and values of `config.Load` and `gateway.Build` as
functions of the environment: what is refused, which backends have all of their credentials,
what an unreadable duration becomes, the merged prices. `Gateway`
EXTENDS `Router` and `Startup`: the process loads, registers, installs the routes
in any order (a Go map), merges the prices, serves and drains; before it serves, a signal kills it.
Each request has a handler that reads the body, runs the steps of `Router` and bills what was
served by the name of the model that the response goes by (`Echoed`: what Bedrock's adapter was
asked for, what the other backends say), and a client that may go away or never send its body.
A response (`Served`) names its provider itself, as in the code, and the bill is taken from the response;
`BillsAreRight` compares it with the history of the calls. A status that `WriteHeader` does not take, which
only a backend can bring in, makes the handler panic (`aborted`).
`net/http` is modelled by what the code relies on; the module's comment lists it.

`Adapters` is one call of `Client.Chat` of one of the three adapters: build the body, send it,
read, decode. A text is the sequence of the paragraphs it was joined from. `AnswerTo` is what a backend
makes of a generation, a record with the fields of its JSON (two APIs, two sets of names and two shapes of the
content), and `Response` is what the adapter reads from that. For Bedrock `Build`
signs the request with `SigV4`: hashes are free constructors, the headers are found in any
order, and `Accepts` is the service, which recomputes the signature from what it receives
and the secret of the key id. The id of a model is a sequence of characters, of which `PathEscape` encodes
`/` and not `:`, as Go does; `EncodedAgain` is the second encoding by which the service makes its
canonical path, as all of AWS but S3 does.

`BucketProofs`, `TokenBucketProofs`, `SequenceInduction`, `RetryProofs`, `RouterProofs`, `FailoverProofs`,
`GatewayProofs` and `AdaptersProofs` hold the theorems (section 5), and the `MC...` modules the instances. Definitions commented "Mutant" are plausible
bugs of the code; `PROJECT.json` says which property each of them violates when it takes
the place of the definition after it. They are no part of any specification.

### Simplifications

- The `float64` arithmetic of the bucket is exact.
- All limiters of a router have the same rate and burst. They keep separate buckets,
  and the proofs treat each on its own.
- The failover predicate of `WithFailoverPredicate` is the operator constant `FailsOver`. It is
  the default one, `IsRetryable`, in all runs but `router_library`, which fails over on
  plain errors too.
- Registering a provider again replaces an object by one of the same name; the
  model has names only, so the behaviours of a call on the old object are included.
- In `Router` and `Gateway` the durations of backoffs and calls and the deadlines of a
  connection are arbitrary: each may end at any time, unless its timeout is switched off.
  `Retry` computes the backoffs. `clock` advances independently, bounded by `MaxClock`.
- Costs are exact; the code's are `float64`.
- Temperatures, texts of errors and log lines are left out. `/healthz` and
  `/readyz` answer constants.
- The gateway attaches no limiter, so its runs have no `Tick`; the buckets are unused there.

## 3. The runs

| Run | Question | Instance |
|---|---|---|
| `token_bucket` | Do `Allow` and two waiters keep within the bound, without oversleeping, and does `Wait` return? | Rate 2 and 7 units to the token: a truncated sleep falls short by a unit, so a waiter sleeps twice, and sleeps of one to three ticks occur. Burst 2 and two waiters: one can take the token for which another sleeps. Windows up to 8 ticks: longer than refilling from empty (7). |
| `router_serving` | Do two requests on a shared limited provider stay within its budget? | The chain names the limited provider twice with an unlimited one between, so a request is admitted up to twice, denied and retried (2 tries). Burst 1 and one more token in 2 ticks, clock to 3. |
| `router_library` | Does a request keep the promise of `Failover`, are tokens spent, and does each move bring it nearer to its end, while the router is reconfigured under it? | One request; a failover predicate that is not the default one; `Register`, `SetLimiter`, `AddRoute`, `SetDefaultRoute` at any time, with chains of no, one and two targets. |
| `router_fallback` | The default route, a missing provider, retrying disabled: does the end of a context stop the search, does every call return? | `MaxAttempts = 0`, `New(0, 0)`; two requests, a chain of three whose first provider is missing. |
| `gateway` | Whatever the environment and the clients do: do statuses and bills agree with what the router did, is a missing target excluded, are bills right, do handlers finish? | One request, two tries. Sets of credentials with one incomplete; route tables with none, one and two names; overrides that replace a price, add one for a snapshot, name an unknown provider or are negative; timeouts that are switched off or unreadable; the environments that `Load` refuses. The client leaves or sends no body, deadlines pass, the listener fails, a signal comes. Statuses 408 and 504: terminal and equal to what the server writes for a context that was cancelled, and retryable and equal to what it writes for a timeout, so an answer could be mistaken for either; and 99, which cannot be written. Backends echo the model or a snapshot of it. |
| `adapters` | Do the adapters agree with each other and with the router? | Conversations of up to three messages with system messages in any place and empty contents: three is what it takes to fold twice. Answers with no text, one and two with something else between; models of a plain name and of an ARN; a permanent and a temporary key, so four or five headers in every order. |
| `retry` | Does the backoff keep to what the policy documents, does `Do` return what is due, and is it what `Router` takes it for? | 160 policies: -1, 1, 3 and 6 tries; base delays negative, zero, 1, 3, 9; caps negative, zero, 2, 7, 12; with and without jitter. Durations are of 5 bits (-16 to 15), so that 9 doubled is negative, with and without a cap, and five doublings of 1 are. A retryable and a terminal status, a timeout, and an end of the context at any place. |

Two requests are enough for the properties of the router because requests meet only at the
limiters and the configuration: a second request stands for everything that others
do to them, and the chain with a repeated provider lets one request meet itself. Two
tries distinguish the first, an intermediate and the last; chains of three have a first,
a middle and a last target. The budget itself is also proved for any number of everything.

One request is enough in `gateway`: while it serves, handlers share the registered providers, the routes and
the prices, which no longer change, and no limiter; the one place where they meet is the shutdown, which waits
for all. Two requests in one environment were checked as well, with the same result, and each invariant
of the run is proved for any number of them.

Properties worth reading first: `WindowBound`, `UpstreamBudget`, `TokensAreSpent`,
`EndedContextStopsFailover`, `KeepsPromise`, `AnswersTellTheTruth`, `ProviderIsSpared`, `RetryIsTheRouters`, `BillsAreRight`, `SameConversation`, `SignatureIsAccepted`.

`SleepIsBounded` and `ProviderIsSpared` compare the loop of `backoff` with the closed form
`BaseDelay * 2^(n-1)`, capped, under the condition `Fits`: the code doubles first and compares
with the cap afterwards, so the documented backoff can be had only while twice the cap and twice the base are
durations. `SleepIsCapped`, `ResultIsDue` and `DoReturns` hold without it.

Deadlock is checked in all runs: `AllReturned`, `Idle` and `Done` are the
stuttering of a system that has finished.

### Where documentation and code disagree

Five runs check a sentence of the repository and show a behaviour against it.

- `router_timeout`: the HTTP client's own timeout wraps `DeadlineExceeded`, so
  `router.go:189` takes it for the end of the caller's context and does not fail over, although
  `errors.go:58` makes it a retryable error and the caller is waiting.
- `router_request_budget`: one token is taken for a target, not for a call
  (`router.go:159`); the requests that a provider receives exceed the budget that the
  comment of `ratelimit.go:1` speaks of, by the factor that `UpstreamBudget` allows.
- `gateway_rate_limit`: `Build` never calls `SetLimiter`; the README's gateway limits rates.
- `gateway_write_timeout`: `WriteTimeout` covers the handler, not the writing, so
  an answer that took longer than 30 s is paid for and dropped.

- `adapters_models`: `bedrock.go:136` escapes the model once, and `sigv4.go:132` signs the path as it is
  on the wire. The service encodes that path once more, so it refuses what was signed if the id of the model
  has a `:` or a `/`. An inference profile's ARN, which `bedrock.go:109` names as an example, has both.
  `SignatureIsAccepted` is therefore stated, and proved, for models with neither. That the service encodes again
  is a fact about AWS and not about this repository; it is stated in `SigV4`.

Five more were met and are visible in the models without a run of their own:

- The adapters of Anthropic and OpenAI send `Metadata["user_id"]` to the provider (`MessagesBody`,
  `CompletionsBody`) although `provider.go:58` says that metadata is "never sent to the provider"
  (the server sets no such key, so the runs have no user id).
- A response with status 200 that cannot be decoded is a plain error (`Decode` of `Adapters`) although
  `provider.go:91` asks for a `*Error` "for any provider-side failure". `ErrorsAreFair` states what the code
  does, and names this as the only such failure; its consequence is that the request ends there and does not fail over.
- `retryableStatus` has six statuses (`RetryableStatus`), while `errors.go:46` speaks of "429 and 5xx": a 501
  is not retried. `ErrorsAreFair` is stated with the six.
- A response whose body breaks off is a `NewTransportError`, whose comment (`errors.go:58`) is about
  failures "where no HTTP response was received"; a request that the backend may have served is made again (`TransportFails` in `read`).
- A backend's status is handed on as it is (`server.go:183`), and one that has not three digits, which `net/http`
  lets pass from a backend, makes `WriteHeader` panic (`Panic` of `Gateway`): the client's connection is
  closed instead of the 502 or "the last provider's own status" of the comment at `server.go:167`.

## 4. Fairness

- `TokenBucket`: the steps of a waiter and the clock are weakly fair: the Go
  runtime schedules runnable goroutines, timers fire, time passes. Callers need not call or
  cancel. Nothing favours `Wait` over `Allow`, so `WaitReturns` excepts the
  behaviours in which `Allow` takes tokens for ever.
- `Router`: weak fairness of `Step(r)` for each request. A request waits only in a provider
  call, which the timeout of `DefaultHTTPClient` ends, and in a backoff, which a timer ends.
  `Bedrock`, `Anthropic` and `OpenAI` all use that client by default. Contexts need not end
  and the clock need not advance.
- `Retry`: weak fairness of the steps of `Do`, whose call of the provider ends with the same
  timeout, and of the clock, without which no timer fires.
- `Gateway`: weak fairness of start-up, of each handler (its read deadline included, if there is one) and of the end of `Shutdown`, which
  returns when the handlers are done or `ShutdownTimeout` is over. Nobody has to
  connect, leave or send a signal.

## 5. The proofs

**Assumptions** on the constants, each of which TLC evaluates in the runs:

- `BucketAssumption`: positive resolution, `MaxAge` long enough to fill the bucket.
- `WindowAssumption`: windows have a positive bound.
- `RouterAssumption`: the constants have their types, `nil` is no limiter. Nothing is assumed of `FailsOver`.
- `RetryAssumption`: policies and errors have their types, a `Duration` is not empty, and the function
  that `Do` is given does not return the bare error of a context.
- `InRouterAssumption`: what `Do` runs is the `Chat` of a provider, so its errors are those of
  `ProviderFailures`. This is what `Router.Chat` passes to `Do`.
- `GatewayAssumption`: names and chains of the environments are among the models and chains of the
  instance, rates are numbers, a client that leaves cancels its request, a backend counts tokens in natural
  numbers, and an error of an adapter has not the status 200, since the adapters make errors of all others. Nothing else
  is assumed of the statuses.
- `AdaptersAssumption`: 200 is a status, two credentials with one key id have one secret, an encoded character is none
  of a model, and requests and generations are what the Go types make them, sequences of any length.

Nothing is assumed of the sizes of sets: `Requests`, `Providers`, `Limiters`, `Chains` and the environments
may be infinite, and the rate, burst and `MaxAttempts` may be any integers, since the code clamps them.

**Token bucket** (`TokenBucketProofs`, over the facts of `BucketProofs`): `TypeCorrect`,
`WindowLedgerHolds`, `WindowBoundHolds`, `NobodyOversleeps`.
`WindowBound` does not say what is still in the bucket and is not inductive.
`WindowLedger` is, with `TypeOK`: either the bucket was not touched since the window was
opened, and then nothing was taken in it; or what was taken, what is left and what the next refill
will add fit in the allowance. A refill moves from the third account to the second and
may lose some to the cap, a grant moves from the second to the first, a tick adds as much to
the third as to the allowance; for a saturated `age` it adds nothing to the third.
`NoOversleep` follows from `SleepsForItsToken`: for a sleep that is longer than a tick, what is in the bucket,
what the next refill adds and what accrues until the timer fires are together no more than a token. A tick
moves from the third to the second, and others who take tokens only lower the first.

**Induction** (`SequenceInduction`): the induction theorems of the library take an operator as a
parameter, which no prover here can instantiate. `WFMin` (every set of numbers that is not empty has a
least one) gives induction as a statement about sets: `NatIsInductive`, and `SeqIsInductive` for
sequences that grow at their end. A loop over a sequence, a recursive function on positions, is a walk
from a first value by a step that is a function (`IsWalk`): there is one (`WalkExists`), only one
(`WalkIsOne`), and it depends on the steps alone (`StepsAlike`), so a walk over a longer sequence begins
with that over the shorter. `FlattenSeq` is such a walk, which gives `FlattenConcat`; a filter, or any
loop that makes none or some elements of each element, is `Picked` by a function, and
`PickedConcat` takes it apart at any place of the sequence.

**Retry** (`RetryProofs`): `TypeCorrect`, `SleepIsCappedHolds`, `ResultIsDueHolds`, for every set of
policies and width of a duration. `TypeOK` alone is not inductive: a call adds a try, which must be
left. `RetryInv` adds `TriesLeft`: one is left at the head of the loop and in a backoff, and one was begun
wherever an answer is dealt with. With it each of these theorems is one step: what `Sleep` is given is capped
and jitter only shortens it (`JitterShortens`); each of the places that return gives the error that is due there.

- `SleepIsBoundedHolds` and `ProviderIsSparedHolds` compare the loop of `backoff` with a power of two
  after any number of turns. `Power` is a recursive function; that it exists and obeys its equation for every
  number is proved from the induction of `SequenceInduction`.
  `DelayIsDoubled` says of the loop that after `i - 1` turns the delay is `BaseDelay` times `Power[i - 1]`
  and that no doubling so far has overflowed or passed the cap, if the documented backoff `Fits`.
  `RestIsKept` carries the length of the backoff through the sleep: what has passed
  and what the timer still has to run are together no less than the documented rest.
- `RetryRefines`: `Spec => RetryIsTheRouters`. One lemma for each step takes it to the step of `Router` that it
  is (`CallStarts`, `SuccessServes`, `FailureIsTheRouters`, `GivingUpIsTheRouters`, `CancelledSleepIsTheRouters`,
  `HeadEndsBackoff`, `ContextEndIsTheRouters`); a turn of the doubling, a tick and a sleep that begins are stutters.
  `ErrorFinishes` is the place at which `Do` returns an error and the router's `Finish` decides what becomes of it.

**Router** (`RouterProofs`):

- `TypeInvariant`: `TypeOK` is inductive with `Positioned`: a request that looks up,
  asks a limiter or calls stands on a target of its chain, and one that asks a limiter has one.
  Hence no request indexes past its chain, and none asks a nil limiter, although
  `SetLimiter` may detach it between lookup and `Allow`.
- `LedgerInvariant`: `LimiterLedger` is inductive together with `GrantsBehind` (the
  visits that were admitted lie behind their request, or under it once it was
  admitted, so no visit is counted twice), `TriesOnGrant` (a request that
  may call under a limiter is on a visit which that limiter admitted, and its tries are bounded), and `FiniteGrants`.
- `LimiterLedgerHolds` and `UpstreamBudgetHolds`: the calls under a limiter are a subset of
  `grants[l] \X 1..Tries`, whose cardinality the ledger bounds by `Tries` times the allowance. This
  holds for every set of requests and of limiters and under any reconfiguration.

`EndedContextStops` and `TokensSpent` are about the end of a context. Neither property is
inductive, because each speaks of what a request has done and not of where it is. `ContextInv` says
of every place how far a request may be from where its context ended, that no call lies ahead of it, and that
a visit that was admitted has a call, or is the one at hand, or is the one on which the context ended.

`ComesToAnEndHolds` is the half of `Termination` that needs no fairness: each move of a request that has
its route makes `MovesLeft`, a natural number that the chain and the policy bound, smaller, whatever the
others do. It needs `WithinBounds` (a request passes its chain by no more than the head of the loop, its tries are
those of the policy) and the values of the measure at each place (`LeftValues`); `VisitEnds` and `VisitGoesOn`
are the two kinds of moves. That a request which can move does move is fairness, and stays with TLC.

`FailoverProofs`: `RouterKeepsPromise` is `Spec => KeepsPromise`. `StepImplements` maps each step of `Router` to
the step of `Failover` that it is (a failure that is recorded is a target ruled out, for its reason) or to a
stutter. It needs of the reachable states that a request that is under way has as many recorded failures
as targets behind it, which is `Aligned`. `RouteInvariant` adds what the caller of `Chat` reads: a route
error has a last failure, and one that blames a context is the fault of that context.

**Process** (`GatewayProofs`):

- By `GatewayUsesRouter`, a lemma, each invariant of the router that was proved is one of the process
  (`GatewayRouterInvariants`).
- `TargetsArePresent` (from `BootInv`, how far the start has come, and `EquippedInv`, that
  what is served was registered), `AnswersAreTrue` (from `HandledInv`, which ties the place of a handler to the
  place of its request, its status and its bill).
- `GatewayTypeCorrect`: a status that was written has three digits, for all statuses of the backends.
  `ChatStatusType` shows that what `writeChatError` chooses is a number, and one that cannot be
  written only if the last failure has such a status itself; an error without a status is reported as 502.
- `BillsAreCorrect`: the merged prices are those of the operator where he set one and else the built-in ones
  (`MergedEntries`), never negative, so a bill is what is due (`BillForIsDue`). That it is made out to the target
  that was called last needs what the router's calls and the place of a request have to do with each other:
  `CallInv` says that a request which is served has a call at its position, `ContextInv` of `RouterProofs` that it has none
  beyond, and `StepCalls` that a step of one request leaves the calls of the others.

**Adapters** (`AdaptersProofs`):

- `ErrorsAreFairHolds`, from `FairInv`, which ties the place of a call to its body and to the answer that was
  read. `FailuresAreProvided` adds that the errors are among those for which `Router` provides (`ProviderFailures`).
- `SignatureIsAcceptedHolds`: `SignedInv` keeps what `Build` established until the request
  is sent; `OrderFindsAll` (whatever the order in which the map is walked, every header that is to be signed is
  found: an injection between finite sets of one size) and `SortedNames` (sorting loses none) give the service
  the names that were signed; `PlainPathStays` gives it the path, which no encoding changes if the model has neither
  `:` nor `/`; `SignedIsAccepted` recomputes the signature from what it receives.
- `SameConversationHolds`: for requests of any length, wherever their system messages stand and whatever of them
  is empty, all backends are asked the same. `BodyInv` says that a body under way is the one built from the
  request, so this is about two translations. `FoldedIsWalk` makes the loop of `Chat` a walk; `FoldedFacts`
  says by induction on the messages that it leaves the conversation in its order (`ConversationIsPlain`: which has
  no system message left), and that what it folds says what the system prompt and then the system messages said
  (`JoinSays`: joining skips what is empty, as saying does). `MessagesAsk` and `CompletionsAsk` conclude for
  the two APIs.
- `AnswersMeanTheSameHolds`: for generations of any number of parts. `AnswerInv` ties what the backend
  answered, on the wire of its API, to the generation, and what was returned to it (`ResponseSays`); `TextIsConcat` equates the loop of `concatText` with the text that a Chat Completions answer has, by
  the uniqueness of a walk; `EndingsKeep` goes through the tables of reasons.
- Both use of `AdaptersAssumption` what the Go types say: a system prompt is one string or
  missing, a message has a role and a content, a part a type and a text.

**Only model-checked**: liveness (`WaitReturns`, `Termination`, `DoReturns`, `HandlersFinish`), because TLAPS does not reason about ENABLED, so neither about fairness. Every invariant and every
action property of a passing run is proved.

## 6. What is not modelled

- Logging: `newLogger` and the log lines change nothing else. The bill, which is logged and
  answered, is modelled.
- The health endpoints, which answer constants.
- In the adapters: the temperature, the headers of Anthropic and OpenAI (constants and an API
  key), the texts and codes of errors, JSON itself.
- In SigV4: `canonicalQuery` (its one caller has no query), the
  trimming and joining of header values (the code sets one value each, without blanks).
- A provider that answers with a 2xx status other than 200: the adapters make it an error
  with that status, and the gateway hands the status on.
- Reconfiguration in the runs `router_serving` and `gateway`: after `Build` the gateway does not change its router.
  The run `router_library` changes it; that the budget of a limiter survives it is proved only.
- The floor of a millisecond in `Wait`, apart from the truncation: one tick stands for both, so the model cannot
  tell a spin from a short sleep.
- The spelling of durations and JSON in the environment: the environment says whether they can be read.
- The rounding of `float64` in the bucket and in costs.

## 7. Plan

Done, in this order: token bucket, router with retry loop, abstract failover,
gateway and start-up, adapters; then the backoff in time and its place in the router, pricing and
bills, signing with its encodings, the wire forms of answers, the read deadline, the signal during the start, odd
statuses and the failover predicate; the proofs of section 5,
which cover every safety property that a run checks.

Next: measures like `MovesLeft` for `Do` in time and for a handler of the gateway; a listener that fails at
the moment of the signal, and a provider that answers with another 2xx status than 200.
