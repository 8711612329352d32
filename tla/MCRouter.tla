------------------------------ MODULE MCRouter ------------------------------
(* Small instances of Router.                                              *)
EXTENDS Router, TLC

On(p) == [provider |-> p, model |-> "m"]

\* Every request asks for the one logical model "chat".
OneModel   == {"chat"}
AskForChat == [r \in Requests |-> "chat"]

TwoProviders   == {"primary", "secondary"}
ThreeProviders == {"primary", "secondary", "missing"}

\* The primary is behind a limiter and the secondary is not.
PrimaryFirst == <<On("primary"), On("secondary")>>
PrimaryTwice == <<On("primary"), On("secondary"), On("primary")>>
LongChain    == <<On("missing"), On("primary"), On("secondary")>>

LibraryChains == {<<>>, <<On("secondary")>>, PrimaryFirst}
ServingChains == {<<>>, PrimaryTwice}
LongChains    == {<<>>, LongChain}

\* A failover predicate of one's own: what an adapter refuses by itself (a
\* missing max_tokens) may be served by another.
PlainErrorsToo(err) == IsRetryable(err) \/ err.kind = "plain"

ServingInit ==
    Configured(TwoProviders,
               [p \in Providers |-> IF p = "primary" THEN CHOOSE l \in Limiters : TRUE
                                                     ELSE NoLimiter],
               [m \in Models |-> PrimaryTwice],
               <<>>)

ServingSpec == ServingInit /\ [][Serve]_vars /\ Fairness

\* The chain is the default route and its first provider is not registered.
FallbackInit ==
    Configured(TwoProviders,
               [p \in Providers |-> IF p = "primary" THEN CHOOSE l \in Limiters : TRUE
                                                     ELSE NoLimiter],
               [m \in Models |-> NoRoute],
               LongChain)

FallbackSpec == FallbackInit /\ [][Serve]_vars /\ Fairness

RequestSymmetry == Permutations(Requests)
-----------------------------------------------------------------------------
(* What the repository says of the router and the router does not do.      *)

LastFailure(r) == failures[r][Len(failures[r])].err

\* The request failed with targets of its chain left, though its caller waits.
StoppedEarly(r) ==
    /\ pc[r] = "routeError"
    /\ ~Ended(r)
    /\ Len(failures[r]) < Len(chain[r])

(***************************************************************************)
(* "The default fails over on retryable (availability) errors only", and a *)
(* transport timeout is made a retryable error: a request whose caller is  *)
(* still waiting fails over when the provider times out.                   *)
(***************************************************************************)
TimeoutFailsOver ==
    \A r \in Requests : StoppedEarly(r) => ~IsRetryable(LastFailure(r))

(***************************************************************************)
(* The limiter is "used to protect providers from exceeding their          *)
(* per-minute request budgets": the requests that reach a provider stay    *)
(* within the burst and the rate of its limiter.                           *)
(***************************************************************************)
RequestBudget ==
    \A l \in Limiters :
        Cardinality(calls[l]) * Token <= Capacity + Rate * clock
=============================================================================
