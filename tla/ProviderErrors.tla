--------------------------- MODULE ProviderErrors ---------------------------
(***************************************************************************)
(* pkg/provider/errors.go: the failures of a provider call as the retry    *)
(* loop, the router and the server tell them apart.                        *)
(*                                                                         *)
(* kind    "http"          *provider.Error made by NewHTTPError            *)
(*         "transport"     *provider.Error made by NewTransportError       *)
(*         "limited"       the one that the router makes with              *)
(*                         NewHTTPError, status 429 and a code of its own, *)
(*                         for a target whose limiter has no token         *)
(*         "plain"         an error of an adapter that is no               *)
(*                         *provider.Error (bad parameters, a response     *)
(*                         that cannot be decoded)                         *)
(*         "unregistered"  the plain error of the router for a target      *)
(*                         whose provider is not registered                *)
(*         "context"       ctx.Err()                                       *)
(* status  the HTTP status, 0 for everything but "http" and "limited"      *)
(* cause   what errors.Is finds along the chain of wrapped errors:         *)
(*         context.Canceled, context.DeadlineExceeded or neither           *)
(***************************************************************************)
EXTENDS Integers

ContextCauses == {"canceled", "deadline"}

HTTPError(status) == [kind |-> "http", status |-> status, cause |-> "none"]

\* NewTransportError wraps its cause, so errors.Is sees through it.
TransportError(cause) ==
    [kind |-> "transport", status |-> 0, cause |-> cause]

ContextError(cause) == [kind |-> "context", status |-> 0, cause |-> cause]

PlainError        == [kind |-> "plain", status |-> 0, cause |-> "none"]
UnregisteredError == [kind |-> "unregistered", status |-> 0, cause |-> "none"]
RateLimitedError  == [kind |-> "limited", status |-> 429, cause |-> "none"]

Errors ==
    [kind   : {"http", "limited", "transport", "plain", "unregistered", "context"},
     status : Nat,
     cause  : {"none"} \cup ContextCauses]

\* The errors that Chat of a provider may return while the context of its caller
\* is in this state.  The HTTP client has a timeout of its own, which wraps
\* DeadlineExceeded although the caller's context lives.
ProviderFailures(ctx, statuses) ==
    {HTTPError(s) : s \in statuses}
    \cup {PlainError, TransportError("none"), TransportError("deadline")}
    \cup {TransportError(c) : c \in {ctx} \ {"live"}}

\* The statuses that are transient; 529 is Anthropic's "overloaded".
RetryableStatus(status) == status \in {429, 500, 502, 503, 504, 529}

\* Mutant: whatever is not a client error is retried.
RetryableUnlessClientError(err) == err.status \notin 400 .. 428

\* Only a *provider.Error can be retryable.
IsRetryable(err) ==
    \/ err.kind \in {"http", "limited"} /\ RetryableStatus(err.status)
    \/ err.kind = "transport"

\* errors.Is(err, context.Canceled) || errors.Is(err, context.DeadlineExceeded)
IsContextError(err) == err.cause \in ContextCauses
=============================================================================
