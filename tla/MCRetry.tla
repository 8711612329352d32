------------------------------ MODULE MCRetry -------------------------------
(* Small instances of Retry.                                               *)
EXTENDS RetryInRouter

\* Policies with and without tries, delays and a cap; a Duration of five bits
\* overflows after a few turns of the loop, with a cap only above half of it.
SmallPolicies ==
    [maxAttempts : {-1, 1, 3, 6}, baseDelay : {-1, 0, 1, 3, 9},
     maxDelay : {-1, 0, 2, 7, 12}, jitter : BOOLEAN]

SomeErrors == {HTTPError(503), HTTPError(400), TransportError("deadline")}
=============================================================================
