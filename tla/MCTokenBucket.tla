---------------------------- MODULE MCTokenBucket ---------------------------
(* A small instance of TokenBucket.                                        *)
EXTENDS TokenBucket
=============================================================================
