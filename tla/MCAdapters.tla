----------------------------- MODULE MCAdapters -----------------------------
(* Small instances of Adapters.                                            *)
EXTENDS Adapters

MessageSet == [role : {"system", "user"}, content : {"a", ""}]
               \cup {[role |-> "assistant", content |-> "b"]}

\* Ids of models: one that no encoding changes, and the ARN of a profile.
Plain   == <<"anthropic.claude-sonnet-5">>
Profile == <<"arn", ":", "inference-profile", "/", "us.anthropic.claude-sonnet-5">>

\* Conversations of up to three messages, with and without a system prompt and
\* a bound on the tokens.
SmallRequests ==
    [model     : {Plain, Profile},
     system    : {<<>>, <<"p">>},
     messages  : SeqOf(MessageSet, 3) \ {<<>>},
     maxTokens : {0, 1},
     user      : {""}]

\* One conversation with each of them.
OneConversation ==
    [model : {Plain, Profile}, system : {<<>>}, maxTokens : {1}, user : {""},
     messages : {<<[role |-> "user", content |-> "a"]>>}]

\* A key of one's own and a temporary one.
SomeCredentials ==
    {[id |-> "AKIA", secret |-> "s1", session |-> ""],
     [id |-> "ASIA", secret |-> "s2", session |-> "token"]}

Midnight == [day |-> 2, second |-> 0]

Text(t) == [type |-> "text", text |-> t]
Thought == [type |-> "thinking", text |-> ""]

\* Answers with no text, with one and with two, between which something else
\* was generated.
SmallGenerations ==
    [parts  : {<<>>, <<Thought, Text("x")>>, <<Text("x"), Thought, Text("y")>>},
     usage  : {[input |-> 3, output |-> 2]},
     ending : Endings]
-----------------------------------------------------------------------------
(* What the repository says of the adapters and they do not do.            *)

(***************************************************************************)
(* "req.Model is the Bedrock model identifier (e.g. ... or a cross-region  *)
(* inference profile ARN)": whatever model is asked for, the service       *)
(* accepts the signature of the request.                                   *)
(***************************************************************************)
AnyModelIsAccepted == pc = "send" /\ backend = "bedrock" => Accepted
=============================================================================
