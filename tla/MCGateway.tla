----------------------------- MODULE MCGateway ------------------------------
(* Small instances of Gateway.                                             *)
EXTENDS Gateway, TLC

ChatModel  == {"chat"}
TwoModels  == {"chat", "code"}
AskForChat == [r \in Requests |-> "chat"]

OnAnthropic == [provider |-> "anthropic", model |-> "claude-sonnet-5"]
OnOpenAI    == [provider |-> "openai", model |-> "gpt-4o"]
OnBedrock   == [provider |-> "bedrock", model |-> "anthropic.claude-sonnet-5"]

Both     == <<OnAnthropic, OnOpenAI>>
Backends == DOMAIN Required

NoLimiters == {}

AnyUsage == [input : {0, 3}, output : {2}]
OneUsage == {[input |-> 3, output |-> 2]}

\* A name of a model that the built-in table does not know.
Snapshot == "gpt-4o-2024-08-06"
Snapshots == {Snapshot}

\* One good environment, in which two backends serve "chat".
Unset == [form |-> "unset"]

Good == [json |-> TRUE, logLevel |-> "info",
         secrets |-> {"ANTHROPIC_API_KEY", "OPENAI_API_KEY"},
         routes |-> [name \in {"chat"} |-> Both],
         pricing |-> NoModels, readTimeout |-> Unset, writeTimeout |-> Unset]

GoodEnvironments == {Good}
GoodChains       == {<<>>, Both}

\* Environments with up to two routes over one or two targets, with backends
\* missing or with a part of their credentials, with timeouts and prices that
\* are set, and the ones that Load refuses.
RouteTables ==
    LET chains == {<<>>, <<OnOpenAI>>, Both}
    IN  [{"chat"} -> chains] \cup [TwoModels -> chains] \cup {[n \in {} |-> <<>>]}

SomeSecrets ==
    SUBSET {"ANTHROPIC_API_KEY", "OPENAI_API_KEY"} \cup {{"AWS_REGION", "OPENAI_API_KEY"}}

Overrides ==
    {"openai" :> NoModels,
     "openai" :> ("gpt-4o" :> Price(1, 4)),
     "openai" :> (Snapshot :> Price(2, 8)) @@ "elsewhere" :> ("gpt-4o" :> Price(9, 9)),
     "openai" :> ("gpt-4o" :> Price(1, -4))}

OnBedrockOnly ==
    [Good EXCEPT !.secrets = Required["bedrock"], !.routes = "chat" :> <<OnBedrock>>]

AllEnvironments ==
    {[Good EXCEPT !.secrets = s, !.routes = t] : s \in SomeSecrets, t \in RouteTables}
    \cup {[Good EXCEPT !.pricing = o] : o \in Overrides}
    \cup {[Good EXCEPT !.readTimeout = [form |-> "seconds", value |-> 0],
                       !.writeTimeout = [form |-> "duration", value |-> -1]],
          [Good EXCEPT !.readTimeout = [form |-> "other"]],
          [Good EXCEPT !.json = FALSE],
          [Good EXCEPT !.logLevel = "verbose"],
          OnBedrockOnly}

AllChains == {<<>>, <<OnOpenAI>>, <<OnBedrock>>, Both}
-----------------------------------------------------------------------------
(* What the repository says of the gateway and the process does not do.    *)

(***************************************************************************)
(* "It handles routing, automatic fallback, retries, and rate limiting":   *)
(* a provider call of the gateway was admitted by a limiter.               *)
(***************************************************************************)
CallsAreRateLimited == calls[NoLimiter] = {}

(***************************************************************************)
(* "WriteTimeout bounds the time spent writing a response": a client that  *)
(* stays gets the response that a provider gave, however long the provider *)
(* took.                                                                   *)
(***************************************************************************)
ResponsesArrive ==
    \A r \in Requests :
        handler[r] = "replied" /\ status[r] = 200 /\ connected[r] => r \in arrived
=============================================================================
