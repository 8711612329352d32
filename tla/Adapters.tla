------------------------------ MODULE Adapters ------------------------------
(***************************************************************************)
(* Client.Chat of pkg/provider/anthropic, openai and bedrock: one unified  *)
(* request is translated for a backend, sent, and what comes back, or does *)
(* not, is made a response or an error.                                    *)
(*                                                                         *)
(* A text is the sequence of the paragraphs it was joined from with blank  *)
(* lines, the empty text being <<>>; the content of a message and the      *)
(* system prompt of a request are one paragraph each.  The id of a model   *)
(* is a sequence of characters as in SigV4, ":" and "/" among them.  An    *)
(* answer is a record with the fields of the JSON on the wire.  The        *)
(* sampling temperature is left out: openai passes it on, the others drop  *)
(* it.  Of the headers only those of Bedrock, which are signed, are        *)
(* modelled.                                                               *)
(***************************************************************************)
EXTENDS ProviderErrors, SigV4

CONSTANTS
    Requests,     \* the unified requests that may be made
    Statuses,     \* the HTTP statuses a backend may answer with
    Credentials,  \* the AWS credentials that may be configured
    Time,         \* the time at which a request is signed
    Generations   \* what a backend may generate: parts, usage and an ending

Backends == {"anthropic", "openai", "bedrock"}

\* Anthropic and Bedrock both speak the Messages API.
Messages == {"anthropic", "bedrock"}

\* The ways in which a generation ends.
Endings == {"natural", "truncated", "tool", "refused", "paused"}

\* Requests and generations are what the Go types make them, an encoded
\* character is none of a model, and a key id has one secret.
ASSUME AdaptersAssumption ==
    /\ \A req \in Requests :
         /\ req.model \in Seq(STRING)
         /\ \A i \in DOMAIN req.model : req.model[i] # "%2F"
         /\ req.system \in Seq(STRING) /\ Len(req.system) <= 1
         /\ req.messages \in Seq([role : STRING, content : STRING])
    /\ \A generation \in Generations :
         /\ generation.parts \in Seq([type : STRING, text : STRING])
         /\ generation.usage \in [input : Nat, output : Nat]
         /\ generation.ending \in Endings
    /\ 200 \in Statuses
    /\ Statuses \subseteq Nat
    /\ \A c1, c2 \in Credentials : c1.id = c2.id => c1.secret = c2.secret

VARIABLES
    backend,  \* which adapter is called
    request,  \* the unified request
    ctx,      \* ctx.Err()
    pc,       \* where the call is
    body,     \* the body that was built
    headers,  \* the headers that go with it
    answer,   \* what the backend answered, once it was read to its end
    reply,    \* what the backend had generated for it
    result    \* what Chat returned

vars == <<backend, request, ctx, pc, body, headers, answer, reply, result>>
-----------------------------------------------------------------------------
(* The request body.                                                       *)

IsSystem(m) == m.role = "system"

\* Mutant: the message replaces what was folded so far.
JoinReplaces(existing, m) == <<m.content>>

\* joinSystem: an empty text is replaced, any other is extended.
JoinSystem(existing, m) ==
    IF existing = <<>>
    THEN IF m.content = "" THEN <<>> ELSE <<m.content>>
    ELSE Append(existing, m.content)

\* The loop of Chat over the messages: the Messages API takes the system prompt
\* as a field, so system messages are folded into it.
Folded(system, messages) ==
    LET after[n \in 0 .. Len(messages)] ==
            IF n = 0
            THEN [system |-> system, messages |-> <<>>]
            ELSE IF IsSystem(messages[n])
            THEN [system   |-> JoinSystem(after[n - 1].system, messages[n]),
                  messages |-> after[n - 1].messages]
            ELSE [system   |-> after[n - 1].system,
                  messages |-> Append(after[n - 1].messages, messages[n])]
    IN  after[Len(messages)]

\* Bedrock is not told the user.
MessagesBody(req) ==
    LET folded == Folded(req.system, req.messages)
    IN  [model     |-> req.model,
         system    |-> folded.system,
         messages  |-> folded.messages,
         maxTokens |-> req.maxTokens,
         user      |-> IF backend = "anthropic" THEN req.user ELSE ""]

\* The system prompt is a message of its own and system messages stay put.
CompletionsBody(req) ==
    [model     |-> req.model,
     system    |-> <<>>,
     messages  |-> (IF req.system = <<>> THEN <<>>
                    ELSE <<[role |-> "system", content |-> req.system[1]]>>)
                   \o req.messages,
     maxTokens |-> req.maxTokens,
     user      |-> req.user]
-----------------------------------------------------------------------------
(* What a backend answers.                                                 *)

\* How the two APIs spell the endings.
SpelledByMessages ==
    [natural |-> "end_turn", truncated |-> "max_tokens", tool |-> "tool_use",
     refused |-> "refusal", paused |-> "pause_turn"]

SpelledByCompletions ==
    [natural |-> "stop", truncated |-> "length", tool |-> "tool_calls",
     refused |-> "content_filter", paused |-> "?"]

\* The text that was generated.
TextOf(generation) ==
    LET parts == generation.parts
        upTo[n \in 0 .. Len(parts)] ==
            IF n = 0 THEN <<>>
            ELSE IF parts[n].type = "text" THEN Append(upTo[n - 1], parts[n].text)
            ELSE upTo[n - 1]
    IN  upTo[Len(parts)]

\* The Messages API answers in parts, not all of which are text.
MessagesAnswer(generation) ==
    [content     |-> generation.parts,
     stop_reason |-> SpelledByMessages[generation.ending],
     usage       |-> [input_tokens  |-> generation.usage.input,
                      output_tokens |-> generation.usage.output]]

\* The Chat Completions API answers with one choice, whose content is the text.
CompletionsAnswer(generation) ==
    [choices |-> <<[content       |-> TextOf(generation),
                    finish_reason |-> SpelledByCompletions[generation.ending]]>>,
     usage   |-> [prompt_tokens     |-> generation.usage.input,
                  completion_tokens |-> generation.usage.output]]

AnswerTo(generation) ==
    IF backend \in Messages THEN MessagesAnswer(generation)
                            ELSE CompletionsAnswer(generation)

\* What is no JSON, and what has no choice.
Garbled   == [garbled |-> TRUE]
NoChoices == [choices |-> <<>>]
-----------------------------------------------------------------------------
(* The response.                                                           *)

\* mapStopReason of anthropic and of bedrock.
StopReasons ==
    [end_turn |-> "stop", stop_sequence |-> "stop", max_tokens |-> "length",
     tool_use |-> "tool_use", refusal |-> "content_filter"]

MapStopReason(reason) ==
    IF reason \in DOMAIN StopReasons THEN StopReasons[reason] ELSE "other"

\* mapFinishReason of openai.
FinishReasons ==
    [stop |-> "stop", length |-> "length", tool_calls |-> "tool_use",
     function_call |-> "tool_use", content_filter |-> "content_filter"]

MapFinishReason(reason) ==
    IF reason \in DOMAIN FinishReasons THEN FinishReasons[reason] ELSE "other"

FinishReason(json) ==
    IF backend \in Messages THEN MapStopReason(json.stop_reason)
                            ELSE MapFinishReason(json.choices[1].finish_reason)

\* concatText.
ConcatText(parts) ==
    FlattenSeq([i \in DOMAIN parts |->
                   IF parts[i].type = "text" THEN <<parts[i].text>> ELSE <<>>])

Content(json) ==
    IF backend \in Messages THEN ConcatText(json.content) ELSE json.choices[1].content

\* Mutant: all adapters look for the names of the Messages API; what JSON does
\* not find is zero.
UsageUnderOneName(json) ==
    IF backend \in Messages
    THEN [input |-> json.usage.input_tokens, output |-> json.usage.output_tokens]
    ELSE [input |-> 0, output |-> 0]

Usage(json) ==
    IF backend \in Messages
    THEN [input |-> json.usage.input_tokens, output |-> json.usage.output_tokens]
    ELSE [input |-> json.usage.prompt_tokens, output |-> json.usage.completion_tokens]

Undecodable(json) == json \in {Garbled, NoChoices}

Response(json) ==
    [kind    |-> "ok",
     content |-> Content(json),
     finish  |-> FinishReason(json),
     usage   |-> Usage(json)]
-----------------------------------------------------------------------------
NoBody   == [kind |-> "none"]
NoAnswer == [status |-> 0]
NoReply  == [ending |-> "none"]
NotYet   == [kind |-> "none"]

NoHeaders == [name \in {} |-> ""]

\* Where the client for the one region sends its requests.
Region == "us-east-1"
Host   == "bedrock-runtime.us-east-1.amazonaws.com"

\* url.PathEscape leaves a colon as it is.
PathEscape(segment) ==
    [i \in DOMAIN segment |-> IF segment[i] = "/" THEN "%2F" ELSE segment[i]]

Path(model) == << <<"model">>, PathEscape(model), <<"invoke">> >>

ContentHeaders ==
    [name \in {"content-type", "accept"} |-> "application/json"]

Signed(payload) ==
    UNION {Signatures(ContentHeaders, creds, Host, Region, Path(request.model), payload, Time) :
              creds \in Credentials}

Init ==
    /\ backend \in Backends
    /\ request \in Requests
    /\ ctx = "live"
    /\ pc = "build"
    /\ body = NoBody
    /\ headers = NoHeaders
    /\ answer = NoAnswer
    /\ reply = NoReply
    /\ result = NotYet

Return(r) == pc' = "done" /\ result' = r

\* The Messages API needs a bound on the tokens; the error of a missing one is
\* a plain one.
Refuse ==
    /\ pc = "build"
    /\ backend \in Messages
    /\ request.maxTokens <= 0
    /\ Return(PlainError)
    /\ UNCHANGED <<backend, request, ctx, body, headers, answer, reply>>

Build ==
    /\ pc = "build"
    /\ backend \in Messages => request.maxTokens > 0
    /\ body' = IF backend \in Messages THEN MessagesBody(request)
                                       ELSE CompletionsBody(request)
    /\ headers' \in IF backend = "bedrock" THEN Signed(body') ELSE {NoHeaders}
    /\ pc' = "send"
    /\ UNCHANGED <<backend, request, ctx, answer, reply, result>>

\* The connection, or the reading of the response, fails: for its own reasons,
\* on the timeout of the HTTP client, or because the context ended.
TransportFails ==
    /\ pc \in {"send", "read"}
    /\ \E cause \in {"none", "deadline"} \cup ({ctx} \ {"live"}) :
         Return(TransportError(cause))
    /\ UNCHANGED <<backend, request, ctx, body, headers, answer, reply>>

\* The status arrives.
Respond ==
    /\ pc = "send"
    /\ pc' = "read"
    /\ UNCHANGED <<backend, request, ctx, body, headers, answer, reply, result>>

\* The body is read to its end: with the status 200 it is an answer, or one that
\* cannot be decoded, or, from openai, one without choices.
Read(status) ==
    /\ pc = "read"
    /\ pc' = "decode"
    /\ \/ /\ status = 200
          /\ \E generation \in Generations :
               /\ reply' = generation
               /\ answer' = [status |-> 200, json |-> AnswerTo(generation)]
       \/ /\ \E json \in {Garbled} \cup (IF backend = "openai" THEN {NoChoices} ELSE {}) :
               answer' = [status |-> status, json |-> json]
          /\ UNCHANGED reply
    /\ UNCHANGED <<backend, request, ctx, body, headers, result>>

Decode ==
    /\ pc = "decode"
    /\ Return(IF answer.status # 200 THEN HTTPError(answer.status)
              ELSE IF Undecodable(answer.json) THEN PlainError
              ELSE Response(answer.json))
    /\ UNCHANGED <<backend, request, ctx, body, headers, answer, reply>>

EndContext ==
    /\ ctx = "live"
    /\ pc # "done"
    /\ ctx' \in ContextCauses
    /\ UNCHANGED <<backend, request, pc, body, headers, answer, reply, result>>

Done == pc = "done" /\ UNCHANGED vars

Next ==
    \/ Refuse
    \/ Build
    \/ TransportFails
    \/ Respond
    \/ \E status \in Statuses : Read(status)
    \/ Decode
    \/ EndContext
    \/ Done

Spec == Init /\ [][Next]_vars
-----------------------------------------------------------------------------
(***************************************************************************)
(* All backends are asked the same: what a body says as system prompt, in  *)
(* its order and whatever the place, and the conversation without it, are  *)
(* those of the unified request.  A failover does not change the question. *)
(***************************************************************************)
Said(text) ==
    FlattenSeq([i \in DOMAIN text |-> IF text[i] = "" THEN <<>> ELSE <<text[i]>>])

Inline(messages) ==
    FlattenSeq([i \in DOMAIN messages |->
                   IF IsSystem(messages[i]) THEN <<messages[i].content>> ELSE <<>>])

SystemOf(system, messages) == Said(system \o Inline(messages))

Conversation(messages) ==
    FlattenSeq([i \in DOMAIN messages |->
                   IF IsSystem(messages[i]) THEN <<>> ELSE <<messages[i]>>])

SameConversation ==
    pc \in {"send", "read"} =>
        /\ SystemOf(body.system, body.messages)
             = SystemOf(request.system, request.messages)
        /\ Conversation(body.messages) = Conversation(request.messages)
        /\ backend \in Messages => Inline(body.messages) = <<>>

(***************************************************************************)
(* An answer means the same whichever backend generated it: all of its     *)
(* text in its order and nothing else, the tokens that were counted on     *)
(* either side, which are billed, and why it ended; above all, an answer   *)
(* that was cut off is not taken for a whole one.                          *)
(***************************************************************************)
Normalized ==
    [natural |-> "stop", truncated |-> "length", tool |-> "tool_use",
     refused |-> "content_filter", paused |-> "other"]

AnswersMeanTheSame ==
    result.kind = "ok" =>
        /\ result.content = TextOf(reply)
        /\ result.finish = Normalized[reply.ending]
        /\ result.usage = reply.usage

(***************************************************************************)
(* Bedrock accepts the signature of every request for a model whose id has *)
(* neither ":" nor "/", in whatever order the headers were found: the      *)
(* service computes it again from what it receives and the secret of the   *)
(* key id.  The path of other models is signed as it was escaped once,     *)
(* and the service encodes it twice.                                       *)
(***************************************************************************)
SecretOf ==
    [id \in {creds.id : creds \in Credentials} |->
        (CHOOSE creds \in Credentials : creds.id = id).secret]

Accepted == Accepts(SecretOf, Host, Region, Path(request.model), headers, body)

PlainModel(model) == \A i \in DOMAIN model : model[i] \notin {":", "/"}

SignatureIsAccepted ==
    pc = "send" /\ backend = "bedrock" /\ PlainModel(request.model) => Accepted

(***************************************************************************)
(* What the retry loop and the router take from an error is what happened. *)
(* Another try is worth making if and only if a backend was asked and its  *)
(* answer did not arrive whole or said, with one of six statuses, that it  *)
(* will pass: nothing that was asked in vain, refused or answered is paid  *)
(* for again, and nothing else is given up.  A context or a timeout is     *)
(* blamed only for an answer that did not arrive, the caller only if he    *)
(* went away; and a status that came is handed on.  The one failure of a   *)
(* backend that is no *Error, against what the interface says, is a 200    *)
(* that cannot be decoded.                                                 *)
(***************************************************************************)
Arrived   == answer # NoAnswer
Transient == {429, 500, 502, 503, 504, 529}

ErrorsAreFair ==
    pc = "done" /\ result.kind # "ok" =>
        /\ IsRetryable(result) <=>
             body # NoBody /\ (Arrived => answer.status \in Transient)
        /\ result.kind = "plain" <=> body = NoBody \/ (Arrived /\ answer.status = 200)
        /\ result.cause # "none" => body # NoBody /\ ~Arrived
        /\ result.cause = "canceled" => ctx = "canceled"
        /\ Arrived /\ answer.status # 200 => result.status = answer.status
=============================================================================
