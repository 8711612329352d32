------------------------------- MODULE Pricing -------------------------------
(***************************************************************************)
(* internal/pricing: what a chat request cost.                             *)
(*                                                                         *)
(* A table is a function from providers to functions from models to        *)
(* prices.  Rates are whole cents for a million tokens and a cost is in    *)
(* millionths of a cent, so that the arithmetic is exact; the float64      *)
(* arithmetic of the code is taken to be.                                  *)
(***************************************************************************)
EXTENDS Integers

Price(input, output) == [input |-> input, output |-> output]

DefaultTable ==
    [anthropic |->
         [model \in {"claude-opus-4-8", "claude-sonnet-5", "claude-haiku-4-5"} |->
             IF model = "claude-opus-4-8" THEN Price(1500, 7500)
             ELSE IF model = "claude-sonnet-5" THEN Price(300, 1500)
             ELSE Price(80, 400)],
     openai |->
         [model \in {"gpt-4o", "gpt-4o-mini"} |->
             IF model = "gpt-4o" THEN Price(250, 1000) ELSE Price(15, 60)],
     bedrock |->
         [model \in {"anthropic.claude-opus-4-8", "anthropic.claude-sonnet-5"} |->
             IF model = "anthropic.claude-opus-4-8" THEN Price(1500, 7500)
             ELSE Price(300, 1500)]]

NoModels == [model \in {} |-> 0]

ModelsOf(table, provider) ==
    IF provider \in DOMAIN table THEN table[provider] ELSE NoModels

\* One map laid over another.
Over(upper, lower) ==
    [key \in DOMAIN upper \cup DOMAIN lower |->
        IF key \in DOMAIN upper THEN upper[key] ELSE lower[key]]

\* Merge: an entry of override replaces the one for its provider and model.
Merge(table, override) ==
    [provider \in DOMAIN table \cup DOMAIN override |->
        Over(ModelsOf(override, provider), ModelsOf(table, provider))]

\* Validate.
NoNegativeRate(table) ==
    \A provider \in DOMAIN table : \A model \in DOMAIN table[provider] :
        table[provider][model].input >= 0 /\ table[provider][model].output >= 0

UnknownCost == [known |-> FALSE, input |-> 0, output |-> 0, total |-> 0]

\* Calculator.Cost: a missing price is no error.
Cost(table, provider, model, usage) ==
    IF model \in DOMAIN ModelsOf(table, provider)
    THEN LET price == table[provider][model]
             in    == usage.input * price.input
             out   == usage.output * price.output
         IN  [known |-> TRUE, input |-> in, output |-> out, total |-> in + out]
    ELSE UnknownCost
=============================================================================
