------------------------------ MODULE Startup -------------------------------
(***************************************************************************)
(* internal/config and the checks of internal/gateway.Build: which         *)
(* environments the gateway starts with, and with which values.            *)
(*                                                                         *)
(* An environment is a record:                                             *)
(*   json      GATEWAY_ROUTES and GATEWAY_PRICING can be decoded           *)
(*   logLevel  GATEWAY_LOG_LEVEL                                           *)
(*   secrets   the variables with credentials that are not empty           *)
(*   routes    the decoded routes, a function from names to chains         *)
(*   pricing   the decoded prices, a table as in Pricing                   *)
(*   readTimeout, writeTimeout                                             *)
(*             what these variables hold: nothing, a Go duration, a bare   *)
(*             number of seconds or something else                         *)
(* The listen address is left out: getString replaces an empty one, so     *)
(* that validate never sees it, and so is the shutdown timeout: Shutdown   *)
(* may give up after any time.  Durations count seconds.                   *)
(***************************************************************************)
EXTENDS Pricing, Sequences

LogLevels == {"debug", "info", "warn", "error"}

\* Config.validate.
Valid(env) ==
    /\ env.logLevel \in LogLevels
    /\ \A name \in DOMAIN env.routes :
         /\ env.routes[name] # <<>>
         /\ \A i \in 1 .. Len(env.routes[name]) :
              env.routes[name][i].provider # "" /\ env.routes[name][i].model # ""
    /\ NoNegativeRate(env.pricing)

\* config.Load.
Loads(env) == env.json /\ Valid(env)

\* getDuration: what cannot be read is replaced by the default; zero and
\* negative durations are not.
Duration(v, fallback) ==
    IF v.form \in {"duration", "seconds"} THEN v.value ELSE fallback

ReadTimeout(env)  == Duration(env.readTimeout, 15)
WriteTimeout(env) == Duration(env.writeTimeout, 30)

\* Mutant: the first target of a route speaks for all of them.
FirstTargetRegistered(providers, targets) == targets[1].provider \in providers

\* Build makes a client for each backend whose credentials are complete.
Required ==
    [anthropic |-> {"ANTHROPIC_API_KEY"},
     openai    |-> {"OPENAI_API_KEY"},
     bedrock   |-> {"AWS_REGION", "AWS_ACCESS_KEY_ID", "AWS_SECRET_ACCESS_KEY"}]

Enabled(env) == {p \in DOMAIN Required : Required[p] \subseteq env.secrets}

\* Build installs a route only if each of its targets can be used.
AllRegistered(providers, targets) ==
    \A i \in 1 .. Len(targets) : targets[i].provider \in providers

\* Build lays the configured prices over the built-in ones.
PriceTable(env) == Merge(DefaultTable, env.pricing)
=============================================================================
