------------------------------ MODULE Gateway -------------------------------
(***************************************************************************)
(* cmd/gateway: the process that loads its configuration, builds the       *)
(* router, serves POST /v1/chat/completions with it and shuts down on a    *)
(* signal.  The requests of Router are here HTTP requests, each with a     *)
(* handler goroutine of its own and a client that may go away.             *)
(*                                                                         *)
(* net/http is modelled by what the code relies on: a handler may start on *)
(* a connection that was accepted before Shutdown closed the listener;     *)
(* reading the body fails once ReadTimeout has passed; the context of a    *)
(* request is cancelled some time after its client went away, but not      *)
(* while the body is read; WriteHeader panics on a status that has not     *)
(* three digits, and the connection of a handler that panics is closed;    *)
(* nothing that is written after WriteTimeout arrives; a timeout that is   *)
(* not positive is none; Shutdown waits for the handlers until its own     *)
(* context ends.                                                           *)
(***************************************************************************)
EXTENDS Router, Startup

CONSTANTS
    Environments,   \* the environments the process may be started in
    EchoedModels,   \* what a backend may call a model that it was asked for
    Usages          \* the token counts that a backend may report

\* The routes of an environment are over the names and chains of Router and rates
\* are whole numbers.  An adapter makes an error of every status but 200, however
\* many digits it has.
ASSUME GatewayAssumption ==
    /\ \A e \in Environments :
         /\ DOMAIN e.routes \subseteq Models
         /\ \A name \in DOMAIN e.routes :
              (\A i \in 1 .. Len(e.routes[name]) : e.routes[name][i].provider \in Providers)
                  => e.routes[name] \in Chains
         /\ \A p \in DOMAIN e.pricing : \A m \in DOMAIN e.pricing[p] :
              e.pricing[p][m].input \in Int /\ e.pricing[p][m].output \in Int
    /\ "canceled" \in EndCauses
    /\ 200 \notin Statuses
    /\ Usages \subseteq [input : Nat, output : Nat]

VARIABLES
    env,        \* the environment
    phase,      \* of the process
    exit,       \* the exit code
    prices,     \* the table of the Calculator
    handler,    \* the handler of each request
    connected,  \* whether the client of a request is still there
    late,       \* whether the write deadline of a request has passed
    status,     \* the HTTP status that the handler wrote
    arrived,    \* the requests whose client got the answer
    bill        \* what was logged and answered as the cost of each request

process      == <<env, phase, exit, prices>>
http         == <<handler, connected, late, status, arrived, bill>>
gatewayVars  == <<vars, process, http>>

NoBill    == [provider |-> "none"]
Billed(r) == bill[r] # NoBill
InHand(r) == handler[r] \in {"reading", "chatting"}

\* A route error unwraps to the failure of the last target.
LastError(r) == failures[r][Len(failures[r])].err

ThreeDigits == 100 .. 999

(***************************************************************************)
(* Every status that was written has three digits, and a handler that was  *)
(* aborted has written none.  It is aborted only if the backend that the   *)
(* last failure is of had itself answered with another status: whatever    *)
(* has no status, or needs none, is reported with one that can be written. *)
(***************************************************************************)
GatewayTypeOK ==
    /\ env \in Environments
    /\ phase \in {"load", "register", "route", "serving", "draining", "exited"}
    /\ exit \in {"none", "ok", "error", "killed"}
    /\ NoNegativeRate(prices)
    /\ handler \in [Requests -> {"none", "reading", "chatting", "replied", "aborted"}]
    /\ connected \in [Requests -> BOOLEAN]
    /\ late \in [Requests -> BOOLEAN]
    /\ status \in [Requests -> {0} \cup ThreeDigits]
    /\ \A r \in Requests :
         /\ status[r] = 0 <=> handler[r] # "replied"
         /\ handler[r] = "aborted" =>
              pc[r] = "routeError" /\ LastError(r).status \notin {0} \cup ThreeDigits
    /\ arrived \subseteq Requests
    /\ \A r \in Requests : Billed(r) => bill[r].provider \in Providers

GatewayInit ==
    /\ Init
    /\ env \in Environments
    /\ phase = "load"
    /\ exit = "none"
    /\ prices = NoModels
    /\ handler = [r \in Requests |-> "none"]
    /\ connected = [r \in Requests |-> TRUE]
    /\ late = [r \in Requests |-> FALSE]
    /\ status = [r \in Requests |-> 0]
    /\ arrived = {}
    /\ bill = [r \in Requests |-> NoBill]

Exit(code) == phase' = "exited" /\ exit' = code /\ UNCHANGED <<env, prices>>
Enter(p)   == phase' = p /\ UNCHANGED <<env, exit, prices>>
-----------------------------------------------------------------------------
(* run: config.Load and gateway.Build.                                     *)

Load ==
    /\ phase = "load"
    /\ IF Loads(env) THEN Enter("register") ELSE Exit("error")
    /\ UNCHANGED <<vars, http>>

\* One client is made and registered for each backend with credentials.
RegisterProvider(p) ==
    /\ phase = "register"
    /\ p \in Enabled(env) \ registered
    /\ Register(p)
    /\ UNCHANGED <<process, http>>

ProvidersRegistered ==
    /\ phase = "register"
    /\ Enabled(env) \subseteq registered
    /\ IF registered = {} THEN Exit("error") ELSE Enter("route")
    /\ UNCHANGED <<vars, http>>

Unrouted == {name \in DOMAIN env.routes : routes[name] = NoRoute}

\* The routes are taken in the order of a Go map, which is any order; the
\* first that cannot be used ends the process.
InstallRoute(name) ==
    /\ phase = "route"
    /\ name \in Unrouted
    /\ IF AllRegistered(registered, env.routes[name])
       THEN AddRoute(name, env.routes[name]) /\ UNCHANGED process
       ELSE Exit("error") /\ UNCHANGED vars
    /\ UNCHANGED http

\* The last part of Build checks the merged prices again.
StartServing ==
    /\ phase = "route"
    /\ Unrouted = {}
    /\ IF NoNegativeRate(PriceTable(env))
       THEN phase' = "serving" /\ prices' = PriceTable(env) /\ UNCHANGED <<env, exit>>
       ELSE Exit("error")
    /\ UNCHANGED <<vars, http>>

\* Signals are not handled before the server is made: they kill the process.
SignalKills ==
    /\ phase \in {"load", "register", "route"}
    /\ Exit("killed")
    /\ UNCHANGED <<vars, http>>
-----------------------------------------------------------------------------
(* handleChatCompletions.                                                  *)

\* Mutants: a timeout is reported like any failure of a target; an error that
\* has no HTTP status is reported with the one it has.
DeadlineIsUpstreamError(err) ==
    IF err.cause = "canceled" THEN 408
    ELSE IF err.status # 0 THEN err.status
    ELSE 502

ErrorStatusUnchecked(err) ==
    IF err.cause = "deadline" THEN 504
    ELSE IF err.cause = "canceled" THEN 408
    ELSE err.status

\* writeChatError on an error that is, or wraps, err.
ErrorStatus(err) ==
    IF err.cause = "deadline" THEN 504
    ELSE IF err.cause = "canceled" THEN 408
    ELSE IF err.status # 0 THEN err.status
    ELSE 502

\* What Chat returned decides on the answer: a missing route is an unknown model.
ChatStatus(r) ==
    CASE pc[r] = "served"       -> 200
      [] pc[r] = "noRoute"      -> 400
      [] pc[r] = "contextError" -> ErrorStatus(ContextError(ctx[r]))
      [] pc[r] = "routeError"   -> ErrorStatus(LastError(r))

\* writeJSON: the answer goes out if there is a client and the time to do so.
Write(r, code) ==
    /\ code \in ThreeDigits
    /\ handler' = [handler EXCEPT ![r] = "replied"]
    /\ status' = [status EXCEPT ![r] = code]
    /\ arrived' = IF connected[r] /\ ~late[r] THEN arrived \cup {r} ELSE arrived

\* The panic of WriteHeader, which net/http recovers from.
Panic(r, code) ==
    /\ code \notin ThreeDigits
    /\ handler' = [handler EXCEPT ![r] = "aborted"]
    /\ UNCHANGED <<status, arrived>>

Reply(r, code) ==
    /\ Write(r, code) \/ Panic(r, code)
    /\ UNCHANGED <<connected, late>>

Running == phase \in {"serving", "draining"}

StartHandler(r) ==
    /\ Running
    /\ handler[r] = "none"
    /\ handler' = [handler EXCEPT ![r] = "reading"]
    /\ UNCHANGED <<vars, process, connected, late, status, arrived, bill>>

\* A body that is not JSON, breaks off, names no model or holds no messages.
InvalidBody(r) ==
    /\ Running
    /\ handler[r] = "reading"
    /\ Reply(r, 400)
    /\ UNCHANGED <<vars, process, bill>>

ValidBody(r) ==
    /\ Running
    /\ handler[r] = "reading"
    /\ handler' = [handler EXCEPT ![r] = "chatting"]
    /\ UNCHANGED <<vars, process, connected, late, status, arrived, bill>>

ReadDeadlinePasses(r) ==
    /\ Running
    /\ handler[r] = "reading"
    /\ ReadTimeout(env) > 0
    /\ Reply(r, 400)
    /\ UNCHANGED <<vars, process, bill>>

Chatting(r) ==
    /\ Running
    /\ handler[r] = "chatting"
    /\ Step(r)
    /\ UNCHANGED <<process, http>>

\* The model by whose name the adapter's response goes: Bedrock's the one that
\* was asked for, the others' what the backend says.
Echoed(target) ==
    {target.model} \cup (IF target.provider = "bedrock" THEN {} ELSE EchoedModels)

Responses(target) ==
    [provider : {target.provider}, model : Echoed(target), usage : Usages]

\* Mutant: the response goes by the first target of the chain.
ServedByPrimary(r) == Responses(chain[r][1])

\* The responses that Chat may return.
Served(r) == Responses(Target(r))

BillFor(response) ==
    [provider |-> response.provider, model |-> response.model, usage |-> response.usage,
     cost |-> Cost(prices, response.provider, response.model, response.usage)]

Answer(r) ==
    /\ Running
    /\ handler[r] = "chatting"
    /\ pc[r] \in Returned
    /\ IF pc[r] = "served"
       THEN \E response \in Served(r) : bill' = [bill EXCEPT ![r] = BillFor(response)]
       ELSE UNCHANGED bill
    /\ Reply(r, ChatStatus(r))
    /\ UNCHANGED <<vars, process>>
-----------------------------------------------------------------------------
(* net/http and the clients.                                               *)

ClientLeaves(r) ==
    /\ InHand(r)
    /\ connected[r]
    /\ connected' = [connected EXCEPT ![r] = FALSE]
    /\ UNCHANGED <<vars, process, handler, late, status, arrived, bill>>

\* r.Context() ends.
RequestContextCancelled(r) ==
    /\ Running
    /\ handler[r] = "chatting"
    /\ ~connected[r]
    /\ EndContext(r, "canceled")
    /\ UNCHANGED <<process, http>>

WriteDeadlinePasses(r) ==
    /\ InHand(r)
    /\ ~late[r]
    /\ WriteTimeout(env) > 0
    /\ late' = [late EXCEPT ![r] = TRUE]
    /\ UNCHANGED <<vars, process, handler, connected, status, arrived, bill>>
-----------------------------------------------------------------------------
(* Server.Start and the end of the process.                                *)

ListenFails ==
    /\ phase = "serving"
    /\ Exit("error")
    /\ UNCHANGED <<vars, http>>

\* SIGINT or SIGTERM: Shutdown begins.
Signal ==
    /\ phase = "serving"
    /\ Enter("draining")
    /\ UNCHANGED <<vars, http>>

Drained ==
    /\ phase = "draining"
    /\ ~ \E r \in Requests : InHand(r)
    /\ Exit("ok")
    /\ UNCHANGED <<vars, http>>

\* shutdownCtx ends: Shutdown returns DeadlineExceeded, and main exits, whoever is
\* still in hand.
ShutdownTimesOut ==
    /\ phase = "draining"
    /\ Exit("error")
    /\ UNCHANGED <<vars, http>>

Finished(r) == handler[r] \in {"replied", "aborted"}

Idle ==
    /\ phase = "exited" \/ \A r \in Requests : Finished(r)
    /\ UNCHANGED gatewayVars
-----------------------------------------------------------------------------
Boot ==
    \/ Load
    \/ \E p \in Providers : RegisterProvider(p)
    \/ ProvidersRegistered
    \/ \E name \in Models : InstallRoute(name)
    \/ StartServing

Handle(r) == Chatting(r) \/ Answer(r) \/ ReadDeadlinePasses(r)

Client(r) ==
    \/ StartHandler(r)
    \/ InvalidBody(r)
    \/ ValidBody(r)
    \/ ClientLeaves(r)
    \/ RequestContextCancelled(r)
    \/ WriteDeadlinePasses(r)

Stop == Drained \/ ShutdownTimesOut

GatewayNext ==
    \/ Boot
    \/ \E r \in Requests : Handle(r) \/ Client(r)
    \/ ListenFails
    \/ Signal
    \/ SignalKills
    \/ Stop
    \/ Idle

\* The process starts up, its handlers run, deadlines pass and Shutdown returns.
\* No client has to send or to leave and nobody has to send a signal.
GatewaySpec ==
    /\ GatewayInit
    /\ [][GatewayNext]_gatewayVars
    /\ WF_gatewayVars(Boot)
    /\ \A r \in Requests : WF_gatewayVars(Handle(r))
    /\ WF_gatewayVars(Stop)
-----------------------------------------------------------------------------
(***************************************************************************)
(* What Build checks holds for as long as the process serves: no target of *)
(* a chain is ever found without its provider, and no chain is empty.      *)
(***************************************************************************)
NoTargetIsMissing ==
    \A r \in Requests :
        /\ \A i \in 1 .. Len(failures[r]) : failures[r][i].err.kind # "unregistered"
        /\ pc[r] = "noRoute" => ModelOf[r] \notin DOMAIN env.routes

(***************************************************************************)
(* The answer a client gets tells it what happened: 200 if and only if a   *)
(* provider served the request and the bill was logged; 408 while the      *)
(* client is there only if the last provider said 408; 504 after failures  *)
(* of providers if and only if the request ran into a timeout or the last  *)
(* provider said 504.                                                      *)
(***************************************************************************)
AnswersTellTheTruth ==
    \A r \in Requests :
        handler[r] = "replied" =>
            /\ Billed(r) <=> pc[r] = "served"
            /\ Billed(r) <=> status[r] = 200
            /\ r \in arrived /\ status[r] = 408 =>
                 pc[r] = "routeError" /\ LastError(r).status = 408
            /\ pc[r] = "routeError" =>
                 (status[r] = 504 <=>
                     LastError(r).cause = "deadline" \/ LastError(r).status = 504)

(***************************************************************************)
(* The bill is made out to the target that was called last for the         *)
(* request, after whatever failovers and retries, and to the model that    *)
(* its backend says it used.  Its cost, in all of its fields, is what the  *)
(* operator set for them, or else the built-in list: "a price for a given  *)
(* provider+model in override replaces the base entry entirely" and leaves *)
(* all others alone; without a price "every USD field is zero rather than  *)
(* a silent underestimate"; and no field is ever negative.                 *)
(***************************************************************************)
CalledFor(r) ==
    {i \in 1 .. Len(chain[r]) :
        \E l \in DOMAIN calls : \E call \in calls[l] : call[1] = <<r, i>>}

Listed(table, b) == b.provider \in DOMAIN table /\ b.model \in DOMAIN table[b.provider]

Charged(price, usage) ==
    LET in  == usage.input * price.input
        out == usage.output * price.output
    IN  [known |-> TRUE, input |-> in, output |-> out, total |-> in + out]

Due(b) ==
    IF Listed(env.pricing, b) THEN Charged(env.pricing[b.provider][b.model], b.usage)
    ELSE IF Listed(DefaultTable, b) THEN Charged(DefaultTable[b.provider][b.model], b.usage)
    ELSE [known |-> FALSE, input |-> 0, output |-> 0, total |-> 0]

RightBill(r) ==
    /\ \E i \in CalledFor(r) :
         /\ \A j \in CalledFor(r) : j <= i
         /\ bill[r].provider = chain[r][i].provider
         /\ bill[r].model \in Echoed(chain[r][i])
    /\ bill[r].cost = Due(bill[r])
    /\ bill[r].cost.input >= 0 /\ bill[r].cost.output >= 0 /\ bill[r].cost.total >= 0

BillsAreRight == \A r \in Requests : Billed(r) => RightBill(r)

(***************************************************************************)
(* Every request whose body has arrived, and with a ReadTimeout also one   *)
(* whose body never comes, is answered or, in the one case of a backend's  *)
(* strange status, aborted; only a process that fails leaves it behind.    *)
(* "Graceful shutdown": one that exits with success does not.              *)
(***************************************************************************)
HandlersFinish ==
    \A r \in Requests :
        handler[r] = "chatting" \/ (handler[r] = "reading" /\ ReadTimeout(env) > 0)
            ~> Finished(r) \/ exit = "error"
=============================================================================
