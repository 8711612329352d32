---------------------------- MODULE GatewayProofs ----------------------------
(***************************************************************************)
(* The process around the router, in every environment and with any number *)
(* of requests: what is proved of the router holds in it; it never serves  *)
(* a route that lacks a provider; its answers and bills agree with what    *)
(* the router did; and a handler panics only over a status that a backend  *)
(* made up.                                                                *)
(***************************************************************************)
EXTENDS Gateway, FailoverProofs

\* The actions of the process that touch neither the router nor a request.
ProcessAlone ==
    \/ Load \/ ProvidersRegistered \/ StartServing
    \/ SignalKills \/ ListenFails \/ Signal \/ Stop

\* The actions that touch only one request's side of the connection.
ConnectionAlone(r) ==
    \/ StartHandler(r) \/ InvalidBody(r) \/ ValidBody(r) \/ ReadDeadlinePasses(r)
    \/ Answer(r) \/ ClientLeaves(r) \/ WriteDeadlinePasses(r)

\* Every step of the gateway is one of these.
LEMMA GatewaySteps ==
    ASSUME [GatewayNext]_gatewayVars
    PROVE  \/ ProcessAlone
           \/ \E p \in Providers : RegisterProvider(p)
           \/ \E name \in Models : InstallRoute(name)
           \/ \E r \in Requests :
                ConnectionAlone(r) \/ Chatting(r) \/ RequestContextCancelled(r)
           \/ UNCHANGED gatewayVars
BY DEF GatewayNext, Boot, Handle, Client, Stop, Idle, ProcessAlone, ConnectionAlone

LEMMA ProcessAloneFrame ==
    ProcessAlone => UNCHANGED <<vars, http, env>>
BY DEF ProcessAlone, Load, ProvidersRegistered, StartServing, SignalKills, ListenFails,
       Signal, Stop, Drained, ShutdownTimesOut, Exit, Enter

LEMMA ConnectionAloneFrame ==
    ASSUME NEW r \in Requests, ConnectionAlone(r)
    PROVE  UNCHANGED <<vars, process>>
BY DEF ConnectionAlone, StartHandler, InvalidBody, ValidBody, ReadDeadlinePasses, Answer,
       ClientLeaves, WriteDeadlinePasses

\* A step of a request leaves the configuration alone.
LEMMA StepKeepsConfig ==
    ASSUME NEW r \in Requests, Step(r)
    PROVE  UNCHANGED config
BY DEF Step, Resolve, CheckContext, ChainExhausted, LookupRegistered, LookupUnregistered,
       Admitted, RateLimited, StartCall, GiveUpBeforeCall, ReturnOK, ReturnError,
       BackoffElapses, BackoffCancelled

\* The environment stays what it was, and only backends are registered.
EnvironmentInv == env \in Environments /\ registered \subseteq Providers

LEMMA EnvironmentStep ==
    ASSUME EnvironmentInv, [GatewayNext]_gatewayVars
    PROVE  EnvironmentInv' /\ [Next]_vars /\ UNCHANGED env
<1> USE DEF EnvironmentInv
<1>1. CASE ProcessAlone
  BY <1>1, ProcessAloneFrame DEF vars
<1>2. ASSUME NEW p \in Providers, RegisterProvider(p)
      PROVE  EnvironmentInv' /\ [Next]_vars /\ UNCHANGED env
  BY <1>2 DEF RegisterProvider, Register, Next, Configure, process
<1>3. ASSUME NEW name \in Models, InstallRoute(name)
      PROVE  EnvironmentInv' /\ [Next]_vars /\ UNCHANGED env
  <2>1. CASE AllRegistered(registered, env.routes[name])
    <3>1. name \in DOMAIN env.routes
      BY <1>3 DEF InstallRoute, Unrouted
    <3>2. AllRegistered(Providers, env.routes[name])
      BY <2>1 DEF AllRegistered
    <3>3. env.routes[name] \in Chains
      BY <3>1, <3>2, GatewayAssumption DEF AllRegistered
    <3>4. AddRoute(name, env.routes[name]) /\ UNCHANGED process
      BY <1>3, <2>1 DEF InstallRoute
    <3>5. QED
      BY <3>3, <3>4 DEF AddRoute, Next, Configure, process
  <2>2. CASE ~AllRegistered(registered, env.routes[name])
    BY <1>3, <2>2 DEF InstallRoute, Exit, vars
  <2>3. QED
    BY <2>1, <2>2
<1>4. ASSUME NEW r \in Requests,
             ConnectionAlone(r) \/ Chatting(r) \/ RequestContextCancelled(r)
      PROVE  EnvironmentInv' /\ [Next]_vars /\ UNCHANGED env
  <2>1. CASE ConnectionAlone(r)
    BY <2>1, ConnectionAloneFrame DEF vars, process
  <2>2. CASE Chatting(r)
    BY <2>2, StepKeepsConfig DEF Chatting, Next, Serve, process, config
  <2>3. CASE RequestContextCancelled(r)
    <3>1. EndContext(r, "canceled") /\ UNCHANGED process
      BY <2>3 DEF RequestContextCancelled
    <3>2. QED
      BY <3>1, GatewayAssumption DEF EndContext, Next, Serve, process, config
  <2>4. QED
    BY <1>4, <2>1, <2>2, <2>3
<1>5. CASE UNCHANGED gatewayVars
  BY <1>5 DEF gatewayVars, vars, process
<1>6. QED
  BY <1>1, <1>2, <1>3, <1>4, <1>5, GatewaySteps

\* Every step of the gateway is a step of the router or leaves it alone.
LEMMA GatewayUsesRouter == GatewaySpec => Spec
<1>1. GatewayInit => Init /\ EnvironmentInv
  BY DEF GatewayInit, Init, EnvironmentInv
<1>2. QED
  BY <1>1, EnvironmentStep, PTL DEF GatewaySpec, Spec

\* What is proved of the router holds in the gateway.
THEOREM GatewayRouterInvariants ==
    GatewaySpec => [](EnvironmentInv /\ TypeInv /\ RouteInv)
<1>1. GatewayInit => EnvironmentInv
  BY DEF GatewayInit, Init, EnvironmentInv
<1>2. QED
  BY <1>1, GatewayUsesRouter, EnvironmentStep, TypeInvariant, RouteInvariant, PTL
     DEF GatewaySpec
-----------------------------------------------------------------------------
\* What Load and Build have checked by the time at which it is relied upon.
BootInv ==
    /\ phase \notin {"load", "exited"} => Loads(env)
    /\ Running => Unrouted = {} /\ prices = PriceTable(env)
    /\ fallback = <<>>
    /\ \A m \in Models :
         routes[m] # NoRoute =>
             /\ m \in DOMAIN env.routes
             /\ routes[m] = env.routes[m]
             /\ routes[m] # <<>>
             /\ AllRegistered(registered, routes[m])

\* What a request relies on: the providers of its chain are there.
Equipped(r) ==
    /\ AllRegistered(registered, chain[r])
    /\ pc[r] = "noRoute" => ModelOf[r] \notin DOMAIN env.routes
    /\ \A i \in 1 .. Len(failures[r]) : failures[r][i].err.kind # "unregistered"

EquippedInv == \A r \in Requests : Equipped(r)

\* What was written for a request that Chat has returned for.
StatusIsDue(r) ==
    /\ pc[r] = "served" => status[r] = 200
    /\ pc[r] = "noRoute" => status[r] = 400
    /\ pc[r] = "contextError" => status[r] = ErrorStatus(ContextError(ctx[r]))
    /\ pc[r] = "routeError" => status[r] = ErrorStatus(LastError(r))

\* What a handler knows of its request and of its client.
Handled(r) ==
    /\ handler[r] \in {"none", "reading", "chatting", "replied", "aborted"}
    /\ handler[r] \in {"none", "reading"} => pc[r] = "start"
    /\ Ended(r) => ctx[r] = "canceled" /\ ~connected[r]
    /\ r \in arrived => handler[r] = "replied" /\ connected[r]
    /\ handler[r] # "replied" => status[r] = 0 /\ bill[r] = NoBill
    /\ handler[r] = "replied" =>
         \/ pc[r] = "start" /\ status[r] = 400 /\ bill[r] = NoBill
         \/ /\ pc[r] \in Returned
            /\ StatusIsDue(r)
            /\ Billed(r) <=> pc[r] = "served"
    /\ handler[r] = "aborted" =>
         pc[r] = "routeError" /\ LastError(r).status \notin {0} \cup ThreeDigits

PerRequest ==
    /\ DOMAIN handler = Requests
    /\ DOMAIN connected = Requests
    /\ DOMAIN late = Requests
    /\ DOMAIN status = Requests
    /\ DOMAIN bill = Requests

HandledInv == PerRequest /\ \A r \in Requests : Handled(r)
-----------------------------------------------------------------------------
\* A route once installed stays as it is, and so do its providers.
LEMMA BootStep ==
    ASSUME EnvironmentInv, TypeInv, BootInv, [GatewayNext]_gatewayVars
    PROVE  BootInv'
<1>0. env' = env
  BY EnvironmentStep
<1>1. ASSUME UNCHANGED <<registered, routes, fallback, phase, prices>>
      PROVE  BootInv'
  BY <1>0, <1>1 DEF BootInv, Running, Unrouted
<1>2. CASE ProcessAlone
  <2>1. UNCHANGED <<registered, routes, fallback>>
    BY <1>2, ProcessAloneFrame DEF vars
  <2>2. phase' \notin {"load", "exited"} => Loads(env)
    BY <1>2
       DEF ProcessAlone, Load, ProvidersRegistered, StartServing, SignalKills,
           ListenFails, Signal, Stop, Drained, ShutdownTimesOut, Exit, Enter, BootInv
  <2>3. Running' => Unrouted = {} /\ prices' = PriceTable(env)
    BY <1>2
       DEF ProcessAlone, Load, ProvidersRegistered, StartServing, SignalKills,
           ListenFails, Signal, Stop, Drained, ShutdownTimesOut, Exit, Enter, BootInv,
           Running
  <2>4. QED
    BY <1>0, <2>1, <2>2, <2>3 DEF BootInv, Unrouted
<1>3. ASSUME NEW p \in Providers, RegisterProvider(p)
      PROVE  BootInv'
  <2>1. /\ registered' = registered \cup {p}
        /\ UNCHANGED <<routes, fallback, phase, prices>>
    BY <1>3 DEF RegisterProvider, Register, process
  <2>2. QED
    BY <1>0, <2>1 DEF BootInv, Running, Unrouted, AllRegistered
<1>4. ASSUME NEW name \in Models, InstallRoute(name)
      PROVE  BootInv'
  <2>1. /\ phase = "route"
        /\ name \in DOMAIN env.routes
        /\ routes \in [Models -> Chains \cup {NoRoute}]
    BY <1>4 DEF InstallRoute, Unrouted, TypeInv, TypeOK
  <2>2. CASE AllRegistered(registered, env.routes[name])
    <3>1. /\ routes' = [routes EXCEPT ![name] = env.routes[name]]
          /\ UNCHANGED <<registered, fallback, phase, prices>>
      BY <1>4, <2>2 DEF InstallRoute, AddRoute, process
    <3>2. env.routes[name] # <<>>
      BY <2>1 DEF BootInv, Loads, Valid
    <3>3. QED
      BY <1>0, <2>1, <2>2, <3>1, <3>2 DEF BootInv, Running
  <2>3. CASE ~AllRegistered(registered, env.routes[name])
    <3>1. phase' = "exited" /\ UNCHANGED <<registered, routes, fallback, prices>>
      BY <1>4, <2>3 DEF InstallRoute, Exit, vars
    <3>2. QED
      BY <1>0, <3>1 DEF BootInv, Running
  <2>4. QED
    BY <2>2, <2>3
<1>5. ASSUME NEW r \in Requests,
             ConnectionAlone(r) \/ Chatting(r) \/ RequestContextCancelled(r)
      PROVE  BootInv'
  <2>1. CASE ConnectionAlone(r)
    BY <1>1, <2>1, ConnectionAloneFrame DEF vars, process
  <2>2. CASE Chatting(r)
    BY <1>1, <2>2, StepKeepsConfig DEF Chatting, config, process
  <2>3. CASE RequestContextCancelled(r)
    BY <1>1, <2>3 DEF RequestContextCancelled, EndContext, config, process
  <2>4. QED
    BY <1>5, <2>1, <2>2, <2>3
<1>6. CASE UNCHANGED gatewayVars
  BY <1>1, <1>6 DEF gatewayVars, vars, process
<1>7. QED
  BY <1>2, <1>3, <1>4, <1>5, <1>6, GatewaySteps

THEOREM BootInvariant == GatewaySpec => []BootInv
<1>1. GatewayInit => BootInv
  BY RouterAssumption DEF GatewayInit, Init, BootInv, Running
<1>2. QED
  BY <1>1, BootStep, GatewayRouterInvariants, PTL DEF GatewaySpec
-----------------------------------------------------------------------------
\* A step of a request concerns no other request.
LEMMA StepApart ==
    ASSUME TypeInv, NEW r \in Requests, Step(r)
    PROVE  /\ UNCHANGED <<ctx, config>>
           /\ \A q \in Requests \ {r} :
                /\ pc'[q] = pc[q] /\ chain'[q] = chain[q]
                /\ failures'[q] = failures[q] /\ pos'[q] = pos[q]
<1>0. /\ pc \in [Requests -> Working \cup Returned]
      /\ chain \in [Requests -> Chains]
      /\ pos \in [Requests -> Nat]
      /\ failures \in [Requests -> Seq(Failures)]
  BY DEF TypeInv, TypeOK
<1>1. ASSUME NEW err, NextTarget(r, err) \/ Finish(r, err)
      PROVE  \A q \in Requests \ {r} :
               pc'[q] = pc[q] /\ failures'[q] = failures[q] /\ pos'[q] = pos[q]
  BY <1>0, <1>1 DEF NextTarget, Finish, Recorded
<1>2. UNCHANGED <<ctx, config>>
  BY StepKeepsConfig
     DEF Step, Resolve, CheckContext, ChainExhausted, LookupRegistered,
         LookupUnregistered, Admitted, RateLimited, StartCall, GiveUpBeforeCall,
         ReturnOK, ReturnError, BackoffElapses, BackoffCancelled
<1>3. CASE \/ Resolve(r) \/ CheckContext(r) \/ ChainExhausted(r) \/ LookupRegistered(r)
           \/ Admitted(r) \/ StartCall(r) \/ ReturnOK(r) \/ BackoffElapses(r)
  BY <1>0, <1>2, <1>3
     DEF Resolve, CheckContext, ChainExhausted, LookupRegistered, Admitted, StartCall,
         ReturnOK, BackoffElapses
<1>4. CASE LookupUnregistered(r) \/ RateLimited(r)
  BY <1>1, <1>2, <1>4 DEF LookupUnregistered, RateLimited
<1>5. CASE GiveUpBeforeCall(r) \/ BackoffCancelled(r)
  BY <1>1, <1>2, <1>5 DEF GiveUpBeforeCall, BackoffCancelled
<1>6. CASE ReturnError(r)
  <2>1. PICK err \in CallErrors(r) :
          IF TriesAgain(r, err)
          THEN /\ pc' = [pc EXCEPT ![r] = "backoff"]
               /\ UNCHANGED <<pos, failures>>
          ELSE Finish(r, err)
    BY <1>6 DEF ReturnError
  <2>2. UNCHANGED chain
    BY <1>6 DEF ReturnError
  <2>3. CASE TriesAgain(r, err)
    BY <1>0, <1>2, <2>1, <2>2, <2>3
  <2>4. CASE ~TriesAgain(r, err)
    BY <1>1, <1>2, <2>1, <2>2, <2>4
  <2>5. QED
    BY <2>3, <2>4
<1>7. QED
  BY <1>3, <1>4, <1>5, <1>6 DEF Step

\* What a step may record for its request: nothing, that the provider is not
\* registered, or an error of another kind.
LEMMA StepRecords ==
    ASSUME TypeInv, NEW r \in Requests, Step(r)
    PROVE  \/ Resolve(r) \/ LookupUnregistered(r)
           \/ /\ UNCHANGED chain
              /\ pc'[r] # "noRoute"
              /\ \/ UNCHANGED failures
                 \/ \E err \in Errors : /\ err.kind # "unregistered"
                                        /\ pc[r] \in AtTarget
                                        /\ failures' = Recorded(r, err)
<1>0. TypeOK /\ pc \in [Requests -> Working \cup Returned]
  BY DEF TypeInv, TypeOK
<1>1. ASSUME NEW err, NextTarget(r, err) \/ Finish(r, err)
      PROVE  failures' = Recorded(r, err) /\ pc'[r] # "noRoute"
  BY <1>0, <1>1 DEF NextTarget, Finish
<1>2. CASE \/ CheckContext(r) \/ ChainExhausted(r) \/ LookupRegistered(r)
           \/ Admitted(r) \/ StartCall(r) \/ ReturnOK(r) \/ BackoffElapses(r)
  BY <1>0, <1>2
     DEF CheckContext, ChainExhausted, LookupRegistered, Admitted, StartCall,
         ReturnOK, BackoffElapses
<1>3. CASE RateLimited(r)
  <2>1. RateLimitedError \in Errors /\ RateLimitedError.kind # "unregistered"
    BY <1>0, ErrorTypes DEF RateLimitedError
  <2>2. QED
    BY <1>1, <1>3, <2>1 DEF RateLimited, AtTarget
<1>4. CASE GiveUpBeforeCall(r) \/ BackoffCancelled(r)
  <2>1. /\ pc[r] \in AtTarget
        /\ Ended(r)
        /\ Finish(r, ContextError(ctx[r]))
        /\ UNCHANGED chain
    BY <1>4 DEF GiveUpBeforeCall, BackoffCancelled, AtTarget
  <2>2. QED
    BY <1>0, <1>1, <2>1, CallErrorKinds
<1>5. CASE ReturnError(r)
  <2>1. PICK err \in CallErrors(r) :
          IF TriesAgain(r, err)
          THEN /\ pc' = [pc EXCEPT ![r] = "backoff"]
               /\ UNCHANGED <<pos, failures>>
          ELSE Finish(r, err)
    BY <1>5 DEF ReturnError
  <2>2. pc[r] \in AtTarget /\ UNCHANGED chain
    BY <1>5 DEF ReturnError, AtTarget
  <2>3. CASE TriesAgain(r, err)
    BY <1>0, <2>1, <2>2, <2>3
  <2>4. CASE ~TriesAgain(r, err)
    BY <1>0, <1>1, <2>1, <2>2, <2>4, CallErrorKinds
  <2>5. QED
    BY <2>3, <2>4
<1>6. QED
  BY <1>2, <1>3, <1>4, <1>5 DEF Step

\* A request that is equipped stays so: no provider is ever taken away.
LEMMA EquippedStays ==
    ASSUME NEW q \in Requests, Equipped(q), registered \subseteq registered',
           pc'[q] = pc[q], chain'[q] = chain[q], failures'[q] = failures[q],
           env' = env
    PROVE  Equipped(q)'
BY DEF Equipped, AllRegistered

LEMMA EquippedStep ==
    ASSUME EnvironmentInv, TypeInv, BootInv, EquippedInv, [GatewayNext]_gatewayVars
    PROVE  EquippedInv'
<1>0. env' = env
  BY EnvironmentStep
<1>1. ASSUME registered \subseteq registered', UNCHANGED <<pc, chain, failures>>
      PROVE  EquippedInv'
  BY <1>0, <1>1, EquippedStays DEF EquippedInv
<1>2. CASE ProcessAlone
  BY <1>1, <1>2, ProcessAloneFrame DEF vars
<1>3. ASSUME NEW p \in Providers, RegisterProvider(p)
      PROVE  EquippedInv'
  BY <1>1, <1>3 DEF RegisterProvider, Register, local
<1>4. ASSUME NEW name \in Models, InstallRoute(name)
      PROVE  EquippedInv'
  BY <1>1, <1>4 DEF InstallRoute, AddRoute, local, vars
<1>5. ASSUME NEW r \in Requests, Chatting(r)
      PROVE  EquippedInv'
  <2>0. Step(r) /\ Running
    BY <1>5 DEF Chatting
  <2>1. UNCHANGED registered
    BY <2>0, StepKeepsConfig DEF config
  <2>2. ASSUME NEW q \in Requests \ {r}
        PROVE  Equipped(q)'
    BY <1>0, <2>0, <2>1, StepApart, EquippedStays DEF EquippedInv
  <2>3. Equipped(r)
    BY DEF EquippedInv
  <2>4. ASSUME Resolve(r)
        PROVE  Equipped(r)'
    <3> DEFINE m == ModelOf[r]
    <3>1. m \in Models
      BY RouterAssumption
    <3>2. CASE routes[m] = NoRoute
      <4>1. chain'[r] = <<>> /\ UNCHANGED failures
        BY <2>4, <3>2 DEF Resolve, Resolved, BootInv, TypeInv, TypeOK
      <4>2. m \notin DOMAIN env.routes
        BY <2>0, <3>1, <3>2 DEF BootInv, Unrouted
      <4>3. QED
        BY <1>0, <2>3, <4>1, <4>2 DEF Equipped, AllRegistered
    <3>3. CASE routes[m] # NoRoute
      <4>1. routes[m] # <<>> /\ AllRegistered(registered, routes[m])
        BY <3>1, <3>3 DEF BootInv
      <4>2. /\ chain'[r] = routes[m] /\ UNCHANGED failures
            /\ pc'[r] = "target"
        BY <2>4, <3>3, <4>1 DEF Resolve, Resolved, TypeInv, TypeOK
      <4>3. QED
        BY <2>1, <2>3, <4>1, <4>2 DEF Equipped, AllRegistered
    <3>4. QED
      BY <3>2, <3>3
  <2>5. ~LookupUnregistered(r)
    <3> SUFFICES ASSUME pc[r] = "lookup"
                 PROVE  Target(r).provider \in registered
      BY DEF LookupUnregistered
    <3>1. pos[r] \in 1 .. Len(chain[r])
      <4>1. chain[r] \in Chains /\ pos[r] \in Nat /\ pos[r] >= 1
              /\ pos[r] <= Len(chain[r])
        BY DEF TypeInv, TypeOK, Positioned, AtTarget
      <4>2. QED
        BY <4>1, ChainFacts
    <3>2. QED
      BY <2>3, <3>1 DEF Equipped, AllRegistered, Target
  <2>6. ASSUME UNCHANGED chain, pc'[r] # "noRoute", UNCHANGED failures
        PROVE  Equipped(r)'
    BY <2>1, <2>3, <2>6 DEF Equipped, AllRegistered
  <2>7. ASSUME UNCHANGED chain, pc'[r] # "noRoute",
               NEW err \in Errors, err.kind # "unregistered",
               pc[r] \in AtTarget, failures' = Recorded(r, err)
        PROVE  Equipped(r)'
    <3>1. ASSUME NEW i \in 1 .. Len(failures'[r])
          PROVE  failures'[r][i].err.kind # "unregistered"
      <4>1. CASE i \in 1 .. Len(failures[r])
        BY <2>3, <2>7, <4>1, RecordedFacts DEF Equipped
      <4>2. CASE i = Len(failures[r]) + 1
        BY <2>7, <4>2, RecordedFacts
      <4>3. QED
        BY <2>7, <3>1, <4>1, <4>2, RecordedFacts
    <3>2. QED
      BY <2>1, <2>3, <2>7, <3>1 DEF Equipped, AllRegistered
  <2>8. Equipped(r)'
    BY <2>0, <2>4, <2>5, <2>6, <2>7, StepRecords
  <2>9. QED
    BY <2>2, <2>8 DEF EquippedInv
<1>6. ASSUME NEW r \in Requests, ConnectionAlone(r)
      PROVE  EquippedInv'
  BY <1>1, <1>6, ConnectionAloneFrame DEF vars
<1>7. ASSUME NEW r \in Requests, RequestContextCancelled(r)
      PROVE  EquippedInv'
  BY <1>1, <1>7 DEF RequestContextCancelled, EndContext, local, config
<1>8. CASE UNCHANGED gatewayVars
  BY <1>1, <1>8 DEF gatewayVars, vars
<1>9. QED
  BY <1>2, <1>3, <1>4, <1>5, <1>6, <1>7, <1>8, GatewaySteps

THEOREM EquippedInvariant == GatewaySpec => []EquippedInv
<1>1. GatewayInit => EquippedInv
  BY DEF GatewayInit, Init, RequestsInit, EquippedInv, Equipped, AllRegistered
<1>2. QED
  BY <1>1, EquippedStep, BootInvariant, GatewayRouterInvariants, PTL DEF GatewaySpec

(***************************************************************************)
(* No environment that Load and Build accept leads to a target without its *)
(* provider, or to a model of a route that is not found.                   *)
(***************************************************************************)
THEOREM TargetsArePresent == GatewaySpec => []NoTargetIsMissing
<1>1. EquippedInv => NoTargetIsMissing
  BY DEF EquippedInv, Equipped, NoTargetIsMissing
<1>2. QED
  BY <1>1, EquippedInvariant, PTL
-----------------------------------------------------------------------------
\* A bill that is written is one that can be read.
LEMMA BillsShow ==
    ASSUME NEW response
    PROVE  BillFor(response) # NoBill
<1> DEFINE b == BillFor(response)
<1>1. "usage" \in DOMAIN b
  BY DEF BillFor
<1>2. "usage" \notin DOMAIN NoBill
  BY DEF NoBill
<1>3. QED
  BY <1>1, <1>2

\* The status that answers what Chat returned.
LEMMA ChatStatusOf ==
    ASSUME NEW r
    PROVE  /\ pc[r] = "served" => ChatStatus(r) = 200
           /\ pc[r] = "noRoute" => ChatStatus(r) = 400
           /\ pc[r] = "contextError" => ChatStatus(r) = ErrorStatus(ContextError(ctx[r]))
           /\ pc[r] = "routeError" => ChatStatus(r) = ErrorStatus(LastError(r))
<1>1. ASSUME pc[r] = "served" PROVE ChatStatus(r) = 200
  BY <1>1 DEF ChatStatus
<1>2. ASSUME pc[r] = "noRoute" PROVE ChatStatus(r) = 400
  BY <1>2 DEF ChatStatus
<1>3. ASSUME pc[r] = "contextError"
      PROVE  ChatStatus(r) = ErrorStatus(ContextError(ctx[r]))
  BY <1>3 DEF ChatStatus
<1>4. ASSUME pc[r] = "routeError" PROVE ChatStatus(r) = ErrorStatus(LastError(r))
  BY <1>4 DEF ChatStatus
<1>5. QED
  BY <1>1, <1>2, <1>3, <1>4

\* What Chat returns makes WriteHeader panic only if the last failure is a status
\* that has not three digits.
LEMMA ChatStatusType ==
    ASSUME NEW r, pc[r] \in Returned, ChatStatus(r) \notin ThreeDigits
    PROVE  pc[r] = "routeError" /\ LastError(r).status \notin {0} \cup ThreeDigits
<1>1. ASSUME NEW err, ErrorStatus(err) \notin ThreeDigits
      PROVE  err.status \notin {0} \cup ThreeDigits
  BY <1>1 DEF ErrorStatus, ThreeDigits
<1>2. CASE pc[r] = "contextError"
  <2>1. ContextError(ctx[r]).status = 0
    BY DEF ContextError
  <2>2. QED
    BY <1>1, <1>2, <2>1, ChatStatusOf
<1>3. CASE pc[r] = "routeError"
  BY <1>1, <1>3, ChatStatusOf
<1>4. CASE pc[r] \in {"served", "noRoute"}
  BY <1>4, ChatStatusOf DEF ThreeDigits
<1>5. QED
  BY <1>2, <1>3, <1>4 DEF Returned

\* A request that nothing happens to stays as it was handled.
LEMMA HandledStays ==
    ASSUME NEW q \in Requests, Handled(q),
           pc'[q] = pc[q], ctx'[q] = ctx[q], failures'[q] = failures[q],
           handler'[q] = handler[q], connected'[q] = connected[q],
           status'[q] = status[q], bill'[q] = bill[q],
           q \in arrived' <=> q \in arrived
    PROVE  Handled(q)'
BY DEF Handled, StatusIsDue, ErrorStatus, ContextError, LastError, Ended, Billed

LEMMA ReplyFacts ==
    ASSUME PerRequest, NEW r \in Requests, NEW code, Reply(r, code)
    PROVE  /\ code \in ThreeDigits =>
                /\ handler'[r] = "replied" /\ status'[r] = code
                /\ r \in arrived' => r \in arrived \/ connected[r]
           /\ code \notin ThreeDigits =>
                /\ handler'[r] = "aborted" /\ status'[r] = status[r]
                /\ r \in arrived' <=> r \in arrived
           /\ \A q \in Requests \ {r} :
                /\ handler'[q] = handler[q] /\ status'[q] = status[q]
                /\ q \in arrived' <=> q \in arrived
           /\ UNCHANGED <<connected, late>>
           /\ DOMAIN handler' = Requests /\ DOMAIN status' = Requests
<1>1. CASE Write(r, code)
  BY <1>1 DEF Reply, Write, PerRequest
<1>2. CASE Panic(r, code)
  BY <1>2 DEF Reply, Panic, PerRequest
<1>3. QED
  BY <1>1, <1>2 DEF Reply

LEMMA ConnectionHandled ==
    ASSUME TypeInv, HandledInv, NEW r \in Requests, ConnectionAlone(r)
    PROVE  HandledInv'
<1>0. /\ UNCHANGED <<pc, ctx, failures>>
      /\ PerRequest
      /\ \A q \in Requests : Handled(q)
  BY ConnectionAloneFrame DEF vars, HandledInv
<1>1. ASSUME PerRequest', Handled(r)',
             \A q \in Requests \ {r} :
               /\ handler'[q] = handler[q] /\ connected'[q] = connected[q]
               /\ status'[q] = status[q] /\ bill'[q] = bill[q]
               /\ q \in arrived' <=> q \in arrived
      PROVE  HandledInv'
  <2>1. \A q \in Requests \ {r} : Handled(q)'
    BY <1>0, <1>1, HandledStays
  <2>2. QED
    BY <1>1, <2>1 DEF HandledInv
<1>2. CASE InvalidBody(r) \/ ReadDeadlinePasses(r)
  <2>1. handler[r] = "reading" /\ Reply(r, 400) /\ UNCHANGED bill
    BY <1>2 DEF InvalidBody, ReadDeadlinePasses
  <2>2. 400 \in ThreeDigits
    BY DEF ThreeDigits
  <2>3. /\ handler'[r] = "replied" /\ status'[r] = 400
        /\ r \in arrived' => r \in arrived \/ connected[r]
        /\ connected' = connected
    BY <1>0, <2>1, <2>2, ReplyFacts
  <2>4. Handled(r)'
    BY <1>0, <2>1, <2>3 DEF Handled, Ended
  <2>5. QED
    BY <1>0, <1>1, <2>1, <2>4, ReplyFacts DEF PerRequest
<1>3. CASE Answer(r)
  <2>1. /\ handler[r] = "chatting"
        /\ pc[r] \in Returned
        /\ Reply(r, ChatStatus(r))
    BY <1>3 DEF Answer
  <2>2. /\ DOMAIN bill' = Requests
        /\ \A q \in Requests \ {r} : bill'[q] = bill[q]
        /\ bill'[r] # NoBill <=> pc[r] = "served"
    <3>1. CASE pc[r] = "served"
      <4>1. PICK response \in Served(r) : bill' = [bill EXCEPT ![r] = BillFor(response)]
        BY <1>3, <3>1 DEF Answer
      <4>2. QED
        BY <1>0, <3>1, <4>1, BillsShow DEF PerRequest
    <3>2. CASE pc[r] # "served"
      <4>1. UNCHANGED bill
        BY <1>3, <3>2 DEF Answer
      <4>2. bill[r] = NoBill
        BY <1>0, <2>1 DEF Handled
      <4>3. QED
        BY <1>0, <3>2, <4>1, <4>2 DEF PerRequest
    <3>3. QED
      BY <3>1, <3>2
  <2>3. Handled(r)'
    <3>1. CASE ChatStatus(r) \in ThreeDigits
      <4>1. StatusIsDue(r)'
        BY <1>0, <2>1, <3>1, ReplyFacts, ChatStatusOf
           DEF StatusIsDue, ErrorStatus, ContextError, LastError
      <4>2. QED
        BY <1>0, <2>1, <2>2, <3>1, <4>1, ReplyFacts DEF Handled, Ended, Billed
    <3>2. CASE ChatStatus(r) \notin ThreeDigits
      <4>1. pc[r] = "routeError" /\ LastError(r).status \notin {0} \cup ThreeDigits
        BY <2>1, <3>2, ChatStatusType
      <4>2. LastError(r)' = LastError(r)
        BY <1>0 DEF LastError
      <4>3. /\ handler'[r] = "aborted" /\ status'[r] = status[r]
            /\ r \in arrived' <=> r \in arrived
            /\ connected' = connected
        BY <1>0, <2>1, <3>2, ReplyFacts
      <4>4. bill'[r] = NoBill
        BY <2>2, <4>1
      <4>5. QED
        BY <1>0, <2>1, <4>1, <4>2, <4>3, <4>4 DEF Handled, Ended
    <3>3. QED
      BY <3>1, <3>2
  <2>4. QED
    BY <1>0, <1>1, <2>1, <2>2, <2>3, ReplyFacts DEF PerRequest
<1>4. CASE StartHandler(r) \/ ValidBody(r)
  <2>1. Handled(r)'
    BY <1>0, <1>4 DEF StartHandler, ValidBody, Handled, Ended, PerRequest
  <2>2. QED
    BY <1>0, <1>1, <1>4, <2>1 DEF StartHandler, ValidBody, PerRequest
<1>5. CASE ClientLeaves(r)
  <2>1. Handled(r)'
    BY <1>0, <1>5 DEF ClientLeaves, InHand, Handled, Ended, PerRequest
  <2>2. QED
    BY <1>0, <1>1, <1>5, <2>1 DEF ClientLeaves, PerRequest
<1>6. CASE WriteDeadlinePasses(r)
  <2>1. Handled(r)'
    BY <1>0, <1>6, HandledStays DEF WriteDeadlinePasses
  <2>2. QED
    BY <1>0, <1>1, <1>6, <2>1 DEF WriteDeadlinePasses, PerRequest
<1>7. QED
  BY <1>2, <1>3, <1>4, <1>5, <1>6 DEF ConnectionAlone

LEMMA HandledStep ==
    ASSUME TypeInv, HandledInv, [GatewayNext]_gatewayVars
    PROVE  HandledInv'
<1>0. PerRequest /\ \A q \in Requests : Handled(q)
  BY DEF HandledInv
<1>1. ASSUME UNCHANGED <<pc, ctx, failures, http>>
      PROVE  HandledInv'
  BY <1>0, <1>1, HandledStays DEF HandledInv, PerRequest, http
<1>2. CASE ProcessAlone
  BY <1>1, <1>2, ProcessAloneFrame DEF vars
<1>3. ASSUME NEW p \in Providers, RegisterProvider(p)
      PROVE  HandledInv'
  BY <1>1, <1>3 DEF RegisterProvider, Register, local
<1>4. ASSUME NEW name \in Models, InstallRoute(name)
      PROVE  HandledInv'
  BY <1>1, <1>4 DEF InstallRoute, AddRoute, local, vars
<1>5. ASSUME NEW r \in Requests, Chatting(r)
      PROVE  HandledInv'
  <2>1. handler[r] = "chatting" /\ Step(r) /\ UNCHANGED http
    BY <1>5 DEF Chatting
  <2>2. Handled(r)'
    BY <1>0, <2>1, StepApart DEF Handled, Ended, http
  <2>3. \A q \in Requests \ {r} : Handled(q)'
    BY <1>0, <2>1, StepApart, HandledStays DEF http
  <2>4. QED
    BY <1>0, <2>1, <2>2, <2>3 DEF HandledInv, PerRequest, http
<1>6. ASSUME NEW r \in Requests, ConnectionAlone(r)
      PROVE  HandledInv'
  BY <1>6, ConnectionHandled
<1>7. ASSUME NEW r \in Requests, RequestContextCancelled(r)
      PROVE  HandledInv'
  <2>1. /\ handler[r] = "chatting" /\ ~connected[r]
        /\ ctx' = [ctx EXCEPT ![r] = "canceled"]
        /\ UNCHANGED <<pc, failures, http>>
    BY <1>7 DEF RequestContextCancelled, EndContext, local
  <2>2. ctx \in [Requests -> {"live"} \cup ContextCauses]
    BY DEF TypeInv, TypeOK
  <2>3. Handled(r)'
    BY <1>0, <2>1, <2>2 DEF Handled, Ended, http
  <2>4. \A q \in Requests \ {r} : Handled(q)'
    BY <1>0, <2>1, <2>2, HandledStays DEF http
  <2>5. QED
    BY <1>0, <2>1, <2>3, <2>4 DEF HandledInv, PerRequest, http
<1>8. CASE UNCHANGED gatewayVars
  BY <1>1, <1>8 DEF gatewayVars, vars
<1>9. QED
  BY <1>2, <1>3, <1>4, <1>5, <1>6, <1>7, <1>8, GatewaySteps

THEOREM HandledInvariant == GatewaySpec => []HandledInv
<1>1. GatewayInit => HandledInv
  BY DEF GatewayInit, Init, RequestsInit, HandledInv, PerRequest, Handled, Ended
<1>2. QED
  BY <1>1, HandledStep, GatewayRouterInvariants, PTL DEF GatewaySpec

\* The last failure of a request that was given up is one that is known.
LEMMA LastErrorKnown ==
    ASSUME TypeInv, RouteInv, NEW r \in Requests, pc[r] = "routeError"
    PROVE  Known(r, LastError(r))
<1>1. AnswerOf(r)
  BY DEF RouteInv, Answerable
<1>2. failures[r] \in Seq(Failures) /\ failures[r] # <<>>
  BY <1>1 DEF AnswerOf, TypeInv, TypeOK
<1>3. Len(failures[r]) \in 1 .. Len(failures[r])
  BY <1>2
<1>4. QED
  BY <1>1, <1>3 DEF AnswerOf, LastError

(***************************************************************************)
(* The answers and the bills agree with what became of the requests.       *)
(***************************************************************************)
THEOREM AnswersAreTrue == GatewaySpec => []AnswersTellTheTruth
<1>1. TypeInv /\ RouteInv /\ HandledInv => AnswersTellTheTruth
  <2> SUFFICES ASSUME TypeInv, RouteInv, HandledInv,
                      NEW r \in Requests, handler[r] = "replied"
               PROVE  /\ Billed(r) <=> pc[r] = "served"
                      /\ Billed(r) <=> status[r] = 200
                      /\ r \in arrived /\ status[r] = 408 =>
                           pc[r] = "routeError" /\ LastError(r).status = 408
                      /\ pc[r] = "routeError" =>
                           (status[r] = 504 <=>
                               LastError(r).cause = "deadline" \/ LastError(r).status = 504)
    BY DEF AnswersTellTheTruth
  <2>1. Handled(r)
    BY DEF HandledInv
  <2>2. CASE pc[r] = "start"
    BY <2>1, <2>2 DEF Handled, Returned, Billed
  <2>3. CASE pc[r] # "start"
    <3>1. /\ pc[r] \in Returned
          /\ StatusIsDue(r)
          /\ Billed(r) <=> pc[r] = "served"
      BY <2>1, <2>3 DEF Handled
    <3>2. r \in arrived => ctx[r] = "live"
      BY <2>1 DEF Handled, Ended
    <3>3. CASE pc[r] \in {"served", "noRoute"}
      BY <3>1, <3>3 DEF StatusIsDue
    <3>4. CASE pc[r] = "contextError"
      <4>1. status[r] = ErrorStatus(ContextError(ctx[r]))
        BY <3>1, <3>4 DEF StatusIsDue
      <4>2. QED
        BY <3>1, <3>2, <3>4, <4>1 DEF ErrorStatus, ContextError
    <3>5. CASE pc[r] = "routeError"
      <4>1. status[r] = ErrorStatus(LastError(r))
        BY <3>1, <3>5 DEF StatusIsDue
      <4>2. Known(r, LastError(r))
        BY <3>5, LastErrorKnown
      <4>3. 200 \notin Statuses
        BY GatewayAssumption
      <4>4. QED
        BY <3>1, <3>2, <3>5, <4>1, <4>2, <4>3 DEF ErrorStatus, Known
    <3>6. QED
      BY <3>1, <3>3, <3>4, <3>5 DEF Returned
  <2>4. QED
    BY <2>2, <2>3
<1>2. QED
  BY <1>1, HandledInvariant, GatewayRouterInvariants, PTL
-----------------------------------------------------------------------------
\* The target that served a request is one of its chain, and of the configured
\* backends.
LEMMA ServedByTarget ==
    ASSUME TypeInv, RouteInv, NEW r \in Requests, pc[r] = "served"
    PROVE  pos[r] \in 1 .. Len(chain[r]) /\ Target(r).provider \in Providers
<1>1. chain[r] \in Chains /\ pos[r] \in Nat /\ pos[r] >= 1 /\ pos[r] <= Len(chain[r])
  BY DEF RouteInv, Answerable, AnswerOf, TypeInv, TypeOK, Positioned
<1>2. Target(r) \in Targets
  BY <1>1, ChainFacts DEF Target
<1>3. QED
  BY <1>1, <1>2, ChainFacts DEF Targets

HandlerType ==
    /\ handler \in [Requests -> {"none", "reading", "chatting", "replied", "aborted"}]
    /\ connected \in [Requests -> BOOLEAN]
    /\ late \in [Requests -> BOOLEAN]
    /\ status \in [Requests -> {0} \cup ThreeDigits]
    /\ \A r \in Requests : status[r] = 0 <=> handler[r] # "replied"
    /\ arrived \subseteq Requests

BillType == \A r \in Requests : Billed(r) => bill[r].provider \in Providers

ProcessType ==
    /\ phase \in {"load", "register", "route", "serving", "draining", "exited"}
    /\ exit \in {"none", "ok", "error", "killed"}
    /\ NoNegativeRate(prices)

LEMMA FlagSet ==
    ASSUME NEW flags \in [Requests -> BOOLEAN], NEW r, NEW b \in BOOLEAN
    PROVE  [flags EXCEPT ![r] = b] \in [Requests -> BOOLEAN]
OBVIOUS

LEMMA HandlerTypeStep ==
    ASSUME HandlerType, HandledInv, NEW r \in Requests, ConnectionAlone(r)
    PROVE  HandlerType'
<1>1. ASSUME NEW code, Write(r, code), UNCHANGED <<connected, late>>
      PROVE  HandlerType'
  <2>1. code \in {0} \cup ThreeDigits /\ code # 0
    BY <1>1 DEF Write, ThreeDigits
  <2>2. QED
    BY <1>1, <2>1 DEF Write, HandlerType
<1>2. ASSUME NEW code, Panic(r, code), UNCHANGED <<connected, late>>,
             InHand(r)
      PROVE  HandlerType'
  BY <1>2 DEF Panic, InHand, HandlerType
<1>3. CASE InvalidBody(r) \/ ReadDeadlinePasses(r) \/ Answer(r)
  <2>1. PICK code : Reply(r, code) /\ InHand(r)
    BY <1>3 DEF InvalidBody, ReadDeadlinePasses, Answer, InHand
  <2>2. QED
    BY <1>1, <1>2, <2>1 DEF Reply
<1>4. CASE StartHandler(r) \/ ValidBody(r)
  BY <1>4 DEF StartHandler, ValidBody, HandlerType
<1>5. CASE ClientLeaves(r)
  <2>1. connected' = [connected EXCEPT ![r] = FALSE]
    BY <1>5 DEF ClientLeaves
  <2>2. connected' \in [Requests -> BOOLEAN]
    BY <2>1, FlagSet DEF HandlerType
  <2>3. QED
    BY <1>5, <2>2 DEF ClientLeaves, HandlerType
<1>6. CASE WriteDeadlinePasses(r)
  <2>1. late' = [late EXCEPT ![r] = TRUE]
    BY <1>6 DEF WriteDeadlinePasses
  <2>2. late' \in [Requests -> BOOLEAN]
    BY <2>1, FlagSet DEF HandlerType
  <2>3. QED
    BY <1>6, <2>2 DEF WriteDeadlinePasses, HandlerType
<1>7. QED
  BY <1>2, <1>3, <1>4, <1>5, <1>6 DEF ConnectionAlone

LEMMA BillTypeStep ==
    ASSUME TypeInv, RouteInv, HandledInv, BillType,
           NEW r \in Requests, ConnectionAlone(r)
    PROVE  BillType'
<1> USE DEF BillType, Billed
<1>1. CASE Answer(r) /\ pc[r] = "served"
  <2>1. PICK response \in Served(r) : bill' = [bill EXCEPT ![r] = BillFor(response)]
    BY <1>1 DEF Answer
  <2>2. response.provider \in Providers
    BY <1>1, ServedByTarget DEF Served, Responses
  <2>3. QED
    BY <1>1, <2>1, <2>2 DEF BillFor, HandledInv, PerRequest
<1>2. CASE ~(Answer(r) /\ pc[r] = "served")
  <2>1. UNCHANGED bill
    BY <1>2
       DEF ConnectionAlone, StartHandler, InvalidBody, ValidBody, ReadDeadlinePasses,
           Answer, ClientLeaves, WriteDeadlinePasses
  <2>2. QED
    BY <2>1
<1>3. QED
  BY <1>1, <1>2

LEMMA GatewayTypeStep ==
    ASSUME EnvironmentInv, TypeInv, RouteInv, HandledInv, HandledInv', GatewayTypeOK,
           [GatewayNext]_gatewayVars
    PROVE  GatewayTypeOK'
<1>1. EnvironmentInv' /\ env' = env
  BY EnvironmentStep
<1>2. ProcessType /\ HandlerType /\ BillType
  BY DEF GatewayTypeOK, ProcessType, HandlerType, BillType
<1>3. ASSUME UNCHANGED http
      PROVE  HandlerType' /\ BillType'
  BY <1>2, <1>3 DEF HandlerType, BillType, http, Billed
<1>4. ASSUME UNCHANGED process
      PROVE  ProcessType'
  BY <1>2, <1>4 DEF ProcessType, process
<1>5. ProcessType' /\ HandlerType' /\ BillType'
  <2>1. CASE ProcessAlone
    <3>1. ProcessType'
      BY <1>2, <2>1
         DEF ProcessAlone, Load, ProvidersRegistered, StartServing, SignalKills,
             ListenFails, Signal, Stop, Drained, ShutdownTimesOut, Exit, Enter,
             ProcessType
    <3>2. QED
      BY <1>3, <2>1, <3>1, ProcessAloneFrame
  <2>2. ASSUME NEW p \in Providers, RegisterProvider(p)
        PROVE  ProcessType' /\ HandlerType' /\ BillType'
    BY <1>3, <1>4, <2>2 DEF RegisterProvider
  <2>3. ASSUME NEW name \in Models, InstallRoute(name)
        PROVE  ProcessType' /\ HandlerType' /\ BillType'
    <3>1. ProcessType'
      BY <1>2, <1>4, <2>3 DEF InstallRoute, Exit, ProcessType
    <3>2. QED
      BY <1>3, <2>3, <3>1 DEF InstallRoute
  <2>4. ASSUME NEW r \in Requests, Chatting(r) \/ RequestContextCancelled(r)
        PROVE  ProcessType' /\ HandlerType' /\ BillType'
    BY <1>3, <1>4, <2>4 DEF Chatting, RequestContextCancelled
  <2>5. ASSUME NEW r \in Requests, ConnectionAlone(r)
        PROVE  ProcessType' /\ HandlerType' /\ BillType'
    BY <1>2, <1>4, <2>5, ConnectionAloneFrame, HandlerTypeStep, BillTypeStep
  <2>6. CASE UNCHANGED gatewayVars
    BY <1>3, <1>4, <2>6 DEF gatewayVars
  <2>7. QED
    BY <2>1, <2>2, <2>3, <2>4, <2>5, <2>6, GatewaySteps
<1>6. \A r \in Requests : (handler[r] = "aborted")' =>
        (pc[r] = "routeError" /\ LastError(r).status \notin {0} \cup ThreeDigits)'
  BY DEF HandledInv, Handled
<1>7. QED
  BY <1>1, <1>5, <1>6
     DEF GatewayTypeOK, ProcessType, HandlerType, BillType, EnvironmentInv

(***************************************************************************)
(* The variables of the process keep their types, whatever statuses the    *)
(* backends answer with.  In particular no handler panics over anything    *)
(* but a status that its last backend sent without three digits, every     *)
(* bill names a backend, and no table of prices is used that has a         *)
(* negative rate.                                                          *)
(***************************************************************************)
THEOREM GatewayTypeCorrect == GatewaySpec => []GatewayTypeOK
<1>1. GatewayInit => GatewayTypeOK
  BY DEF GatewayInit, GatewayTypeOK, NoNegativeRate, NoModels, Billed
<1>2. QED
  BY <1>1, GatewayTypeStep, GatewayRouterInvariants, HandledInvariant, PTL DEF GatewaySpec
-----------------------------------------------------------------------------
\* What the operator set for a model comes before what the built-in list says.
LEMMA MergedEntries ==
    ASSUME NEW table, NEW override, NEW p, NEW m
    PROVE  LET models == ModelsOf(Merge(table, override), p)
               set    == p \in DOMAIN override /\ m \in DOMAIN override[p]
               listed == p \in DOMAIN table /\ m \in DOMAIN table[p]
           IN  /\ m \in DOMAIN models <=> set \/ listed
               /\ m \in DOMAIN models => p \in DOMAIN Merge(table, override)
               /\ set => Merge(table, override)[p][m] = override[p][m]
               /\ listed /\ ~set => Merge(table, override)[p][m] = table[p][m]
<1> DEFINE merged == Merge(table, override)
           set    == p \in DOMAIN override /\ m \in DOMAIN override[p]
           listed == p \in DOMAIN table /\ m \in DOMAIN table[p]
<1>1. DOMAIN NoModels = {}
  BY DEF NoModels
<1>2. DOMAIN merged = DOMAIN table \cup DOMAIN override
  BY DEF Merge
<1>3. CASE p \notin DOMAIN table \cup DOMAIN override
  BY <1>1, <1>2, <1>3 DEF ModelsOf
<1>4. CASE p \in DOMAIN table \cup DOMAIN override
  <2> DEFINE over == ModelsOf(override, p)
             base == ModelsOf(table, p)
  <2>1. /\ merged[p] = Over(over, base)
        /\ ModelsOf(merged, p) = merged[p]
    BY <1>2, <1>4 DEF Merge, ModelsOf
  <2>2. /\ m \in DOMAIN over <=> set
        /\ m \in DOMAIN base <=> listed
        /\ set => over[m] = override[p][m]
        /\ listed => base[m] = table[p][m]
    BY <1>1 DEF ModelsOf
  <2> HIDE DEF over, base
  <2>3. /\ DOMAIN Over(over, base) = DOMAIN over \cup DOMAIN base
        /\ m \in DOMAIN over => Over(over, base)[m] = over[m]
        /\ m \in DOMAIN base \ DOMAIN over => Over(over, base)[m] = base[m]
    BY DEF Over
  <2>4. QED
    BY <1>2, <1>4, <2>1, <2>2, <2>3
<1>5. QED
  BY <1>3, <1>4

\* The built-in rates are whole numbers.
LEMMA DefaultRates ==
    ASSUME NEW p \in DOMAIN DefaultTable, NEW m \in DOMAIN DefaultTable[p]
    PROVE  DefaultTable[p][m].input \in Nat /\ DefaultTable[p][m].output \in Nat
<1>1. DOMAIN DefaultTable = {"anthropic", "openai", "bedrock"}
  BY DEF DefaultTable
<1>2. CASE p = "anthropic"
  BY <1>2 DEF DefaultTable, Price
<1>3. CASE p = "openai"
  BY <1>3 DEF DefaultTable, Price
<1>4. CASE p = "bedrock"
  BY <1>4 DEF DefaultTable, Price
<1>5. QED
  BY <1>1, <1>2, <1>3, <1>4

LEMMA ChargeIsPositive ==
    ASSUME NEW a \in Nat, NEW b \in Nat, NEW c \in Nat, NEW d \in Nat
    PROVE  a * b + c * d \in Nat
<1>1. a * b \in Nat /\ c * d \in Nat
  OBVIOUS
<1>2. QED
  BY <1>1

\* A bill made with the prices of the environment charges what is due.
LEMMA BillForIsDue ==
    ASSUME EnvironmentInv, prices = PriceTable(env), NoNegativeRate(prices),
           NEW response, response.usage \in Usages
    PROVE  LET b == BillFor(response)
           IN  /\ b.provider = response.provider /\ b.model = response.model
               /\ b.cost = Due(b)
               /\ b.cost.input >= 0 /\ b.cost.output >= 0 /\ b.cost.total >= 0
<1> DEFINE b      == BillFor(response)
           p      == response.provider
           model  == response.model
           usage  == response.usage
           set    == p \in DOMAIN env.pricing /\ model \in DOMAIN env.pricing[p]
           listed == p \in DOMAIN DefaultTable /\ model \in DOMAIN DefaultTable[p]
           price  == prices[p][model]
           cost   == Cost(prices, p, model, usage)
<1>1. /\ b.provider = p /\ b.model = model /\ b.usage = usage /\ b.cost = cost
      /\ Listed(env.pricing, b) <=> set
      /\ Listed(DefaultTable, b) <=> listed
  BY DEF BillFor, Listed
<1>2. usage.input \in Nat /\ usage.output \in Nat
  BY GatewayAssumption
<1>3. /\ model \in DOMAIN ModelsOf(prices, p) <=> set \/ listed
      /\ model \in DOMAIN ModelsOf(prices, p) => p \in DOMAIN prices
      /\ set => price = env.pricing[p][model]
      /\ listed /\ ~set => price = DefaultTable[p][model]
  BY MergedEntries DEF PriceTable
<1>4. set \/ listed => price.input \in Nat /\ price.output \in Nat
  <2>1. CASE set
    <3>1. price.input \in Int /\ price.output \in Int
      BY <1>3, <2>1, GatewayAssumption DEF EnvironmentInv
    <3>2. price.input >= 0 /\ price.output >= 0
      BY <1>3, <2>1 DEF NoNegativeRate, ModelsOf
    <3>3. QED
      BY <3>1, <3>2
  <2>2. CASE listed /\ ~set
    BY <1>3, <2>2, DefaultRates
  <2>3. QED
    BY <2>1, <2>2
<1>5. CASE set \/ listed
  <2>1. cost = Charged(price, usage)
    BY <1>3, <1>5 DEF Cost, Charged
  <2>2. Due(b) = Charged(price, usage)
    BY <1>1, <1>3, <1>5 DEF Due
  <2>3. cost.input \in Nat /\ cost.output \in Nat /\ cost.total \in Nat
    <3> HIDE DEF price, cost, usage
    <3>1. price.input \in Nat /\ price.output \in Nat
      BY <1>4, <1>5
    <3>2. /\ cost.input = usage.input * price.input
          /\ cost.output = usage.output * price.output
          /\ cost.total = usage.input * price.input + usage.output * price.output
      BY <2>1 DEF Charged
    <3>3. QED
      BY <1>2, <3>1, <3>2, ChargeIsPositive
  <2> HIDE DEF b, cost
  <2>4. cost.input >= 0 /\ cost.output >= 0 /\ cost.total >= 0
    BY <2>3
  <2>5. QED
    BY <1>1, <2>1, <2>2, <2>4 DEF b
<1>6. CASE ~set /\ ~listed
  <2>1. cost = UnknownCost
    BY <1>3, <1>6 DEF Cost
  <2>2. Due(b) = UnknownCost
    BY <1>1, <1>6 DEF Due, UnknownCost
  <2>3. UnknownCost.input = 0 /\ UnknownCost.output = 0 /\ UnknownCost.total = 0
    BY DEF UnknownCost
  <2> HIDE DEF b, cost
  <2>4. cost.input >= 0 /\ cost.output >= 0 /\ cost.total >= 0
    BY <2>1, <2>3
  <2>5. QED
    BY <1>1, <2>1, <2>2, <2>4 DEF b
<1>7. QED
  BY <1>5, <1>6
-----------------------------------------------------------------------------
\* The target that was, or is being, called last is the present one.
Called(r, i) == \E l \in DOMAIN calls : \E call \in calls[l] : call[1] = <<r, i>>

CallInv ==
    \A r \in Requests : pc[r] \in {"calling", "served"} => Called(r, pos[r])

\* A step makes no call but the one of its own request.
LEMMA StepCalls ==
    ASSUME TypeInv, NEW r \in Requests, Step(r)
    PROVE  /\ \A q, i : Called(q, i) => Called(q, i)'
           /\ \A q \in Requests \ {r} : \A i : Called(q, i)' => Called(q, i)
           /\ pc'[r] = "calling" => Called(r, pos[r])' /\ pos'[r] = pos[r]
           /\ pc'[r] = "served" => pc[r] = "calling" /\ pos'[r] = pos[r]
<1>0. /\ calls \in [Limiters \cup {NoLimiter} -> SUBSET (Visits \X Nat)]
      /\ pc \in [Requests -> Working \cup Returned]
      /\ limiter[r] \in Limiters \cup {NoLimiter}
      /\ pos \in [Requests -> Nat]
  BY DEF TypeInv, TypeOK
<1>1. ASSUME UNCHANGED calls, pc'[r] \notin {"calling", "served"}
      PROVE  /\ \A q, i : Called(q, i) => Called(q, i)'
             /\ \A q \in Requests \ {r} : \A i : Called(q, i)' => Called(q, i)
             /\ pc'[r] = "calling" => Called(r, pos[r])' /\ pos'[r] = pos[r]
             /\ pc'[r] = "served" => pc[r] = "calling" /\ pos'[r] = pos[r]
  BY <1>1 DEF Called
<1>2. ASSUME NEW err, NextTarget(r, err) \/ Finish(r, err)
      PROVE  pc'[r] \notin {"calling", "served"}
  BY <1>0, <1>2 DEF NextTarget, Finish
<1>3. CASE \/ Resolve(r) \/ CheckContext(r) \/ ChainExhausted(r) \/ LookupRegistered(r)
           \/ Admitted(r) \/ BackoffElapses(r)
  <2>1. UNCHANGED calls /\ pc'[r] \notin {"calling", "served"}
    BY <1>0, <1>3
       DEF Resolve, CheckContext, ChainExhausted, LookupRegistered, Admitted,
           BackoffElapses, history
  <2>2. QED
    BY <1>1, <2>1
<1>4. CASE \/ LookupUnregistered(r) \/ RateLimited(r) \/ GiveUpBeforeCall(r)
           \/ BackoffCancelled(r)
  <2>1. UNCHANGED calls /\ pc'[r] \notin {"calling", "served"}
    BY <1>2, <1>4
       DEF LookupUnregistered, RateLimited, GiveUpBeforeCall, BackoffCancelled, history
  <2>2. QED
    BY <1>1, <2>1
<1>5. CASE ReturnError(r)
  <2>1. PICK err \in CallErrors(r) :
          IF TriesAgain(r, err)
          THEN /\ pc' = [pc EXCEPT ![r] = "backoff"]
               /\ UNCHANGED <<pos, failures>>
          ELSE Finish(r, err)
    BY <1>5 DEF ReturnError
  <2>2. pc'[r] \notin {"calling", "served"}
    BY <1>0, <1>2, <2>1
  <2>3. UNCHANGED calls
    BY <1>5 DEF ReturnError, history
  <2>4. QED
    BY <1>1, <2>2, <2>3
<1>6. CASE ReturnOK(r)
  <2>1. /\ UNCHANGED <<calls, pos>> /\ pc[r] = "calling"
        /\ pc'[r] = "served"
    BY <1>0, <1>6 DEF ReturnOK, history
  <2>2. QED
    BY <2>1 DEF Called
<1>7. CASE StartCall(r)
  <2> DEFINE new == <<<<r, pos[r]>>, attempt'[r]>>
             l   == limiter[r]
  <2>1. /\ calls' = [calls EXCEPT ![l] = @ \cup {new}]
        /\ UNCHANGED pos /\ pc'[r] = "calling"
    BY <1>0, <1>7 DEF StartCall
  <2>2. new[1] = <<r, pos[r]>>
    OBVIOUS
  <2> HIDE DEF new
  <2>3. /\ DOMAIN calls' = DOMAIN calls /\ l \in DOMAIN calls
        /\ calls'[l] = calls[l] \cup {new}
        /\ \A k \in DOMAIN calls \ {l} : calls'[k] = calls[k]
    BY <1>0, <2>1
  <2> HIDE DEF l
  <2>4. \A q, i : Called(q, i) => Called(q, i)'
    BY <2>3 DEF Called
  <2>5. ASSUME NEW q \in Requests \ {r}, NEW i, Called(q, i)'
        PROVE  Called(q, i)
    <3>1. <<q, i>> # <<r, pos[r]>>
      OBVIOUS
    <3>2. QED
      BY <2>2, <2>3, <2>5, <3>1 DEF Called
  <2>6. Called(r, pos[r])'
    <3>1. pos'[r] = pos[r]
      BY <2>1
    <3>2. QED
      BY <2>2, <2>3, <3>1 DEF Called
  <2>7. QED
    BY <2>1, <2>4, <2>5, <2>6
<1>8. QED
  BY <1>3, <1>4, <1>5, <1>6, <1>7 DEF Step

\* What leaves the calls and the requests alone.
LEMMA OthersCallNobody ==
    ASSUME TypeInv, [GatewayNext]_gatewayVars, ~ \E r \in Requests : Chatting(r)
    PROVE  UNCHANGED <<calls, pc, pos, chain>>
BY GatewaySteps, ProcessAloneFrame, ConnectionAloneFrame
   DEF vars, RegisterProvider, Register, InstallRoute, AddRoute, local, history,
       RequestContextCancelled, EndContext, gatewayVars

LEMMA CallStep ==
    ASSUME TypeInv, CallInv, [GatewayNext]_gatewayVars
    PROVE  CallInv'
<1>1. ASSUME NEW r \in Requests, Chatting(r)
      PROVE  CallInv'
  <2>1. Step(r)
    BY <1>1 DEF Chatting
  <2>2. ASSUME NEW q \in Requests, pc'[q] \in {"calling", "served"}
        PROVE  Called(q, pos[q])'
    <3>1. CASE q = r
      <4>1. CASE pc'[q] = "calling"
        BY <2>1, <3>1, <4>1, StepCalls
      <4>2. CASE pc'[q] = "served"
        <5>1. pc[q] = "calling" /\ pos'[q] = pos[q]
          BY <2>1, <3>1, <4>2, StepCalls
        <5>2. Called(q, pos[q])
          BY <5>1 DEF CallInv
        <5>3. QED
          BY <2>1, <5>1, <5>2, StepCalls DEF Called
      <4>3. QED
        BY <2>2, <4>1, <4>2
    <3>2. CASE q # r
      <4>1. pc[q] = pc'[q] /\ pos'[q] = pos[q]
        BY <2>1, <3>2, StepApart
      <4>2. Called(q, pos[q])
        BY <2>2, <4>1 DEF CallInv
      <4>3. QED
        BY <2>1, <4>1, <4>2, StepCalls DEF Called
    <3>3. QED
      BY <3>1, <3>2
  <2>3. QED
    BY <2>2 DEF CallInv
<1>2. CASE ~ \E r \in Requests : Chatting(r)
  BY <1>2, OthersCallNobody DEF CallInv, Called
<1>3. QED
  BY <1>1, <1>2

THEOREM CallInvariant == GatewaySpec => [](CallInv /\ ContextInv)
<1>1. GatewayInit => CallInv
  BY DEF GatewayInit, Init, RequestsInit, CallInv
<1>2. QED
  BY <1>1, CallStep, GatewayRouterInvariants, GatewayUsesRouter, ContextInvariant, PTL
     DEF GatewaySpec
-----------------------------------------------------------------------------
\* A bill stays right as long as its request and the calls for it are the same.
LEMMA RightBillStays ==
    ASSUME NEW r \in Requests, RightBill(r), UNCHANGED env, bill'[r] = bill[r],
           chain'[r] = chain[r], \A i : Called(r, i)' <=> Called(r, i)
    PROVE  RightBill(r)'
<1>1. CalledFor(r)' = CalledFor(r)
  <2>1. CalledFor(r) = {i \in 1 .. Len(chain[r]) : Called(r, i)}
    BY DEF CalledFor, Called
  <2>2. CalledFor(r)' = {i \in 1 .. Len(chain'[r]) : Called(r, i)'}
    BY DEF CalledFor, Called
  <2>3. QED
    BY <2>1, <2>2
<1>2. Due(bill[r])' = Due(bill[r])
  BY DEF Due, Listed
<1>3. QED
  BY <1>1, <1>2 DEF RightBill

LEMMA BillsStep ==
    ASSUME EnvironmentInv, TypeInv, RouteInv, BootInv, GatewayTypeOK, HandledInv,
           CallInv, ContextInv, BillsAreRight, [GatewayNext]_gatewayVars
    PROVE  BillsAreRight'
<1>1. UNCHANGED env
  BY EnvironmentStep
<1>2. ASSUME NEW r \in Requests, bill'[r] = bill[r], Billed(r)
      PROVE  RightBill(r)'
  <2>1. RightBill(r) /\ handler[r] = "replied"
    BY <1>2 DEF BillsAreRight, Billed, HandledInv, Handled
  <2>2. CASE ~ \E q \in Requests : Chatting(q)
    BY <1>1, <1>2, <2>1, <2>2, OthersCallNobody, RightBillStays DEF Called
  <2>3. ASSUME NEW q \in Requests, Chatting(q)
        PROVE  RightBill(r)'
    <3>1. Step(q) /\ q # r
      BY <2>1, <2>3 DEF Chatting
    <3>2. chain'[r] = chain[r] /\ \A i : Called(r, i)' <=> Called(r, i)
      BY <3>1, StepApart, StepCalls
    <3>3. QED
      BY <1>1, <1>2, <2>1, <3>2, RightBillStays
  <2>4. QED
    BY <2>2, <2>3
<1>3. ASSUME NEW r \in Requests, Answer(r), pc[r] = "served"
      PROVE  BillsAreRight'
  <2>1. PICK response \in Served(r) : bill' = [bill EXCEPT ![r] = BillFor(response)]
    BY <1>3 DEF Answer
  <2>2. /\ bill'[r] = BillFor(response)
        /\ \A q \in Requests \ {r} : bill'[q] = bill[q]
    BY <2>1 DEF HandledInv, PerRequest
  <2>3. /\ response.provider = Target(r).provider
        /\ response.model \in Echoed(Target(r))
        /\ response.usage \in Usages
    BY DEF Served, Responses
  <2>4. prices = PriceTable(env) /\ NoNegativeRate(prices)
    BY <1>3 DEF Answer, BootInv, GatewayTypeOK
  <2>5. /\ bill'[r].provider = Target(r).provider
        /\ bill'[r].model \in Echoed(Target(r))
        /\ bill'[r].cost = Due(bill'[r])
        /\ bill'[r].cost.input >= 0 /\ bill'[r].cost.output >= 0
        /\ bill'[r].cost.total >= 0
    BY <2>2, <2>3, <2>4, BillForIsDue
  <2>6. /\ pos[r] \in CalledFor(r)
        /\ \A j \in CalledFor(r) : j <= pos[r]
    <3>1. pos[r] \in 1 .. Len(chain[r]) /\ Called(r, pos[r])
      BY <1>3, ServedByTarget DEF CallInv
    <3>2. ASSUME NEW j \in CalledFor(r)
          PROVE  j <= pos[r]
      <4>1. PICK l \in DOMAIN calls : \E call \in calls[l] : call[1] = <<r, j>>
        BY DEF CalledFor
      <4>2. PICK call \in calls[l] : call[1] = <<r, j>>
        BY <4>1
      <4>3. l \in Limiters \cup {NoLimiter}
        BY DEF TypeInv, TypeOK
      <4>4. call[1][2] <= pos[call[1][1]]
        BY <4>3 DEF ContextInv, CallsBehind
      <4>5. QED
        BY <4>2, <4>4
    <3>3. QED
      BY <3>1, <3>2 DEF CalledFor, Called
  <2>7. UNCHANGED <<env, calls, chain>>
    BY <1>1, <1>3 DEF Answer, vars
  <2>8. RightBill(r)'
    <3>1. CalledFor(r)' = CalledFor(r) /\ Due(bill[r])' = Due(bill'[r])
      BY <2>7 DEF CalledFor, Due, Listed
    <3>2. Target(r) = chain'[r][pos[r]]
      BY <2>7 DEF Target
    <3>3. QED
      BY <2>5, <2>6, <3>1, <3>2 DEF RightBill
  <2>9. ASSUME NEW q \in Requests, Billed(q)'
        PROVE  RightBill(q)'
    BY <1>2, <2>2, <2>8, <2>9 DEF Billed
  <2>10. QED
    BY <2>9 DEF BillsAreRight
<1>4. ASSUME NEW r \in Requests, ConnectionAlone(r), ~(Answer(r) /\ pc[r] = "served")
      PROVE  UNCHANGED bill
  BY <1>4
     DEF ConnectionAlone, StartHandler, InvalidBody, ValidBody, ReadDeadlinePasses,
         Answer, ClientLeaves, WriteDeadlinePasses
<1>5. ASSUME ~ \E r \in Requests : Answer(r) /\ pc[r] = "served"
      PROVE  UNCHANGED bill
  BY <1>4, <1>5, GatewaySteps, ProcessAloneFrame
     DEF RegisterProvider, InstallRoute, Chatting, RequestContextCancelled, http,
         gatewayVars
<1>6. CASE UNCHANGED bill
  BY <1>2, <1>6 DEF BillsAreRight, Billed
<1>7. QED
  BY <1>3, <1>5, <1>6

(***************************************************************************)
(* Every bill is made out to the target that was called last for its       *)
(* request, and charges what the operator's prices say, or else the        *)
(* built-in ones, in every field and never less than nothing: whatever     *)
(* prices an environment lays over the built-in list, however a request    *)
(* failed over and whatever model a backend claims to have used.           *)
(***************************************************************************)
THEOREM BillsAreCorrect == GatewaySpec => []BillsAreRight
<1>1. GatewayInit => BillsAreRight
  BY DEF GatewayInit, BillsAreRight, Billed
<1>2. QED
  BY <1>1, BillsStep, GatewayRouterInvariants, BootInvariant, GatewayTypeCorrect,
     HandledInvariant, CallInvariant, PTL DEF GatewaySpec
=============================================================================
