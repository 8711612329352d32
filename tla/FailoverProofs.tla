--------------------------- MODULE FailoverProofs ---------------------------
(***************************************************************************)
(* The router implements Failover, for any chains, any failover predicate  *)
(* and any reconfiguration while requests are in flight.                   *)
(***************************************************************************)
EXTENDS RouterProofs, SequenceTheorems

\* A request that is under way has one failure for every target it has left.
Aligned ==
    \A r \in Requests : pc[r] \in Working => Len(failures[r]) = pos[r] - 1

AllReasons == {"absent", "unavailable", "cancelled", "refused"}
-----------------------------------------------------------------------------
\* The reasons of a request are as many as its failures and in their order.
LEMMA ReasonsFacts ==
    ASSUME TypeInv, NEW r \in Requests
    PROVE  /\ Reasons[r] \in Seq(AllReasons)
           /\ Len(Reasons[r]) = Len(failures[r])
           /\ Len(failures[r]) \in Nat
           /\ \A i \in 1 .. Len(failures[r]) : Reasons[r][i] = Reason(failures[r][i].err)
<1>1. /\ failures[r] \in Seq(Failures)
      /\ Len(failures[r]) \in Nat
      /\ DOMAIN failures[r] = 1 .. Len(failures[r])
  BY DEF TypeInv, TypeOK
<1>2. \A err : Reason(err) \in AllReasons
  BY DEF Reason, AllReasons
<1>3. Reasons[r] = [i \in 1 .. Len(failures[r]) |-> Reason(failures[r][i].err)]
  BY <1>1 DEF Reasons
<1>4. Reasons[r] \in [1 .. Len(failures[r]) -> AllReasons]
  BY <1>2, <1>3
<1>5. QED
  BY <1>1, <1>3, <1>4

\* What recording a failure does to the lists of failures.
LEMMA RecordedFacts ==
    ASSUME TypeInv, NEW r \in Requests, pc[r] \in AtTarget, NEW err \in Errors,
           failures' = Recorded(r, err)
    PROVE  /\ \A q \in Requests \ {r} : failures'[q] = failures[q]
           /\ Len(failures[r]) \in Nat
           /\ DOMAIN failures'[r] = 1 .. Len(failures[r]) + 1
           /\ Len(failures'[r]) = Len(failures[r]) + 1
           /\ failures'[r][Len(failures[r]) + 1].err = err
           /\ \A i \in 1 .. Len(failures[r]) : failures'[r][i] = failures[r][i]
<1> DEFINE f == [target |-> Target(r), err |-> err]
<1>1. f \in Failures /\ failures[r] \in Seq(Failures) /\ f.err = err
  BY TargetType DEF TypeInv, TypeOK, Failures
<1>2. failures' = [failures EXCEPT ![r] = Append(failures[r], f)]
  BY DEF Recorded
<1>3. failures \in [Requests -> Seq(Failures)]
  BY DEF TypeInv, TypeOK
<1>4. /\ failures'[r] = Append(failures[r], f)
      /\ \A q \in Requests \ {r} : failures'[q] = failures[q]
  BY <1>2, <1>3
<1> HIDE DEF f
<1>5. QED
  BY <1>1, <1>4

\* Recording a failure adds its reason.
LEMMA RecordedReason ==
    ASSUME TypeInv, NEW r \in Requests, pc[r] \in AtTarget, NEW err \in Errors,
           failures' = Recorded(r, err)
    PROVE  Reasons' = [Reasons EXCEPT ![r] = Append(@, Reason(err))]
<1>1. Reasons' = [q \in Requests |->
                     [i \in DOMAIN failures'[q] |-> Reason(failures'[q][i].err)]]
  BY DEF Reasons
<1>2. \A q \in Requests \ {r} : Reasons'[q] = Reasons[q]
  BY RecordedFacts, <1>1 DEF Reasons
<1>3. Reasons'[r] = Append(Reasons[r], Reason(err))
  <2>1. Reasons'[r] = [i \in 1 .. Len(failures[r]) + 1 |-> Reason(failures'[r][i].err)]
    BY RecordedFacts, <1>1
  <2>2. /\ Len(Reasons[r]) = Len(failures[r])
        /\ Reasons[r] \in Seq(AllReasons)
        /\ \A i \in 1 .. Len(failures[r]) : Reasons[r][i] = Reason(failures[r][i].err)
    BY ReasonsFacts
  <2> DEFINE why == Reason(err)
             old == Reasons[r]
             new == Append(old, why)
  <2>3. why \in AllReasons
    BY DEF Reason, AllReasons
  <2>4. /\ new \in [1 .. Len(failures[r]) + 1 -> AllReasons]
        /\ new[Len(failures[r]) + 1] = why
        /\ \A i \in 1 .. Len(failures[r]) : new[i] = old[i]
    <3> HIDE DEF why, old
    <3>1. /\ new \in Seq(AllReasons)
          /\ Len(new) = Len(failures[r]) + 1
          /\ new[Len(failures[r]) + 1] = why
          /\ \A i \in 1 .. Len(failures[r]) : new[i] = old[i]
      BY RecordedFacts, <2>2, <2>3, AppendProperties DEF old
    <3> HIDE DEF new
    <3>2. new \in [1 .. Len(new) -> AllReasons]
      BY <3>1, LenProperties
    <3>3. QED
      BY <3>1, <3>2
  <2> HIDE DEF new
  <2>5. \A i \in 1 .. Len(failures[r]) + 1 : Reason(failures'[r][i].err) = new[i]
    <3> SUFFICES ASSUME NEW i \in 1 .. Len(failures[r]) + 1
                 PROVE  Reason(failures'[r][i].err) = new[i]
      OBVIOUS
    <3>1. CASE i \in 1 .. Len(failures[r])
      BY RecordedFacts, <2>2, <2>4, <3>1
    <3>2. CASE i = Len(failures[r]) + 1
      BY RecordedFacts, <2>4, <3>2
    <3>3. QED
      BY RecordedFacts, <3>1, <3>2
  <2>6. new = [i \in 1 .. Len(failures[r]) + 1 |-> new[i]]
    BY <2>4
  <2>7. QED
    BY <2>1, <2>5, <2>6 DEF new
<1>4. QED
  BY <1>1, <1>2, <1>3 DEF Reasons

\* A request that moves has the phase of the place it moves to.
LEMMA PhaseMoves ==
    ASSUME TypeInv, NEW r \in Requests, NEW place, pc' = [pc EXCEPT ![r] = place]
    PROVE  Phases' = [Phases EXCEPT ![r] = PhaseAt(place)]
<1>1. pc \in [Requests -> Working \cup Returned]
  BY DEF TypeInv, TypeOK
<1>2. Phases' = [q \in Requests |-> PhaseAt(pc'[q])]
  BY DEF Phases
<1>3. QED
  BY <1>1, <1>2 DEF Phases

\* A request on its way from target to target is in the phase "trying".
LEMMA TryingPhase ==
    ASSUME TypeInv, NEW r \in Requests, pc[r] \in AtTarget \cup {"target"}
    PROVE  /\ Phases[r] = "trying"
           /\ Phases = [Phases EXCEPT ![r] = "trying"]
<1>1. Phases[r] = "trying"
  BY DEF Phases, PhaseAt, AtTarget
<1>2. QED
  BY <1>1 DEF Phases

\* What is not looked at by the mapping leaves the abstract state alone.
LEMMA AbstractUntouched ==
    /\ UNCHANGED failures => UNCHANGED Reasons
    /\ UNCHANGED ctx => UNCHANGED Gone
    /\ UNCHANGED pc => UNCHANGED Phases
BY DEF Reasons, Gone, Phases, Ended
-----------------------------------------------------------------------------
LEMMA Places ==
    /\ PhaseAt("start") = "new"
    /\ PhaseAt("noRoute") = "unknown"
    /\ PhaseAt("served") = "served"
    /\ PhaseAt("routeError") = "failed"
    /\ PhaseAt("contextError") = "abandoned"
    /\ \A place \in AtTarget \cup {"target"} : PhaseAt(place) = "trying"
BY DEF PhaseAt, AtTarget

\* While a request is busy with a target, a target is left.
LEMMA TargetIsLeft ==
    ASSUME TypeInv, Aligned, NEW r \in Requests,
           \/ pc[r] \in AtTarget
           \/ pc[r] = "target" /\ pos[r] <= Len(chain[r])
    PROVE  /\ Promise!TargetsLeft(r)
           /\ Phases[r] = "trying"
<1>1. Len(failures[r]) = pos[r] - 1 /\ pos[r] \in Nat /\ pos[r] <= Len(chain[r])
  BY DEF TypeInv, TypeOK, Positioned, Aligned, AtTarget, Working
<1>2. chain[r] \in Chains
  BY DEF TypeInv, TypeOK
<1>3. QED
  BY <1>1, <1>2, ChainFacts, ReasonsFacts, TryingPhase DEF Promise!TargetsLeft

\* A target that is ruled out for a passing reason is passed over.
LEMMA NextTargetPasses ==
    ASSUME TypeInv, Aligned, NEW r \in Requests, pc[r] \in AtTarget,
           NEW err \in Errors, Reason(err) \in {"absent", "unavailable"},
           NextTarget(r, err), UNCHANGED <<chain, ctx>>
    PROVE  Promise!PassOver(r) /\ Aligned'
<1>1. /\ Reasons' = [Reasons EXCEPT ![r] = Append(@, Reason(err))]
      /\ Len(failures'[r]) = Len(failures[r]) + 1
  BY RecordedReason, RecordedFacts DEF NextTarget
<1>2. Phases' = Phases
  <2>1. Phases' = [Phases EXCEPT ![r] = PhaseAt("target")]
    BY PhaseMoves DEF NextTarget
  <2>2. PhaseAt("target") = "trying"
    BY Places
  <2>3. QED
    BY <2>1, <2>2, TryingPhase
<1>3. Gone' = Gone
  BY AbstractUntouched
<1>4. Promise!PassOver(r)
  BY <1>1, <1>2, <1>3, TargetIsLeft DEF Promise!PassOver, Promise!PassingReasons
<1>5. Aligned'
  <2> SUFFICES ASSUME NEW q \in Requests, pc'[q] \in Working
               PROVE  Len(failures'[q]) = pos'[q] - 1
    BY DEF Aligned
  <2>1. /\ pc \in [Requests -> Working \cup Returned]
        /\ pos \in [Requests -> Nat]
        /\ failures \in [Requests -> Seq(Failures)]
    BY DEF TypeInv, TypeOK
  <2>2. CASE q = r
    BY <1>1, <2>1, <2>2 DEF NextTarget, Aligned, AtTarget, Working
  <2>3. CASE q # r
    BY <2>1, <2>3 DEF NextTarget, Recorded, Aligned
  <2>4. QED
    BY <2>2, <2>3
<1>6. QED
  BY <1>4, <1>5

\* An error of the retry loop passes the target over or fails the request.
LEMMA FinishPassesOrFails ==
    ASSUME TypeInv, Aligned, NEW r \in Requests, pc[r] \in AtTarget,
           NEW err \in Errors, err.kind \notin {"unregistered", "limited"},
           Finish(r, err), UNCHANGED <<chain, ctx>>
    PROVE  (Promise!PassOver(r) \/ Promise!Fail(r)) /\ Aligned'
<1>1. CASE ~Terminal(r, err)
  <2>1. NextTarget(r, err) /\ Reason(err) = "unavailable"
    BY <1>1 DEF Finish, Terminal, Reason
  <2>2. QED
    BY <2>1, NextTargetPasses
<1>2. CASE Terminal(r, err)
  <2>1. /\ failures' = Recorded(r, err)
        /\ pc' = [pc EXCEPT ![r] = "routeError"]
        /\ pos' = pos
    BY <1>2 DEF Finish
  <2>2. Reasons' = [Reasons EXCEPT ![r] = Append(@, Reason(err))]
    BY <2>1, RecordedReason
  <2>3. Phases' = [Phases EXCEPT ![r] = "failed"]
    <3>1. Phases' = [Phases EXCEPT ![r] = PhaseAt("routeError")]
      BY <2>1, PhaseMoves
    <3>2. QED
      BY <3>1, Places
  <2>4. Gone' = Gone
    BY AbstractUntouched
  <2>5. Reason(err) \in {"cancelled", "refused"}
          \cup (IF r \in Gone THEN {"unavailable"} ELSE {})
    BY <1>2 DEF Terminal, Reason, Gone
  <2>6. Promise!Fail(r)
    BY <2>2, <2>3, <2>4, <2>5, TargetIsLeft DEF Promise!Fail, Promise!FinalReasons
  <2>7. Aligned'
    <3> SUFFICES ASSUME NEW q \in Requests, pc'[q] \in Working
                 PROVE  Len(failures'[q]) = pos'[q] - 1
      BY DEF Aligned
    <3>1. /\ pc \in [Requests -> Working \cup Returned]
          /\ failures \in [Requests -> Seq(Failures)]
      BY DEF TypeInv, TypeOK
    <3>2. q # r
      BY <2>1, <3>1 DEF Working
    <3>3. QED
      BY <2>1, <3>1, <3>2 DEF Recorded, Aligned
  <2>8. QED
    BY <2>6, <2>7
<1>3. QED
  BY <1>1, <1>2

\* A step within a request that records nothing keeps the failures in line.
LEMMA StaysAligned ==
    ASSUME TypeInv, Aligned, NEW r \in Requests, pc[r] \in Working,
           NEW place, pc' = [pc EXCEPT ![r] = place], UNCHANGED <<pos, failures>>
    PROVE  Aligned'
<1>1. pc \in [Requests -> Working \cup Returned]
  BY DEF TypeInv, TypeOK
<1>2. QED
  BY <1>1 DEF Aligned

\* Every error of a provider call is that of a call, not of the router.
LEMMA CallErrorKinds ==
    ASSUME TypeOK, NEW r \in Requests
    PROVE  /\ \A err \in CallErrors(r) :
                err \in Errors /\ err.kind \notin {"unregistered", "limited"}
           /\ Ended(r) => /\ ContextError(ctx[r]) \in Errors
                           /\ ContextError(ctx[r]).kind = "context"
<1>1. ASSUME NEW err \in CallErrors(r)
      PROVE  err.kind \in {"http", "plain", "transport"}
  BY <1>1 DEF CallErrors, ProviderFailures, HTTPError, PlainError, TransportError
<1>2. ContextError(ctx[r]).kind = "context"
  BY DEF ContextError
<1>3. QED
  BY <1>1, <1>2, ErrorTypes

\* A step that the mapping does not see.
LEMMA Stutters ==
    ASSUME Aligned, UNCHANGED <<pc, pos, failures, chain, ctx>>
    PROVE  UNCHANGED Promise!failoverVars /\ Aligned'
BY AbstractUntouched DEF Promise!failoverVars, Aligned

\* A step from one place of the work on a target to another is not seen either.
LEMMA StepUnseen ==
    ASSUME TypeInv, Aligned, NEW r \in Requests, pc[r] \in AtTarget \cup {"target"},
           NEW place \in AtTarget \cup {"target"}, pc' = [pc EXCEPT ![r] = place],
           UNCHANGED <<pos, failures, chain, ctx>>
    PROVE  UNCHANGED Promise!failoverVars /\ Aligned'
<1>1. Phases' = [Phases EXCEPT ![r] = PhaseAt(place)]
  BY PhaseMoves
<1>2. Phases' = Phases
  BY <1>1, Places, TryingPhase
<1>3. pc[r] \in Working
  BY DEF AtTarget, Working
<1>4. Aligned'
  BY <1>3, StaysAligned
<1>5. QED
  BY <1>2, <1>4, AbstractUntouched DEF Promise!failoverVars
-----------------------------------------------------------------------------
(***************************************************************************)
(* Each step of the router is a step of Failover or is not seen by it, and *)
(* keeps the failures in line with the targets.                            *)
(***************************************************************************)
THEOREM StepImplements ==
    TypeInv /\ Aligned /\ [Next]_vars => [Promise!Next]_(Promise!failoverVars) /\ Aligned'
<1> SUFFICES ASSUME TypeInv, Aligned, [Next]_vars
             PROVE  [Promise!Next]_(Promise!failoverVars) /\ Aligned'
  OBVIOUS
<1>0. /\ pc \in [Requests -> Working \cup Returned]
      /\ chain \in [Requests -> Chains]
      /\ TypeOK
  BY DEF TypeInv, TypeOK
<1>1. ASSUME NEW r \in Requests, Resolve(r)
      PROVE  Promise!Begin(r) /\ Aligned'
  <2> DEFINE targets == Resolved(ModelOf[r])
             place   == IF targets = <<>> THEN "noRoute" ELSE "target"
  <2>1. targets \in Chains
    BY RouterAssumption DEF TypeInv, TypeOK, Resolved
  <2>2. /\ pc[r] = "start"
        /\ chain' = [chain EXCEPT ![r] = targets]
        /\ pc' = [pc EXCEPT ![r] = place]
        /\ UNCHANGED <<pos, failures, ctx>>
    BY <1>1 DEF Resolve
  <2> HIDE DEF targets
  <2>3. Phases[r] = "new"
    BY <2>2, Places DEF Phases
  <2>4. Phases' = [Phases EXCEPT ![r] = IF targets = <<>> THEN "unknown" ELSE "trying"]
    <3>1. Phases' = [Phases EXCEPT ![r] = PhaseAt(place)]
      BY <2>2, PhaseMoves
    <3>2. PhaseAt(place) = IF targets = <<>> THEN "unknown" ELSE "trying"
      BY Places
    <3>3. QED
      BY <3>1, <3>2
  <2>5. Promise!Begin(r)
    BY <2>1, <2>2, <2>3, <2>4, AbstractUntouched DEF Promise!Begin
  <2>6. Aligned'
    BY <2>2, StaysAligned DEF Working
  <2>7. QED
    BY <2>5, <2>6
<1>2. ASSUME NEW r \in Requests, CheckContext(r)
      PROVE  (Promise!Abandon(r) \/ UNCHANGED Promise!failoverVars) /\ Aligned'
  <2>1. /\ pc[r] = "target" /\ pos[r] <= Len(chain[r])
        /\ UNCHANGED <<pos, failures, chain, ctx>>
    BY <1>2 DEF CheckContext
  <2>2. CASE Ended(r)
    <3>1. pc' = [pc EXCEPT ![r] = "contextError"]
      BY <1>2, <2>2 DEF CheckContext
    <3>2. Phases' = [Phases EXCEPT ![r] = PhaseAt("contextError")]
      BY <3>1, PhaseMoves
    <3>3. Phases' = [Phases EXCEPT ![r] = "abandoned"]
      BY <3>2, Places
    <3>4. r \in Gone
      BY <2>2 DEF Gone
    <3>5. Promise!Abandon(r)
      BY <2>1, <3>3, <3>4, TargetIsLeft, AbstractUntouched DEF Promise!Abandon
    <3>6. QED
      BY <2>1, <3>1, <3>5, StaysAligned DEF Working
  <2>3. CASE ~Ended(r)
    <3>1. pc' = [pc EXCEPT ![r] = "lookup"]
      BY <1>2, <2>3 DEF CheckContext
    <3>2. QED
      BY <2>1, <3>1, StepUnseen DEF AtTarget
  <2>4. QED
    BY <2>2, <2>3
<1>3. ASSUME NEW r \in Requests, ChainExhausted(r)
      PROVE  Promise!Fail(r) /\ Aligned'
  <2>1. /\ pc[r] = "target" /\ pos[r] > Len(chain[r])
        /\ pc' = [pc EXCEPT ![r] = "routeError"]
        /\ UNCHANGED <<pos, failures, chain, ctx>>
    BY <1>3 DEF ChainExhausted
  <2>2. Phases' = [Phases EXCEPT ![r] = PhaseAt("routeError")]
    BY <2>1, PhaseMoves
  <2>3. Phases' = [Phases EXCEPT ![r] = "failed"] /\ Phases[r] = "trying"
    BY <2>1, <2>2, Places, TryingPhase
  <2>4. ~Promise!TargetsLeft(r)
    <3>1. Len(failures[r]) = pos[r] - 1 /\ pos[r] \in Nat
      BY <2>1 DEF Aligned, Working, TypeInv, TypeOK
    <3>2. QED
      BY <1>0, <2>1, <3>1, ReasonsFacts, ChainFacts DEF Promise!TargetsLeft
  <2>5. Promise!Fail(r)
    BY <2>1, <2>3, <2>4, AbstractUntouched DEF Promise!Fail
  <2>6. QED
    BY <2>1, <2>5, StaysAligned DEF Working
<1>4. ASSUME NEW r \in Requests, LookupRegistered(r)
      PROVE  UNCHANGED Promise!failoverVars /\ Aligned'
  <2> DEFINE place == IF limiter'[r] = NoLimiter THEN "attempt" ELSE "admit"
  <2>1. /\ pc[r] = "lookup"
        /\ pc' = [pc EXCEPT ![r] = place]
        /\ UNCHANGED <<pos, failures, chain, ctx>>
    BY <1>4 DEF LookupRegistered
  <2>2. place \in AtTarget
    BY DEF AtTarget
  <2> HIDE DEF place
  <2>3. QED
    BY <2>1, <2>2, StepUnseen DEF AtTarget
<1>5. ASSUME NEW r \in Requests, LookupUnregistered(r)
      PROVE  Promise!PassOver(r) /\ Aligned'
  <2>1. Reason(UnregisteredError) = "absent"
    BY DEF Reason, UnregisteredError
  <2>2. UnregisteredError \in Errors
    BY <1>0, ErrorTypes
  <2>3. QED
    BY <1>5, <2>1, <2>2, NextTargetPasses DEF LookupUnregistered, AtTarget
<1>6. ASSUME NEW r \in Requests, RateLimited(r)
      PROVE  Promise!PassOver(r) /\ Aligned'
  <2>1. Reason(RateLimitedError) = "unavailable"
    BY DEF Reason, RateLimitedError, IsContextError, ContextCauses
  <2>2. RateLimitedError \in Errors
    BY <1>0, ErrorTypes
  <2>3. QED
    BY <1>6, <2>1, <2>2, NextTargetPasses DEF RateLimited, AtTarget
<1>7. ASSUME NEW r \in Requests,
             Admitted(r) \/ StartCall(r) \/ BackoffElapses(r)
      PROVE  UNCHANGED Promise!failoverVars /\ Aligned'
  <2>1. CASE Admitted(r)
    BY <2>1, StepUnseen DEF Admitted, AtTarget
  <2>2. CASE StartCall(r)
    BY <2>2, StepUnseen DEF StartCall, AtTarget
  <2>3. CASE BackoffElapses(r)
    BY <2>3, StepUnseen DEF BackoffElapses, AtTarget
  <2>4. QED
    BY <1>7, <2>1, <2>2, <2>3
<1>8. ASSUME NEW r \in Requests, GiveUpBeforeCall(r) \/ BackoffCancelled(r)
      PROVE  (Promise!PassOver(r) \/ Promise!Fail(r)) /\ Aligned'
  <2>1. /\ pc[r] \in AtTarget
        /\ Ended(r)
        /\ Finish(r, ContextError(ctx[r]))
        /\ UNCHANGED <<chain, ctx>>
    BY <1>8 DEF GiveUpBeforeCall, BackoffCancelled, AtTarget
  <2>2. /\ ContextError(ctx[r]) \in Errors
        /\ ContextError(ctx[r]).kind \notin {"unregistered", "limited"}
    BY <1>0, <2>1, CallErrorKinds
  <2>3. QED
    BY <2>1, <2>2, FinishPassesOrFails
<1>9. ASSUME NEW r \in Requests, ReturnOK(r)
      PROVE  Promise!Serve(r) /\ Aligned'
  <2>1. /\ pc[r] = "calling"
        /\ pc' = [pc EXCEPT ![r] = "served"]
        /\ UNCHANGED <<pos, failures, chain, ctx>>
    BY <1>9 DEF ReturnOK
  <2>2. Phases' = [Phases EXCEPT ![r] = PhaseAt("served")]
    BY <2>1, PhaseMoves
  <2>3. Phases' = [Phases EXCEPT ![r] = "served"]
    BY <2>2, Places
  <2>4. Promise!Serve(r)
    BY <2>1, <2>3, TargetIsLeft, AbstractUntouched DEF Promise!Serve, AtTarget
  <2>5. QED
    BY <2>1, <2>4, StaysAligned DEF Working
<1>10. ASSUME NEW r \in Requests, ReturnError(r)
       PROVE  /\ \/ Promise!PassOver(r) \/ Promise!Fail(r)
                 \/ UNCHANGED Promise!failoverVars
              /\ Aligned'
  <2>1. pc[r] = "calling" /\ UNCHANGED <<chain, ctx>>
    BY <1>10 DEF ReturnError
  <2>2. PICK err \in CallErrors(r) :
          IF TriesAgain(r, err)
          THEN /\ pc' = [pc EXCEPT ![r] = "backoff"]
               /\ UNCHANGED <<pos, failures>>
          ELSE Finish(r, err)
    BY <1>10 DEF ReturnError
  <2>3. CASE TriesAgain(r, err)
    BY <2>1, <2>2, <2>3, StepUnseen DEF AtTarget
  <2>4. CASE ~TriesAgain(r, err)
    <3>1. err \in Errors /\ err.kind \notin {"unregistered", "limited"}
      BY <1>0, CallErrorKinds
    <3>2. QED
      BY <2>1, <2>2, <2>4, <3>1, FinishPassesOrFails DEF AtTarget
  <2>5. QED
    BY <2>3, <2>4
<1>11. ASSUME NEW r \in Requests, NEW c \in EndCauses, EndContext(r, c)
       PROVE  Promise!Leave(r) /\ Aligned'
  <2>1. /\ ctx' = [ctx EXCEPT ![r] = c]
        /\ UNCHANGED <<pc, pos, failures, chain>>
    BY <1>11 DEF EndContext, local
  <2>2. c # "live"
    BY RouterAssumption DEF ContextCauses
  <2>3. Gone' = Gone \cup {r}
    BY <2>1, <2>2 DEF Gone, Ended, TypeInv, TypeOK
  <2>4. Aligned'
    BY <2>1 DEF Aligned
  <2>5. QED
    BY <2>1, <2>3, <2>4, AbstractUntouched DEF Promise!Leave
<1>12. CASE Tick \/ Configure \/ UNCHANGED vars
  BY <1>12, Stutters
     DEF Tick, Configure, Register, SetLimiter, AddRoute, SetDefaultRoute, local, vars
<1>13. ASSUME NEW r \in Requests, Step(r)
       PROVE  [Promise!Next]_(Promise!failoverVars) /\ Aligned'
  BY <1>1, <1>2, <1>3, <1>4, <1>5, <1>6, <1>7, <1>8, <1>9, <1>10, <1>13
     DEF Step, Promise!Next
<1>14. QED
  BY <1>11, <1>12, <1>13 DEF Next, Serve, AllReturned, Promise!Next

(***************************************************************************)
(* The router implements Failover: a request takes the targets of the      *)
(* chain it resolved, in order and once each, gives one up only for a      *)
(* passing reason, and fails only with a reason for each target it took.   *)
(***************************************************************************)
THEOREM RouterKeepsPromise == Spec => KeepsPromise
<1>1. Init => Promise!Init /\ Aligned
  <2> SUFFICES ASSUME Init
               PROVE  Promise!Init /\ Aligned
    OBVIOUS
  <2>1. /\ pc = [r \in Requests |-> "start"]
        /\ ctx = [r \in Requests |-> "live"]
        /\ chain = [r \in Requests |-> <<>>]
        /\ pos = [r \in Requests |-> 1]
        /\ failures = [r \in Requests |-> <<>>]
    BY DEF Init, RequestsInit
  <2>2. Phases = [r \in Requests |-> "new"]
    BY <2>1, Places DEF Phases
  <2>3. Reasons = [r \in Requests |-> <<>>]
    BY <2>1 DEF Reasons
  <2>4. Gone = {}
    BY <2>1 DEF Gone, Ended
  <2>5. QED
    BY <2>1, <2>2, <2>3, <2>4 DEF Promise!Init, Aligned
<1>2. QED
  BY <1>1, StepImplements, TypeInvariant, PTL DEF Spec, KeepsPromise, Promise!Spec
-----------------------------------------------------------------------------
\* The errors that Chat may record for r: an error with a cause has no status,
\* and one that says "canceled" comes from the context of r.
Known(r, err) ==
    /\ err.status \in Statuses \cup {0, 429}
    /\ err.cause # "none" => err.status = 0
    /\ err.cause = "canceled" => ctx[r] = "canceled"

\* What Chat returns has what its caller reads from it: a served request the
\* target that served it, a route error a last failure.
AnswerOf(r) ==
    /\ pc[r] \notin {"start", "noRoute"} => chain[r] # <<>>
    /\ pc[r] = "served" => pos[r] <= Len(chain[r])
    /\ pc[r] = "routeError" => failures[r] # <<>>
    /\ \A i \in 1 .. Len(failures[r]) : Known(r, failures[r][i].err)

Answerable == \A r \in Requests : AnswerOf(r)

RouteInv == Aligned /\ Answerable

LEMMA CallErrorsKnown ==
    ASSUME TypeOK, NEW r \in Requests
    PROVE  /\ \A err \in CallErrors(r) : Known(r, err)
           /\ Known(r, ContextError(ctx[r])) \/ ~Ended(r)
           /\ Known(r, UnregisteredError)
           /\ Known(r, RateLimitedError)
<1>1. ctx[r] \in {"live"} \cup ContextCauses
  BY DEF TypeOK
<1>2. ASSUME NEW err \in CallErrors(r)
      PROVE  Known(r, err)
  BY <1>1, <1>2
     DEF CallErrors, ProviderFailures, Known, HTTPError, PlainError, TransportError,
         ContextCauses
<1>3. QED
  BY <1>1, <1>2
     DEF Known, ContextError, UnregisteredError, RateLimitedError, ContextCauses, Ended

\* What a request does concerns no other request.
LEMMA AnswersApart ==
    ASSUME Answerable, NEW r \in Requests, AnswerOf(r)',
           \A q \in Requests \ {r} :
               /\ pc'[q] = pc[q] /\ pos'[q] = pos[q] /\ chain'[q] = chain[q]
               /\ failures'[q] = failures[q] /\ ctx'[q] = ctx[q]
    PROVE  Answerable'
<1> SUFFICES ASSUME NEW q \in Requests \ {r}
             PROVE  AnswerOf(q)'
  BY DEF Answerable
<1>1. AnswerOf(q)
  BY DEF Answerable
<1>2. QED
  BY <1>1 DEF AnswerOf, Known

\* A request that goes on within its chain.
LEMMA GoesOnAnswerable ==
    ASSUME TypeInv, Answerable, NEW r \in Requests,
           NEW place \in AtTarget \cup {"contextError"},
           pc[r] \in AtTarget \cup {"target"}, pc' = [pc EXCEPT ![r] = place],
           UNCHANGED <<pos, chain, failures, ctx>>
    PROVE  Answerable'
<1>1. pc \in [Requests -> Working \cup Returned]
  BY DEF TypeInv, TypeOK
<1>2. AnswerOf(r)
  BY DEF Answerable
<1>3. AnswerOf(r)'
  BY <1>1, <1>2 DEF AnswerOf, Known, AtTarget
<1>4. QED
  BY <1>1, <1>3, AnswersApart

\* A request that records a known error.
LEMMA RecordsAnswerable ==
    ASSUME TypeInv, Answerable, NEW r \in Requests, pc[r] \in AtTarget,
           NEW err \in Errors, Known(r, err),
           NextTarget(r, err) \/ Finish(r, err), UNCHANGED <<chain, ctx>>
    PROVE  Answerable'
<1>1. /\ pc \in [Requests -> Working \cup Returned]
      /\ pos \in [Requests -> Nat]
  BY DEF TypeInv, TypeOK
<1>2. /\ failures' = Recorded(r, err)
      /\ pc'[r] \in {"target", "routeError"}
      /\ \A q \in Requests \ {r} : pc'[q] = pc[q] /\ pos'[q] = pos[q]
  BY <1>1 DEF NextTarget, Finish
<1>3. AnswerOf(r)
  BY DEF Answerable
<1>4. \A i \in 1 .. Len(failures'[r]) : Known(r, failures'[r][i].err)
  <2> SUFFICES ASSUME NEW i \in 1 .. Len(failures'[r])
               PROVE  Known(r, failures'[r][i].err)
    OBVIOUS
  <2>1. CASE i \in 1 .. Len(failures[r])
    BY <1>2, <1>3, <2>1, RecordedFacts DEF AnswerOf
  <2>2. CASE i = Len(failures[r]) + 1
    BY <1>2, <2>2, RecordedFacts
  <2>3. QED
    BY <1>2, <2>1, <2>2, RecordedFacts
<1>5. failures'[r] # <<>>
  BY <1>2, RecordedFacts
<1>6. chain'[r] # <<>>
  BY <1>3 DEF AnswerOf, AtTarget
<1>7. AnswerOf(r)'
  BY <1>2, <1>4, <1>5, <1>6 DEF AnswerOf, Known
<1>8. QED
  BY <1>2, <1>7, RecordedFacts, AnswersApart

(***************************************************************************)
(* A request that failed along its chain has a last failure to be answered *)
(* with, and one that was served a target to be billed for.                *)
(***************************************************************************)
THEOREM RouteInvariant == Spec => []RouteInv
<1>1. Init => RouteInv
  BY DEF Init, RequestsInit, RouteInv, Aligned, Answerable, AnswerOf
<1>2. TypeInv /\ RouteInv /\ [Next]_vars => RouteInv'
  <2> SUFFICES ASSUME TypeInv, Aligned, Answerable, [Next]_vars
               PROVE  Answerable'
    BY StepImplements DEF RouteInv
  <2>0. /\ TypeOK
        /\ pc \in [Requests -> Working \cup Returned]
        /\ chain \in [Requests -> Chains]
        /\ ctx \in [Requests -> {"live"} \cup ContextCauses]
    BY DEF TypeInv, TypeOK
  <2>1. ASSUME NEW r \in Requests, Resolve(r)
        PROVE  Answerable'
    <3>1. AnswerOf(r)
      BY DEF Answerable
    <3>2. AnswerOf(r)'
      BY <2>0, <2>1, <3>1 DEF Resolve, AnswerOf, Known
    <3>3. QED
      BY <2>0, <2>1, <3>2, AnswersApart DEF Resolve
  <2>2. ASSUME NEW r \in Requests, CheckContext(r)
        PROVE  Answerable'
    <3> DEFINE place == IF Ended(r) THEN "contextError" ELSE "lookup"
    <3>1. place \in AtTarget \cup {"contextError"}
      BY DEF AtTarget
    <3>2. pc[r] = "target" /\ pc' = [pc EXCEPT ![r] = place]
      BY <2>2 DEF CheckContext
    <3> HIDE DEF place
    <3>3. QED
      BY <2>2, <3>1, <3>2, GoesOnAnswerable DEF CheckContext
  <2>3. ASSUME NEW r \in Requests, ChainExhausted(r)
        PROVE  Answerable'
    <3>1. AnswerOf(r)
      BY DEF Answerable
    <3>2. /\ Len(chain[r]) \in Nat \ {0}
          /\ pos[r] \in Nat /\ Len(failures[r]) = pos[r] - 1
      BY <2>0, <2>3, <3>1, ChainFacts
         DEF ChainExhausted, AnswerOf, Aligned, Working, TypeInv, TypeOK
    <3>3. failures[r] # <<>>
      BY <2>3, <3>2 DEF ChainExhausted
    <3>4. AnswerOf(r)'
      BY <2>0, <2>3, <3>1, <3>3 DEF ChainExhausted, AnswerOf, Known
    <3>5. QED
      BY <2>0, <2>3, <3>4, AnswersApart DEF ChainExhausted
  <2>4. ASSUME NEW r \in Requests, LookupRegistered(r)
        PROVE  Answerable'
    <3> DEFINE place == IF limiter'[r] = NoLimiter THEN "attempt" ELSE "admit"
    <3>1. place \in AtTarget \cup {"contextError"}
      BY DEF AtTarget
    <3>2. pc[r] = "lookup" /\ pc' = [pc EXCEPT ![r] = place]
      BY <2>4 DEF LookupRegistered
    <3> HIDE DEF place
    <3>3. QED
      BY <2>4, <3>1, <3>2, GoesOnAnswerable DEF LookupRegistered, AtTarget
  <2>5. ASSUME NEW r \in Requests, LookupUnregistered(r) \/ RateLimited(r)
        PROVE  Answerable'
    BY <2>0, <2>5, ErrorTypes, CallErrorsKnown, RecordsAnswerable
       DEF LookupUnregistered, RateLimited, AtTarget
  <2>6. ASSUME NEW r \in Requests,
               Admitted(r) \/ StartCall(r) \/ BackoffElapses(r)
        PROVE  Answerable'
    <3>1. CASE Admitted(r)
      BY <3>1, GoesOnAnswerable DEF Admitted, AtTarget
    <3>2. CASE StartCall(r)
      BY <3>2, GoesOnAnswerable DEF StartCall, AtTarget
    <3>3. CASE BackoffElapses(r)
      BY <3>3, GoesOnAnswerable DEF BackoffElapses, AtTarget
    <3>4. QED
      BY <2>6, <3>1, <3>2, <3>3
  <2>7. ASSUME NEW r \in Requests, GiveUpBeforeCall(r) \/ BackoffCancelled(r)
        PROVE  Answerable'
    <3>1. /\ pc[r] \in AtTarget
          /\ Ended(r)
          /\ Finish(r, ContextError(ctx[r]))
          /\ UNCHANGED <<chain, ctx>>
      BY <2>7 DEF GiveUpBeforeCall, BackoffCancelled, AtTarget
    <3>2. QED
      BY <2>0, <3>1, CallErrorKinds, CallErrorsKnown, RecordsAnswerable
  <2>8. ASSUME NEW r \in Requests, ReturnOK(r)
        PROVE  Answerable'
    <3>1. AnswerOf(r)
      BY DEF Answerable
    <3>2. pos[r] <= Len(chain[r])
      BY <2>8 DEF ReturnOK, TypeInv, Positioned, AtTarget
    <3>3. AnswerOf(r)'
      BY <2>0, <2>8, <3>1, <3>2 DEF ReturnOK, AnswerOf, Known
    <3>4. QED
      BY <2>0, <2>8, <3>3, AnswersApart DEF ReturnOK
  <2>9. ASSUME NEW r \in Requests, ReturnError(r)
        PROVE  Answerable'
    <3>1. pc[r] = "calling" /\ UNCHANGED <<chain, ctx>>
      BY <2>9 DEF ReturnError
    <3>2. PICK err \in CallErrors(r) :
            IF TriesAgain(r, err)
            THEN /\ pc' = [pc EXCEPT ![r] = "backoff"]
                 /\ UNCHANGED <<pos, failures>>
            ELSE Finish(r, err)
      BY <2>9 DEF ReturnError
    <3>3. CASE TriesAgain(r, err)
      BY <3>1, <3>2, <3>3, GoesOnAnswerable DEF AtTarget
    <3>4. CASE ~TriesAgain(r, err)
      BY <2>0, <3>1, <3>2, <3>4, CallErrorKinds, CallErrorsKnown, RecordsAnswerable
         DEF AtTarget
    <3>5. QED
      BY <3>3, <3>4
  <2>10. ASSUME NEW r \in Requests, NEW c \in EndCauses, EndContext(r, c)
         PROVE  Answerable'
    <3>1. AnswerOf(r)
      BY DEF Answerable
    <3>2. AnswerOf(r)'
      BY <2>10, <3>1 DEF EndContext, Ended, AnswerOf, Known, local
    <3>3. QED
      BY <2>0, <2>10, <3>2, AnswersApart DEF EndContext, local
  <2>11. ASSUME UNCHANGED <<pc, pos, chain, failures, ctx>>
         PROVE  Answerable'
    BY <2>11 DEF Answerable, AnswerOf, Known
  <2>12. CASE Tick \/ Configure \/ UNCHANGED vars
    BY <2>11, <2>12
       DEF Tick, Configure, Register, SetLimiter, AddRoute, SetDefaultRoute, local, vars
  <2>13. QED
    BY <2>1, <2>2, <2>3, <2>4, <2>5, <2>6, <2>7, <2>8, <2>9, <2>10, <2>12
       DEF Next, Serve, Step, AllReturned
<1>3. QED
  BY <1>1, <1>2, TypeInvariant, PTL DEF Spec
=============================================================================
