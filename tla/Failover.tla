------------------------------ MODULE Failover ------------------------------
(***************************************************************************)
(* What Router.Chat promises to its caller, without the means: one chain   *)
(* of targets is fixed when the request begins; its targets are taken in   *)
(* order, each of them once; a target is given up for good, and the next   *)
(* one taken, only for a reason that says that the target is not there or  *)
(* not available; the first target that answers serves the request; a      *)
(* request that fails says why for every target that was taken; and while  *)
(* targets are left it is given up only for a reason that the next one     *)
(* could not mend, or because nobody waits for it any longer.              *)
(***************************************************************************)
EXTENDS Naturals, Sequences

CONSTANTS
    Requests,
    Chains      \* the chains that may be configured

VARIABLES
    plan,     \* the chain of each request
    reasons,  \* per request, why each target so far did not serve it
    phase,    \* of each request
    gone      \* the requests whose caller no longer waits

failoverVars == <<plan, reasons, phase, gone>>

\* A target that is not there or not available makes way for the next one;
\* after any other reason the request has failed.
PassingReasons == {"absent", "unavailable"}
FinalReasons   == {"cancelled", "refused"}

Init ==
    /\ plan = [r \in Requests |-> <<>>]
    /\ reasons = [r \in Requests |-> <<>>]
    /\ phase = [r \in Requests |-> "new"]
    /\ gone = {}

Begin(r) ==
    /\ phase[r] = "new"
    /\ \E c \in Chains :
         /\ plan' = [plan EXCEPT ![r] = c]
         /\ phase' = [phase EXCEPT ![r] = IF c = <<>> THEN "unknown" ELSE "trying"]
    /\ UNCHANGED <<reasons, gone>>

TargetsLeft(r) == Len(reasons[r]) < Len(plan[r])

PassOver(r) ==
    /\ phase[r] = "trying"
    /\ TargetsLeft(r)
    /\ \E why \in PassingReasons : reasons' = [reasons EXCEPT ![r] = Append(@, why)]
    /\ UNCHANGED <<plan, phase, gone>>

Serve(r) ==
    /\ phase[r] = "trying"
    /\ TargetsLeft(r)
    /\ phase' = [phase EXCEPT ![r] = "served"]
    /\ UNCHANGED <<plan, reasons, gone>>

\* The target that was taken failed for good, or in any way for a caller that
\* no longer waits; or no target is left.
Fail(r) ==
    /\ phase[r] = "trying"
    /\ \/ /\ TargetsLeft(r)
          /\ \E why \in FinalReasons \cup (IF r \in gone THEN {"unavailable"} ELSE {}) :
               reasons' = [reasons EXCEPT ![r] = Append(@, why)]
       \/ /\ ~TargetsLeft(r)
          /\ UNCHANGED reasons
    /\ phase' = [phase EXCEPT ![r] = "failed"]
    /\ UNCHANGED <<plan, gone>>

\* The caller is found to have gone between two targets.
Abandon(r) ==
    /\ phase[r] = "trying"
    /\ r \in gone
    /\ TargetsLeft(r)
    /\ phase' = [phase EXCEPT ![r] = "abandoned"]
    /\ UNCHANGED <<plan, reasons, gone>>

Leave(r) ==
    /\ gone' = gone \cup {r}
    /\ UNCHANGED <<plan, reasons, phase>>

Next ==
    \E r \in Requests :
        Begin(r) \/ PassOver(r) \/ Serve(r) \/ Fail(r) \/ Abandon(r) \/ Leave(r)

Spec == Init /\ [][Next]_failoverVars
=============================================================================
