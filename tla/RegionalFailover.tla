-------------------------- MODULE RegionalFailover --------------------------
(***************************************************************************)
(* Reviewed failover of the region that may be written: plans are drawn    *)
(* up, approved by another person, executed by an adapter outside of the   *)
(* program and reconciled when its answer was lost.  The document carries  *)
(* a version that every write raises and every request names; a plan keeps *)
(* the version of its own last write, and `fresh` is the plan whose version*)
(* is still the document's, if any.                                        *)
(***************************************************************************)
EXTENDS Naturals

CONSTANTS Regions, Home, Failovers, Operators, None,
          MaxTopology     \* bound on the changes of the topology

FState  == {"none", "preview", "approved", "executing", "ambiguous", "succeeded", "failed"}
Effect  == {"uncalled", "called", "moved", "refused"}
Answers == {"succeeded", "failed", "pending", "error"}

VARIABLES
  topo,       \* the regional document: enabled, active region, topology version
  plans,      \* the failover plans of the document
  fresh,      \* the plan written by the last write of the document
  effect,     \* what the provider did about each plan, known to the adapter alone
  operator    \* per operator: the call of the adapter under way

rvars == <<topo, plans, fresh, effect, operator>>

Topology     == [enabled : BOOLEAN, active : Regions, topology : 1..MaxTopology]
FailoverPlan == [state : FState, by : Operators \cup {None}, target : Regions]

NoCall == [pc |-> "idle", plan |-> None, answer |-> "error"]

Init ==
  /\ topo = [enabled |-> FALSE, active |-> Home, topology |-> 1]
  /\ plans = [p \in Failovers |-> [state |-> "none", by |-> None, target |-> Home]]
  /\ fresh = None
  /\ effect = [p \in Failovers |-> "uncalled"]
  /\ operator = [o \in Operators |-> NoCall]

InFlight(p) == plans[p].state \in {"executing", "ambiguous"}

-----------------------------------------------------------------------------
\* A plan that is being carried out blocks the policy; so does one under
\* review, until it expires.
ExecutingOnly == \E p \in Failovers : plans[p].state = "executing"   \* Mutant: an ambiguous one does not.
BlocksChange  == \E p \in Failovers : InFlight(p)

UpdatePolicy(enabled, region) ==
  /\ ~BlocksChange
  /\ topo.topology < MaxTopology
  /\ topo' = [enabled |-> enabled, active |-> region, topology |-> topo.topology + 1]
  /\ fresh' = None
  /\ UNCHANGED <<plans, effect, operator>>

\* The adapter and the residency gate may refuse.
Preflight(o, p, target) ==
  /\ topo.enabled /\ target # topo.active /\ plans[p].state = "none"
  /\ plans' = [plans EXCEPT ![p] = [state |-> "preview", by |-> o, target |-> target]]
  /\ fresh' = p
  /\ UNCHANGED <<topo, effect, operator>>

\* Another person, for the plan the document was last written for; an expired
\* plan is refused.
Approve(o, p) ==
  /\ plans[p].state = "preview" /\ fresh = p /\ plans[p].by # o
  /\ plans' = [plans EXCEPT ![p].state = "approved"]
  /\ UNCHANGED <<topo, fresh, effect, operator>>

\* execute: the state is saved before the adapter is called.
Execute(o, p) ==
  /\ operator[o].pc = "idle"
  /\ plans[p].state = "approved" /\ fresh = p
  /\ plans' = [plans EXCEPT ![p].state = "executing"]
  /\ effect' = [effect EXCEPT ![p] = "called"]
  /\ operator' = [operator EXCEPT ![o] = [NoCall EXCEPT !.pc = "calling", !.plan = p]]
  /\ UNCHANGED <<topo, fresh>>

Reconcile(o, p) ==
  /\ operator[o].pc = "idle" /\ InFlight(p)
  /\ operator' = [operator EXCEPT ![o] = [NoCall EXCEPT !.pc = "calling", !.plan = p]]
  /\ UNCHANGED <<topo, plans, fresh, effect>>

\* The provider acts once per request id, whether or not anyone still waits.
ProviderActs(p, does) ==
  /\ effect[p] = "called" /\ does \in {"moved", "refused"}
  /\ effect' = [effect EXCEPT ![p] = does]
  /\ UNCHANGED <<topo, plans, fresh, operator>>

\* The adapter tells the truth, or the answer is lost, late or malformed.
Tells(p, answer) ==
  CASE answer = "succeeded" -> effect[p] = "moved"
    [] answer = "failed"    -> effect[p] = "refused"
    [] answer = "pending"   -> effect[p] = "called"
    [] answer = "error"     -> TRUE

AdapterAnswers(o, answer) ==
  /\ operator[o].pc = "calling" /\ Tells(operator[o].plan, answer)
  /\ operator' = [operator EXCEPT ![o].pc = "apply", ![o].answer = answer]
  /\ UNCHANGED <<topo, plans, fresh, effect>>

\* #applyResult and #markAmbiguous: for a plan that is still in flight; the
\* answer of a plan that is settled is refused.
Outcome(answer) ==
  IF answer \in {"succeeded", "failed"} THEN answer ELSE "ambiguous"

Applicable(p)  == InFlight(p)

ApplyResult(o) ==
  LET p == operator[o].plan
      moves == operator[o].answer = "succeeded"
  IN  /\ operator[o].pc = "apply"
      /\ operator' = [operator EXCEPT ![o] = NoCall]
      /\ IF Applicable(p)
         THEN /\ moves => topo.topology < MaxTopology
              /\ plans' = [plans EXCEPT ![p].state = Outcome(operator[o].answer)]
              /\ topo' = IF moves THEN [topo EXCEPT !.active = plans[p].target,
                                                    !.topology = @ + 1] ELSE topo
              /\ fresh' = p
         ELSE UNCHANGED <<topo, plans, fresh>>
      /\ UNCHANGED effect

\* The process dies, or the write meets a conflict and the request fails: the
\* plan stays executing, or ambiguous, and can be reconciled.
GiveUp(o) ==
  /\ operator[o].pc # "idle"
  /\ operator' = [operator EXCEPT ![o] = NoCall]
  /\ UNCHANGED <<topo, plans, fresh, effect>>

Next ==
  \/ \E b \in BOOLEAN, r \in Regions : UpdatePolicy(b, r)
  \/ \E p \in Failovers : \E d \in Effect : ProviderActs(p, d)
  \/ \E o \in Operators : \/ ApplyResult(o) \/ GiveUp(o)
                          \/ \E a \in Answers : AdapterAnswers(o, a)
                          \/ \E p \in Failovers : \/ Approve(o, p) \/ Execute(o, p) \/ Reconcile(o, p)
                                                  \/ \E r \in Regions : Preflight(o, p, r)

-----------------------------------------------------------------------------
TypeOK ==
  /\ topo \in Topology
  /\ plans \in [Failovers -> FailoverPlan]
  /\ fresh \in Failovers \cup {None}
  /\ effect \in [Failovers -> Effect]
  /\ operator \in [Operators -> [pc : {"idle", "calling", "apply"},
                                 plan : Failovers \cup {None}, answer : Answers]]

\* The topology changes by a policy while nothing is in flight, or once for
\* each failover that the provider carried out, to its target: lost answers,
\* late ones and two reconciliations at once change it no further, and no
\* failover is recorded as failed that moved the region.
TopologyHeld ==
  /\ topo'.topology # topo.topology =>
       \/ \A p \in Failovers : ~InFlight(p)
       \/ \E p \in Failovers : /\ InFlight(p) /\ plans'[p].state = "succeeded"
                               /\ effect[p] = "moved" /\ topo'.active = plans[p].target
  /\ topo'.active # topo.active => topo'.topology # topo.topology
  /\ \A p \in Failovers : plans'[p].state = "failed" => effect'[p] = "refused"
=============================================================================
