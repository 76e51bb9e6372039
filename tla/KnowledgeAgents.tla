-------------------------- MODULE KnowledgeAgents --------------------------
(***************************************************************************)
(* Plans of an agent for one draft: planned under a policy on an exact     *)
(* revision, reviewed by a person, executed once through the content       *)
(* service.  The execution is recorded before the draft is written and     *)
(* after it; a retry with its key picks up what is left.                   *)
(*                                                                         *)
(* The document is versioned and written by compare-and-swap.              *)
(***************************************************************************)
EXTENDS Naturals

CONSTANTS Agenda, Humans, Keys, None,
          MaxWrites,     \* bound on the writes of the document
          MaxDraft       \* bound on the revisions of the draft

PlanState == {"none", "pending", "approved", "rejected", "executing", "succeeded",
              "failed", "stale"}
Policy    == 0..2        \* the contents of the policy; 0 is disabled

VARIABLES
  know,      \* the knowledge document
  content,   \* the draft of the target: its revision, and the plan whose result it is
  human,     \* per person: the operation under way
  applied    \* how often each plan was written to the draft

kvars == <<know, content, human, applied>>

Plan == [state : PlanState, policy : Policy, rev : 0..MaxDraft, key : Keys \cup {None}]
NoPlan  == [state |-> "none", policy |-> 0, rev |-> 0, key |-> None]
Nothing == [pc |-> "idle", plan |-> None, key |-> None, version |-> 0, policy |-> 0, rev |-> 0,
            retry |-> FALSE]

Init ==
  /\ know = [version |-> 0, policy |-> 0, plans |-> [p \in Agenda |-> NoPlan],
             receipts |-> [p \in Agenda |-> None]]
  /\ content = [rev |-> 1, of |-> None]
  /\ human = [h \in Humans |-> Nothing]
  /\ applied = [p \in Agenda |-> 0]

\* #replace: the write of a document that is still the one expected.
Replace(changed) ==
  /\ know.version < MaxWrites
  /\ know' = [changed EXCEPT !.version = know.version + 1]

Then(h, pc) == human' = [human EXCEPT ![h].pc = pc]
Done(h) == human' = [human EXCEPT ![h] = Nothing]

-----------------------------------------------------------------------------
\* The prompt and the model are looked up in the gateway, which may refuse.
UpdatePolicy(policy) ==
  /\ Replace([know EXCEPT !.policy = policy])
  /\ UNCHANGED <<content, human, applied>>

\* createPlan: the document and the target are read, the agent runs, the target
\* is read again, and the plan is added to the document that was read.
CreatePlan(h, p) ==
  /\ human[h].pc = "idle" /\ know.policy # 0 /\ know.plans[p].state = "none"
  /\ human' = [human EXCEPT ![h] = [Nothing EXCEPT !.pc = "plan", !.plan = p,
                 !.version = know.version, !.policy = know.policy, !.rev = content.rev]]
  /\ UNCHANGED <<know, content, applied>>

FinishPlanning(h, ok) ==
  /\ human[h].pc = "plan"
  /\ IF ok /\ content.rev = human[h].rev THEN Then(h, "store") ELSE Done(h)
  /\ UNCHANGED <<know, content, applied>>

StorePlan(h) ==
  /\ human[h].pc = "store"
  /\ IF know.version = human[h].version
     THEN Replace([know EXCEPT !.plans[human[h].plan] =
            [state |-> "pending", policy |-> human[h].policy, rev |-> human[h].rev, key |-> None]])
     ELSE UNCHANGED know
  /\ Done(h)
  /\ UNCHANGED <<content, applied>>

\* An expired plan is refused.
ReviewPlan(p, decision) ==
  /\ know.plans[p].state = "pending" /\ decision \in {"approved", "rejected"}
  /\ Replace([know EXCEPT !.plans[p].state = decision])
  /\ UNCHANGED <<content, human, applied>>

-----------------------------------------------------------------------------
\* executePlan: a key that has its receipt gets it again (nothing happens); a
\* key of another plan is refused.
KeyFree(p, k) == \A q \in Agenda \ {p} : know.receipts[q] # k /\ know.plans[q].key # k

SamePolicy(p) == know.policy # 0 /\ know.policy = know.plans[p].policy

Execute(h, p, k) ==
  LET plan  == know.plans[p]
      retry == plan.state = "executing" /\ plan.key = k
  IN  /\ human[h].pc = "idle" /\ know.receipts[p] # k /\ KeyFree(p, k)
      /\ retry \/ (plan.state = "approved" /\ SamePolicy(p))
      /\ human' = [human EXCEPT ![h] = [Nothing EXCEPT !.pc = "target", !.plan = p, !.key = k,
                     !.version = know.version, !.retry = retry,
                     !.policy = IF SamePolicy(p) THEN know.policy ELSE 0]]
      /\ UNCHANGED <<know, content, applied>>

PlannedRevision(p) == content.rev = know.plans[p].rev

\* The target: a retry finds the result there already, or goes on; a target
\* that has changed makes the plan stale.
ReadTarget(h) ==
  LET p == human[h].plan
  IN  /\ human[h].pc = "target"
      /\ IF human[h].retry /\ content.of = p THEN Then(h, "finalize")
         ELSE IF human[h].policy = 0 THEN Done(h)
         ELSE IF ~PlannedRevision(p) THEN Then(h, "stale")
         ELSE human' = [human EXCEPT ![h].pc = IF human[h].retry THEN "write" ELSE "claim",
                                     ![h].rev = content.rev]
      /\ UNCHANGED <<know, content, applied>>

MarkStale(h) ==
  /\ human[h].pc = "stale"
  /\ IF know.version = human[h].version
     THEN Replace([know EXCEPT !.plans[human[h].plan].state = "stale"]) ELSE UNCHANGED know
  /\ Done(h)
  /\ UNCHANGED <<content, applied>>

\* The pending execution is saved before the draft is touched.
Claim(h) ==
  LET p == human[h].plan
  IN  /\ human[h].pc = "claim"
      /\ IF know.version = human[h].version
         THEN /\ Replace([know EXCEPT !.plans[p].state = "executing", !.plans[p].key = human[h].key])
              /\ Then(h, "write")
         ELSE Done(h) /\ UNCHANGED know
      /\ UNCHANGED <<content, applied>>

\* updateDraft of the content service, against the revision that was read; it
\* may refuse for reasons of its own.
UpdateDraft(h, refused) ==
  LET p == human[h].plan
  IN  /\ human[h].pc = "write"
      /\ IF ~refused /\ content.rev = human[h].rev
         THEN /\ content.rev < MaxDraft
              /\ content' = [rev |-> content.rev + 1, of |-> p]
              /\ applied' = [applied EXCEPT ![p] = @ + 1]
              /\ Then(h, "finalize")
         ELSE Then(h, "fail") /\ UNCHANGED <<content, applied>>
      /\ UNCHANGED know

\* Whatever has become of the plan since; a conflict is ignored.
MarkFailed(h, conflict) ==
  LET p == human[h].plan
  IN  /\ human[h].pc = "fail"
      /\ IF conflict THEN UNCHANGED know
         ELSE Replace([know EXCEPT !.plans[p].state = "failed", !.plans[p].key = human[h].key])
      /\ Done(h)
      /\ UNCHANGED <<content, applied>>

\* #finalizeExecution: one receipt per key; two conflicts leave the execution
\* pending.
FinalizeExecution(h, conflict) ==
  LET p == human[h].plan
  IN  /\ human[h].pc = "finalize"
      /\ IF conflict \/ know.receipts[p] = human[h].key THEN UNCHANGED know
         ELSE Replace([know EXCEPT !.plans[p].state = "succeeded", !.plans[p].key = human[h].key,
                                   !.receipts[p] = human[h].key])
      /\ Done(h)
      /\ UNCHANGED <<content, applied>>

Crash(h) ==
  /\ human[h].pc # "idle"
  /\ Done(h)
  /\ UNCHANGED <<know, content, applied>>

\* Editors save the draft themselves.
EditDraft ==
  /\ content.rev < MaxDraft
  /\ content' = [rev |-> content.rev + 1, of |-> None]
  /\ UNCHANGED <<know, human, applied>>

Next ==
  \/ \E x \in Policy : UpdatePolicy(x)
  \/ \E p \in Agenda, d \in PlanState : ReviewPlan(p, d)
  \/ \E h \in Humans :
       \/ StorePlan(h) \/ ReadTarget(h) \/ MarkStale(h) \/ Claim(h) \/ Crash(h)
       \/ \E p \in Agenda : CreatePlan(h, p) \/ \E k \in Keys : Execute(h, p, k)
       \/ \E b \in BOOLEAN : \/ FinishPlanning(h, b) \/ UpdateDraft(h, b)
                             \/ MarkFailed(h, b) \/ FinalizeExecution(h, b)
  \/ EditDraft

-----------------------------------------------------------------------------
TypeOK ==
  /\ know.version \in 0..MaxWrites /\ know.policy \in Policy
  /\ know.plans \in [Agenda -> Plan]
  /\ know.receipts \in [Agenda -> Keys \cup {None}]
  /\ content \in [rev : 1..MaxDraft, of : Agenda \cup {None}]

\* A plan reaches the draft at most once, with retries after a crash and two
\* executions at once; a receipt is only given for a plan that reached it, and
\* a plan that was rejected never does.
AppliedOnce ==
  \A p \in Agenda :
    /\ applied[p] <= 1
    /\ know.receipts[p] # None \/ know.plans[p].state = "succeeded" => applied[p] = 1
    /\ know.plans[p].state \in {"none", "pending", "approved", "rejected"} => applied[p] = 0

\* docs/knowledge-and-reviewed-agents.md:32 says that a retry reconciles a
\* partially completed update of the draft: once nobody is executing, a plan
\* that wrote the draft is not recorded as failed, where no retry takes it up.
FailedLeavesDraft ==
  (\A h \in Humans : human[h].pc = "idle") =>
    \A p \in Agenda : know.plans[p].state = "failed" => applied[p] = 0
=============================================================================
