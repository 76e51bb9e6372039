----------------------------- MODULE Governance -----------------------------
(***************************************************************************)
(* Data governance: one versioned document per scope with the linked       *)
(* resources of a data subject, legal holds, restrictions, rights requests *)
(* and erasure plans; administrators that plan and approve; workers that   *)
(* execute approved plans against resources kept elsewhere.                *)
(*                                                                         *)
(* Every write is a compare-and-swap of the document, retried on conflict: *)
(* an action on doc is the attempt that wins.  Even an attempt that finds  *)
(* nothing to do is saved, and raises the version.                         *)
(***************************************************************************)
EXTENDS Naturals, FiniteSets, FiniteSetsExt

CONSTANTS Resources, Holds, Requests, Plans, Admins, Workers,
          MaxVersion,      \* bound on the writes of the document
          MaxResVersion,   \* bound on the edits of a resource
          None

Kinds        == {"erasure", "restriction", "export"}
RequestState == {"unused", "requested", "verified", "approved", "rejected",
                 "executing", "completed"}
PlanState    == {"unused", "preview", "approved", "executing", "completed", "blocked"}
CandState    == {"eligible", "blocked", "completed", "failed"}
Targets      == {"scope", "subject"} \cup Resources
Candidate    == [state : CandState, expected : 0..MaxResVersion]

VARIABLES
  doc,       \* the governance document
  res,       \* the governed resources: whether each exists, and its version
  keyOk,     \* the customer's key is described as active
  wk,        \* per worker: what processApprovedPlans is doing
  effects    \* how often a processor was called to erase a resource for a plan

vars == <<doc, res, keyOk, wk, effects>>

NoHold    == [status |-> "unused", target |-> "scope", at |-> 0]
NoRequest == [kind |-> "erasure", state |-> "unused", plan |-> None]
NoPlan    == [state |-> "unused", request |-> None, by |-> None, version |-> 0,
              cands |-> [r \in {} |-> None]]
IdleWk    == [pc |-> "idle", plans |-> {}, plan |-> None, todo |-> {}, cand |-> None,
              read |-> 0, key |-> FALSE, stops |-> FALSE]

NewDocument ==
  [version |-> 0, subject |-> "none", links |-> {}, restricted |-> FALSE, keyRef |-> FALSE,
   holds |-> [h \in Holds |-> NoHold], requests |-> [q \in Requests |-> NoRequest],
   plans |-> [p \in Plans |-> NoPlan]]

InitAround ==
  /\ res = [r \in Resources |-> [exists |-> TRUE, version |-> 1]]
  /\ keyOk = TRUE
  /\ wk = [w \in Workers |-> IdleWk]
  /\ effects = [p \in Plans |-> [r \in Resources |-> 0]]

Init == doc = NewDocument /\ InitAround

-----------------------------------------------------------------------------
\* The winning attempt of a mutation: the document as it was changed, one
\* version on.
Save(changed) ==
  /\ doc.version < MaxVersion
  /\ doc' = [changed EXCEPT !.version = doc.version + 1]

DocOnly == UNCHANGED <<res, keyOk, wk, effects>>

\* The holds and restrictions of a document that forbid to erase a resource
\* of the subject.
Covers(hold, r) == hold.status = "active" /\ hold.target \in {"scope", "subject", r}

HeldItself(d, r) == d.restricted \/ \E h \in Holds :   \* Mutant: the resource's own holds only.
                      d.holds[h].status = "active" /\ d.holds[h].target = r
Blocked(d, r) == d.restricted \/ \E h \in Holds : Covers(d.holds[h], r)

-----------------------------------------------------------------------------
\* Operations of administrators.

SavePolicy(keyRef) ==
  /\ keyRef => keyOk
  /\ Save([doc EXCEPT !.keyRef = keyRef])
  /\ DocOnly

CreateSubject ==
  /\ doc.subject = "none"
  /\ Save([doc EXCEPT !.subject = "active"])
  /\ DocOnly

LinkSubjectResource(r) ==
  /\ doc.subject # "none" /\ r \notin doc.links
  /\ Save([doc EXCEPT !.links = @ \cup {r}])
  /\ DocOnly

\* #assertTargetExists asks for the subject or the link.
CreateHold(h, t) ==
  /\ doc.holds[h].status = "unused"
  /\ t = "subject" => doc.subject # "none"
  /\ t \in Resources => t \in doc.links
  /\ Save([doc EXCEPT !.holds[h] =
             [status |-> "active", target |-> t, at |-> doc.version + 1]])
  /\ DocOnly

\* Releasing a released hold succeeds, and is saved like any other write.
ReleaseHold(h) ==
  /\ doc.holds[h].status # "unused"
  /\ Save([doc EXCEPT !.holds[h].status = "released"])
  /\ DocOnly

CreateRequest(q, kind) ==
  /\ doc.subject # "none" /\ doc.requests[q].state = "unused"
  /\ Save([doc EXCEPT !.requests[q] = [kind |-> kind, state |-> "requested", plan |-> None]])
  /\ DocOnly

VerifyRequest(q) ==
  /\ doc.requests[q].state = "requested"
  /\ Save([doc EXCEPT !.requests[q].state = "verified"])
  /\ DocOnly

\* A restriction takes effect with its approval.
ReviewRequest(q, approve) ==
  LET restricts == approve /\ doc.requests[q].kind = "restriction"
  IN  /\ doc.requests[q].state = "verified"
      /\ Save([doc EXCEPT
            !.requests[q].state = IF ~approve THEN "rejected"
                                  ELSE IF restricts THEN "completed" ELSE "approved",
            !.restricted = @ \/ restricts,
            !.subject = IF restricts THEN "restricted" ELSE @])
      /\ DocOnly

\* The package is gathered before; the request is checked again when the
\* export is recorded.
ExportRequest(q) ==
  /\ doc.keyRef => keyOk
  /\ doc.requests[q].kind = "export" /\ doc.requests[q].state = "approved"
  /\ Save([doc EXCEPT !.requests[q].state = "completed"])
  /\ DocOnly

\* createRetentionPlan (q = None, for the links whose time is up) and
\* createErasurePlan inspect the linked resources, one after the other, before
\* #storePlan writes the plan into the document they read: a resource may
\* have changed or gone since, or the inspection failed.
CreatePlan(a, p, q, cands) ==
  /\ doc.plans[p].state = "unused"
  /\ IF q = None THEN DOMAIN cands # {}
     ELSE /\ doc.requests[q].kind = "erasure" /\ doc.requests[q].state = "approved"
          /\ DOMAIN cands = doc.links
  /\ \A r \in DOMAIN cands :
       /\ Blocked(doc, r) => cands[r].state = "blocked"
       /\ cands[r].expected <= res[r].version
  /\ Save([doc EXCEPT
        !.plans[p] = [state |-> "preview", request |-> q, by |-> a,
                      version |-> doc.version + 1, cands |-> cands],
        !.requests = [x \in Requests |-> IF x = q THEN [@[x] EXCEPT !.plan = p] ELSE @[x]]])
  /\ DocOnly

\* The plan must be the one previewed, drawn up by someone else, of the
\* current version of the document, and free of blockers.
ApprovePlan(a, p) ==
  LET plan == doc.plans[p]
  IN  /\ doc.keyRef => keyOk
      /\ plan.state = "preview" /\ plan.by # a
      /\ plan.version = doc.version
      /\ plan.cands # [r \in {} |-> None]
      /\ \A r \in DOMAIN plan.cands : plan.cands[r].state = "eligible"
      /\ Save([doc EXCEPT !.plans[p].state = "approved", !.plans[p].version = doc.version + 1])
      /\ DocOnly

-----------------------------------------------------------------------------
\* processApprovedPlans: the plans approved at the first read, one by one.

Start(w) ==
  LET found == {p \in Plans : doc.plans[p].state = "approved"}
  IN  /\ wk[w].pc = "idle" /\ found # {}
      /\ wk' = [wk EXCEPT ![w] = [IdleWk EXCEPT !.pc = "claim", !.plans = found]]
      /\ UNCHANGED <<doc, res, keyOk, effects>>

\* Claims the plan, blocks it when it is stale, or leaves it to another
\* worker; the document is saved in each case.
ClaimableAgain(plan) == plan.state \in {"approved", "executing"}  \* Mutant: resumes a plan.
Claimable(plan) == plan.state = "approved"

Claim(w, p) ==
  LET plan  == doc.plans[p]
      fresh == plan.version = doc.version
      q     == plan.request
      next  == [wk[w] EXCEPT !.plans = @ \ {p}]
  IN  /\ wk[w].pc = "claim" /\ p \in wk[w].plans
      /\ Save(IF ~Claimable(plan) THEN doc
              ELSE [doc EXCEPT
                      !.plans[p].state = IF fresh THEN "executing" ELSE "blocked",
                      !.plans[p].version = doc.version + 1,
                      !.requests = [x \in Requests |->
                         IF x = q /\ fresh THEN [@[x] EXCEPT !.state = "executing"] ELSE @[x]]])
      /\ wk' = [wk EXCEPT ![w] =
                  IF Claimable(plan) /\ fresh
                  THEN [next EXCEPT !.pc = "check", !.plan = p, !.todo = DOMAIN plan.cands]
                  ELSE next]
      /\ UNCHANGED <<res, keyOk, effects>>

\* The read before each candidate: the plan, its version, holds, restrictions.
Check(w, r) ==
  LET plan == doc.plans[wk[w].plan]
      stop == plan.version # doc.version \/ Blocked(doc, r)
  IN  /\ wk[w].pc = "check" /\ r \in wk[w].todo
      /\ wk' = [wk EXCEPT ![w] =
                  IF plan.state # "executing" THEN [@ EXCEPT !.pc = "claim", !.todo = {}]
                  ELSE [@ EXCEPT !.pc = IF stop THEN "block" ELSE "inspect",
                                 !.cand = r, !.read = doc.version, !.key = keyOk]]
      /\ UNCHANGED <<doc, res, keyOk, effects>>

\* The placement, which may be refused, and the resource, after the document
\* was read.
Inspect(w, fails) ==
  LET r  == wk[w].cand
      ok == /\ ~fails /\ res[r].exists
            /\ res[r].version = doc.plans[wk[w].plan].cands[r].expected
  IN  /\ wk[w].pc = "inspect"
      /\ wk' = [wk EXCEPT ![w].pc = IF ok THEN "erase" ELSE "block"]
      /\ UNCHANGED <<doc, res, keyOk, effects>>

\* The processor erases the resource, or finds it gone; or it fails.
Erase(w) ==
  LET r == wk[w].cand
  IN  /\ wk[w].pc = "erase"
      /\ res' = [res EXCEPT ![r].exists = FALSE]
      /\ effects' = [effects EXCEPT ![wk[w].plan][r] = @ + 1]
      /\ wk' = [wk EXCEPT ![w].pc = "record"]
      /\ UNCHANGED <<doc, keyOk>>

\* The processor fails, or every attempt to save its receipt meets a conflict.
EraseFailsQuietly(w) ==   \* Mutant: the error is swallowed.
  /\ wk[w].pc = "erase"
  /\ wk' = [wk EXCEPT ![w].pc = "record"]
  /\ UNCHANGED <<doc, res, keyOk, effects>>
EraseFails(w) ==
  /\ wk[w].pc \in {"erase", "record"}
  /\ wk' = [wk EXCEPT ![w].pc = "fail"]
  /\ UNCHANGED <<doc, res, keyOk, effects>>

\* #completeCandidate: the plan takes the version this write makes current,
\* whatever was written since the check.
CompleteCandidate(w) ==
  LET p == wk[w].plan
      r == wk[w].cand
      left == wk[w].todo \ {r}
  IN  /\ wk[w].pc = "record"
      /\ Save(IF doc.plans[p].cands[r].state = "completed" THEN doc
              ELSE [doc EXCEPT !.plans[p].cands[r].state = "completed",
                               !.plans[p].version = doc.version + 1])
      /\ wk' = [wk EXCEPT ![w].todo = left,
                          ![w].pc = IF left = {} THEN "finish" ELSE "check"]
      /\ UNCHANGED <<res, keyOk, effects>>

\* #blockCandidate and #failCandidate end the plan.
StopCandidate(w) ==
  LET p == wk[w].plan
      s == IF wk[w].pc = "block" THEN "blocked" ELSE "failed"
  IN  /\ wk[w].pc \in {"block", "fail"}
      /\ Save([doc EXCEPT !.plans[p].cands[wk[w].cand].state = s,
                          !.plans[p].state = "blocked",
                          !.plans[p].version = doc.version + 1])
      /\ wk' = [wk EXCEPT ![w].pc = "claim", ![w].todo = {}]
      /\ UNCHANGED <<res, keyOk, effects>>

\* The end of a plan; a plan for a subject also erases the subject.
CompletePlan(w) ==
  LET p == wk[w].plan
      q == doc.plans[p].request
  IN  /\ wk[w].pc = "finish"
      /\ Save(IF doc.plans[p].state # "executing" THEN doc
              ELSE [doc EXCEPT
                      !.plans[p].state = "completed",
                      !.plans[p].version = doc.version + 1,
                      !.requests = [x \in Requests |->
                         IF x = q THEN [@[x] EXCEPT !.state = "completed"] ELSE @[x]],
                      !.subject = IF q # None THEN "erased" ELSE @])
      /\ wk' = [wk EXCEPT ![w].pc = "claim"]
      /\ UNCHANGED <<res, keyOk, effects>>

Finish(w) ==
  /\ wk[w].pc = "claim" /\ wk[w].plans = {}
  /\ wk' = [wk EXCEPT ![w] = IdleWk]
  /\ UNCHANGED <<doc, res, keyOk, effects>>

\* The process of the worker dies; it comes back with nothing in memory.
Crash(w) ==
  /\ wk[w].pc # "idle"
  /\ wk' = [wk EXCEPT ![w] = IdleWk]
  /\ UNCHANGED <<doc, res, keyOk, effects>>

-----------------------------------------------------------------------------
\* Around the service: editors save resources, some time after the write gate
\* let them pass; the key service and the key change.

EditResource(r) ==
  /\ res[r].exists /\ res[r].version < MaxResVersion
  /\ res' = [res EXCEPT ![r].version = @ + 1]
  /\ UNCHANGED <<doc, keyOk, wk, effects>>

KeyChanges ==
  /\ keyOk' = ~keyOk
  /\ UNCHANGED <<doc, res, wk, effects>>

\* A candidate as it is inspected.
Inspected == {c \in Candidate : \/ c.state = "eligible" /\ c.expected > 0
                                \/ c.state = "blocked" /\ c.expected = 0}

Administer ==
  \/ \E k \in BOOLEAN : SavePolicy(k)
  \/ CreateSubject
  \/ \E r \in Resources : LinkSubjectResource(r)
  \/ \E h \in Holds : ReleaseHold(h) \/ \E t \in Targets : CreateHold(h, t)
  \/ \E q \in Requests : \/ \E k \in Kinds : CreateRequest(q, k)
                         \/ VerifyRequest(q) \/ ExportRequest(q)
                         \/ \E b \in BOOLEAN : ReviewRequest(q, b)
  \/ \E a \in Admins, p \in Plans :
       \/ ApprovePlan(a, p)
       \/ \E q \in Requests \cup {None}, links \in SUBSET doc.links :
            \E cands \in [links -> Inspected] : CreatePlan(a, p, q, cands)

Work(w) ==
  \/ Start(w) \/ Erase(w) \/ EraseFails(w) \/ CompleteCandidate(w)
  \/ StopCandidate(w) \/ CompletePlan(w) \/ Finish(w)
  \/ \E p \in Plans : Claim(w, p)
  \/ \E r \in Resources : Check(w, r)
  \/ \E b \in BOOLEAN : Inspect(w, b)

Environment ==
  \/ \E w \in Workers : Crash(w)
  \/ \E r \in Resources : EditResource(r)
  \/ KeyChanges

Next == Administer \/ (\E w \in Workers : Work(w)) \/ Environment

Spec == Init /\ [][Next]_vars

-----------------------------------------------------------------------------
TypeOK ==
  /\ doc.version \in 0..MaxVersion
  /\ doc.subject \in {"none", "active", "restricted", "erased"}
  /\ doc.links \subseteq Resources
  /\ \A h \in Holds : doc.holds[h] \in
        [status : {"unused", "active", "released"}, target : Targets, at : 0..MaxVersion]
  /\ \A q \in Requests : doc.requests[q] \in
        [kind : Kinds, state : RequestState, plan : Plans \cup {None}]
  /\ \A p \in Plans : /\ doc.plans[p].state \in PlanState
                      /\ DOMAIN doc.plans[p].cands \subseteq doc.links
                      /\ \A r \in DOMAIN doc.plans[p].cands : doc.plans[p].cands[r] \in Candidate
  /\ res \in [Resources -> [exists : BOOLEAN, version : 1..MaxResVersion]]

Erases(w, r) ==
  wk[w].pc = "erase" /\ wk[w].cand = r /\ wk'[w].pc = "record" /\ res[r].exists

\* A hold protects a resource from the moment a worker has read the document
\* with it: whatever is erased under an active hold was checked before that
\* hold was created (the worker reads the document before every effect).
ErasesUnheld ==
  \A w \in Workers, r \in Resources : Erases(w, r) =>
    \A h \in Holds : Covers(doc.holds[h], r) => doc.holds[h].at > wk[w].read
HoldProtects == [][ErasesUnheld]_vars

\* Repeated processing does not repeat an effect: with several workers and
\* crashes at any step, a processor is called at most once per candidate.
EffectsOnce == \A p \in Plans, r \in Resources : effects[p][r] <= 1

\* A plan that is recorded as completed erased every resource it names or
\* found it erased by another plan, and its request is completed with it; a
\* subject is marked as erased only after such a plan.
CompletedMeansErased ==
  /\ \A p \in Plans : doc.plans[p].state = "completed" =>
       /\ \A r \in DOMAIN doc.plans[p].cands :
            doc.plans[p].cands[r].state = "completed" /\ ~res[r].exists
       /\ doc.plans[p].request # None => doc.requests[doc.plans[p].request].state = "completed"
  /\ doc.subject = "erased" =>
       \E p \in Plans : doc.plans[p].state = "completed" /\ doc.plans[p].request # None

\* docs/data-governance.md:26 says that the worker rechecks the state of the
\* key before each effect: with a key that was unavailable when the document
\* was read, and still is, nothing is erased.
KeyCheckedBeforeErasure ==
  [][\A w \in Workers, r \in Resources :
       Erases(w, r) /\ doc.keyRef => wk[w].key \/ keyOk]_vars
=============================================================================
