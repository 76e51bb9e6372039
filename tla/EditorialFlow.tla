---------------------------- MODULE EditorialFlow ----------------------------
(***************************************************************************)
(* The editorial workflow of one content entry: WorkflowService, the gate  *)
(* it puts in front of ContentService.publish, and the schedules a worker  *)
(* executes.  The workflow instance is one record that every operation     *)
(* reads, changes in its own copy and writes back whole, with no check     *)
(* that it is still the record that was read; most operations write it     *)
(* twice, once more for the notification.  Each database call is one step  *)
(* of the process that serves the request, and processes crash.            *)
(*                                                                         *)
(* The definition is the default one, with a required number of approvals. *)
(* What does not change about an approval request or a schedule is kept    *)
(* beside the instance, under the id the instance has.  Of the history the *)
(* completed transitions are followed, and each has one durable action.    *)
(***************************************************************************)
EXTENDS Naturals, FiniteSets, TLC

CONSTANTS
    Proc,          \* requests and worker passes that may run at one time
    Worker,        \* those that are the worker's passes
    Actor, Publisher,  \* people, and those with the role publisher or admin
    Request, Schedule, \* ids of approval requests and schedules
    MinApprovals,  \* minimumApprovals of the approve transition
    Op, Offered,   \* operations and transitions that are requested
    FollowHistory, \* whether the history is followed
    Start,         \* where the instance may stand at first
    None,
    MaxOps, MaxCrashes   \* bounds of the model

ASSUME FlowAssumption ==
    /\ Worker \subseteq Proc
    /\ Publisher \subseteq Actor /\ IsFiniteSet(Actor)
    /\ MinApprovals \in Nat \ {0}
    /\ FollowHistory \in BOOLEAN
    /\ Start \subseteq {"none", "draft", "in-review"}
    /\ None \notin Request \cup Schedule
    /\ MaxOps \in Nat /\ MaxCrashes \in Nat

VARIABLES
    draft, published,  \* revision pointers of the entry; revisions are numbered
    instance,          \* the workflow instance
    proc,              \* what each process is doing
    requests,          \* approval requests, and history: who approved them
    schedules,         \* what was scheduled
    clock,             \* schedules whose time has come, requests overdue
    jobs,              \* actions that are enqueued: their transition, and the
                       \* revision the instance was about, which are their key
    made,              \* history: transitions completed so far
    spent              \* operations and crashes so far

vars == <<draft, published, instance, proc, requests, schedules, clock, jobs,
          made, spent>>
entry == <<draft, published>>
given == <<requests, schedules>>

-----------------------------------------------------------------------------
(* The definition of the workflow *)

From == [submit |-> "draft", approve |-> "in-review", changes |-> "in-review",
         publish |-> "approved", revise |-> "published",
         archive |-> "published", restore |-> "archived"]
To == [submit |-> "in-review", approve |-> "approved", changes |-> "draft",
       publish |-> "published", revise |-> "draft",
       archive |-> "archived", restore |-> "draft"]
Transition == DOMAIN From
State == {"draft", "in-review", "approved", "published", "archived"}
ASSUME OfferedAssumption == Offered \subseteq Transition

ForAuthors == {"submit", "approve", "revise"}

HasRole(a, t) == t \in ForAuthors \/ a \in Publisher

-----------------------------------------------------------------------------
(* The instance *)

NoInstance == [state |-> "none", rev |-> 0, request |-> None, yes |-> {},
               late |-> FALSE, sched |-> [i \in Schedule |-> "none"], hist |-> {}]
FirstInstance(r) == [NoInstance EXCEPT !.state = "draft", !.rev = r]

NoPending(c) == [c EXCEPT !.request = None, !.yes = {}, !.late = FALSE]

\* Mutant: the state gets the id of the transition.
MovedAstray(c, t, e) == [NoPending(c) EXCEPT !.state = t]
Moved(c, t, e) ==
    [NoPending(c) EXCEPT !.state = To[t],
                         !.hist = IF FollowHistory THEN @ \cup {e} ELSE @]

\* draftUpdated: back to the initial state, for the new revision.  Mutant: the
\* state is kept.
ForRevisionOnly(c, r) ==
    [NoPending(c) EXCEPT !.rev = r,
        !.sched = [i \in Schedule |-> IF @[i] = "pending" THEN "cancelled" ELSE @[i]]]
ForRevision(c, r) ==
    [NoPending(c) EXCEPT !.state = "draft", !.rev = r,
        !.sched = [i \in Schedule |-> IF @[i] = "pending" THEN "cancelled" ELSE @[i]]]

-----------------------------------------------------------------------------
(* Processes *)

Idle == [pc |-> "idle", op |-> "none", by |-> None, t |-> "none", want |-> None,
         seen |-> 0, copy |-> NoInstance, event |-> 0,
         pass |-> FALSE, own |-> NoInstance, todo |-> {}, job |-> None]

At(p, pc) == proc[p].pc = pc
Become(p, s) == proc' = [proc EXCEPT ![p] = s]

\* An operation a worker's pass executes returns, or throws, into the pass.
Done(s) == IF s.job = None THEN IF s.pass THEN [s EXCEPT !.pc = "pass"] ELSE Idle
           ELSE [s EXCEPT !.pc = "reread"]
Thrown(s) == IF s.job = None THEN Idle ELSE [s EXCEPT !.pc = "failed"]

\* What the operations check before they write.  Mutants: a transition may lead
\* to the published state; who asked may decide.
MayTransitionAnywhere(s, c) ==
    /\ c.rev = s.seen /\ c.request = None
    /\ From[s.t] = c.state /\ HasRole(s.by, s.t)
MayTransition(s, c) ==
    /\ c.rev = s.seen /\ c.request = None
    /\ From[s.t] = c.state /\ HasRole(s.by, s.t)
    /\ To[s.t] # "published"

MayDecideAlone(s, c) ==
    /\ c.request # None /\ c.request = s.want
    /\ requests[s.want].rev = s.seen
    /\ c.state = "in-review" /\ s.by \in Publisher /\ s.by \notin c.yes
MayDecide(s, c) ==
    /\ c.request # None /\ c.request = s.want
    /\ requests[s.want].rev = s.seen
    /\ c.state = "in-review" /\ s.by \in Publisher
    /\ s.by # requests[s.want].by /\ s.by \notin c.yes

MaySchedule(s, c) ==
    From[s.t] = c.state /\ HasRole(s.by, s.t) /\ s.t # "approve"
MayCancel(s, c) ==
    c.sched[s.want] = "pending" /\ HasRole(s.by, schedules[s.want].t)

\* assertCanPublish.  Mutant: the revision is not looked at.
MayPublishAnyRevision(s, c) ==
    c.request = None /\ c.state = "approved" /\ HasRole(s.by, "publish")
MayPublish(s, c) ==
    /\ c.rev = s.seen /\ c.request = None
    /\ c.state = "approved" /\ HasRole(s.by, "publish")

Admits(s, c) ==
    \/ s.op = "transition" /\ MayTransition(s, c)
    \/ s.op \in {"approve", "reject"} /\ MayDecide(s, c)
    \/ s.op = "schedule" /\ MaySchedule(s, c)
    \/ s.op = "cancel" /\ MayCancel(s, c)
    \/ s.op = "update"
    \/ s.op = "publish" /\ MayPublish(s, c)
    \/ s.op = "published" /\ c.state = "approved"

Checked(s, c) ==
    IF Admits(s, c)
    THEN [s EXCEPT !.copy = c, !.pc = IF s.op = "publish" THEN "commit" ELSE "save"]
    ELSE Thrown(s)

-----------------------------------------------------------------------------
(* Requests *)

Booked == {i \in Schedule : schedules[i].rev # 0}
Asked == {q \in Request : requests[q].rev # 0}

\* What a client may ask for: the ids it names were given out before.
Call ==
    [op : {"transition"}, by : Actor, t : Offered, want : {None}]
    \cup [op : {"approve", "reject"}, by : Actor, t : {"approve"}, want : Asked]
    \cup [op : {"schedule"}, by : Publisher, t : Offered, want : {None}]
    \cup [op : {"cancel"}, by : Publisher, t : {"none"}, want : Booked]
    \cup [op : {"update"}, by : Publisher, t : {"none"}, want : 1..draft]
    \cup [op : {"publish"}, by : Publisher, t : {"publish"}, want : 1..draft]

Begin(p, call) ==
    /\ p \notin Worker /\ At(p, "idle")
    /\ call.op \in Op /\ spent.ops < MaxOps
    /\ spent' = [spent EXCEPT !.ops = @ + 1]
    /\ Become(p, [Idle EXCEPT !.pc = "entry", !.op = call.op, !.by = call.by,
                              !.t = call.t, !.want = call.want])
    /\ UNCHANGED <<entry, instance, given, clock, jobs, made>>

\* ContentService.get, with the draft perspective
ReadEntry(p) ==
    /\ At(p, "entry")
    /\ Become(p, [proc[p] EXCEPT !.seen = draft,
                     !.pc = IF proc[p].op = "update" THEN "write" ELSE "look"])
    /\ UNCHANGED <<entry, instance, given, clock, jobs, made, spent>>

\* repository.updateDraft, if expectedRevisionId still is the draft
WriteDraft(p) ==
    /\ At(p, "write")
    /\ IF draft = proc[p].want
       THEN /\ draft' = draft + 1
            /\ Become(p, [proc[p] EXCEPT !.seen = draft + 1, !.pc = "look"])
       ELSE /\ Become(p, Idle)
            /\ UNCHANGED draft
    /\ UNCHANGED <<published, instance, given, clock, jobs, made, spent>>

\* getInstance, and the checks of the operation on what it returned
ReadInstance(p) ==
    /\ At(p, "look")
    /\ Become(p, IF instance.state = "none" THEN [proc[p] EXCEPT !.pc = "ensure"]
                 ELSE Checked(proc[p], instance))
    /\ UNCHANGED <<entry, instance, given, clock, jobs, made, spent>>

\* ensureInstance, when it had found no instance
EnsureInstance(p) ==
    LET c == FirstInstance(proc[p].seen) IN
    /\ At(p, "ensure")
    /\ instance' = c
    /\ Become(p, Checked(proc[p], c))
    /\ UNCHANGED <<entry, given, clock, jobs, made, spent>>

\* saveInstance: the whole record, whatever is there by now
Save(p, c, pc) ==
    /\ instance' = c
    /\ Become(p, [proc[p] EXCEPT !.copy = c, !.pc = pc])

RequestApproval(p) ==
    /\ At(p, "save") /\ proc[p].op = "transition" /\ proc[p].t = "approve"
    /\ \E q \in Request :
          /\ requests[q].rev = 0
          /\ requests' = [requests EXCEPT ![q].rev = proc[p].copy.rev,
                                          ![q].by = proc[p].by]
          /\ Save(p, [proc[p].copy EXCEPT !.request = q, !.yes = {}, !.late = FALSE],
                  "notify")
    /\ UNCHANGED <<entry, schedules, clock, jobs, made, spent>>

\* decideApproval records the decision ...
Decide(p) ==
    LET s == proc[p] IN
    /\ At(p, "save") /\ s.op \in {"approve", "reject"}
    /\ IF s.op = "approve"
       THEN /\ requests' = [requests EXCEPT ![s.want].yes = @ \cup {s.by}]
            /\ Save(p, [s.copy EXCEPT !.yes = @ \cup {s.by}], "notify")
       ELSE /\ Save(p, NoPending(s.copy), "notify")
            /\ UNCHANGED requests
    /\ UNCHANGED <<entry, schedules, clock, jobs, made, spent>>

\* ... and completes the transition when there are enough.  Mutant: off by one.
EnoughButOne(c) == Cardinality(c.yes) + 1 >= MinApprovals
Enough(c) == Cardinality(c.yes) >= MinApprovals

\* #completeTransition
CompleteTransition(p) ==
    LET s == proc[p] IN
    /\ \/ At(p, "save") /\ s.op = "transition" /\ s.t # "approve"
       \/ At(p, "save") /\ s.op = "published"
       \/ At(p, "complete")
    /\ made' = IF FollowHistory THEN made + 1 ELSE made
    /\ instance' = Moved(s.copy, s.t, made + 1)
    /\ Become(p, [s EXCEPT !.copy = Moved(s.copy, s.t, made + 1),
                           !.event = made', !.pc = "enqueue"])
    /\ UNCHANGED <<entry, given, clock, jobs, spent>>

\* #enqueueTransitionActions
EnqueueActions(p) ==
    /\ At(p, "enqueue")
    /\ jobs' = IF FollowHistory THEN jobs \cup {<<proc[p].event, proc[p].copy.rev>>}
             ELSE jobs
    /\ Become(p, [proc[p] EXCEPT !.pc = "notify", !.op = "completed"])
    /\ UNCHANGED <<entry, instance, given, clock, made, spent>>

\* #notify: the record once more, as the process has it
Notify(p) ==
    LET s == proc[p] IN
    /\ At(p, "notify")
    /\ instance' = s.copy
    /\ Become(p, IF s.op = "approve" /\ Enough(s.copy)
                 THEN [s EXCEPT !.pc = "complete"] ELSE Done(s))
    /\ UNCHANGED <<entry, given, clock, jobs, made, spent>>

ScheduleTransition(p) ==
    LET s == proc[p] IN
    /\ At(p, "save") /\ s.op = "schedule"
    /\ \E i \in Schedule :
          /\ schedules[i].rev = 0
          /\ schedules' = [schedules EXCEPT
                 ![i] = [rev |-> s.copy.rev, t |-> s.t, by |-> s.by]]
          /\ Save(p, [s.copy EXCEPT !.sched[i] = "pending"], "notify")
    /\ UNCHANGED <<entry, requests, clock, jobs, made, spent>>

CancelSchedule(p) ==
    /\ At(p, "save") /\ proc[p].op = "cancel"
    /\ Save(p, [proc[p].copy EXCEPT !.sched[proc[p].want] = "cancelled"], "notify")
    /\ UNCHANGED <<entry, given, clock, jobs, made, spent>>

DraftUpdated(p) ==
    /\ At(p, "save") /\ proc[p].op = "update"
    /\ instance' = ForRevision(proc[p].copy, proc[p].seen)
    /\ Become(p, Idle)
    /\ UNCHANGED <<entry, given, clock, jobs, made, spent>>

\* repository.publish, if expectedRevisionId still is the draft; then
\* contentPublished
Publish(p) ==
    /\ At(p, "commit")
    /\ IF draft = proc[p].want
       THEN /\ published' = draft
            /\ Become(p, [proc[p] EXCEPT !.op = "published", !.pc = "look"])
       ELSE /\ Become(p, Thrown(proc[p]))
            /\ UNCHANGED published
    /\ UNCHANGED <<draft, instance, given, clock, jobs, made, spent>>

\* The quality gate or the route check refuses.
RefusePublish(p) ==
    /\ At(p, "commit")
    /\ Become(p, Thrown(proc[p]))
    /\ UNCHANGED <<entry, instance, given, clock, jobs, made, spent>>

-----------------------------------------------------------------------------
(* processDue, by the worker or through the API *)

\* reconcileActions: the keys name the revision the instance is about by now.
\* Mutant: it is not called.
NothingReconciled == {}
Reconciled == instance.hist \X {instance.rev}

BeginPass(p) ==
    /\ At(p, "idle")
    /\ p \in Worker \/ ("due" \in Op /\ spent.ops < MaxOps)
    /\ spent' = IF p \in Worker THEN spent ELSE [spent EXCEPT !.ops = @ + 1]
    /\ jobs' = jobs \cup Reconciled
    /\ Become(p, [Idle EXCEPT !.pc = "list", !.pass = TRUE])
    /\ UNCHANGED <<entry, instance, given, clock, made>>

Overdue(c) == c.request \in clock.overdue /\ ~c.late

\* The schedules due when the pass began that the record still has pending
WorkOff(s, c) ==
    [s EXCEPT !.own = c, !.pc = "pass", !.todo = {i \in @ : c.sched[i] = "pending"}]

\* listInstances, at the time that counts for the whole pass
ListInstances(p) ==
    LET s == [proc[p] EXCEPT !.copy = instance, !.todo = clock.ripe] IN
    /\ At(p, "list")
    /\ Become(p, IF instance.state = "none" THEN Idle
                 ELSE IF Overdue(instance) THEN [s EXCEPT !.pc = "escalate"]
                 ELSE WorkOff(s, instance))
    /\ UNCHANGED <<entry, instance, given, clock, jobs, made, spent>>

Escalate(p) ==
    /\ At(p, "escalate")
    /\ Save(p, [proc[p].copy EXCEPT !.late = TRUE], "escalated")
    /\ UNCHANGED <<entry, given, clock, jobs, made, spent>>

NotifyEscalated(p) ==
    /\ At(p, "escalated")
    /\ instance' = proc[p].copy
    /\ Become(p, WorkOff(proc[p], proc[p].copy))
    /\ UNCHANGED <<entry, given, clock, jobs, made, spent>>

\* executeWorkflowSchedule: publish, or request the transition, in the name of
\* who scheduled it
Executes(s, i) ==
    LET b == schedules[i]
        next == [s EXCEPT !.todo = @ \ {i}, !.job = i, !.by = b.by, !.t = b.t]
    IN  IF From[b.t] # s.own.state THEN Thrown(next)
        ELSE [next EXCEPT !.pc = "entry", !.want = b.rev,
                 !.op = IF b.t = "publish" THEN "publish" ELSE "transition"]

ExecuteSchedule(p) ==
    /\ At(p, "pass")
    /\ \E i \in proc[p].todo : Become(p, Executes(proc[p], i))
    /\ UNCHANGED <<entry, instance, given, clock, jobs, made, spent>>

\* After a success the instance is read again, ...
Reread(p) ==
    /\ At(p, "reread")
    /\ Become(p, [proc[p] EXCEPT !.own = instance, !.pc = "executed"])
    /\ UNCHANGED <<entry, instance, given, clock, jobs, made, spent>>

\* ... after an error it is the one from before.  Mutant: a schedule that
\* failed stays pending.
StaysPending == "pending"
AfterFailure == "failed"

SaveOutcome(p) ==
    LET s == proc[p]
        c == [s.own EXCEPT !.sched[s.job] =
                 IF s.pc = "executed" THEN "executed" ELSE AfterFailure]
    IN  /\ s.pc \in {"executed", "failed"}
        /\ instance' = c
        /\ Become(p, [s EXCEPT !.own = c, !.copy = c, !.job = None, !.op = "outcome",
                               !.pc = "notify"])
        /\ UNCHANGED <<entry, given, clock, jobs, made, spent>>

EndPass(p) ==
    /\ At(p, "pass") /\ proc[p].todo = {}
    /\ Become(p, Idle)
    /\ UNCHANGED <<entry, instance, given, clock, jobs, made, spent>>

-----------------------------------------------------------------------------
(* Crashes and time *)

Crash(p) ==
    /\ ~At(p, "idle") /\ spent.crashes < MaxCrashes
    /\ spent' = [spent EXCEPT !.crashes = @ + 1]
    /\ Become(p, Idle)
    /\ UNCHANGED <<entry, instance, given, clock, jobs, made>>

ScheduleComesDue(i) ==
    /\ i \in Booked \ clock.ripe
    /\ clock' = [clock EXCEPT !.ripe = @ \cup {i}]
    /\ UNCHANGED <<entry, instance, proc, given, jobs, made, spent>>

DeadlinePasses(q) ==
    /\ q \in Asked \ clock.overdue
    /\ clock' = [clock EXCEPT !.overdue = @ \cup {q}]
    /\ UNCHANGED <<entry, instance, proc, given, jobs, made, spent>>

-----------------------------------------------------------------------------
(* The specification *)

Init ==
    /\ draft = 1 /\ published = 0
    /\ \E s \in Start : instance = IF s = "none" THEN NoInstance
                                   ELSE [FirstInstance(1) EXCEPT !.state = s]
    /\ proc = [p \in Proc |-> Idle]
    /\ requests = [q \in Request |-> [rev |-> 0, by |-> None, yes |-> {}]]
    /\ schedules = [i \in Schedule |-> [rev |-> 0, t |-> "none", by |-> None]]
    /\ clock = [ripe |-> {}, overdue |-> {}]
    /\ jobs = {} /\ made = 0
    /\ spent = [ops |-> 0, crashes |-> 0]

Step(p) ==
    \/ ReadEntry(p) \/ WriteDraft(p) \/ ReadInstance(p) \/ EnsureInstance(p)
    \/ RequestApproval(p) \/ Decide(p) \/ CompleteTransition(p)
    \/ EnqueueActions(p) \/ Notify(p)
    \/ ScheduleTransition(p) \/ CancelSchedule(p) \/ DraftUpdated(p)
    \/ Publish(p) \/ RefusePublish(p)
    \/ ListInstances(p) \/ Escalate(p) \/ NotifyEscalated(p)
    \/ ExecuteSchedule(p) \/ Reread(p) \/ SaveOutcome(p) \/ EndPass(p)

Next ==
    \/ \E p \in Proc : Step(p) \/ BeginPass(p) \/ Crash(p)
    \/ \E p \in Proc, call \in Call : Begin(p, call)
    \/ \E i \in Schedule : ScheduleComesDue(i)
    \/ \E q \in Request : DeadlinePasses(q)

Spec == Init /\ [][Next]_vars

\* A process that runs goes on, the worker starts one pass after another, and
\* time passes.  Nobody has to ask for anything or to crash.
Fairness ==
    /\ \A p \in Proc : WF_vars(Step(p))
    /\ \A p \in Worker : WF_vars(BeginPass(p))
    /\ \A i \in Schedule : WF_vars(ScheduleComesDue(i))

FairSpec == Spec /\ Fairness

-----------------------------------------------------------------------------
(* Types *)

Instance == [state : State \cup {"none"}, rev : Nat, request : Request \cup {None},
             yes : SUBSET Actor, late : BOOLEAN,
             sched : [Schedule -> {"none", "pending", "executed", "cancelled",
                                   "failed"}],
             hist : SUBSET Nat]

PC == {"idle", "entry", "write", "look", "ensure", "save", "enqueue", "notify",
       "complete", "commit", "list", "escalate", "escalated", "pass", "reread",
       "executed", "failed"}

ProcState == [pc : PC,
              op : {"none", "transition", "approve", "reject", "schedule", "cancel",
                    "update", "publish", "published", "completed", "outcome"},
              by : Actor \cup {None}, t : Transition \cup {"none"},
              want : Request \cup Schedule \cup Nat \cup {None}, seen : Nat,
              copy : Instance, event : Nat, pass : BOOLEAN, own : Instance,
              todo : SUBSET Schedule, job : Schedule \cup {None}]

\* Every variable has its type.
TypeOK ==
    /\ draft \in Nat \ {0} /\ published \in 0..draft
    /\ instance \in Instance
    /\ proc \in [Proc -> ProcState]
    /\ requests \in [Request -> [rev : Nat, by : Actor \cup {None},
                                 yes : SUBSET Actor]]
    /\ schedules \in [Schedule -> [rev : Nat, t : Transition \cup {"none"},
                                   by : Actor \cup {None}]]
    /\ clock \in [ripe : SUBSET Schedule, overdue : SUBSET Request]
    /\ jobs \in SUBSET (Nat \X Nat) /\ made \in Nat
    /\ spent \in [ops : Nat, crashes : Nat]
-----------------------------------------------------------------------------
(* Safety *)

\* Enough people other than the requester approved one request for revision r.
Reviewed(r) ==
    \E q \in Request :
        /\ requests[q].rev = r
        /\ Cardinality(requests[q].yes \ {requests[q].by}) >= MinApprovals

\* What is published was reviewed, that very revision of it, although every
\* operation works on its own copy of the instance and writes it back over
\* whatever others wrote: ContentService.publish compares the revision of the
\* instance with the draft, and the repository the draft with the one expected.
PublishedWasReviewed == published # 0 => Reviewed(published)

\* No lost update of the instance makes up an approval: a record that says
\* approved, published or archived is about a revision that was reviewed.
ApprovalIsEarned ==
    instance.state \in {"approved", "published", "archived"} => Reviewed(instance.rev)

\* The review covers what is published and what the record says of it.
ReviewCovers == PublishedWasReviewed /\ ApprovalIsEarned

\* The instance says published or archived only of an entry that is published:
\* no request for a transition, scheduled or not, gets there by itself.
PublishedByPublishing ==
    instance.state \in {"published", "archived"} => published # 0

-----------------------------------------------------------------------------
(* Liveness *)

\* A schedule whose time has come is executed, failed or cancelled in the end,
\* whatever crashes and whoever writes an older record back.
SchedulesSettle ==
    \A i \in Schedule :
        i \in clock.ripe /\ instance.sched[i] = "pending" ~>
            instance.sched[i] # "pending"

\* The actions of a transition are enqueued in the end, even if the process
\* that completed it crashed, unless its event is lost from the history.
ActionsEventuallyEnqueued ==
    \A e \in 1..MaxOps :
        e \in instance.hist ~> e \in {job[1] : job \in jobs} \/ e \notin instance.hist

-----------------------------------------------------------------------------
(* What the documents say and the code does not do *)

\* docs/workflows.md: saving a draft resets the instance for it.
Quiet == \A p \in Proc : At(p, "idle")
DraftResetsWorkflow ==
    Quiet /\ instance.state # "none" /\ spent.crashes = 0 => instance.rev = draft

\* docs/workflows.md: a schedule is bound to the exact draft revision.
ScheduleBoundToRevision ==
    \A p \in Proc :
        At(p, "enqueue") /\ proc[p].job # None =>
            proc[p].copy.rev = schedules[proc[p].job].rev

\* docs/workflow-actions.md: repeated reconciliation is safe, by the uniqueness
\* of keys; but the key is another one once the instance is about a new draft.
EnqueuedOnce == \A a, b \in jobs : a[1] = b[1] => a = b
-----------------------------------------------------------------------------
(* For TLC: what may be exchanged for another of its kind.                *)

Alike == Permutations(Proc \ Worker) \cup Permutations(Publisher)
             \cup Permutations(Request) \cup Permutations(Schedule)
=============================================================================
