----------------------------- MODULE ReleaseFlow -----------------------------
(***************************************************************************)
(* Multi-entry releases: ReleaseService, the part of ContentService that   *)
(* assesses, publishes and rolls back a release, and publications of       *)
(* single entries beside it.  The record of a release is read, changed in  *)
(* a copy and written back whole; the published pointers of its members    *)
(* are moved by one transaction that compares them with what was expected. *)
(* Each database call is one step; reads of one member of a release are    *)
(* one step, and so is each operation on the workflow of an entry, which   *)
(* EditorialFlow has in full.                                              *)
(*                                                                         *)
(* Of a revision its number and its route are modelled.  Schema, reference *)
(* and quality checks may refuse anything at any time.                     *)
(***************************************************************************)
EXTENDS Naturals, FiniteSets, TLC

CONSTANTS
    Proc, Entry, Release,
    Members,         \* the entries of each release
    FirstPublished,  \* entries published at first, at revision 1
    Route, RouteOf,  \* the route of each revision of each entry
    Op,              \* operations that are requested
    None,
    MaxRev, MaxOps, MaxCrashes   \* bounds of the model

ASSUME ReleaseAssumption ==
    /\ Members \in [Release -> SUBSET Entry]
    /\ \A r \in Release : Cardinality(Members[r]) >= 2
    /\ FirstPublished \subseteq Entry
    /\ RouteOf \in [Entry -> [1..MaxRev -> Route]]
    /\ Op \subseteq {"create", "validate", "schedule", "cancel", "execute", "due",
                     "rollback", "publish"}
    /\ None \notin Entry \cup Release
    /\ MaxRev \in Nat \ {0} /\ MaxOps \in Nat /\ MaxCrashes \in Nat

VARIABLES
    draft, published,  \* revision pointers of each entry; 0 is no revision
    flow,              \* workflow instance of each entry
    release,           \* release records
    proc,              \* what each process is doing
    approved,          \* history: revisions of each entry that were approved
    swapped,           \* history: releases whose pointers were moved
    restored,          \* history: releases whose pointers were moved back
    moved,             \* history: what moved the pointer of each entry, and when
    spent              \* operations and crashes so far

vars == <<draft, published, flow, release, proc, approved, swapped, restored,
          moved, spent>>
content == <<draft, published, flow, approved>>
moves == <<swapped, restored, moved>>

-----------------------------------------------------------------------------
(* Entries *)

Routed(e, rev) == RouteOf[e][rev]

\* A route of the published entries other than those in X
Taken(X, route) ==
    \E f \in Entry \ X : published[f] # 0 /\ Routed(f, published[f]) = route

\* assertCanPublish.  Mutant: the state alone.
ApprovedState(e, rev) == flow[e].state = "approved"
CanPublish(e, rev) == flow[e].state = "approved" /\ flow[e].rev = rev

\* contentPublished, for the entries of X at one go or one by one
Told(X) == [e \in Entry |-> IF e \in X THEN [flow[e] EXCEPT !.state = "published"]
                            ELSE flow[e]]

\* The pointers of X move to what target has for them, because of cause.
Move(X, target, cause) ==
    /\ published' = [e \in Entry |-> IF e \in X THEN target[e] ELSE published[e]]
    /\ moved' = [e \in Entry |-> IF e \in X
                    THEN [by |-> cause, at |-> 1 + spent.moves] ELSE moved[e]]
    /\ spent' = [spent EXCEPT !.moves = @ + 1]

\* updateDraft, and after it draftUpdated
Edit(e) ==
    /\ draft[e] < MaxRev
    /\ draft' = [draft EXCEPT ![e] = @ + 1]
    /\ UNCHANGED <<published, flow, release, proc, approved, moves, spent>>

ResetFlow(e) ==
    /\ flow[e].rev # draft[e]
    /\ flow' = [flow EXCEPT ![e] = [state |-> "draft", rev |-> draft[e]]]
    /\ UNCHANGED <<draft, published, release, proc, approved, moves, spent>>

\* The way of a draft to approval
Approve(e) ==
    /\ flow[e].state = "draft" /\ flow[e].rev = draft[e]
    /\ flow' = [flow EXCEPT ![e].state = "approved"]
    /\ approved' = [approved EXCEPT ![e] = @ \cup {flow[e].rev}]
    /\ UNCHANGED <<draft, published, release, proc, moves, spent>>

\* The transition revise, which keeps the revision
Revise(e) ==
    /\ flow[e].state = "published" /\ flow[e].rev = draft[e]
    /\ flow' = [flow EXCEPT ![e].state = "draft"]
    /\ UNCHANGED <<draft, published, release, proc, approved, moves, spent>>

-----------------------------------------------------------------------------
(* Records and processes *)

Revs == [Entry -> 0..MaxRev]
NoRevs == [e \in Entry |-> 0]
NoRelease == [state |-> "none", pin |-> NoRevs, prev |-> NoRevs, sched |-> "none"]

Idle == [pc |-> "idle", op |-> "none", id |-> None, copy |-> NoRelease, ok |-> TRUE,
         todo |-> {}, again |-> FALSE, pass |-> FALSE, due |-> {}, want |-> 0]

At(p, pc) == proc[p].pc = pc
Become(p, s) == proc' = [proc EXCEPT ![p] = s]
Go(p, pc) == Become(p, [proc[p] EXCEPT !.pc = pc])

\* An operation ends; within processDue the next release follows.
Ended(s) == IF s.pass THEN [Idle EXCEPT !.pc = "due", !.pass = TRUE, !.due = s.due]
            ELSE Idle

\* repository.save: the whole record, whatever is there by now
Save(p, c, s) ==
    /\ release' = [release EXCEPT ![proc[p].id] = c]
    /\ Become(p, [s EXCEPT !.copy = c])

SaveAndEnd(p, c) ==
    /\ release' = [release EXCEPT ![proc[p].id] = c]
    /\ Become(p, Ended(proc[p]))

\* A pending schedule of the record ends this way.
Sched(c, how) == IF c.sched = "pending" THEN how ELSE c.sched

Final == {"published", "rolled-back"}

-----------------------------------------------------------------------------
(* Requests *)

Begin(p, op, r) ==
    /\ At(p, "idle") /\ op \in Op
    /\ spent.ops < MaxOps
    /\ spent' = [spent EXCEPT !.ops = @ + 1]
    /\ IF op = "create" THEN /\ release[r].state = "none"
                              /\ \A q \in Proc : proc[q].id # r
       ELSE release[r].state # "none"
    /\ Become(p, [Idle EXCEPT !.op = op, !.id = r, !.todo = Members[r],
                              !.pc = IF op = "create" THEN "pin" ELSE "get"])
    /\ UNCHANGED <<content, release, moves>>

\* create: every member is read, and its pointers are pinned.
PinMember(p) ==
    /\ At(p, "pin")
    /\ \E e \in proc[p].todo :
          Become(p, [proc[p] EXCEPT !.todo = @ \ {e}, !.copy.pin[e] = draft[e],
                                    !.copy.prev[e] = published[e]])
    /\ UNCHANGED <<content, release, moves, spent>>

SaveCreated(p) ==
    /\ At(p, "pin") /\ proc[p].todo = {}
    /\ SaveAndEnd(p, [proc[p].copy EXCEPT !.state = "draft"])
    /\ UNCHANGED <<content, moves, spent>>

\* What the state of the record has to be for an operation
Allows(op, c) ==
    \/ op \in {"validate", "schedule", "execute"} /\ c.state \notin Final \cup {"executing"}
    \/ op = "cancel" /\ c.state = "scheduled" /\ c.sched = "pending"
    \/ op = "rollback" /\ c.state = "published"

FirstStep(op) == IF op = "cancel" THEN "cancel"
                 ELSE IF op = "rollback" THEN "restore" ELSE "assess"

\* get, and the check of the state
GetRelease(p) ==
    LET c == release[proc[p].id] IN
    /\ At(p, "get")
    /\ Become(p, IF Allows(proc[p].op, c)
                 THEN [proc[p] EXCEPT !.copy = c, !.pc = FirstStep(proc[p].op)]
                 ELSE Ended(proc[p]))
    /\ UNCHANGED <<content, release, moves, spent>>

-----------------------------------------------------------------------------
(* assessRelease *)

AssessMember(p) ==
    LET c == proc[p].copy IN
    /\ At(p, "assess")
    /\ \E e \in proc[p].todo :
          Become(p, [proc[p] EXCEPT !.todo = @ \ {e},
                        !.ok = @ /\ draft[e] = c.pin[e] /\ CanPublish(e, c.pin[e])])
    /\ UNCHANGED <<content, release, moves, spent>>

\* The routes of the published entries once the release has replaced its members
RoutesCollide(r, pin) ==
    \E e \in Members[r] :
        \/ Taken(Members[r], Routed(e, pin[e]))
        \/ \E f \in Members[r] \ {e} : Routed(e, pin[e]) = Routed(f, pin[f])

AssessTogether(p) ==
    LET s == proc[p] IN
    /\ At(p, "assess") /\ s.todo = {}
    /\ \E refused \in BOOLEAN :
          Become(p, [s EXCEPT
              !.ok = @ /\ ~refused /\ ~RoutesCollide(s.id, s.copy.pin),
              !.pc = IF s.again THEN "swap" ELSE "validated"])
    /\ UNCHANGED <<content, release, moves, spent>>

\* validate: the record as it was before the assessment, with its result.
\* Mutant: a state the record cannot be in.
ValidatedOrInvalid(c, ok) ==
    [c EXCEPT !.state = IF ~ok THEN "invalid"
                        ELSE IF c.sched = "pending" THEN "scheduled" ELSE "validated"]
Validated(c, ok) ==
    [c EXCEPT !.state = IF ~ok THEN "draft"
                        ELSE IF c.sched = "pending" THEN "scheduled" ELSE "validated",
              !.sched = IF ok THEN @ ELSE Sched(c, "failed")]

SaveValidated(p) ==
    LET s == proc[p]
        c == Validated(s.copy, s.ok)
    IN  /\ At(p, "validated")
        /\ IF s.ok /\ s.op \in {"schedule", "execute"}
           THEN Save(p, c, [s EXCEPT !.pc = s.op])
           ELSE SaveAndEnd(p, c)
        /\ UNCHANGED <<content, moves, spent>>

SaveScheduled(p) ==
    /\ At(p, "schedule")
    /\ SaveAndEnd(p, [proc[p].copy EXCEPT !.state = "scheduled", !.sched = "pending"])
    /\ UNCHANGED <<content, moves, spent>>

CancelSchedule(p) ==
    /\ At(p, "cancel")
    /\ SaveAndEnd(p, [proc[p].copy EXCEPT !.state = "validated", !.sched = "cancelled"])
    /\ UNCHANGED <<content, moves, spent>>

-----------------------------------------------------------------------------
(* execute and publishRelease, which assesses once more *)

SaveExecuting(p) ==
    /\ At(p, "execute")
    /\ Save(p, [proc[p].copy EXCEPT !.state = "executing"],
            [proc[p] EXCEPT !.pc = "assess", !.todo = Members[proc[p].id],
                            !.again = TRUE])
    /\ UNCHANGED <<content, moves, spent>>

\* What publishMany compares, for every member before it moves any
Expected(r, c) ==
    \A e \in Members[r] : draft[e] = c.pin[e] /\ published[e] = c.prev[e]

\* Whose pointers publishMany moves.  Mutant: a member that is not as expected
\* is passed over.
MovedIfExpected(r, c) == {e \in Members[r] : published[e] = c.prev[e]}
MovedMembers(r, c) == IF Expected(r, c) THEN Members[r] ELSE {}

PublishMany(p) ==
    LET s == proc[p]
        X == MovedMembers(s.id, s.copy)
    IN  /\ At(p, "swap")
        /\ IF s.ok /\ X # {}
           THEN /\ Move(X, s.copy.pin, s.id)
                /\ swapped' = swapped \cup {s.id}
                /\ Become(p, [s EXCEPT !.pc = "tell", !.todo = X])
           ELSE /\ Go(p, "failed")
                /\ UNCHANGED <<published, moved, swapped, spent>>
        /\ UNCHANGED <<draft, flow, release, approved, restored>>

\* contentPublished, member by member
TellWorkflow(p) ==
    /\ At(p, "tell")
    /\ \E e \in proc[p].todo :
          IF flow[e].state = "approved"
          THEN /\ flow' = Told({e})
               /\ Become(p, [proc[p] EXCEPT !.todo = @ \ {e}])
          ELSE /\ Go(p, "failed")
               /\ UNCHANGED flow
    /\ UNCHANGED <<draft, published, release, approved, moves, spent>>

SavePublished(p) ==
    LET c == proc[p].copy IN
    /\ At(p, "tell") /\ proc[p].todo = {}
    /\ SaveAndEnd(p, [c EXCEPT !.state = "published", !.sched = Sched(c, "executed")])
    /\ UNCHANGED <<content, moves, spent>>

\* Mutants: the record is left as it is; its schedule counts as executed.
LeftExecuting(c) == c
FailedButExecuted(c) == [c EXCEPT !.state = "failed", !.sched = Sched(c, "executed")]
Failed(c) == [c EXCEPT !.state = "failed", !.sched = Sched(c, "failed")]

SaveFailed(p) ==
    /\ At(p, "failed")
    /\ SaveAndEnd(p, Failed(proc[p].copy))
    /\ UNCHANGED <<content, moves, spent>>

-----------------------------------------------------------------------------
(* rollback *)

\* Mutant: the published pointers are not compared.
RestorableAnyway(r, c) == \A e \in Members[r] : c.prev[e] # 0
Restorable(r, c) ==
    \A e \in Members[r] : c.prev[e] # 0 /\ published[e] = c.pin[e]

RollbackMany(p) ==
    LET s == proc[p] IN
    /\ At(p, "restore")
    /\ IF Restorable(s.id, s.copy)
       THEN /\ Move(Members[s.id], s.copy.prev, s.id)
            /\ restored' = restored \cup {s.id}
            /\ Go(p, "restored")
       ELSE /\ Become(p, Idle)
            /\ UNCHANGED <<published, moved, restored, spent>>
    /\ UNCHANGED <<draft, flow, release, approved, swapped>>

SaveRolledBack(p) ==
    /\ At(p, "restored")
    /\ SaveAndEnd(p, [proc[p].copy EXCEPT !.state = "rolled-back"])
    /\ UNCHANGED <<content, moves, spent>>

-----------------------------------------------------------------------------
(* processDue *)

\* list; which schedules are due is a matter of time.
ListDue(p) ==
    /\ At(p, "idle") /\ "due" \in Op
    /\ spent.ops < MaxOps
    /\ spent' = [spent EXCEPT !.ops = @ + 1]
    /\ \E due \in SUBSET {r \in Release : release[r].state = "scheduled"
                                          /\ release[r].sched = "pending"} :
          /\ due # {}
          /\ Become(p, [Idle EXCEPT !.pc = "due", !.pass = TRUE, !.due = due])
    /\ UNCHANGED <<content, release, moves>>

ExecuteDue(p) ==
    /\ At(p, "due")
    /\ \E r \in proc[p].due :
          Become(p, [proc[p] EXCEPT !.due = @ \ {r}, !.pc = "get", !.op = "execute",
                                    !.id = r, !.todo = Members[r]])
    /\ UNCHANGED <<content, release, moves, spent>>

EndPass(p) ==
    /\ At(p, "due") /\ proc[p].due = {}
    /\ Become(p, Idle)
    /\ UNCHANGED <<content, release, moves, spent>>

-----------------------------------------------------------------------------
(* ContentService.publish of one entry *)

BeginPublish(p, e) ==
    /\ At(p, "idle") /\ "publish" \in Op
    /\ spent.ops < MaxOps
    /\ spent' = [spent EXCEPT !.ops = @ + 1]
    /\ CanPublish(e, draft[e])
    /\ Become(p, [Idle EXCEPT !.pc = "route", !.op = "publish", !.id = e,
                              !.want = draft[e]])
    /\ UNCHANGED <<content, release, moves>>

\* #validatePublishedRoute
CheckRoute(p) ==
    LET s == proc[p] IN
    /\ At(p, "route")
    /\ Become(p, IF Taken({s.id}, Routed(s.id, s.want)) THEN Idle
                 ELSE [s EXCEPT !.pc = "commit"])
    /\ UNCHANGED <<content, release, moves, spent>>

PublishOne(p) ==
    LET s == proc[p] IN
    /\ At(p, "commit")
    /\ IF draft[s.id] = s.want
       THEN /\ Move({s.id}, draft, None)
            /\ Go(p, "told")
       ELSE /\ Become(p, Idle)
            /\ UNCHANGED <<published, moved, spent>>
    /\ UNCHANGED <<draft, flow, release, approved, swapped, restored>>

TellOne(p) ==
    /\ At(p, "told")
    /\ flow' = IF flow[proc[p].id].state = "approved" THEN Told({proc[p].id}) ELSE flow
    /\ Become(p, Idle)
    /\ UNCHANGED <<draft, published, release, approved, moves, spent>>

Crash(p) ==
    /\ ~At(p, "idle") /\ spent.crashes < MaxCrashes
    /\ spent' = [spent EXCEPT !.crashes = @ + 1]
    /\ Become(p, Idle)
    /\ UNCHANGED <<content, release, moves>>

-----------------------------------------------------------------------------
(* The specification *)

Init ==
    /\ draft = [e \in Entry |-> 1]
    /\ published = [e \in Entry |-> IF e \in FirstPublished THEN 1 ELSE 0]
    /\ flow = [e \in Entry |-> [state |-> IF e \in FirstPublished THEN "published"
                                          ELSE "draft", rev |-> 1]]
    /\ release = [r \in Release |-> NoRelease]
    /\ proc = [p \in Proc |-> Idle]
    /\ approved = [e \in Entry |-> IF e \in FirstPublished THEN {1} ELSE {}]
    /\ swapped = {} /\ restored = {}
    /\ moved = [e \in Entry |-> [by |-> None, at |-> 0]]
    /\ spent = [ops |-> 0, crashes |-> 0, moves |-> 0]

Step(p) ==
    \/ PinMember(p) \/ SaveCreated(p) \/ GetRelease(p)
    \/ AssessMember(p) \/ AssessTogether(p) \/ SaveValidated(p)
    \/ SaveScheduled(p) \/ CancelSchedule(p)
    \/ SaveExecuting(p) \/ PublishMany(p) \/ TellWorkflow(p) \/ SavePublished(p)
    \/ SaveFailed(p) \/ RollbackMany(p) \/ SaveRolledBack(p)
    \/ ExecuteDue(p) \/ EndPass(p)
    \/ CheckRoute(p) \/ PublishOne(p) \/ TellOne(p)

Next ==
    \/ \E p \in Proc : Step(p) \/ ListDue(p) \/ Crash(p)
    \/ \E p \in Proc, op \in Op \ {"publish", "due"}, r \in Release : Begin(p, op, r)
    \/ \E p \in Proc, e \in Entry : BeginPublish(p, e)
    \/ \E e \in Entry : Edit(e) \/ ResetFlow(e) \/ Approve(e) \/ Revise(e)

Spec == Init /\ [][Next]_vars

\* A process that runs goes on; nobody has to ask for anything or to crash.
FairSpec == Spec /\ \A p \in Proc : WF_vars(Step(p))

-----------------------------------------------------------------------------
(* Types *)

ReleaseRecord ==
    [state : {"none", "draft", "validated", "scheduled", "executing", "published",
              "rolled-back", "failed"},
     pin : Revs, prev : Revs,
     sched : {"none", "pending", "executed", "cancelled", "failed"}]

PC == {"idle", "pin", "get", "assess", "validated", "schedule", "cancel", "execute",
       "swap", "tell", "failed", "restore", "restored", "due", "route", "commit",
       "told"}

ProcState ==
    [pc : PC, op : {"none", "create", "validate", "schedule", "cancel", "execute",
                    "rollback", "publish"},
     id : Entry \cup Release \cup {None}, copy : ReleaseRecord, ok : BOOLEAN,
     todo : SUBSET Entry, again : BOOLEAN, pass : BOOLEAN, due : SUBSET Release,
     want : 0..MaxRev]

\* Every variable has its type.
TypeOK ==
    /\ draft \in [Entry -> 1..MaxRev] /\ published \in [Entry -> 0..MaxRev]
    /\ flow \in [Entry -> [state : {"draft", "approved", "published"}, rev : 1..MaxRev]]
    /\ release \in [Release -> ReleaseRecord]
    /\ proc \in [Proc -> ProcState]
    /\ approved \in [Entry -> SUBSET (1..MaxRev)]
    /\ swapped \subseteq Release /\ restored \subseteq Release
    /\ moved \in [Entry -> [by : Release \cup {None}, at : Nat]]
    /\ spent \in [ops : Nat, crashes : Nat, moves : Nat]

-----------------------------------------------------------------------------
(* Safety *)

\* No reader sees part of a release: as long as one member has the pointer the
\* release gave it, no other member is as it was before, however edits, other
\* releases and single publications interfere with the assessment.
NeverPartial ==
    \A r \in Release : \A e, f \in Members[r] :
        moved[e].by = r => moved[f].at >= moved[e].at

\* Only approved revisions are published, by a release as well as one by one.
PublishedWasApproved ==
    \A e \in Entry : published[e] # 0 => published[e] \in approved[e]

\* What the record claims has happened: no lost update makes a release
\* published, executed on schedule or rolled back that was not.
RecordIsBacked ==
    \A r \in Release :
        /\ release[r].state \in Final \/ release[r].sched = "executed" => r \in swapped
        /\ release[r].state = "rolled-back" => r \in restored

\* Pointers and records tell the truth of each other, whoever wrote last.
ReleasesAccounted == PublishedWasApproved /\ RecordIsBacked

\* A rollback gives back what the release replaced and overwrites no revision
\* that was published since: it finds the revisions of the release in place.
RollbackReplacesOwn ==
    [][\A r \in Release : r \in restored' \ restored =>
          \A e \in Members[r] : published[e] = release[r].pin[e]]_vars

-----------------------------------------------------------------------------
(* Liveness *)

\* Unless its process crashes, an execution comes to an end: the record does
\* not stay executing, which would refuse every further operation.
ExecutionSettles ==
    \A r \in Release : release[r].state = "executing" ~> release[r].state # "executing"

-----------------------------------------------------------------------------
(* What the documents say and the code does not do *)

\* docs/releases.md: a release fails before the atomic write, or not at all.
FailedBeforeWrite == \A r \in Release : release[r].state = "failed" => r \notin swapped

\* README.md: published paths are unique.
UniqueRoutes ==
    \A e, f \in Entry :
        /\ published[e] # 0 /\ published[f] # 0
        /\ Routed(e, published[e]) = Routed(f, published[f])
        => e = f
-----------------------------------------------------------------------------
(* For TLC: which entries a release has, their routes, and what may be     *)
(* exchanged for another of its kind.                                      *)

EveryEntry     == [r \in Release |-> Entry]
EveryPublished == [r \in Release |-> FirstPublished]

\* A route of its own for each entry, whatever its revision.
OwnRoutes == [e \in Entry |-> [rev \in 1..MaxRev |-> e]]

\* Revision 2 of a published entry moves away from the route that another entry wants.
Wanted == CHOOSE e \in FirstPublished : TRUE
VacatedRoute ==
    [e \in Entry |-> [rev \in 1..MaxRev |->
        IF e \notin FirstPublished THEN Wanted
        ELSE IF rev = 1 THEN e ELSE <<e, rev>>]]
VacatedRoutes == Entry \cup (Entry \X (1..MaxRev))

Alike == Permutations(Proc) \cup Permutations(FirstPublished)
=============================================================================
