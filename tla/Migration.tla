----------------------------- MODULE Migration -----------------------------
(***************************************************************************)
(* Migration from another CMS that stays the author of the content: sync   *)
(* plans are read from the source, reviewed by digest and executed record  *)
(* by record through the content service, by runners that may die or run   *)
(* side by side; the checkpoint decides what the next plan reads.          *)
(*                                                                         *)
(* The document is written by compare-and-swap with retries: an action on  *)
(* mig is the attempt that wins.  A plan that planSync is drawing up stands *)
(* at its place in the document before it is stored there ("reading",       *)
(* "mapping"); nobody else sees it.                                         *)
(***************************************************************************)
EXTENDS Naturals

CONSTANTS Records, Syncs, Runners, None,
          MaxTargetRev,  \* bound on the revisions of a target
          MaxChanges     \* bound on the changes of source, recipe and project

VARIABLES
  source,    \* the time of the source, and when each record last changed (0: absent)
  mig,       \* the migration document
  target,    \* the target entries: revision (0: absent), mapped data, published revision
  runner,    \* per runner: the execution under way
  synced     \* per record: the data that was last written and published by a plan, unless it
             \* was late

svars == <<source, mig, target, runner, synced>>

Data    == [at : 0..MaxChanges, recipe : 0..MaxChanges + 1]    \* a record as mapped; at = 0: by hand
Link    == [state : {"none", "pending", "applied"}, plan : Syncs \cup {None},
            data : Data, rev : 0..MaxTargetRev]
ByHand  == [at |-> 0, recipe |-> 0]
NoLink  == [state |-> "none", plan |-> None, data |-> ByHand, rev |-> 0]
NoLinks == [x \in Records |-> NoLink]
NoPlan  == [state |-> "none", project |-> 0, recipe |-> 0, checkpoint |-> 0,
            effects |-> [x \in {} |-> None], links |-> NoLinks]
NoRun   == [pc |-> "idle", plan |-> None, todo |-> {}, record |-> None, rev |-> 0,
            recovering |-> FALSE]

Init ==
  /\ source = [time |-> 0, at |-> [x \in Records |-> 0]]
  /\ mig = [recipe |-> 1, project |-> [version |-> 1, active |-> TRUE, checkpoint |-> 0, recipe |-> 0],
            plans |-> [s \in Syncs |-> NoPlan], links |-> NoLinks]
  /\ target = [x \in Records |-> [rev |-> 0, data |-> ByHand, pub |-> 0, late |-> FALSE]]
  /\ runner = [r \in Runners |-> NoRun]
  /\ synced = [x \in Records |-> ByHand]

-----------------------------------------------------------------------------
\* Operators and the source.
Changes == source.time + (mig.recipe - 1) + (mig.project.version - 1)

UpsertRecipe ==
  /\ Changes < MaxChanges
  /\ mig' = [mig EXCEPT !.recipe = @ + 1]
  /\ UNCHANGED <<source, target, runner, synced>>

SetProjectState(active) ==
  /\ Changes < MaxChanges
  /\ mig' = [mig EXCEPT !.project.active = active, !.project.version = @ + 1]
  /\ UNCHANGED <<source, target, runner, synced>>

SourceChanges(x) ==
  /\ Changes < MaxChanges
  /\ source' = [time |-> source.time + 1, at |-> [source.at EXCEPT ![x] = source.time + 1]]
  /\ UNCHANGED <<mig, target, runner, synced>>

EditTarget(x) ==
  /\ target[x].rev \in 1..(MaxTargetRev - 1)
  /\ target' = [target EXCEPT ![x] = [@ EXCEPT !.rev = target[x].rev + 1, !.data = ByHand, !.late = FALSE]]
  /\ UNCHANGED <<source, mig, runner, synced>>

-----------------------------------------------------------------------------
\* planSync: three kinds of reads, and the document is free in between.

\* A delta since the checkpoint, when there is one and no recipe has changed.
SameRecipe == mig.project.recipe = mig.recipe
CanDelta   == mig.project.checkpoint # 0 /\ SameRecipe

PlanSync(s) ==
  /\ mig.plans[s].state = "none" /\ mig.project.active
  /\ mig' = [mig EXCEPT !.plans[s] =
       [NoPlan EXCEPT !.state = "reading", !.project = mig.project.version, !.recipe = mig.recipe,
                      !.checkpoint = IF CanDelta THEN mig.project.checkpoint ELSE 0,
                      !.links = mig.links]]
  /\ UNCHANGED <<source, target, runner, synced>>

\* What the source says of a record; nothing is known of the target yet.
Unread(s, x) == [data |-> [at |-> source.at[x], recipe |-> mig.plans[s].recipe],
                 rev |-> 0, action |-> "unread", late |-> FALSE]

ReadSource(s) ==
  LET since    == mig.plans[s].checkpoint
      snapshot == {x \in Records : source.at[x] # 0 /\ source.at[x] > since}
  IN  /\ mig.plans[s].state = "reading"
      /\ mig' = [mig EXCEPT !.plans[s] =
           [@ EXCEPT !.state = "mapping", !.checkpoint = source.time,
                     !.effects = [x \in snapshot |-> Unread(s, x)]]]
      /\ UNCHANGED <<source, target, runner, synced>>

\* unchanged
Unaltered(link, data) == link.state = "applied" /\ link.data = data

\* The target has been brought to a later state of the source than the one read.
MovedOn(x, data) == data.at # source.at[x] /\ source.at[x] \in {target[x].data.at, synced[x].at}

\* #buildEffect: what a plan does to a record, or why it is blocked, by the
\* target as it is now and the link as it was read.
Effect(s, x) ==
  LET link  == mig.plans[s].links[x]
      data  == mig.plans[s].effects[x].data
      drift == \/ link.state = "none" /\ target[x].rev # 0
               \/ link.state = "applied" /\ link.rev # target[x].rev
  IN  [data   |-> data,
       rev    |-> target[x].rev,
       action |-> IF drift THEN "blocked"
                  ELSE IF Unaltered(link, data) THEN "noop"
                  ELSE IF target[x].rev # 0 THEN "update" ELSE "create",
       late   |-> MovedOn(x, data)]     \* for the properties only

BuildEffect(s, x) ==
  /\ mig.plans[s].state = "mapping" /\ x \in DOMAIN mig.plans[s].effects
  /\ mig.plans[s].effects[x].action = "unread"
  /\ mig' = [mig EXCEPT !.plans[s].effects[x] = Effect(s, x)]
  /\ UNCHANGED <<source, target, runner, synced>>

SameProject(s) == mig.project.version = mig.plans[s].project
RecipeKept(s)  == mig.recipe = mig.plans[s].recipe

TimeOfPlan(s)     == source.time   \* Mutant: not the time of its snapshot.
NextCheckpoint(s) == mig.plans[s].checkpoint

\* The plan is stored if neither project nor recipe has changed meanwhile.
SavePlan(s) ==
  /\ mig.plans[s].state = "mapping"
  /\ \A x \in DOMAIN mig.plans[s].effects : mig.plans[s].effects[x].action # "unread"
  /\ mig' = [mig EXCEPT !.plans[s] =
       [@ EXCEPT !.state = IF SameProject(s) /\ RecipeKept(s) THEN "preview" ELSE "discarded",
                 !.checkpoint = NextCheckpoint(s), !.links = NoLinks]]
  /\ UNCHANGED <<source, target, runner, synced>>

-----------------------------------------------------------------------------
\* executePlan

Goes(r, pc) == runner' = [runner EXCEPT ![r].pc = pc]

\* #assertExecutable; a completed plan returns its receipt, an expired one is
\* refused.  The recipe is compared for each effect: a plan without any is
\* executed although it changed.
Execute(r, s) ==
  LET plan == mig.plans[s]
  IN  /\ runner[r].pc = "idle" /\ plan.state \in {"preview", "executing", "failed"}
      /\ mig.project.active /\ SameProject(s)
      /\ \A x \in DOMAIN plan.effects : plan.effects[x].action # "blocked" /\ RecipeKept(s)
      /\ runner' = [runner EXCEPT ![r] = [NoRun EXCEPT !.pc = "start", !.plan = s,
                                                       !.todo = DOMAIN plan.effects]]
      /\ UNCHANGED <<source, mig, target, synced>>

Start(r) ==
  LET s == runner[r].plan
  IN  /\ runner[r].pc = "start"
      /\ IF mig.plans[s].state = "completed" THEN UNCHANGED mig /\ runner' = [runner EXCEPT ![r] = NoRun]
         ELSE mig' = [mig EXCEPT !.plans[s].state = "executing"] /\ Goes(r, "next")
      /\ UNCHANGED <<source, target, synced>>

\* #applyEffect reads the document and the target: it goes on from the state
\* the plan was reviewed for, or recovers what an execution of this plan left.
Look(r, x) ==
  LET s == runner[r].plan
      effect == mig.plans[s].effects[x]
      link == mig.links[x]
      recovering == /\ link.state = "pending" /\ link.plan = s
                    /\ target[x].rev # 0 /\ target[x].data = effect.data
  IN  /\ runner[r].pc = "next" /\ x \in runner[r].todo
      /\ IF SameProject(s) /\ RecipeKept(s) /\ (recovering \/ target[x].rev = effect.rev)
         THEN runner' = [runner EXCEPT ![r].pc = "link", ![r].record = x,
                                       ![r].rev = target[x].rev, ![r].recovering = recovering]
         ELSE Goes(r, "fail")
      /\ UNCHANGED <<source, mig, target, synced>>

PrepareLink(r) ==
  LET s == runner[r].plan
      x == runner[r].record
  IN  /\ runner[r].pc = "link"
      /\ mig' = [mig EXCEPT !.links[x] = [@ EXCEPT !.state = "pending", !.plan = s,
                                                   !.data = mig.plans[s].effects[x].data]]
      /\ Goes(r, "write")
      /\ UNCHANGED <<source, target, synced>>

\* create or updateDraft of the content service, against the revision read
WriteTarget(r) ==
  LET x == runner[r].record
      effect == mig.plans[runner[r].plan].effects[x]
  IN  /\ runner[r].pc = "write"
      /\ IF runner[r].recovering \/ effect.action = "noop"
         THEN Goes(r, "publish") /\ UNCHANGED target
         ELSE IF target[x].rev = runner[r].rev
         THEN /\ target[x].rev < MaxTargetRev
              /\ target' = [target EXCEPT ![x] = [@ EXCEPT !.rev = target[x].rev + 1, !.data = effect.data,
                                                           !.late = effect.late]]
              /\ runner' = [runner EXCEPT ![r].pc = "publish", ![r].rev = @ + 1]
         ELSE Goes(r, "fail") /\ UNCHANGED target
      /\ UNCHANGED <<source, mig, synced>>

\* publish, of the revision that was written, unless it is published; the
\* gates of the content service may refuse it.
PublishTarget(r, refused) ==
  LET x == runner[r].record
      late == target[x].late \/ mig.plans[runner[r].plan].effects[x].late
  IN  /\ runner[r].pc = "publish"
      /\ IF ~refused /\ target[x].rev = runner[r].rev
         THEN /\ target' = [target EXCEPT ![x].pub = runner[r].rev]
              /\ synced' = IF late THEN synced ELSE [synced EXCEPT ![x] = target[x].data]
              /\ Goes(r, "finalize")
         ELSE Goes(r, "fail") /\ UNCHANGED <<target, synced>>
      /\ UNCHANGED <<source, mig>>

FinalizeLink(r) ==
  LET x == runner[r].record
  IN  /\ runner[r].pc = "finalize"
      /\ IF mig.links[x].plan = runner[r].plan
         THEN /\ mig' = [mig EXCEPT !.links[x].state = "applied", !.links[x].rev = runner[r].rev]
              /\ runner' = [runner EXCEPT ![r].pc = "next", ![r].todo = @ \ {x}]
         ELSE Goes(r, "fail") /\ UNCHANGED mig
      /\ UNCHANGED <<source, target, synced>>

\* The end of a plan advances the checkpoint; the recipes are those of now.
AllApplied(r) == runner[r].pc = "next" /\ runner[r].todo = {}

Complete(r) ==
  LET s == runner[r].plan
  IN  /\ AllApplied(r)
      /\ IF SameProject(s)
         THEN /\ mig' = [mig EXCEPT !.plans[s].state = "completed",
                           !.project.checkpoint = mig.plans[s].checkpoint,
                           !.project.recipe = mig.recipe]
              /\ runner' = [runner EXCEPT ![r] = NoRun]
         ELSE Goes(r, "fail") /\ UNCHANGED mig
      /\ UNCHANGED <<source, target, synced>>

RecordFailure(r) ==
  LET s == runner[r].plan
  IN  /\ runner[r].pc = "fail"
      /\ mig' = IF mig.plans[s].state = "completed" THEN mig
                ELSE [mig EXCEPT !.plans[s].state = "failed"]
      /\ runner' = [runner EXCEPT ![r] = NoRun]
      /\ UNCHANGED <<source, target, synced>>

Crash(r) ==
  /\ runner[r].pc # "idle"
  /\ runner' = [runner EXCEPT ![r] = NoRun]
  /\ UNCHANGED <<source, mig, target, synced>>

Next ==
  \/ UpsertRecipe
  \/ \E b \in BOOLEAN : SetProjectState(b)
  \/ \E x \in Records : SourceChanges(x) \/ EditTarget(x)
  \/ \E s \in Syncs : \/ PlanSync(s) \/ ReadSource(s) \/ SavePlan(s)
                      \/ \E x \in Records : BuildEffect(s, x)
  \/ \E r \in Runners :
       \/ Start(r) \/ PrepareLink(r) \/ WriteTarget(r) \/ FinalizeLink(r)
       \/ Complete(r) \/ RecordFailure(r) \/ Crash(r)
       \/ \E s \in Syncs : Execute(r, s)
       \/ \E x \in Records : Look(r, x)
       \/ \E b \in BOOLEAN : PublishTarget(r, b)

-----------------------------------------------------------------------------
TypeOK ==
  /\ mig.recipe \in 1..MaxChanges + 1 /\ mig.project.version \in 1..MaxChanges + 1
  /\ mig.links \in [Records -> Link]
  /\ target \in [Records -> [rev : 0..MaxTargetRev, data : Data, pub : 0..MaxTargetRev,
                            late : BOOLEAN]]
  /\ synced \in [Records -> Data]

\* No change of the source is lost: what a delta since the checkpoint would
\* leave out has been written and published, through plans that failed half
\* way, crashed, ran twice or were overtaken by another, and nothing but a
\* late plan or an edit by hand has gone back on it since.
CheckpointCovers ==
  \A x \in Records :
    source.at[x] # 0 /\ source.at[x] <= mig.project.checkpoint => synced[x].at = source.at[x]

\* Not so of a late plan, one that read the source before a change and the
\* target after another plan had brought the change there: it expects the
\* revision that it reverts, and no delta reads the change again.
ChangeStands ==
  \A x \in Records :
    source.at[x] # 0 /\ source.at[x] <= mig.project.checkpoint => ~target[x].late

\* docs/migration-and-cutover.md:124 says that a manual edit of a target blocks
\* the next update rather than being overwritten.
OverwritesByHand ==
  \E x \in Records : /\ target[x].rev # 0 /\ target[x].data = ByHand
                     /\ target'[x].data # ByHand
DriftBlocks == [][~OverwritesByHand]_svars
=============================================================================
