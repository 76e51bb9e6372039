-------------------------- MODULE Execution_proofs --------------------------
(***************************************************************************)
(* The two services whose plans are carried out item by item by runners    *)
(* that crash, overtake each other and write to what others write too:     *)
(* migration and erasure.  As in Services_proofs, everything holds for     *)
(* every number of agents, items and other things, over the specification  *)
(* that the run Services checks on two of each.                            *)
(***************************************************************************)
EXTENDS MCServices, FiniteSets, TLAPS

-----------------------------------------------------------------------------
(* Migration (Migration): plans and runners that the source has overtaken cannot write what        *)
(* they know, because the revision they expect of the target is past.                              *)

DataType   == [at : Nat, recipe : Nat]
EffectType == [data : DataType, rev : Nat, late : BOOLEAN,
               action : {"unread", "blocked", "noop", "update", "create"}]
EffectMaps == UNION {[X -> EffectType] : X \in SUBSET Records}
LinkType   == [state : {"none", "pending", "applied"}, plan : Items \cup {None}, data : DataType,
               rev : Nat]
SyncPlan   == [state : {"none", "reading", "mapping", "discarded", "preview", "executing",
                        "completed", "failed"},
               project : Nat, recipe : Nat, checkpoint : Nat, effects : EffectMaps,
               links : [Records -> LinkType]]
RunType    == [pc : {"idle", "start", "next", "link", "write", "publish", "finalize", "fail"},
               plan : Items \cup {None}, todo : SUBSET Records, record : Records \cup {None},
               rev : Nat, recovering : BOOLEAN]
ProjectType == [version : Nat, active : BOOLEAN, checkpoint : Nat, recipe : Nat]
MigType    == [recipe : Nat, project : ProjectType, plans : [Items -> SyncPlan],
               links : [Records -> LinkType]]
TargetType == [rev : Nat, data : DataType, pub : Nat, late : BOOLEAN]

MigrationTypes ==
  /\ source \in [time : Nat, at : [Records -> Nat]]
  /\ mig \in MigType
  /\ target \in [Records -> TargetType]
  /\ runner \in [Agents -> RunType]
  /\ synced \in [Records -> DataType]

Effects(s) == mig.plans[s].effects
Read(s)    == mig.plans[s].checkpoint
Copied(s)  == mig.plans[s].links
Begun(s)   == mig.plans[s].state # "none"
Reading(s) == mig.plans[s].state = "reading"
Stored(s)  == mig.plans[s].state \notin {"none", "reading", "mapping"}

\* Nothing is later than the source; what a late plan wrote is behind it.
Past ==
  /\ mig.project.checkpoint <= source.time
  /\ \A s \in Items : Read(s) <= source.time
  /\ \A x \in Records : /\ source.at[x] <= source.time
                        /\ target[x].data.at <= source.time
                        /\ target[x].late => target[x].data.at # source.at[x]
                        /\ synced[x].at <= source.time

\* What a plan says of a record is what the source says, or the source has
\* changed since the plan read it, as it has for the effects that are late.
PlanPins(s) ==
  \A x \in DOMAIN Effects(s) :
    /\ Effects(s)[x].rev <= target[x].rev
    /\ Effects(s)[x].data.at # 0 /\ Effects(s)[x].data.at <= Read(s)
    /\ Effects(s)[x].data.at = source.at[x] \/ source.at[x] > Read(s)
    /\ Effects(s)[x].late => Effects(s)[x].data.at # source.at[x]
    /\ Effects(s)[x].action = "noop" /\ Effects(s)[x].rev = target[x].rev =>
         target[x].data = Effects(s)[x].data

Synced(x) == synced[x].at = source.at[x]

\* What a plan left out had been synchronized, or has changed since.
PlanLeavesOut(s) ==
  \A x \in Records \ DOMAIN Effects(s) :
    source.at[x] = 0 \/ source.at[x] > Read(s) \/ Synced(x)

\* What an applied link says of the target is so until there is a next revision.
Kept(link, x) ==
  link.state = "applied" => /\ link.rev <= target[x].rev
                            /\ link.rev = target[x].rev => target[x].data = link.data

PlansHold ==
  \A s \in Items : Begun(s) => /\ PlanPins(s) /\ PlanLeavesOut(s)
                               /\ \A x \in Records : Kept(Copied(s)[x], x)
                               /\ Reading(s) => DOMAIN Effects(s) = {}

LinkHolds(x) ==
  /\ Kept(mig.links[x], x)
  /\ mig.links[x].plan \in Items => /\ Stored(mig.links[x].plan)
                                    /\ x \in DOMAIN Effects(mig.links[x].plan)
                                    /\ mig.links[x].data = Effects(mig.links[x].plan)[x].data

LinksHold == \A x \in Records : LinkHolds(x)

Aim(r) == Effects(runner[r].plan)[runner[r].record]
At(r)  == target[runner[r].record]

\* A runner at a record knows the revision it found or wrote; while that is the
\* target's, it holds what the plan says from the moment the runner publishes.
RunnerKnows(r) ==
  /\ runner[r].pc # "idle" => /\ runner[r].plan \in Items /\ Stored(runner[r].plan)
                              /\ runner[r].todo \subseteq DOMAIN Effects(runner[r].plan)
  /\ runner[r].pc \in {"link", "write", "publish", "finalize"} =>
       runner[r].record \in DOMAIN Effects(runner[r].plan) /\ runner[r].rev <= At(r).rev
  /\ runner[r].pc \in {"link", "write"} =>
       IF runner[r].recovering THEN runner[r].rev = At(r).rev => At(r).data = Aim(r).data
       ELSE runner[r].rev = Aim(r).rev
  /\ runner[r].pc \in {"publish", "finalize"} /\ runner[r].rev = At(r).rev => At(r).data = Aim(r).data

\* What a runner is done with is synchronized, or has changed since.
RunnerDid(r) ==
  runner[r].pc # "idle" =>
    \A x \in DOMAIN Effects(runner[r].plan) :
      x \notin runner[r].todo \/ (runner[r].pc = "finalize" /\ x = runner[r].record) =>
        source.at[x] > Read(runner[r].plan) \/ Synced(x)

\* The state of the source that the target holds or that was synchronized is
\* out of the reach of plans that read the source before it and the target in
\* time, and of those that execute them.
UpToDate(x) == source.at[x] # 0 /\ (target[x].data.at = source.at[x] \/ Synced(x))

PlanOutdated(s) ==
  \A x \in DOMAIN Effects(s) :
    Effects(s)[x].late \/ Effects(s)[x].action = "unread" \/ Effects(s)[x].data.at = source.at[x]
      \/ ~UpToDate(x)
      \/ /\ Effects(s)[x].rev < target[x].rev
         /\ target[x].late \/ target[x].data.at # Effects(s)[x].data.at

\* A stored plan has read every target.
PlansOutdated ==
  \A s \in Items :
    /\ Begun(s) => PlanOutdated(s)
    /\ Stored(s) => \A x \in DOMAIN Effects(s) : Effects(s)[x].action # "unread"

RunnerOutdated(r) ==
  runner[r].pc \in {"link", "write", "publish"} /\ UpToDate(runner[r].record)
    /\ Aim(r).data.at # source.at[runner[r].record] =>
      Aim(r).late \/ At(r).late \/ runner[r].rev < At(r).rev

Runs(r) == RunnerKnows(r) /\ RunnerDid(r) /\ RunnerOutdated(r)
RunnersHold == \A r \in Agents : Runs(r)

MigrationInv ==
  /\ MigrationTypes /\ Past /\ PlansHold /\ LinksHold /\ PlansOutdated /\ RunnersHold
  /\ Mig!CheckpointCovers

\* What a stored plan says of a record is well typed.
LEMMA EffectsType ==
  ASSUME MigrationTypes, NEW s \in Items
  PROVE  /\ DOMAIN Effects(s) \subseteq Records
         /\ \A x \in DOMAIN Effects(s) : /\ Effects(s)[x] \in EffectType
                                         /\ Effects(s)[x].rev \in Nat
                                         /\ Effects(s)[x].data \in DataType
                                         /\ Effects(s)[x].data.at \in Nat
         /\ Read(s) \in Nat
<1>1. mig.plans[s] \in SyncPlan
  BY DEF MigrationTypes, MigType
<1>2. PICK X \in SUBSET Records : mig.plans[s].effects \in [X -> EffectType]
  BY <1>1 DEF SyncPlan, EffectMaps
<1>3. DOMAIN Effects(s) = X /\ \A x \in X : Effects(s)[x] \in EffectType
  BY <1>2 DEF Effects
<1> QED
  BY <1>1, <1>3 DEF EffectType, DataType, SyncPlan, Read

\* Nothing is in the source, planned or synchronized.
LEMMA MigrationInit == Mig!Init => MigrationInv
<1> SUFFICES ASSUME Mig!Init PROVE MigrationInv
  OBVIOUS
<1>1. /\ Mig!ByHand \in DataType /\ Mig!NoLink \in LinkType /\ Mig!NoRun \in RunType
      /\ Mig!ByHand.at = 0 /\ Mig!NoRun.pc = "idle"
  BY DEF Mig!ByHand, DataType, Mig!NoLink, LinkType, Mig!NoRun, RunType
<1>2. Mig!NoPlan \in SyncPlan /\ Mig!NoPlan.state = "none" /\ Mig!NoPlan.checkpoint = 0
  <2>0. Mig!NoLinks \in [Records -> LinkType]
    BY <1>1 DEF Mig!NoLinks
  <2>1. [x \in {} |-> None] \in [{} -> EffectType] /\ {} \in SUBSET Records
    OBVIOUS
  <2>2. [x \in {} |-> None] \in EffectMaps
    BY <2>1 DEF EffectMaps
  <2> QED BY <2>0, <2>2 DEF Mig!NoPlan, SyncPlan
<1>3. /\ source.time = 0 /\ source.at = [x \in Records |-> 0]
      /\ mig.project.checkpoint = 0
      /\ mig.plans = [s \in Items |-> Mig!NoPlan] /\ mig.links = Mig!NoLinks
      /\ \A x \in Records : /\ target[x].data = Mig!ByHand /\ ~target[x].late
                            /\ synced[x] = Mig!ByHand
      /\ \A r \in Agents : runner[r].pc = "idle"
  BY <1>1 DEF Mig!Init
<1>4. MigrationTypes
  <2>1. [recipe |-> 1, project |-> [version |-> 1, active |-> TRUE, checkpoint |-> 0, recipe |-> 0],
         plans |-> [s \in Items |-> Mig!NoPlan], links |-> Mig!NoLinks] \in MigType
    BY <1>1, <1>2 DEF MigType, ProjectType, Mig!NoLinks
  <2>2. [rev |-> 0, data |-> Mig!ByHand, pub |-> 0, late |-> FALSE] \in TargetType
    BY <1>1 DEF TargetType
  <2> QED BY <1>1, <2>1, <2>2 DEF Mig!Init, MigrationTypes
<1>5. Past
  BY <1>1, <1>2, <1>3 DEF Past, Read
<1>6. \A s \in Items : ~Begun(s) /\ ~Stored(s)
  BY <1>2, <1>3 DEF Begun, Stored
<1>7. LinksHold
  BY <1>3, NoneIsNothing DEF LinksHold, LinkHolds, Kept, Mig!NoLinks, Mig!NoLink
<1>8. RunnersHold
  BY <1>3 DEF RunnersHold, Runs, RunnerKnows, RunnerDid, RunnerOutdated
<1> QED
  BY <1>3, <1>4, <1>5, <1>6, <1>7, <1>8 DEF MigrationInv, PlansHold, PlansOutdated, Mig!CheckpointCovers

\* A step that leaves the stored plans as they are, but for their states.
SamePlans == \A s \in Items : /\ Begun(s)' = Begun(s) /\ Reading(s)' = Reading(s)
                              /\ Stored(s)' = Stored(s)
                              /\ Effects(s)' = Effects(s) /\ Read(s)' = Read(s)
                              /\ Copied(s)' = Copied(s)

\* A step of the runners and their document that leaves source and targets alone.
LEMMA QuietStep ==
  ASSUME MigrationInv, UNCHANGED <<source, target, synced>>,
         mig' \in MigType, SamePlans, LinksHold',
         mig'.project.checkpoint <= source.time, Mig!CheckpointCovers',
         runner' \in [Agents -> RunType],
         \A r \in Agents : runner'[r] = runner[r] \/ Runs(r)'
  PROVE  MigrationInv'
<1>1. MigrationTypes' /\ Past'
  BY DEF MigrationInv, MigrationTypes, Past, SamePlans
<1>2. PlansHold' /\ PlansOutdated'
  BY DEF MigrationInv, SamePlans, PlansHold, PlanPins, PlanLeavesOut, Kept, Synced, PlansOutdated,
    PlanOutdated, UpToDate
<1>3. RunnersHold'
  <2>1. SUFFICES ASSUME NEW r \in Agents, runner'[r] = runner[r] PROVE Runs(r)'
    BY DEF RunnersHold
  <2>2. Runs(r)
    BY DEF MigrationInv, RunnersHold
  <2>3. RunnerKnows(r)'
    BY <2>1, <2>2 DEF Runs, RunnerKnows, SamePlans, At, Aim
  <2>4. RunnerDid(r)'
    BY <2>1, <2>2 DEF Runs, RunnerKnows, RunnerDid, SamePlans, Synced
  <2>5. RunnerOutdated(r)'
    BY <2>1, <2>2 DEF Runs, RunnerKnows, RunnerOutdated, SamePlans, At, Aim, UpToDate, Synced
  <2> QED BY <2>3, <2>4, <2>5 DEF Runs
<1> QED
  BY <1>1, <1>2, <1>3 DEF MigrationInv

\* A step of the runners that leaves source, targets and links alone.
LEMMA RunnerStep ==
  ASSUME MigrationInv, UNCHANGED <<source, target, synced>>,
         mig' \in MigType, SamePlans, mig'.links = mig.links,
         mig'.project.checkpoint = mig.project.checkpoint,
         runner' \in [Agents -> RunType],
         \A r \in Agents : runner'[r] = runner[r] \/ Runs(r)'
  PROVE  MigrationInv'
<1>1. mig'.project.checkpoint <= source.time /\ Mig!CheckpointCovers'
  BY DEF MigrationInv, Past, Mig!CheckpointCovers
<1>2. LinksHold'
  BY DEF MigrationInv, SamePlans, LinksHold, LinkHolds, Kept
<1> QED
  BY <1>1, <1>2, QuietStep

\* What the types of the state say of its parts.
LEMMA MigrationParts ==
  ASSUME MigrationInv
  PROVE  /\ mig \in MigType /\ mig.recipe \in Nat /\ mig.project \in ProjectType
         /\ mig.plans \in [Items -> SyncPlan] /\ mig.links \in [Records -> LinkType]
         /\ mig.project.checkpoint \in Nat
         /\ source.time \in Nat /\ source.at \in [Records -> Nat]
         /\ target \in [Records -> TargetType] /\ runner \in [Agents -> RunType]
         /\ synced \in [Records -> DataType]
         /\ \A x \in Records : /\ target[x].rev \in Nat /\ target[x].data \in DataType
                               /\ target[x].data.at \in Nat /\ synced[x].at \in Nat
         /\ \A r \in Agents : runner[r] \in RunType /\ RunnerKnows(r) /\ RunnerDid(r) /\ RunnerOutdated(r)
         /\ \A r \in Agents : runner[r].rev \in Nat
BY DEF MigrationInv, MigrationTypes, MigType, ProjectType, TargetType, DataType, RunType, RunnersHold, Runs

\* The source moves past everything that was read of the record.
LEMMA SourceStep ==
  ASSUME MigrationInv, NEW x \in Records, Mig!SourceChanges(x)
  PROVE  MigrationInv'
<1>0. /\ MigrationTypes /\ Past /\ PlansHold /\ LinksHold /\ PlansOutdated /\ RunnersHold
      /\ Mig!CheckpointCovers
  BY DEF MigrationInv
<1>1. PICK now \in Nat : now = source.time + 1
  BY MigrationParts
<1>2. /\ source'.time = now /\ source'.at = [source.at EXCEPT ![x] = now]
      /\ mig' = mig /\ target' = target /\ runner' = runner /\ synced' = synced
  BY <1>1 DEF Mig!SourceChanges
<1>3. /\ source'.at[x] = now /\ \A y \in Records : y # x => source'.at[y] = source.at[y]
      /\ source'.at \in [Records -> Nat]
      /\ \A s \in Items : Read(s) \in Nat /\ Read(s) < now
      /\ mig.project.checkpoint < now
      /\ \A y \in Records : source.at[y] < now /\ target[y].data.at < now /\ synced[y].at < now
  BY <1>0, <1>1, <1>2, MigrationParts, EffectsType DEF Past
<1>4. SamePlans /\ \A s \in Items : /\ Begun(s)' = Begun(s) /\ Reading(s)' = Reading(s)
                             /\ Stored(s)' = Stored(s) /\ Effects(s)' = Effects(s)
                             /\ Read(s)' = Read(s) /\ Copied(s)' = Copied(s)
  BY <1>2 DEF SamePlans, Begun, Reading, Stored, Effects, Read, Copied
<1>5. MigrationTypes'
  <2>1. source' \in [time : Nat, at : [Records -> Nat]]
    BY <1>0, <1>1, <1>2, <1>3 DEF Mig!SourceChanges
  <2> QED BY <1>0, <1>2, <2>1 DEF MigrationTypes
<1>6. Past'
  <2>1. now <= now /\ \A y \in Records : source'.at[y] <= now /\ now # target[y].data.at
    BY <1>1, <1>3, MigrationParts
  <2>2. \A y \in Records : target[y].late => target[y].data.at # source'.at[y]
    BY <1>0, <1>3, <2>1 DEF Past
  <2> QED BY <1>1, <1>2, <1>3, <1>4, <2>1, <2>2, MigrationParts DEF Past
<1>7. \A y \in Records : UpToDate(y)' => UpToDate(y) /\ y # x
  BY <1>2, <1>3, MigrationParts DEF UpToDate, Synced
<1>8. PlansHold'
  <2>1. SUFFICES ASSUME NEW s \in Items, Begun(s) PROVE PlanPins(s)' /\ PlanLeavesOut(s)'
    BY <1>0, <1>2, <1>4 DEF PlansHold, Kept
  <2>2. PlanPins(s) /\ PlanLeavesOut(s)
    BY <1>0, <2>1 DEF PlansHold
  <2>3. \A y \in DOMAIN Effects(s) :
          /\ Effects(s)[y].data.at = source'.at[y] \/ source'.at[y] > Read(s)
          /\ Effects(s)[y].late => Effects(s)[y].data.at # source'.at[y]
    <3>1. DOMAIN Effects(s) \subseteq Records /\ \A y \in DOMAIN Effects(s) : Effects(s)[y].data.at \in Nat
      BY <1>0, EffectsType
    <3> QED BY <1>1, <1>3, <2>2, <3>1 DEF PlanPins
  <2>4. PlanPins(s)'
    BY <1>2, <1>4, <2>2, <2>3 DEF PlanPins
  <2>5. PlanLeavesOut(s)'
    BY <1>1, <1>2, <1>3, <1>4, <2>2 DEF PlanLeavesOut, Synced
  <2> QED BY <2>4, <2>5
<1>9. LinksHold'
  BY <1>0, <1>2, <1>4 DEF LinksHold, LinkHolds, Kept
<1>10. PlansOutdated'
  <2>1. SUFFICES ASSUME NEW s \in Items, Begun(s) PROVE PlanOutdated(s)'
    BY <1>0, <1>4 DEF PlansOutdated
  <2>2. DOMAIN Effects(s) \subseteq Records
    BY <1>0, EffectsType
  <2> QED BY <1>0, <1>2, <1>3, <1>4, <1>7, <2>1, <2>2 DEF PlansOutdated, PlanOutdated
<1>11. RunnersHold'
  <2>1. SUFFICES ASSUME NEW r \in Agents PROVE Runs(r)'
    BY DEF RunnersHold
  <2>2. RunnerKnows(r) /\ RunnerDid(r) /\ RunnerOutdated(r) /\ runner'[r] = runner[r]
    BY <1>2, MigrationParts
  <2>3. RunnerKnows(r)'
    BY <1>2, <1>4, <2>2 DEF RunnerKnows, At, Aim
  <2>4. CASE runner[r].pc = "idle"
    BY <2>2, <2>3, <2>4 DEF Runs, RunnerDid, RunnerOutdated
  <2>5. CASE runner[r].pc # "idle"
    <3>1. runner[r].plan \in Items /\ DOMAIN Effects(runner[r].plan) \subseteq Records
      BY <1>0, <2>2, <2>5, EffectsType DEF RunnerKnows
    <3>2. RunnerDid(r)'
      BY <1>1, <1>2, <1>3, <1>4, <2>2, <2>5, <3>1 DEF RunnerDid, Synced
    <3>3. RunnerOutdated(r)'
      <4>1. SUFFICES ASSUME runner[r].pc \in {"link", "write", "publish"}, UpToDate(runner[r].record)',
                            Aim(r)'.data.at # source'.at[runner[r].record]
                     PROVE  Aim(r).late \/ At(r).late \/ runner[r].rev < At(r).rev
        BY <1>2, <1>4, <2>2, <3>1 DEF RunnerOutdated, At, Aim
      <4>2. runner[r].record \in Records /\ Aim(r)' = Aim(r)
        BY <1>2, <1>4, <2>2, <3>1, <4>1 DEF RunnerKnows, Aim
      <4>3. UpToDate(runner[r].record) /\ source'.at[runner[r].record] = source.at[runner[r].record]
        BY <1>3, <1>7, <2>2, <4>1, <4>2
      <4> QED BY <2>2, <4>1, <4>2, <4>3 DEF RunnerOutdated
    <3> QED BY <2>3, <3>2, <3>3 DEF Runs
  <2> QED BY <2>4, <2>5
<1>12. Mig!CheckpointCovers'
  BY <1>0, <1>1, <1>2, <1>3, MigrationParts DEF Mig!CheckpointCovers
<1> QED
  BY <1>5, <1>6, <1>8, <1>9, <1>10, <1>11, <1>12 DEF MigrationInv

\* A target gets a next revision, with data that no plan from before the state
\* of the source it is up to date with can claim, unless it is known to be late.
LEMMA TargetStep ==
  ASSUME MigrationInv, NEW x \in Records, NEW data \in DataType, NEW late \in BOOLEAN,
         data.at <= source.time, late => data.at # source.at[x],
         target' = [target EXCEPT ![x] = [target[x] EXCEPT !.rev = target[x].rev + 1, !.data = data,
                                                           !.late = late]],
         UNCHANGED <<source, mig, synced>>,
         data.at = 0 \/ data.at = source.at[x] \/ ~Synced(x) \/ late,
         runner' \in [Agents -> RunType],
         \A r \in Agents : runner'[r] = runner[r] \/ Runs(r)'
  PROVE  MigrationInv'
<1>0. /\ MigrationTypes /\ Past /\ PlansHold /\ LinksHold /\ PlansOutdated /\ RunnersHold
      /\ Mig!CheckpointCovers
  BY DEF MigrationInv
<1>1. target[x].rev \in Nat /\ target[x].rev + 1 \in Nat
  BY MigrationParts
<1>2. /\ target' \in [Records -> TargetType]
      /\ target'[x].rev = target[x].rev + 1 /\ target'[x].data = data /\ target'[x].late = late
      /\ \A y \in Records : y # x => target'[y] = target[y]
  <2> DEFINE row == [target[x] EXCEPT !.rev = target[x].rev + 1, !.data = data, !.late = late]
  <2>1. row \in TargetType /\ row.rev = target[x].rev + 1 /\ row.data = data /\ row.late = late
    BY <1>1, MigrationParts DEF TargetType
  <2>2. target' = [target EXCEPT ![x] = row]
    OBVIOUS
  <2> HIDE DEF row
  <2> QED BY <2>1, <2>2, MigrationParts
<1>3. /\ SamePlans
      /\ \A s \in Items : /\ Begun(s)' = Begun(s) /\ Reading(s)' = Reading(s)
                             /\ Stored(s)' = Stored(s) /\ Effects(s)' = Effects(s)
                             /\ Read(s)' = Read(s) /\ Copied(s)' = Copied(s)
  BY DEF SamePlans, Begun, Reading, Stored, Effects, Read, Copied
<1>4. MigrationTypes' /\ Past' /\ Mig!CheckpointCovers'
  BY <1>0, <1>2, <1>3 DEF MigrationTypes, Past, Mig!CheckpointCovers
<1>5. \A s \in Items : Begun(s) => \A y \in DOMAIN Effects(s) :
        /\ y \in Records /\ Effects(s)[y].rev \in Nat /\ Effects(s)[y].rev <= target[y].rev
        /\ Effects(s)[y].data.at # 0
  BY <1>0, EffectsType DEF PlansHold, PlanPins
<1>6. \A y \in Records : target[y].rev \in Nat /\ target'[y].rev \in Nat /\ target[y].rev <= target'[y].rev
  BY <1>1, <1>2, MigrationParts
\* A link that is not of the new revision says nothing of it.
<1>k. ASSUME NEW y \in Records, NEW link \in LinkType, Kept(link, y)
      PROVE  link.state = "applied" => /\ link.rev <= target'[y].rev
                                       /\ link.rev = target'[y].rev => target'[y].data = link.data
  <2>1. link.rev \in Nat
    BY DEF LinkType
  <2>2. CASE y = x
    <3>1. link.rev <= target[x].rev => link.rev <= target[x].rev + 1 /\ link.rev # target[x].rev + 1
      BY <1>1, <2>1
    <3> QED BY <1>2, <1>k, <2>2, <3>1 DEF Kept
  <2>3. CASE y # x
    BY <1>2, <1>k, <2>3 DEF Kept
  <2> QED BY <2>2, <2>3
<1>7. PlansHold'
  <2>1. SUFFICES ASSUME NEW s \in Items, Begun(s)
                 PROVE  /\ PlanPins(s)' /\ PlanLeavesOut(s)'
                        /\ \A y \in Records : Kept(Copied(s)[y], y)'
    BY <1>0, <1>3 DEF PlansHold
  <2>2. PlanPins(s) /\ PlanLeavesOut(s) /\ \A y \in Records : Kept(Copied(s)[y], y)
    BY <1>0, <2>1 DEF PlansHold
  <2>3. \A y \in DOMAIN Effects(s) : /\ Effects(s)[y].rev <= target'[y].rev
                                     /\ y = x => Effects(s)[y].rev # target'[y].rev
    BY <1>1, <1>2, <1>5, <1>6, <2>1
  <2>4. PlanPins(s)'
    BY <1>2, <1>3, <1>5, <2>1, <2>2, <2>3 DEF PlanPins
  <2>5. PlanLeavesOut(s)'
    BY <1>3, <2>2 DEF PlanLeavesOut, Synced
  <2>6. ASSUME NEW y \in Records PROVE Kept(Copied(s)[y], y)'
    <3>1. Copied(s)' = Copied(s) /\ Copied(s)[y] \in LinkType /\ Kept(Copied(s)[y], y)
      BY <1>3, <2>2, MigrationParts DEF Copied, SyncPlan
    <3> QED BY <1>k, <3>1 DEF Kept
  <2> QED BY <2>4, <2>5, <2>6
<1>8. LinksHold'
  <2>1. SUFFICES ASSUME NEW y \in Records PROVE LinkHolds(y)'
    BY DEF LinksHold
  <2>2. LinkHolds(y) /\ mig.links[y] \in LinkType /\ mig'.links[y] = mig.links[y]
    BY <1>0, MigrationParts DEF LinksHold
  <2>3. Kept(mig.links[y], y)'
    BY <1>k, <2>2 DEF LinkHolds, Kept
  <2> QED BY <1>3, <2>2, <2>3 DEF LinkHolds, Kept
<1>9. \A y \in Records : y # x => UpToDate(y)' = UpToDate(y)
  BY <1>2 DEF UpToDate, Synced
<1>10. PlansOutdated'
  <2>1. SUFFICES ASSUME NEW s \in Items, Begun(s), NEW y \in DOMAIN Effects(s), UpToDate(y)',
                        ~Effects(s)[y].late, Effects(s)[y].action # "unread",
                        Effects(s)[y].data.at # source.at[y]
                 PROVE  /\ Effects(s)[y].rev < target'[y].rev
                        /\ target'[y].late \/ target'[y].data.at # Effects(s)[y].data.at
    BY <1>0, <1>3 DEF PlansOutdated, PlanOutdated
  <2>2. CASE y = x
    <3>1. data.at = source.at[x] \/ Synced(x)
      BY <1>2, <2>1, <2>2 DEF UpToDate, Synced
    <3>2. data.at = 0 \/ data.at = source.at[x] \/ late
      BY <3>1
    <3> QED BY <1>1, <1>2, <1>5, <2>1, <2>2, <3>2
  <2>3. CASE y # x
    BY <1>0, <1>2, <1>5, <1>9, <2>1, <2>3 DEF PlansOutdated, PlanOutdated
  <2> QED BY <2>2, <2>3
<1>11. RunnersHold'
  <2>1. SUFFICES ASSUME NEW r \in Agents, runner'[r] = runner[r] PROVE Runs(r)'
    BY DEF RunnersHold
  <2>2. RunnerKnows(r) /\ RunnerDid(r) /\ RunnerOutdated(r) /\ runner[r].rev \in Nat
    BY MigrationParts
  <2>3. RunnerDid(r)'
    BY <1>3, <2>1, <2>2 DEF RunnerKnows, RunnerDid, Synced
  <2>4. CASE runner[r].pc \notin {"link", "write", "publish", "finalize"}
    <3>1. RunnerKnows(r)'
      BY <1>3, <2>1, <2>2, <2>4 DEF RunnerKnows
    <3> QED BY <2>1, <2>3, <2>4, <3>1 DEF Runs, RunnerOutdated
  <2>5. CASE runner[r].pc \in {"link", "write", "publish", "finalize"}
    <3>1. /\ runner[r].plan \in Items /\ Stored(runner[r].plan)
          /\ runner[r].record \in DOMAIN Effects(runner[r].plan) /\ runner[r].rev <= At(r).rev
      BY <2>2, <2>5 DEF RunnerKnows
    <3>2. runner[r].record \in Records
      BY <1>5, <3>1 DEF Begun, Stored
    <3>3. Aim(r)' = Aim(r) /\ At(r)' = target'[runner[r].record]
      BY <1>3, <2>1, <3>1 DEF Aim, At
    <3>4. CASE runner[r].record = x
      <4>1. runner[r].rev <= target'[x].rev /\ runner[r].rev < target'[x].rev /\ runner[r].rev # target'[x].rev
        BY <1>1, <1>2, <2>2, <3>1, <3>4 DEF At
      <4>2. RunnerKnows(r)'
        BY <1>3, <2>1, <2>2, <3>1, <3>3, <3>4, <4>1 DEF RunnerKnows
      <4>3. RunnerOutdated(r)'
        BY <2>1, <3>3, <3>4, <4>1 DEF RunnerOutdated
      <4> QED BY <2>3, <4>2, <4>3 DEF Runs
    <3>5. CASE runner[r].record # x
      <4>1. At(r)' = At(r) /\ UpToDate(runner[r].record)' = UpToDate(runner[r].record)
        BY <1>2, <1>9, <2>1, <3>2, <3>3, <3>5 DEF At
      <4>2. RunnerKnows(r)'
        BY <1>3, <2>1, <2>2, <3>1, <3>3, <4>1 DEF RunnerKnows
      <4>3. RunnerOutdated(r)'
        BY <2>1, <2>2, <3>3, <4>1 DEF RunnerOutdated
      <4> QED BY <2>3, <4>2, <4>3 DEF Runs
    <3> QED BY <3>4, <3>5
  <2> QED BY <2>4, <2>5
<1> QED
  BY <1>4, <1>7, <1>8, <1>10, <1>11 DEF MigrationInv

\* An editor overwrites a record of the target, with data of no time of the source.
LEMMA EditStep ==
  ASSUME MigrationInv, NEW x \in Records, Mig!EditTarget(x)
  PROVE  MigrationInv'
<1>1. Mig!ByHand \in DataType /\ Mig!ByHand.at = 0 /\ 0 <= source.time
  BY MigrationParts DEF Mig!ByHand, DataType
<1>2. /\ target' = [target EXCEPT ![x] = [target[x] EXCEPT !.rev = target[x].rev + 1,
                                                          !.data = Mig!ByHand, !.late = FALSE]]
      /\ UNCHANGED <<source, mig, synced, runner>>
  BY MigrationParts DEF Mig!EditTarget, TargetType
<1> QED
  BY <1>1, <1>2, TargetStep, MigrationParts

\* The write of a runner whose target is the one its plan was reviewed for.
LEMMA WriteStep ==
  ASSUME MigrationInv, NEW r \in Agents, Mig!WriteTarget(r),
         ~(runner[r].recovering \/ Aim(r).action = "noop"),
         target[runner[r].record].rev = runner[r].rev
  PROVE  MigrationInv'
<1> DEFINE op == [runner[r] EXCEPT !.pc = "publish", !.rev = runner[r].rev + 1]
<1>0. /\ runner[r].pc = "write" /\ runner[r].plan \in Items /\ Stored(runner[r].plan)
      /\ runner[r].todo \subseteq DOMAIN Effects(runner[r].plan)
      /\ runner[r].record \in DOMAIN Effects(runner[r].plan)
  BY MigrationParts DEF Mig!WriteTarget, RunnerKnows
<1>s. PICK s \in Items : s = runner[r].plan
  BY <1>0
<1>x. PICK x \in Records : x = runner[r].record
  BY <1>0, EffectsType DEF MigrationInv
<1>d. PICK data \in DataType, late \in BOOLEAN : data = Aim(r).data /\ late = Aim(r).late
  BY <1>0, EffectsType DEF MigrationInv, Aim, EffectType
<1>1. /\ target' = [target EXCEPT ![x] = [target[x] EXCEPT !.rev = target[x].rev + 1, !.data = data,
                                                          !.late = late]]
      /\ runner' = [runner EXCEPT ![r] = op] /\ UNCHANGED <<source, mig, synced>>
  BY <1>0, <1>x, <1>d, MigrationParts DEF Mig!WriteTarget, Aim, Effects
<1>2. /\ op \in RunType /\ op.pc = "publish" /\ op.plan = s /\ op.todo = runner[r].todo
      /\ op.record = x /\ op.rev = target[x].rev + 1 /\ op.rev \in Nat
  <2>1. runner[r].rev + 1 \in Nat
    BY MigrationParts
  <2> QED BY <1>s, <1>x, <2>1, MigrationParts DEF RunType
<1> HIDE DEF op
<1>3. runner' \in [Agents -> RunType] /\ runner'[r] = op
      /\ \A g \in Agents : g # r => runner'[g] = runner[g]
  BY <1>1, <1>2, MigrationParts
<1>4. target'[x].rev = target[x].rev + 1 /\ target'[x].data = data /\ target'[x].late = late
  BY <1>1, MigrationParts DEF TargetType
<1>5. /\ Stored(s)' /\ Effects(s)' = Effects(s) /\ Read(s)' = Read(s)
      /\ Effects(s)[x].data = data /\ Effects(s)[x].late = late /\ Begun(s)
  BY <1>0, <1>x, <1>s, <1>d, <1>1 DEF Begun, Reading, Stored, Effects, Read, Copied, Aim
<1>6. data.at <= source.time
  <2>1. data.at \in Nat /\ Read(s) \in Nat /\ data.at <= Read(s) /\ Read(s) <= source.time
    BY <1>0, <1>s, <1>x, <1>5, EffectsType DEF MigrationInv, PlansHold, PlanPins, Past
  <2> QED BY <2>1, MigrationParts
<1>7. source.at[x] # 0
  <2>1. x \in DOMAIN Effects(s) /\ Effects(s)[x].data.at \in Nat /\ Read(s) \in Nat
    BY <1>0, <1>s, <1>x, EffectsType DEF MigrationInv
  <2>2. PlanPins(s) /\ source.at[x] \in Nat
    BY <1>5, MigrationParts DEF MigrationInv, PlansHold
  <2> QED BY <2>1, <2>2 DEF PlanPins
<1>8. data.at = source.at[x] \/ ~Synced(x) \/ late
  <2>1. Effects(s)[x].rev = target[x].rev /\ Effects(s)[x].rev \in Nat
    BY <1>0, <1>s, <1>x, EffectsType, MigrationParts DEF MigrationInv, RunnerKnows, Aim
  <2>2. ~(Effects(s)[x].rev < target[x].rev)
    BY <2>1
  <2>3. PlanOutdated(s) /\ Effects(s)[x].action # "unread" /\ x \in DOMAIN Effects(s)
    BY <1>0, <1>s, <1>x, <1>5 DEF MigrationInv, PlansOutdated
  <2> QED BY <1>5, <1>7, <2>2, <2>3 DEF PlanOutdated, UpToDate
<1>9. late => data.at # source.at[x]
  BY <1>0, <1>s, <1>x, <1>5 DEF MigrationInv, PlansHold, PlanPins
<1>10. Runs(r)'
  <2>1. RunnerKnows(r)'
    <3>1. op.rev <= target'[x].rev
      BY <1>2, <1>4
    <3> QED BY <1>0, <1>s, <1>x, <1>2, <1>3, <1>4, <1>5, <3>1 DEF RunnerKnows, At, Aim
  <2>2. RunnerDid(r)'
    <3>1. RunnerDid(r)
      BY MigrationParts
    <3> QED BY <1>0, <1>s, <1>1, <1>2, <1>3, <1>5, <3>1 DEF RunnerDid, Synced
  <2>3. RunnerOutdated(r)'
    BY <1>1, <1>2, <1>3, <1>4, <1>5, <1>8 DEF RunnerOutdated, UpToDate, Synced, Aim
  <2> QED BY <2>1, <2>2, <2>3 DEF Runs
<1> QED
  BY <1>1, <1>3, <1>6, <1>8, <1>9, <1>10, TargetStep

\* The publication of what the runner wrote or found.
LEMMA PublishStep ==
  ASSUME MigrationInv, NEW r \in Agents, NEW b \in BOOLEAN, Mig!PublishTarget(r, b),
         ~b, target[runner[r].record].rev = runner[r].rev
  PROVE  MigrationInv'
<1> DEFINE op == [runner[r] EXCEPT !.pc = "finalize"]
           late == target[runner[r].record].late \/ Aim(r).late
<1>i. /\ MigrationTypes /\ Past /\ PlansHold /\ LinksHold /\ PlansOutdated /\ RunnersHold
      /\ Mig!CheckpointCovers
  BY DEF MigrationInv
<1>0. /\ runner[r].pc = "publish" /\ runner[r].plan \in Items /\ Stored(runner[r].plan)
      /\ runner[r].todo \subseteq DOMAIN Effects(runner[r].plan)
      /\ runner[r].record \in DOMAIN Effects(runner[r].plan)
  BY MigrationParts DEF Mig!PublishTarget, RunnerKnows
<1>x. PICK x \in Records : x = runner[r].record
  BY <1>0, EffectsType DEF MigrationInv
<1>1. /\ target' = [target EXCEPT ![x].pub = runner[r].rev]
      /\ synced' = IF late THEN synced ELSE [synced EXCEPT ![x] = target[x].data]
      /\ runner' = [runner EXCEPT ![r] = op] /\ UNCHANGED <<source, mig>>
  BY <1>x, MigrationParts DEF Mig!PublishTarget, Mig!Goes, Aim, Effects
<1>2. /\ op \in RunType /\ op.pc = "finalize" /\ op.plan = runner[r].plan /\ op.todo = runner[r].todo
      /\ op.record = x /\ op.rev = runner[r].rev
  BY <1>x, MigrationParts DEF RunType
<1> HIDE DEF op
<1>3. runner' \in [Agents -> RunType] /\ runner'[r] = op
      /\ \A g \in Agents : g # r => runner'[g] = runner[g]
  BY <1>1, <1>2, MigrationParts
<1>4. /\ target' \in [Records -> TargetType]
      /\ \A y \in Records : /\ target'[y].rev = target[y].rev /\ target'[y].data = target[y].data
                            /\ target'[y].late = target[y].late
  <2> DEFINE row == [target[x] EXCEPT !.pub = runner[r].rev]
  <2>1. /\ row \in TargetType /\ row.rev = target[x].rev /\ row.data = target[x].data
        /\ row.late = target[x].late
    BY MigrationParts DEF TargetType
  <2>2. target' = [target EXCEPT ![x] = row]
    BY <1>1
  <2> HIDE DEF row
  <2> QED BY <2>1, <2>2, MigrationParts
<1>5. /\ synced' \in [Records -> DataType]
      /\ synced'[x] = IF late THEN synced[x] ELSE target[x].data
      /\ \A y \in Records : y # x => synced'[y] = synced[y]
  BY <1>1, MigrationParts
<1>6. /\ SamePlans
      /\ \A s \in Items : /\ Begun(s)' = Begun(s) /\ Reading(s)' = Reading(s)
                             /\ Stored(s)' = Stored(s) /\ Effects(s)' = Effects(s)
                             /\ Read(s)' = Read(s) /\ Copied(s)' = Copied(s)
  BY <1>1 DEF SamePlans, Begun, Reading, Stored, Effects, Read, Copied
<1>7. target[x].data = Effects(runner[r].plan)[x].data
  BY <1>0, <1>x, MigrationParts DEF RunnerKnows, At, Aim
<1>8. /\ source.at[x] # 0
      /\ target[x].data.at = source.at[x] \/ source.at[x] > Read(runner[r].plan)
  BY <1>0, <1>x, <1>7, EffectsType, MigrationParts DEF MigrationInv, PlansHold, PlanPins, Begun, Stored
<1>9. late \/ target[x].data.at = source.at[x] \/ ~UpToDate(x)
  <2>1. ~(runner[r].rev < target[x].rev)
    BY <1>x, MigrationParts
  <2> QED BY <1>0, <1>x, <1>7, <2>1, MigrationParts DEF RunnerOutdated, At, Aim
\* What is late is behind the source.
<1>l. late => source.at[x] > Read(runner[r].plan)
  <2>1. late => target[x].data.at # source.at[x]
    BY <1>i, <1>0, <1>x, <1>7 DEF Past, PlansHold, PlanPins, Begun, Stored, Aim
  <2> QED BY <1>8, <2>1
<1> HIDE DEF late
<1>10. /\ \A y \in Records : Synced(y) => Synced(y)'
       /\ \A y \in Records : UpToDate(y)' => UpToDate(y)
  BY <1>1, <1>4, <1>5, <1>8, <1>9 DEF Synced, UpToDate
<1>11. MigrationTypes' /\ Past'
  BY <1>i, <1>1, <1>3, <1>4, <1>5, <1>6, <1>2, MigrationParts DEF MigrationTypes, Past
<1>12. PlansHold'
  <2>1. SUFFICES ASSUME NEW s \in Items, Begun(s) PROVE PlanPins(s)' /\ PlanLeavesOut(s)'
    BY <1>i, <1>4, <1>6 DEF PlansHold, Kept
  <2>2. PlanPins(s) /\ PlanLeavesOut(s) /\ DOMAIN Effects(s) \subseteq Records
    BY <1>i, <2>1, EffectsType DEF PlansHold
  <2>3. PlanPins(s)'
    BY <1>1, <1>4, <1>6, <2>2 DEF PlanPins
  <2>4. PlanLeavesOut(s)'
    BY <1>1, <1>6, <1>10, <2>2 DEF PlanLeavesOut
  <2> QED BY <2>3, <2>4
<1>13. LinksHold'
  BY <1>i, <1>1, <1>4, <1>6 DEF LinksHold, LinkHolds, Kept
<1>14. PlansOutdated'
  <2>1. SUFFICES ASSUME NEW s \in Items, Begun(s) PROVE PlanOutdated(s)'
    BY <1>i, <1>6 DEF PlansOutdated
  <2>2. PlanOutdated(s) /\ DOMAIN Effects(s) \subseteq Records
    BY <1>i, <2>1, EffectsType DEF PlansOutdated
  <2> QED BY <1>1, <1>4, <1>6, <1>10, <2>2 DEF PlanOutdated
<1>15. RunnersHold'
  <2>1. SUFFICES ASSUME NEW g \in Agents PROVE Runs(g)'
    BY DEF RunnersHold
  <2>2. RunnerKnows(g) /\ RunnerDid(g) /\ RunnerOutdated(g)
    BY MigrationParts
  <2>3. CASE g = r
    <3>1. RunnerKnows(g)'
      BY <1>0, <1>x, <1>2, <1>3, <1>4, <1>6, <1>7, <2>2, <2>3 DEF RunnerKnows, At, Aim
    <3>2. RunnerDid(g)'
      <4>1. DOMAIN Effects(runner[r].plan) \subseteq Records
        BY <1>0, <1>i, EffectsType
      <4>2. source.at[x] > Read(runner[r].plan) \/ Synced(x)'
        BY <1>1, <1>5, <1>8, <1>l DEF Synced
      <4> QED BY <1>0, <1>1, <1>2, <1>3, <1>6, <1>10, <2>2, <2>3, <4>1, <4>2 DEF RunnerDid
    <3> QED BY <1>2, <1>3, <2>3, <3>1, <3>2 DEF Runs, RunnerOutdated
  <2>4. CASE g # r /\ runner[g].pc # "idle"
    <3>1. /\ runner[g].plan \in Items /\ DOMAIN Effects(runner[g].plan) \subseteq Records
          /\ runner'[g] = runner[g]
      BY <1>i, <1>3, <2>2, <2>4, EffectsType DEF RunnerKnows
    <3>2. runner[g].pc \in {"link", "write", "publish", "finalize"} =>
            /\ runner[g].record \in Records /\ Aim(g)' = Aim(g) /\ At(g)'.rev = At(g).rev
            /\ At(g)'.data = At(g).data /\ At(g)'.late = At(g).late
      BY <1>4, <1>6, <2>2, <3>1 DEF RunnerKnows, Aim, At
    <3>3. RunnerKnows(g)'
      BY <1>6, <2>2, <3>1, <3>2 DEF RunnerKnows
    <3>4. RunnerDid(g)'
      BY <1>1, <1>6, <1>10, <2>2, <2>4, <3>1 DEF RunnerDid
    <3>5. RunnerOutdated(g)'
      BY <1>1, <1>10, <2>2, <3>1, <3>2 DEF RunnerOutdated
    <3> QED BY <3>3, <3>4, <3>5 DEF Runs
  <2>5. CASE g # r /\ runner[g].pc = "idle"
    BY <1>3, <2>5 DEF Runs, RunnerKnows, RunnerDid, RunnerOutdated
  <2> QED BY <2>3, <2>4, <2>5
<1>16. Mig!CheckpointCovers'
  BY <1>i, <1>1, <1>10 DEF Mig!CheckpointCovers, Synced
<1> QED
  BY <1>11, <1>12, <1>13, <1>14, <1>15, <1>16 DEF MigrationInv

\* A plan is begun, drawn up or stored; nobody executes it yet.
LEMMA PlanningStep ==
  ASSUME MigrationInv, NEW s \in Items, ~Stored(s), NEW plan \in SyncPlan, plan.state # "none",
         mig' = [mig EXCEPT !.plans = [mig.plans EXCEPT ![s] = plan]],
         UNCHANGED <<source, target, runner, synced>>, plan.checkpoint <= source.time,
         PlanPins(s)', PlanLeavesOut(s)', PlanOutdated(s)',
         \A x \in Records : Kept(plan.links[x], x),
         plan.state = "reading" => DOMAIN plan.effects = {},
         plan.state \notin {"reading", "mapping"} =>
           \A x \in DOMAIN plan.effects : plan.effects[x].action # "unread"
  PROVE  MigrationInv'
<1>i. /\ MigrationTypes /\ Past /\ PlansHold /\ LinksHold /\ PlansOutdated /\ RunnersHold
      /\ Mig!CheckpointCovers
  BY DEF MigrationInv
<1>1. /\ mig' \in MigType /\ mig'.project = mig.project /\ mig'.links = mig.links
      /\ mig'.plans = [mig.plans EXCEPT ![s] = plan]
  BY MigrationParts DEF MigType
<1>2. /\ Effects(s)' = plan.effects /\ Read(s)' = plan.checkpoint /\ Copied(s)' = plan.links
      /\ Reading(s)' = (plan.state = "reading")
      /\ Stored(s)' = (plan.state \notin {"none", "reading", "mapping"})
      /\ \A p \in Items : p # s => /\ Begun(p)' = Begun(p) /\ Reading(p)' = Reading(p)
                                   /\ Stored(p)' = Stored(p) /\ Effects(p)' = Effects(p)
                                   /\ Read(p)' = Read(p) /\ Copied(p)' = Copied(p)
  BY <1>1, MigrationParts DEF Begun, Reading, Stored, Effects, Read, Copied
<1>3. MigrationTypes' /\ Past' /\ Mig!CheckpointCovers'
  BY <1>i, <1>1, <1>2 DEF MigrationTypes, Past, Mig!CheckpointCovers
<1>4. PlansHold' /\ PlansOutdated'
  <2>1. SUFFICES ASSUME NEW p \in Items, Begun(p)'
                 PROVE  /\ PlanPins(p)' /\ PlanLeavesOut(p)' /\ PlanOutdated(p)'
                        /\ \A x \in Records : Kept(Copied(p)[x], x)'
                        /\ Reading(p)' => DOMAIN Effects(p)' = {}
                        /\ Stored(p)' => \A x \in DOMAIN Effects(p)' : Effects(p)'[x].action # "unread"
    BY DEF PlansHold, PlansOutdated, Begun, Stored
  <2>2. CASE p = s
    BY <1>2, <2>2 DEF Kept
  <2>3. CASE p # s
    BY <1>i, <1>2, <2>1, <2>3 DEF PlansHold, PlanPins, PlanLeavesOut, Kept, Synced, PlansOutdated, PlanOutdated,
      UpToDate
  <2> QED BY <2>2, <2>3
<1>5. LinksHold'
  BY <1>i, <1>1, <1>2 DEF LinksHold, LinkHolds, Kept
<1>6. RunnersHold'
  <2>1. SUFFICES ASSUME NEW r \in Agents PROVE Runs(r)'
    BY DEF RunnersHold
  <2>2. RunnerKnows(r) /\ RunnerDid(r) /\ RunnerOutdated(r) /\ runner'[r] = runner[r]
    BY MigrationParts
  <2>3. CASE runner[r].pc = "idle"
    BY <2>2, <2>3 DEF Runs, RunnerKnows, RunnerDid, RunnerOutdated
  <2>4. CASE runner[r].pc # "idle"
    <3>1. LET p == runner[r].plan
          IN  p \in Items /\ Stored(p)' = Stored(p) /\ Effects(p)' = Effects(p) /\ Read(p)' = Read(p)
      BY <1>2, <2>2, <2>4 DEF RunnerKnows
    <3>2. RunnerKnows(r)'
      BY <2>2, <3>1 DEF RunnerKnows, At, Aim
    <3>3. RunnerDid(r)'
      BY <2>2, <3>1 DEF RunnerDid, Synced
    <3>4. RunnerOutdated(r)'
      BY <2>2, <3>1 DEF RunnerOutdated, At, Aim, UpToDate, Synced
    <3> QED BY <3>2, <3>3, <3>4 DEF Runs
  <2> QED BY <2>3, <2>4
<1> QED
  BY <1>3, <1>4, <1>5, <1>6 DEF MigrationInv

\* What a delta will leave out is synchronized or has changed since its checkpoint.
LEMMA PlanSyncStep ==
  ASSUME MigrationInv, NEW s \in Items, Mig!PlanSync(s)
  PROVE  MigrationInv'
<1> DEFINE since == IF Mig!CanDelta THEN mig.project.checkpoint ELSE 0
           plan == [Mig!NoPlan EXCEPT !.state = "reading", !.project = mig.project.version,
                                      !.recipe = mig.recipe, !.checkpoint = since,
                                      !.links = mig.links]
<1>i. Past /\ LinksHold /\ Mig!CheckpointCovers
  BY DEF MigrationInv
<1>1. since \in Nat /\ since <= source.time
  BY <1>i, MigrationParts DEF Past
<1> HIDE DEF since
<1>2. [x \in {} |-> None] \in EffectMaps
  <2>1. [x \in {} |-> None] \in [{} -> EffectType] /\ {} \in SUBSET Records
    OBVIOUS
  <2> QED BY <2>1 DEF EffectMaps
<1>3. /\ plan \in SyncPlan /\ plan.state = "reading" /\ plan.checkpoint = since
      /\ plan.links = mig.links /\ DOMAIN plan.effects = {}
  BY <1>1, <1>2, MigrationParts DEF SyncPlan, Mig!NoPlan, ProjectType
<1>4. /\ mig' = [mig EXCEPT !.plans = [mig.plans EXCEPT ![s] = plan]] /\ ~Stored(s)
      /\ UNCHANGED <<source, target, runner, synced>>
  BY MigrationParts DEF Mig!PlanSync, Stored, MigType, since
<1> HIDE DEF plan
<1>5. mig'.plans[s] = plan
  BY <1>4, MigrationParts DEF MigType
<1>6. PlanPins(s)' /\ PlanOutdated(s)'
  BY <1>3, <1>5 DEF PlanPins, PlanOutdated, Effects
<1>7. PlanLeavesOut(s)'
  <2>1. SUFFICES ASSUME NEW x \in Records, source.at[x] # 0, ~(source.at[x] > since) PROVE Synced(x)
    BY <1>3, <1>4, <1>5 DEF PlanLeavesOut, Synced, Read
  <2>2. source.at[x] \in Nat /\ mig.project.checkpoint \in Nat
    BY MigrationParts
  <2>3. source.at[x] <= mig.project.checkpoint
    BY <2>1, <2>2 DEF since
  <2> QED BY <1>i, <2>1, <2>3 DEF Mig!CheckpointCovers, Synced
<1>8. \A x \in Records : Kept(plan.links[x], x)
  BY <1>i, <1>3 DEF LinksHold, LinkHolds, Kept
<1> QED
  BY <1>1, <1>3, <1>4, <1>6, <1>7, <1>8, PlanningStep

\* A plan says of a record what the source says when it is read, and nothing of the target.
LEMMA ReadSourceStep ==
  ASSUME MigrationInv, NEW s \in Items, Mig!ReadSource(s)
  PROVE  MigrationInv'
<1> DEFINE snapshot == {x \in Records : source.at[x] # 0 /\ source.at[x] > Read(s)}
           unread == [x \in snapshot |-> Mig!Unread(s, x)]
           plan == [mig.plans[s] EXCEPT !.state = "mapping", !.checkpoint = source.time,
                                        !.effects = unread]
<1>i. Past /\ PlansHold
  BY DEF MigrationInv
<1>0. mig.plans[s].state = "reading" /\ Begun(s) /\ Reading(s) /\ ~Stored(s)
  BY DEF Mig!ReadSource, Begun, Reading, Stored
<1>1. /\ mig.plans[s] \in SyncPlan /\ mig.plans[s].recipe \in Nat /\ Read(s) \in Nat
      /\ mig.plans[s].links = Copied(s)
  BY MigrationParts DEF SyncPlan, Read, Copied
<1>2. \A x \in snapshot : /\ Mig!Unread(s, x) \in EffectType
                          /\ Mig!Unread(s, x).data.at = source.at[x] /\ Mig!Unread(s, x).rev = 0
                          /\ Mig!Unread(s, x).action = "unread" /\ ~Mig!Unread(s, x).late
  BY <1>1, MigrationParts DEF Mig!Unread, EffectType, DataType
<1>3. unread \in EffectMaps /\ DOMAIN unread = snapshot
  <2>1. unread \in [snapshot -> EffectType] /\ snapshot \in SUBSET Records
    BY <1>2
  <2> QED BY <2>1 DEF EffectMaps
<1> HIDE DEF snapshot
<1>4. \A x \in snapshot : unread[x] = Mig!Unread(s, x)
  OBVIOUS
<1> HIDE DEF unread
<1>5. /\ plan \in SyncPlan /\ plan.state = "mapping" /\ plan.checkpoint = source.time
      /\ plan.links = Copied(s) /\ plan.effects = unread
  BY <1>1, <1>3, MigrationParts DEF SyncPlan
<1>6. /\ mig' = [mig EXCEPT !.plans = [mig.plans EXCEPT ![s] = plan]]
      /\ UNCHANGED <<source, target, runner, synced>>
  BY MigrationParts DEF Mig!ReadSource, MigType, snapshot, unread, Read
<1> HIDE DEF plan
<1>7. mig'.plans[s] = plan /\ Effects(s)' = unread /\ Read(s)' = source.time
  BY <1>5, <1>6, MigrationParts DEF MigType, Effects, Read
<1>8. PlanPins(s)'
  <2>1. SUFFICES ASSUME NEW x \in snapshot
                 PROVE  /\ unread[x].rev <= target[x].rev
                        /\ unread[x].data.at # 0 /\ unread[x].data.at <= source.time
                        /\ unread[x].data.at = source.at[x] /\ ~unread[x].late
                        /\ unread[x].action # "noop"
    BY <1>3, <1>6, <1>7 DEF PlanPins
  <2>2. x \in Records /\ source.at[x] # 0 /\ source.at[x] <= source.time /\ 0 <= target[x].rev
    BY <1>i, MigrationParts DEF snapshot, Past
  <2> QED BY <1>2, <1>4, <2>2
<1>9. PlanOutdated(s)'
  BY <1>2, <1>3, <1>4, <1>7 DEF PlanOutdated
<1>10. PlanLeavesOut(s)'
  <2>1. SUFFICES ASSUME NEW x \in Records, x \notin snapshot, source.at[x] # 0 PROVE Synced(x)
    BY <1>3, <1>6, <1>7 DEF PlanLeavesOut, Synced
  <2>2. ~(source.at[x] > Read(s))
    BY <2>1 DEF snapshot
  <2> QED BY <1>0, <1>i, <2>1, <2>2 DEF PlansHold, PlanLeavesOut
<1>11. \A x \in Records : Kept(plan.links[x], x)
  BY <1>0, <1>i, <1>5 DEF PlansHold
<1>12. source.time <= source.time
  BY MigrationParts
<1> QED
  BY <1>0, <1>5, <1>6, <1>8, <1>9, <1>10, <1>11, <1>12, PlanningStep

\* Of the target a plan says what it holds now; it is late when that is later
\* than what the plan says of the source.
LEMMA BuildEffectStep ==
  ASSUME MigrationInv, NEW s \in Items, NEW x \in Records, Mig!BuildEffect(s, x)
  PROVE  MigrationInv'
<1> DEFINE record == Mig!Effect(s, x)
           built == [Effects(s) EXCEPT ![x] = record]
           plan == [mig.plans[s] EXCEPT !.effects = built]
<1>i. MigrationTypes /\ Past /\ PlansHold /\ PlansOutdated
  BY DEF MigrationInv
<1>0. /\ mig.plans[s].state = "mapping" /\ Begun(s) /\ ~Stored(s)
      /\ x \in DOMAIN Effects(s)
  BY DEF Mig!BuildEffect, Begun, Stored, Effects
<1>1. /\ mig.plans[s] \in SyncPlan /\ mig.plans[s].links = Copied(s) /\ mig.plans[s].checkpoint = Read(s)
      /\ mig.plans[s].effects = Effects(s) /\ Effects(s)[x].data \in DataType
  BY <1>i, <1>0, MigrationParts, EffectsType DEF Read, Copied, Effects
<1>2. /\ record.data = Effects(s)[x].data /\ record.rev = target[x].rev
      /\ record.late = Mig!MovedOn(x, Effects(s)[x].data)
      /\ record.action # "unread"
      /\ record.action = "noop" => /\ Copied(s)[x].state = "applied" /\ Copied(s)[x].rev = target[x].rev
                                   /\ Copied(s)[x].data = record.data
  BY <1>1 DEF Mig!Effect, Mig!Unaltered
<1>3. record \in EffectType
  <2>1. Mig!MovedOn(x, Effects(s)[x].data) \in BOOLEAN /\ target[x].rev \in Nat
    BY MigrationParts DEF Mig!MovedOn
  <2> QED BY <1>1, <2>1 DEF Mig!Effect, EffectType
<1> HIDE DEF record
<1>4. /\ built \in EffectMaps /\ DOMAIN built = DOMAIN Effects(s) /\ built[x] = record
      /\ \A y \in DOMAIN Effects(s) : y # x => built[y] = Effects(s)[y]
  <2>1. PICK X \in SUBSET Records : Effects(s) \in [X -> EffectType]
    BY <1>1 DEF SyncPlan, EffectMaps
  <2>2. built \in [X -> EffectType]
    BY <1>3, <2>1
  <2> QED BY <1>0, <2>1, <2>2 DEF EffectMaps
<1> HIDE DEF built
<1>5. /\ plan \in SyncPlan /\ plan.state = "mapping" /\ plan.checkpoint = Read(s)
      /\ plan.links = Copied(s) /\ plan.effects = built
  BY <1>0, <1>1, <1>4 DEF SyncPlan
<1>6. /\ mig' = [mig EXCEPT !.plans = [mig.plans EXCEPT ![s] = plan]]
      /\ UNCHANGED <<source, target, runner, synced>>
  BY <1>1, MigrationParts DEF Mig!BuildEffect, MigType, SyncPlan, built, record
<1> HIDE DEF plan
<1>7. mig'.plans[s] = plan /\ Effects(s)' = built /\ Read(s)' = Read(s)
  BY <1>5, <1>6, MigrationParts DEF MigType, Effects, Read
<1>8. /\ PlanPins(s) /\ PlanLeavesOut(s) /\ PlanOutdated(s)
      /\ \A y \in Records : Kept(Copied(s)[y], y)
  BY <1>i, <1>0 DEF PlansHold, PlansOutdated
<1>9. target[x].rev <= target[x].rev
  BY MigrationParts
<1>10. PlanPins(s)'
  <2>1. record.action = "noop" => target[x].data = record.data
    BY <1>2, <1>8 DEF Kept
  <2>2. record.late => record.data.at # source.at[x]
    BY <1>2 DEF Mig!MovedOn
  <2> QED BY <1>0, <1>2, <1>4, <1>6, <1>7, <1>8, <1>9, <2>1, <2>2 DEF PlanPins
<1>11. PlanLeavesOut(s)'
  BY <1>4, <1>6, <1>7, <1>8 DEF PlanLeavesOut, Synced
<1>12. PlanOutdated(s)'
  <2>1. record.late \/ record.data.at = source.at[x] \/ ~UpToDate(x)
    BY <1>2 DEF Mig!MovedOn, UpToDate, Synced
  <2> QED BY <1>4, <1>6, <1>7, <1>8, <2>1 DEF PlanOutdated, UpToDate, Synced
<1>13. Read(s) <= source.time
  BY <1>i DEF Past
<1> QED
  BY <1>0, <1>5, <1>6, <1>8, <1>10, <1>11, <1>12, <1>13, PlanningStep

\* A plan is stored or thrown away as it was drawn up.
LEMMA SavePlanStep ==
  ASSUME MigrationInv, NEW s \in Items, Mig!SavePlan(s)
  PROVE  MigrationInv'
<1> DEFINE st == IF Mig!SameProject(s) /\ Mig!RecipeKept(s) THEN "preview" ELSE "discarded"
           plan == [mig.plans[s] EXCEPT !.state = st, !.checkpoint = mig.plans[s].checkpoint,
                                        !.links = Mig!NoLinks]
<1>i. Past /\ PlansHold /\ PlansOutdated
  BY DEF MigrationInv
<1>0. /\ mig.plans[s].state = "mapping" /\ Begun(s) /\ ~Stored(s)
      /\ \A x \in DOMAIN Effects(s) : Effects(s)[x].action # "unread"
  BY DEF Mig!SavePlan, Begun, Stored, Effects
<1>1. st \in {"preview", "discarded"}
  OBVIOUS
<1>2. Mig!NoLinks \in [Records -> LinkType] /\ \A x \in Records : Kept(Mig!NoLinks[x], x)
  BY DEF Mig!NoLinks, Mig!NoLink, LinkType, Mig!ByHand, DataType, Kept
<1>3. /\ mig' = [mig EXCEPT !.plans = [mig.plans EXCEPT ![s] = plan]]
      /\ UNCHANGED <<source, target, runner, synced>>
  BY MigrationParts DEF Mig!SavePlan, Mig!NextCheckpoint, MigType
<1> HIDE DEF st
<1>4. /\ plan \in SyncPlan /\ plan.state = st /\ plan.checkpoint = Read(s)
      /\ plan.links = Mig!NoLinks /\ plan.effects = Effects(s)
  BY <1>1, <1>2, MigrationParts DEF SyncPlan, Read, Effects
<1> HIDE DEF plan
<1>5. mig'.plans[s] = plan /\ Effects(s)' = Effects(s) /\ Read(s)' = Read(s)
  BY <1>3, <1>4, MigrationParts DEF MigType, Effects, Read
<1>6. PlanPins(s)' /\ PlanLeavesOut(s)' /\ PlanOutdated(s)'
  BY <1>i, <1>0, <1>3, <1>5 DEF PlansHold, PlansOutdated, PlanPins, PlanLeavesOut, PlanOutdated, UpToDate,
    Synced
<1>7. Read(s) <= source.time
  BY <1>i DEF Past
<1> QED
  BY <1>0, <1>1, <1>2, <1>3, <1>4, <1>6, <1>7, PlanningStep

\* A link is pending for the plan of the runner that prepares it.
LEMMA PrepareStep ==
  ASSUME MigrationInv, NEW r \in Agents, Mig!PrepareLink(r)
  PROVE  MigrationInv'
<1> DEFINE op == [runner[r] EXCEPT !.pc = "write"]
           link == [mig.links[runner[r].record] EXCEPT !.state = "pending", !.plan = runner[r].plan,
                                                       !.data = Aim(r).data]
<1>i. LinksHold /\ MigrationTypes /\ Past /\ Mig!CheckpointCovers
  BY DEF MigrationInv
<1>0. /\ runner[r].pc = "link" /\ runner[r].plan \in Items /\ Stored(runner[r].plan)
      /\ runner[r].record \in DOMAIN Effects(runner[r].plan)
  BY MigrationParts DEF Mig!PrepareLink, RunnerKnows
<1>x. PICK x \in Records : x = runner[r].record
  BY <1>0, <1>i, EffectsType
<1>1. Aim(r).data \in DataType
  BY <1>0, <1>i, EffectsType DEF Aim
<1>2. /\ link \in LinkType /\ link.state = "pending" /\ link.plan = runner[r].plan
      /\ link.data = Effects(runner[r].plan)[x].data
  BY ZenonT(30), <1>0, <1>x, <1>1, MigrationParts DEF LinkType, Aim
<1>3. /\ mig' = [mig EXCEPT !.links = [mig.links EXCEPT ![x] = link]]
      /\ runner' = [runner EXCEPT ![r] = op] /\ UNCHANGED <<source, target, synced>>
  BY <1>x, MigrationParts DEF Mig!PrepareLink, Mig!Goes, Aim, Effects, MigType
<1>4. /\ op \in RunType /\ op.pc = "write" /\ op.plan = runner[r].plan /\ op.todo = runner[r].todo
      /\ op.record = x /\ op.rev = runner[r].rev /\ op.recovering = runner[r].recovering
  BY <1>x, MigrationParts DEF RunType
<1> HIDE DEF op, link
<1>5. runner' \in [Agents -> RunType] /\ runner'[r] = op
      /\ \A g \in Agents : g # r => runner'[g] = runner[g]
  BY <1>3, <1>4, MigrationParts
<1>6. /\ mig' \in MigType /\ mig'.project = mig.project /\ mig'.plans = mig.plans
      /\ mig'.links = [mig.links EXCEPT ![x] = link]
  BY <1>2, <1>3, MigrationParts DEF MigType
<1>7. SamePlans /\ \A s \in Items : /\ Begun(s)' = Begun(s) /\ Reading(s)' = Reading(s)
                             /\ Stored(s)' = Stored(s) /\ Effects(s)' = Effects(s)
                             /\ Read(s)' = Read(s) /\ Copied(s)' = Copied(s)
  BY <1>6 DEF SamePlans, Begun, Reading, Stored, Effects, Read, Copied
<1>8. LinksHold'
  <2>1. SUFFICES ASSUME NEW y \in Records PROVE LinkHolds(y)'
    BY DEF LinksHold
  <2>2. CASE y = x
    <3>1. mig'.links[x] = link
      BY <1>6, MigrationParts
    <3> QED BY <1>0, <1>x, <1>2, <1>7, <2>2, <3>1 DEF LinkHolds, Kept
  <2>3. CASE y # x
    <3>1. mig'.links[y] = mig.links[y]
      BY <1>6, <2>3, MigrationParts
    <3> QED BY <1>i, <1>3, <1>7, <3>1 DEF LinksHold, LinkHolds, Kept
  <2> QED BY <2>2, <2>3
<1>9. Runs(r)'
  <2>1. RunnerKnows(r) /\ RunnerDid(r) /\ RunnerOutdated(r)
    BY MigrationParts
  <2>2. Aim(r)' = Aim(r) /\ At(r)' = At(r)
    BY <1>0, <1>x, <1>3, <1>4, <1>5, <1>7 DEF Aim, At
  <2>3. RunnerKnows(r)'
    BY <1>0, <1>x, <1>4, <1>5, <1>7, <2>1, <2>2 DEF RunnerKnows
  <2>4. RunnerDid(r)'
    BY <1>0, <1>3, <1>4, <1>5, <1>7, <2>1 DEF RunnerDid, Synced
  <2>5. RunnerOutdated(r)'
    BY <1>0, <1>x, <1>3, <1>4, <1>5, <2>1, <2>2 DEF RunnerOutdated, UpToDate, Synced
  <2> QED BY <2>3, <2>4, <2>5 DEF Runs
<1>10. mig'.project.checkpoint <= source.time /\ Mig!CheckpointCovers'
  BY <1>i, <1>3, <1>6 DEF Past, Mig!CheckpointCovers
<1> QED
  BY <1>3, <1>5, <1>6, <1>7, <1>8, <1>9, <1>10, QuietStep

\* A link is applied at the revision that the runner published.
LEMMA FinalizeStep ==
  ASSUME MigrationInv, NEW r \in Agents, Mig!FinalizeLink(r),
         mig.links[runner[r].record].plan = runner[r].plan
  PROVE  MigrationInv'
<1> DEFINE op == [runner[r] EXCEPT !.pc = "next", !.todo = runner[r].todo \ {runner[r].record}]
           link == [mig.links[runner[r].record] EXCEPT !.state = "applied", !.rev = runner[r].rev]
<1>i. LinksHold /\ MigrationTypes /\ Past /\ Mig!CheckpointCovers
  BY DEF MigrationInv
<1>0. /\ runner[r].pc = "finalize" /\ runner[r].plan \in Items /\ Stored(runner[r].plan)
      /\ runner[r].todo \subseteq DOMAIN Effects(runner[r].plan)
      /\ runner[r].record \in DOMAIN Effects(runner[r].plan)
      /\ runner[r].rev <= At(r).rev
      /\ runner[r].rev = At(r).rev => At(r).data = Aim(r).data
  BY MigrationParts DEF Mig!FinalizeLink, RunnerKnows
<1>x. PICK x \in Records : x = runner[r].record
  BY <1>0, <1>i, EffectsType
<1>2. /\ link \in LinkType /\ link.state = "applied" /\ link.plan = runner[r].plan
      /\ link.data = Effects(runner[r].plan)[x].data /\ link.rev = runner[r].rev
  <2>1. mig.links[x].data = Effects(runner[r].plan)[x].data
    BY <1>0, <1>i, <1>x DEF LinksHold, LinkHolds, Kept
  <2> QED BY ZenonT(30), <1>x, <2>1, MigrationParts DEF LinkType
<1>3. /\ mig' = [mig EXCEPT !.links = [mig.links EXCEPT ![x] = link]]
      /\ runner' = [runner EXCEPT ![r] = op] /\ UNCHANGED <<source, target, synced>>
  BY ZenonT(30), <1>x, MigrationParts DEF Mig!FinalizeLink, MigType
<1>4. /\ op \in RunType /\ op.pc = "next" /\ op.plan = runner[r].plan /\ op.todo = runner[r].todo \ {x}
  <2>1. runner[r].todo \ {x} \subseteq Records
    BY <1>0, <1>i, EffectsType
  <2> QED BY <1>x, <2>1, MigrationParts DEF RunType
<1> HIDE DEF op, link
<1>5. runner' \in [Agents -> RunType] /\ runner'[r] = op
      /\ \A g \in Agents : g # r => runner'[g] = runner[g]
  BY <1>3, <1>4, MigrationParts
<1>6. /\ mig' \in MigType /\ mig'.project = mig.project /\ mig'.plans = mig.plans
      /\ mig'.links = [mig.links EXCEPT ![x] = link]
  BY <1>2, <1>3, MigrationParts DEF MigType
<1>7. SamePlans /\ \A s \in Items : /\ Begun(s)' = Begun(s) /\ Reading(s)' = Reading(s)
                             /\ Stored(s)' = Stored(s) /\ Effects(s)' = Effects(s)
                             /\ Read(s)' = Read(s) /\ Copied(s)' = Copied(s)
  BY <1>6 DEF SamePlans, Begun, Reading, Stored, Effects, Read, Copied
<1>8. LinksHold'
  <2>1. SUFFICES ASSUME NEW y \in Records PROVE LinkHolds(y)'
    BY DEF LinksHold
  <2>2. CASE y = x
    <3>1. mig'.links[x] = link
      BY <1>6, MigrationParts
    <3> QED BY <1>0, <1>x, <1>2, <1>3, <1>7, <2>2, <3>1 DEF LinkHolds, Kept, At, Aim
  <2>3. CASE y # x
    <3>1. mig'.links[y] = mig.links[y]
      BY <1>6, <2>3, MigrationParts
    <3> QED BY <1>i, <1>3, <1>7, <3>1 DEF LinksHold, LinkHolds, Kept
  <2> QED BY <2>2, <2>3
<1>9. Runs(r)'
  <2>1. RunnerDid(r)
    BY MigrationParts
  <2>2. RunnerDid(r)'
    BY <1>0, <1>x, <1>3, <1>4, <1>5, <1>7, <2>1 DEF RunnerDid, Synced
  <2> QED BY <1>0, <1>4, <1>5, <1>7, <2>2 DEF Runs, RunnerKnows, RunnerOutdated
<1>10. mig'.project.checkpoint <= source.time /\ Mig!CheckpointCovers'
  BY <1>i, <1>3, <1>6 DEF Past, Mig!CheckpointCovers
<1> QED
  BY <1>3, <1>5, <1>6, <1>7, <1>8, <1>9, <1>10, QuietStep

\* The checkpoint advances to what the plan had read: its records are done or
\* have changed since, and so have those it left out.
LEMMA CompleteStep ==
  ASSUME MigrationInv, NEW r \in Agents, Mig!Complete(r),
         mig.project.version = mig.plans[runner[r].plan].project
  PROVE  MigrationInv'
<1> DEFINE row == [mig.plans[runner[r].plan] EXCEPT !.state = "completed"]
           project == [mig.project EXCEPT !.checkpoint = Read(runner[r].plan), !.recipe = mig.recipe]
<1>i. LinksHold /\ MigrationTypes /\ Past /\ PlansHold
  BY DEF MigrationInv
<1>0. /\ runner[r].pc = "next" /\ runner[r].todo = {} /\ Stored(runner[r].plan) /\ RunnerDid(r)
      /\ runner[r].plan \in Items
  BY MigrationParts DEF Mig!Complete, Mig!AllApplied, RunnerKnows
<1>s. PICK s \in Items : s = runner[r].plan
  BY <1>0
<1>1. /\ row \in SyncPlan /\ row.state = "completed" /\ row.effects = mig.plans[s].effects
      /\ row.checkpoint = mig.plans[s].checkpoint /\ row.links = mig.plans[s].links
  BY <1>s, MigrationParts DEF SyncPlan
<1>2. project \in ProjectType /\ project.checkpoint = Read(s)
  BY <1>i, <1>s, MigrationParts, EffectsType DEF ProjectType
<1>3. /\ mig' = [mig EXCEPT !.plans = [mig.plans EXCEPT ![s] = row], !.project = project]
      /\ runner' = [runner EXCEPT ![r] = Mig!NoRun] /\ UNCHANGED <<source, target, synced>>
  BY <1>s, MigrationParts DEF Mig!Complete, Mig!SameProject, Read, MigType, ProjectType, SyncPlan
<1> HIDE DEF row, project
<1>4. /\ mig' \in MigType /\ mig'.links = mig.links /\ mig'.project = project
      /\ mig'.plans = [mig.plans EXCEPT ![s] = row]
  BY <1>1, <1>2, <1>3, MigrationParts DEF MigType
<1>5. SamePlans
  BY <1>0, <1>s, <1>1, <1>4, MigrationParts DEF SamePlans, Begun, Reading, Stored, Effects, Read, Copied
<1>6. LinksHold'
  BY <1>i, <1>3, <1>4, <1>5 DEF SamePlans, LinksHold, LinkHolds, Kept
<1>7. mig'.project.checkpoint <= source.time
  BY <1>i, <1>2, <1>4 DEF Past
<1>8. Mig!CheckpointCovers'
  <2>1. SUFFICES ASSUME NEW x \in Records, source.at[x] # 0, source.at[x] <= Read(s) PROVE Synced(x)
    BY <1>2, <1>3, <1>4 DEF Mig!CheckpointCovers, Synced
  <2>2. ~(source.at[x] > Read(s))
    BY <1>i, <2>1, EffectsType, MigrationParts
  <2>3. CASE x \in DOMAIN Effects(s)
    BY <1>0, <1>s, <2>2, <2>3 DEF RunnerDid
  <2>4. CASE x \notin DOMAIN Effects(s)
    BY <1>i, <1>0, <1>s, <2>1, <2>2, <2>4 DEF PlansHold, PlanLeavesOut, Begun, Stored
  <2> QED BY <2>3, <2>4
<1>9. /\ runner' \in [Agents -> RunType] /\ Mig!NoRun.pc = "idle" /\ runner'[r] = Mig!NoRun
      /\ \A g \in Agents : g # r => runner'[g] = runner[g]
  <2>1. Mig!NoRun \in RunType /\ Mig!NoRun.pc = "idle"
    BY DEF Mig!NoRun, RunType
  <2> QED BY <1>3, <2>1, MigrationParts
<1>10. Runs(r)'
  BY <1>9 DEF Runs, RunnerKnows, RunnerDid, RunnerOutdated
<1> QED
  BY <1>3, <1>4, <1>5, <1>6, <1>7, <1>8, <1>9, <1>10, QuietStep

\* Each step of the source, the administrators, the runners and the editors keeps the invariant.
LEMMA MigrationStep ==
  ASSUME MigrationInv, Mig!Next
  PROVE  MigrationInv'
<1>0. /\ MigrationTypes /\ Past /\ PlansHold /\ LinksHold /\ PlansOutdated /\ RunnersHold
      /\ Mig!CheckpointCovers
  BY DEF MigrationInv
<1>t. /\ mig \in MigType /\ mig.recipe \in Nat /\ mig.project \in ProjectType
      /\ mig.plans \in [Items -> SyncPlan] /\ mig.links \in [Records -> LinkType]
      /\ source.time \in Nat /\ source.at \in [Records -> Nat]
      /\ target \in [Records -> TargetType] /\ runner \in [Agents -> RunType]
      /\ synced \in [Records -> DataType]
      /\ \A x \in Records : /\ target[x].rev \in Nat /\ target[x].data \in DataType
                            /\ target[x].data.at \in Nat /\ synced[x].at \in Nat
  BY <1>0 DEF MigrationTypes, MigType, TargetType, DataType
<1>n. /\ Mig!NoRun \in RunType /\ Mig!NoRun.pc = "idle"
      /\ Mig!ByHand \in DataType /\ Mig!ByHand.at = 0
  BY DEF Mig!NoRun, RunType, Mig!ByHand, DataType
<1>r. \A r \in Agents : runner[r] \in RunType /\ RunnerKnows(r) /\ RunnerDid(r) /\ RunnerOutdated(r)
  BY <1>0, <1>t DEF RunnersHold, Runs
\* A runner that goes to rest or to its failure.
<1>1. ASSUME NEW r \in Agents, UNCHANGED <<source, target, synced>>,
             mig' \in MigType, SamePlans, mig'.links = mig.links,
             mig'.project.checkpoint = mig.project.checkpoint,
             runner' = [runner EXCEPT ![r] = Mig!NoRun]
      PROVE  MigrationInv'
  <2>1. runner' \in [Agents -> RunType] /\ runner'[r] = Mig!NoRun
        /\ \A g \in Agents : g # r => runner'[g] = runner[g]
    BY <1>t, <1>n, <1>1
  <2>2. Runs(r)'
    BY <1>n, <2>1 DEF Runs, RunnerKnows, RunnerDid, RunnerOutdated
  <2> QED BY <1>1, <2>1, <2>2, RunnerStep
<1>2. ASSUME NEW r \in Agents, runner[r].pc # "idle", Mig!Goes(r, "fail"), UNCHANGED <<source, mig, target, synced>>
      PROVE  MigrationInv'
  <2> DEFINE op == [runner[r] EXCEPT !.pc = "fail"]
  <2>1. op \in RunType /\ op.pc = "fail" /\ op.plan = runner[r].plan /\ op.todo = runner[r].todo
    BY <1>r DEF RunType
  <2>2. runner' = [runner EXCEPT ![r] = op]
    BY <1>t, <1>2 DEF Mig!Goes
  <2> HIDE DEF op
  <2>3. runner' \in [Agents -> RunType] /\ runner'[r] = op
        /\ \A g \in Agents : g # r => runner'[g] = runner[g]
    BY <1>t, <2>1, <2>2
  <2>4. Runs(r)'
    BY <1>r, <1>2, <2>1, <2>3 DEF Runs, RunnerKnows, RunnerDid, RunnerOutdated, Begun, Reading, Stored, Effects, Read, Copied, Synced
  <2>5. SamePlans
    BY <1>2 DEF SamePlans, Begun, Reading, Stored, Effects, Read, Copied
  <2> QED BY <1>t, <1>2, <2>3, <2>4, <2>5, RunnerStep
\* A change of the recipe or the project.
<1>3. ASSUME mig' \in MigType, mig'.plans = mig.plans, mig'.links = mig.links,
             mig'.project.checkpoint = mig.project.checkpoint, UNCHANGED <<source, target, synced, runner>>
      PROVE  MigrationInv'
  <2>1. SamePlans
    BY <1>3 DEF SamePlans, Begun, Reading, Stored, Effects, Read, Copied
  <2> QED BY <1>t, <1>3, <2>1, RunnerStep
<1>4. ASSUME Mig!UpsertRecipe PROVE MigrationInv'
  <2>1. mig' = [mig EXCEPT !.recipe = mig.recipe + 1] /\ mig.recipe + 1 \in Nat
    BY <1>t, <1>4 DEF Mig!UpsertRecipe
  <2>2. mig' \in MigType /\ mig'.plans = mig.plans /\ mig'.links = mig.links
        /\ mig'.project = mig.project
    BY <1>t, <2>1 DEF MigType
  <2> QED BY <1>3, <1>4, <2>2 DEF Mig!UpsertRecipe
<1>5. ASSUME NEW b \in BOOLEAN, Mig!SetProjectState(b) PROVE MigrationInv'
  <2> DEFINE project == [mig.project EXCEPT !.active = b, !.version = mig.project.version + 1]
  <2>0. mig.project.version + 1 \in Nat
    BY <1>t DEF ProjectType
  <2>1. project \in ProjectType /\ project.checkpoint = mig.project.checkpoint
    BY <1>t, <2>0 DEF ProjectType
  <2>2. mig' = [mig EXCEPT !.project = project]
    BY <1>t, <1>5 DEF Mig!SetProjectState, MigType, ProjectType
  <2> HIDE DEF project
  <2>3. mig' \in MigType /\ mig'.plans = mig.plans /\ mig'.links = mig.links /\ mig'.project = project
    BY <1>t, <2>1, <2>2 DEF MigType
  <2> QED BY <1>3, <1>5, <2>1, <2>3 DEF Mig!SetProjectState
<1>6. ASSUME NEW x \in Records, Mig!SourceChanges(x) PROVE MigrationInv'
  BY <1>6, SourceStep
<1>7. ASSUME NEW x \in Records, Mig!EditTarget(x) PROVE MigrationInv'
  BY <1>7, EditStep
<1>8. ASSUME NEW s \in Items, \/ Mig!PlanSync(s) \/ Mig!ReadSource(s) \/ Mig!SavePlan(s)
                              \/ \E x \in Records : Mig!BuildEffect(s, x)
      PROVE  MigrationInv'
  BY <1>8, PlanSyncStep, ReadSourceStep, BuildEffectStep, SavePlanStep
<1>9. ASSUME NEW r \in Agents, NEW s \in Items, Mig!Execute(r, s) PROVE MigrationInv'
  <2> DEFINE op == [Mig!NoRun EXCEPT !.pc = "start", !.plan = s, !.todo = DOMAIN Effects(s)]
  <2>0. DOMAIN Effects(s) \subseteq Records /\ Stored(s)
    BY <1>0, <1>9, EffectsType DEF Mig!Execute, Stored
  <2>1. op \in RunType /\ op.pc = "start" /\ op.plan = s /\ op.todo = DOMAIN Effects(s)
    BY <2>0 DEF RunType, Mig!NoRun
  <2>2. runner' = [runner EXCEPT ![r] = op] /\ UNCHANGED <<source, mig, target, synced>>
    BY <1>9 DEF Mig!Execute, Effects
  <2> HIDE DEF op
  <2>3. runner' \in [Agents -> RunType] /\ runner'[r] = op
        /\ \A g \in Agents : g # r => runner'[g] = runner[g]
    BY <1>t, <2>1, <2>2
  <2>4. Runs(r)'
    BY <2>0, <2>1, <2>2, <2>3 DEF Runs, RunnerKnows, RunnerDid, RunnerOutdated, Begun, Reading, Stored, Effects, Read, Copied, Synced
  <2>5. SamePlans
    BY <2>2 DEF SamePlans, Begun, Reading, Stored, Effects, Read, Copied
  <2> QED BY <1>t, <2>2, <2>3, <2>4, <2>5, RunnerStep
\* The state of a stored plan.
<1>10. ASSUME NEW s \in Items, Stored(s), NEW st \in {"executing", "failed", "completed"},
              mig' = [mig EXCEPT !.plans[s].state = st]
       PROVE  /\ mig' \in MigType /\ SamePlans /\ mig'.links = mig.links /\ mig'.project = mig.project
  <2> DEFINE row == [mig.plans[s] EXCEPT !.state = st]
  <2>1. /\ row \in SyncPlan /\ row.state = st /\ row.effects = mig.plans[s].effects
        /\ row.checkpoint = mig.plans[s].checkpoint
    BY <1>t DEF SyncPlan
  <2>2. mig' = [mig EXCEPT !.plans = [mig.plans EXCEPT ![s] = row]]
    BY <1>t, <1>10 DEF MigType
  <2> HIDE DEF row
  <2>3. /\ mig' \in MigType /\ mig'.links = mig.links /\ mig'.project = mig.project
        /\ mig'.plans = [mig.plans EXCEPT ![s] = row]
    BY <1>t, <2>1, <2>2 DEF MigType
  <2>4. SamePlans
    BY <1>t, <1>10, <2>1, <2>3 DEF SamePlans, Begun, Reading, Stored, Effects, Read, Copied
  <2> QED BY <2>3, <2>4
<1>11. ASSUME NEW r \in Agents, Mig!Start(r) PROVE MigrationInv'
  <2> DEFINE s == runner[r].plan
             op == [runner[r] EXCEPT !.pc = "next"]
  <2>0. s \in Items /\ Stored(s) /\ runner[r].pc = "start"
    BY <1>r, <1>11 DEF Mig!Start, RunnerKnows
  <2>1. CASE mig.plans[s].state = "completed"
    <3>1. UNCHANGED <<source, mig, target, synced>> /\ runner' = [runner EXCEPT ![r] = Mig!NoRun]
      BY <1>11, <2>1 DEF Mig!Start
    <3>2. SamePlans
      BY <3>1 DEF SamePlans, Begun, Reading, Stored, Effects, Read, Copied
    <3> QED BY <1>1, <1>t, <3>1, <3>2
  <2>2. CASE mig.plans[s].state # "completed"
    <3>1. /\ mig' = [mig EXCEPT !.plans[s].state = "executing"]
          /\ runner' = [runner EXCEPT ![r] = op] /\ UNCHANGED <<source, target, synced>>
      BY <1>t, <1>11, <2>2 DEF Mig!Start, Mig!Goes
    <3>2. mig' \in MigType /\ SamePlans /\ mig'.links = mig.links /\ mig'.project = mig.project
      BY <1>10, <2>0, <3>1
    <3>3. op \in RunType /\ op.pc = "next" /\ op.plan = s /\ op.todo = runner[r].todo
      BY <1>r DEF RunType
    <3> HIDE DEF op
    <3>4. runner' \in [Agents -> RunType] /\ runner'[r] = op
          /\ \A g \in Agents : g # r => runner'[g] = runner[g]
      BY <1>t, <3>1, <3>3
    <3>5. Runs(r)'
      BY <1>r, <2>0, <3>1, <3>2, <3>3, <3>4 DEF Runs, RunnerKnows, RunnerDid, RunnerOutdated, SamePlans, Synced
    <3> QED BY <3>1, <3>2, <3>4, <3>5, RunnerStep
  <2> QED BY <2>1, <2>2
<1>12. ASSUME NEW r \in Agents, NEW x \in Records, Mig!Look(r, x) PROVE MigrationInv'
  <2>s. PICK s \in Items : s = runner[r].plan
    BY <1>r, <1>12 DEF Mig!Look, RunnerKnows
  <2> DEFINE recovering == /\ mig.links[x].state = "pending" /\ mig.links[x].plan = s
                           /\ target[x].rev # 0 /\ target[x].data = Effects(s)[x].data
             op == [runner[r] EXCEPT !.pc = "link", !.record = x, !.rev = target[x].rev,
                                     !.recovering = recovering]
  <2>0. s \in Items /\ Stored(s) /\ runner[r].pc = "next" /\ x \in DOMAIN Effects(s)
    BY <1>r, <1>12, <2>s DEF Mig!Look, RunnerKnows
  <2>1. CASE Mig!SameProject(s) /\ Mig!RecipeKept(s) /\ (recovering \/ target[x].rev = Effects(s)[x].rev)
    <3>1. runner' = [runner EXCEPT ![r] = op] /\ UNCHANGED <<source, mig, target, synced>>
      BY <1>t, <1>12, <2>s, <2>1 DEF Mig!Look, Effects
    <3>2. /\ op \in RunType /\ op.pc = "link" /\ op.plan = s /\ op.todo = runner[r].todo
          /\ op.record = x /\ op.rev = target[x].rev /\ op.recovering = recovering
      BY <1>r, <1>t, <2>s DEF RunType
    <3> HIDE DEF op
    <3>3. runner' \in [Agents -> RunType] /\ runner'[r] = op
          /\ \A g \in Agents : g # r => runner'[g] = runner[g]
      BY <1>t, <3>1, <3>2
    <3>4. RunnerKnows(r)'
      <4>1. s \in Items /\ Stored(s)' /\ runner[r].todo \subseteq DOMAIN Effects(s)'
        BY <1>r, <2>s, <2>0, <3>1 DEF RunnerKnows, Stored, Effects
      <4>2. x \in DOMAIN Effects(s)' /\ op.rev <= target'[x].rev
        BY <1>t, <2>0, <3>1, <3>2 DEF Effects
      <4>3. recovering => target'[x].data = Effects(s)'[x].data
        BY <3>1 DEF Effects
      <4>4. ~recovering => op.rev = Effects(s)'[x].rev
        BY <2>1, <3>1, <3>2 DEF Effects
      <4> HIDE DEF recovering
      <4> QED BY <3>2, <3>3, <4>1, <4>2, <4>3, <4>4 DEF RunnerKnows, At, Aim
    <3>5. RunnerDid(r)'
      BY <1>r, <2>s, <2>0, <3>1, <3>2, <3>3 DEF RunnerDid, Effects, Read, Synced
    <3>6. RunnerOutdated(r)'
      <4>1. UpToDate(x) /\ Effects(s)[x].data.at # source.at[x] /\ ~Effects(s)[x].late =>
              /\ Effects(s)[x].rev < target[x].rev
              /\ target[x].late \/ target[x].data.at # Effects(s)[x].data.at
        BY <1>0, <2>0 DEF PlansOutdated, PlanOutdated, Begun, Stored
      <4>2. Effects(s)[x].rev \in Nat /\ target[x].rev \in Nat
        BY <1>0, <1>t, <2>0, EffectsType
      <4>3. \/ Effects(s)[x].late \/ target[x].late
            \/ ~(UpToDate(x) /\ Effects(s)[x].data.at # source.at[x])
        BY <2>1, <4>1, <4>2
      <4> QED BY <3>1, <3>2, <3>3, <4>3 DEF RunnerOutdated, Effects, Aim, At, UpToDate, Synced
    <3>7. SamePlans
      BY <3>1 DEF SamePlans, Begun, Reading, Stored, Effects, Read, Copied
    <3> QED BY <1>t, <3>1, <3>3, <3>4, <3>5, <3>6, <3>7, RunnerStep DEF Runs
  <2>2. CASE ~(Mig!SameProject(s) /\ Mig!RecipeKept(s) /\ (recovering \/ target[x].rev = Effects(s)[x].rev))
    BY <1>2, <1>12, <2>s, <2>0, <2>2 DEF Mig!Look, Effects
  <2> QED BY <2>1, <2>2
<1>13. ASSUME NEW r \in Agents, Mig!PrepareLink(r) PROVE MigrationInv'
  BY <1>13, PrepareStep
<1>14. ASSUME NEW r \in Agents, Mig!WriteTarget(r) PROVE MigrationInv'
  <2> DEFINE x == runner[r].record
             op == [runner[r] EXCEPT !.pc = "publish"]
  <2>0. runner[r].pc = "write" /\ runner[r].plan \in Items /\ Stored(runner[r].plan)
        /\ x \in DOMAIN Effects(runner[r].plan) /\ x \in Records
    BY <1>0, <1>r, <1>14, EffectsType DEF Mig!WriteTarget, RunnerKnows
  <2>1. CASE runner[r].recovering \/ Aim(r).action = "noop"
    <3>1. runner' = [runner EXCEPT ![r] = op] /\ UNCHANGED <<source, mig, target, synced>>
      BY <1>t, <1>14, <2>1 DEF Mig!WriteTarget, Mig!Goes, Aim, Effects
    <3>2. /\ op \in RunType /\ op.pc = "publish" /\ op.plan = runner[r].plan /\ op.todo = runner[r].todo
          /\ op.record = x /\ op.rev = runner[r].rev
      BY <1>r DEF RunType
    <3> HIDE DEF op
    <3>3. runner' \in [Agents -> RunType] /\ runner'[r] = op
          /\ \A g \in Agents : g # r => runner'[g] = runner[g]
      BY <1>t, <3>1, <3>2
    <3>4. runner[r].rev = target[x].rev => target[x].data = Aim(r).data
      <4>1. CASE runner[r].recovering
        BY <1>r, <2>0, <4>1 DEF RunnerKnows, At
      <4>2. CASE ~runner[r].recovering
        BY <1>0, <1>r, <2>0, <2>1, <4>2 DEF RunnerKnows, At, Aim, PlansHold, PlanPins, Begun, Stored
      <4> QED BY <4>1, <4>2
    <3>5. RunnerKnows(r)'
      BY <1>r, <2>0, <3>1, <3>2, <3>3, <3>4 DEF RunnerKnows, Stored, Effects, At, Aim
    <3>6. RunnerDid(r)'
      BY <1>r, <2>0, <3>1, <3>2, <3>3 DEF RunnerDid, Effects, Read, Synced
    <3>7. RunnerOutdated(r)'
      BY <1>r, <2>0, <3>1, <3>2, <3>3 DEF RunnerOutdated, Effects, Aim, At, UpToDate, Synced
    <3>8. SamePlans
      BY <3>1 DEF SamePlans, Begun, Reading, Stored, Effects, Read, Copied
    <3> QED BY <1>t, <3>1, <3>3, <3>5, <3>6, <3>7, <3>8, RunnerStep DEF Runs
  <2>2. CASE ~(runner[r].recovering \/ Aim(r).action = "noop") /\ target[x].rev = runner[r].rev
    BY <1>14, <2>2, WriteStep DEF Aim, Effects
  <2>3. CASE ~(runner[r].recovering \/ Aim(r).action = "noop") /\ target[x].rev # runner[r].rev
    BY <1>2, <1>14, <2>0, <2>3 DEF Mig!WriteTarget, Aim, Effects
  <2> QED BY <2>1, <2>2, <2>3
<1>15. ASSUME NEW r \in Agents, NEW b \in BOOLEAN, Mig!PublishTarget(r, b) PROVE MigrationInv'
  <2>1. CASE ~b /\ target[runner[r].record].rev = runner[r].rev
    BY <1>15, <2>1, PublishStep
  <2>2. CASE ~(~b /\ target[runner[r].record].rev = runner[r].rev)
    BY <1>2, <1>15, <2>2 DEF Mig!PublishTarget
  <2> QED BY <2>1, <2>2
<1>16. ASSUME NEW r \in Agents, Mig!FinalizeLink(r) PROVE MigrationInv'
  <2>1. CASE mig.links[runner[r].record].plan = runner[r].plan
    BY <1>16, <2>1, FinalizeStep
  <2>2. CASE mig.links[runner[r].record].plan # runner[r].plan
    BY <1>2, <1>16, <2>2 DEF Mig!FinalizeLink
  <2> QED BY <2>1, <2>2
<1>17. ASSUME NEW r \in Agents, Mig!Complete(r) PROVE MigrationInv'
  <2>1. CASE mig.project.version = mig.plans[runner[r].plan].project
    BY <1>17, <2>1, CompleteStep
  <2>2. CASE mig.project.version # mig.plans[runner[r].plan].project
    BY <1>2, <1>17, <2>2 DEF Mig!Complete, Mig!SameProject, Mig!AllApplied
  <2> QED BY <2>1, <2>2
<1>18. ASSUME NEW r \in Agents, Mig!RecordFailure(r) PROVE MigrationInv'
  <2> DEFINE s == runner[r].plan
  <2>0. s \in Items /\ Stored(s) /\ runner' = [runner EXCEPT ![r] = Mig!NoRun]
        /\ UNCHANGED <<source, target, synced>>
    BY <1>r, <1>18 DEF Mig!RecordFailure, RunnerKnows
  <2>1. mig' \in MigType /\ SamePlans /\ mig'.links = mig.links /\ mig'.project = mig.project
    <3>1. CASE mig' = mig
      BY <1>t, <3>1 DEF SamePlans, Begun, Reading, Stored, Effects, Read, Copied
    <3>2. CASE mig' = [mig EXCEPT !.plans[s].state = "failed"]
      BY <1>10, <2>0, <3>2
    <3> QED BY <1>18, <3>1, <3>2 DEF Mig!RecordFailure
  <2> QED BY <1>1, <2>0, <2>1
<1>19. ASSUME NEW r \in Agents, Mig!Crash(r) PROVE MigrationInv'
  <2>1. UNCHANGED <<source, mig, target, synced>> /\ runner' = [runner EXCEPT ![r] = Mig!NoRun]
    BY <1>19 DEF Mig!Crash
  <2>2. SamePlans
    BY <2>1 DEF SamePlans, Begun, Reading, Stored, Effects, Read, Copied
  <2> QED BY <1>1, <1>t, <2>1, <2>2
<1> QED
  BY <1>4, <1>5, <1>6, <1>7, <1>8, <1>9, <1>11, <1>12, <1>13, <1>14, <1>15, <1>16, <1>17, <1>18, <1>19
  DEF Mig!Next

\* Every record whose last change lies before the checkpoint of the project has been written and
\* published as it is, for any number of records, plans whose reads interleave, and runners that
\* crash, recover and overtake each other; only an edit by hand or a plan that read the target after
\* another had brought a later state of the source there has gone back on it (planSync, executePlan).
THEOREM CheckpointAlwaysCovers == Spec => []CheckpointCovers
<1> DEFINE Inv == service = "migration" => MigrationInv
<1>1. Init => Inv
  BY MigrationInit DEF Init
<1>2. Inv /\ [Next]_vars => Inv'
  <2>1. CASE UNCHANGED vars
    <3>1. UNCHANGED <<service, source, mig, target, runner, synced>>
      BY <2>1 DEF vars, migration
    <3>2. MigrationInv' = MigrationInv
      BY <3>1 DEF MigrationInv, MigrationTypes, Past, PlansHold, PlanPins, PlanLeavesOut, LinksHold, LinkHolds,
        PlansOutdated, PlanOutdated, RunnersHold, Runs, RunnerKnows, RunnerDid, RunnerOutdated, UpToDate,
        Synced, Kept, Effects, Read, Copied, Begun, Reading, Stored, At, Aim, Mig!CheckpointCovers
    <3> QED BY <3>1, <3>2
  <2>2. CASE Next
    BY <2>2, MigrationStep DEF Next
  <2> QED BY <2>1, <2>2
<1>3. Inv => CheckpointCovers
  BY DEF MigrationInv, CheckpointCovers
<1> QED
  BY <1>1, <1>2, <1>3, PTL DEF Spec

-----------------------------------------------------------------------------
(* Erasure (Governance): one worker is at a plan that is executed, what it recorded is gone,       *)
(* and a hold that covers what it is about to erase is later than its read.                        *)

CandType == [state : Gov!CandState, expected : Nat]
CandMaps == UNION {[X -> CandType] : X \in SUBSET Items}
ErasurePlan == [state : Gov!PlanState, request : Requests \cup {None}, by : Admins \cup {None},
                version : Nat, cands : CandMaps]
HoldType == [status : {"unused", "active", "released"}, target : Gov!Targets, at : Nat]
RequestType == [kind : Gov!Kinds, state : Gov!RequestState, plan : Plans \cup {None}]
DocType  == [version : Nat, subject : {"none", "active", "restricted", "erased"},
             links : SUBSET Items, restricted : BOOLEAN, keyRef : BOOLEAN,
             holds : [Holds -> HoldType], requests : [Requests -> RequestType],
             plans : [Plans -> ErasurePlan]]
WkType   == [pc : {"idle", "claim", "check", "inspect", "erase", "record", "block", "fail", "finish"},
             plans : SUBSET Plans, plan : Plans \cup {None}, todo : SUBSET Items,
             cand : Items \cup {None}, read : Nat, key : BOOLEAN, stops : BOOLEAN]

GovernanceTypes ==
  /\ doc \in DocType
  /\ res \in [Items -> [exists : BOOLEAN, version : Nat]]
  /\ keyOk \in BOOLEAN
  /\ wk \in [Agents -> WkType]
  /\ effects \in [Plans -> [Items -> Nat]]

Cands(p) == doc.plans[p].cands

\* Nothing is erased for a plan that nobody has claimed.
EffectsCounted(p) ==
  /\ \A x \in Items : effects[p][x] <= 1
  /\ doc.plans[p].state \in {"unused", "preview", "approved"} => \A x \in Items : effects[p][x] = 0

\* What is recorded as completed is gone.
CandsGone(p) ==
  /\ \A x \in DOMAIN Cands(p) : Cands(p)[x].state = "completed" => ~res[x].exists
  /\ doc.plans[p].state = "completed" =>
       \A x \in DOMAIN Cands(p) : Cands(p)[x].state = "completed"

\* A plan of the document's version has an approved request; so no plan is
\* claimed whose request another one has completed.
RequestFollows(p) ==
  /\ doc.plans[p].version <= doc.version
  /\ doc.plans[p].state \in {"preview", "approved"} /\ doc.plans[p].version = doc.version
       /\ doc.plans[p].request # None => doc.requests[doc.plans[p].request].state = "approved"
  /\ doc.plans[p].state = "completed" /\ doc.plans[p].request # None =>
       doc.requests[doc.plans[p].request].state = "completed"

PlanHolds(p) == EffectsCounted(p) /\ CandsGone(p) /\ RequestFollows(p)

Working(w) == wk[w].pc \in {"check", "inspect", "erase", "record", "block", "fail", "finish"}

\* A worker at a plan: what it has yet to do has not been done, what it is done
\* with is recorded.
WorkerKnows(w) ==
  Working(w) =>
    /\ wk[w].plan \in Plans /\ doc.plans[wk[w].plan].state = "executing"
    /\ wk[w].todo \subseteq DOMAIN Cands(wk[w].plan)
    /\ \A x \in DOMAIN Cands(wk[w].plan) \ wk[w].todo : Cands(wk[w].plan)[x].state = "completed"
    /\ \A x \in wk[w].todo : effects[wk[w].plan][x] = 0 \/ (wk[w].pc \in {"record", "fail"} /\ x = wk[w].cand)
    /\ wk[w].pc \in {"inspect", "erase", "record", "block", "fail"} => wk[w].cand \in wk[w].todo
    /\ wk[w].pc = "finish" => wk[w].todo = {}
    /\ wk[w].pc = "record" => ~res[wk[w].cand].exists

\* A hold that covers what a worker is about to erase is later than its read.
HoldsLater(w) ==
  wk[w].pc \in {"inspect", "erase"} =>
    /\ wk[w].read <= doc.version
    /\ \A h \in Holds : Gov!Covers(doc.holds[h], wk[w].cand) => doc.holds[h].at > wk[w].read

OneWorker == \A w, v \in Agents : Working(w) /\ Working(v) /\ wk[w].plan = wk[v].plan => w = v

SubjectHolds ==
  doc.subject = "erased" => \E p \in Plans : doc.plans[p].state = "completed" /\ doc.plans[p].request # None

GovernanceInv ==
  /\ GovernanceTypes
  /\ \A p \in Plans : PlanHolds(p)
  /\ \A w \in Agents : WorkerKnows(w) /\ HoldsLater(w)
  /\ OneWorker
  /\ SubjectHolds

\* What the types of the state say of its parts.
LEMMA GovernanceParts ==
  ASSUME GovernanceInv
  PROVE  /\ doc \in DocType /\ doc.version \in Nat /\ doc.version + 1 \in Nat /\ doc.version < doc.version + 1
         /\ doc.plans \in [Plans -> ErasurePlan] /\ doc.requests \in [Requests -> RequestType]
         /\ doc.holds \in [Holds -> HoldType]
         /\ res \in [Items -> [exists : BOOLEAN, version : Nat]] /\ keyOk \in BOOLEAN
         /\ wk \in [Agents -> WkType] /\ effects \in [Plans -> [Items -> Nat]]
         /\ \A p \in Plans : /\ doc.plans[p] \in ErasurePlan /\ doc.plans[p].version \in Nat
                             /\ DOMAIN Cands(p) \subseteq Items
                             /\ Cands(p) \in [DOMAIN Cands(p) -> CandType]
                             /\ PlanHolds(p)
         /\ \A w \in Agents : /\ wk[w] \in WkType /\ wk[w].read \in Nat
                              /\ WorkerKnows(w) /\ HoldsLater(w)
         /\ OneWorker /\ SubjectHolds
<1>1. doc \in DocType /\ doc.version \in Nat /\ doc.plans \in [Plans -> ErasurePlan]
  BY DEF GovernanceInv, GovernanceTypes, DocType
<1>2. \A p \in Plans : /\ doc.plans[p] \in ErasurePlan /\ doc.plans[p].version \in Nat
                       /\ DOMAIN Cands(p) \subseteq Items
                       /\ Cands(p) \in [DOMAIN Cands(p) -> CandType]
  <2>1. SUFFICES ASSUME NEW p \in Plans
                 PROVE  /\ doc.plans[p] \in ErasurePlan /\ doc.plans[p].version \in Nat
                        /\ DOMAIN Cands(p) \subseteq Items
                        /\ Cands(p) \in [DOMAIN Cands(p) -> CandType]
    OBVIOUS
  <2>2. doc.plans[p] \in ErasurePlan
    BY <1>1
  <2>3. PICK X \in SUBSET Items : doc.plans[p].cands \in [X -> CandType]
    BY <2>2 DEF ErasurePlan, CandMaps
  <2> QED BY <2>2, <2>3 DEF ErasurePlan, Cands
<1> QED
  BY <1>1, <1>2 DEF GovernanceInv, GovernanceTypes, DocType, WkType

\* Of the documents that a run starts from.
LEMMA GovernanceInit == Prepared /\ Gov!InitAround => GovernanceInv
<1> SUFFICES ASSUME Prepared, Gov!InitAround PROVE GovernanceInv
  OBVIOUS
<1>1. /\ res \in [Items -> [exists : BOOLEAN, version : Nat]] /\ keyOk \in BOOLEAN
      /\ \A w \in Agents : wk[w] = Gov!IdleWk
      /\ wk \in [Agents -> WkType] /\ effects \in [Plans -> [Items -> Nat]]
      /\ \A p \in Plans, x \in Items : effects[p][x] = 0
  <2>1. Gov!IdleWk \in WkType
    BY DEF Gov!IdleWk, WkType
  <2>2. wk = [w \in Agents |-> Gov!IdleWk]
    BY DEF Gov!InitAround
  <2>3. wk \in [Agents -> WkType] /\ \A w \in Agents : wk[w] = Gov!IdleWk
    BY <2>1, <2>2
  <2>4. effects = [p \in Plans |-> [x \in Items |-> 0]]
    BY DEF Gov!InitAround
  <2>5. effects \in [Plans -> [Items -> Nat]] /\ \A p \in Plans, x \in Items : effects[p][x] = 0
    BY <2>4
  <2>6. res \in [Items -> [exists : BOOLEAN, version : Nat]] /\ keyOk \in BOOLEAN
    BY DEF Gov!InitAround
  <2> QED BY <2>3, <2>5, <2>6
<1>2. \A w \in Agents : wk[w].pc = "idle"
  <2>1. \A w \in Agents : wk[w] = Gov!IdleWk
    BY <1>1
  <2>2. Gov!IdleWk.pc = "idle"
    BY DEF Gov!IdleWk
  <2> QED BY <2>1, <2>2
\* What the three kinds of first document have in common.
<1>3. /\ doc \in DocType /\ doc.version = 0 /\ doc.subject # "erased"
      /\ \A p \in Plans : /\ doc.plans[p].state \in {"unused", "approved"} /\ doc.plans[p].version = 0
                          /\ \A x \in DOMAIN Cands(p) : Cands(p)[x].state # "completed"
                          /\ doc.plans[p].state = "approved" =>
                               doc.plans[p].request \in Requests /\ doc.requests[doc.plans[p].request].state = "approved"
  <2> DEFINE none == [r \in {} |-> None]
  <2>1. /\ Gov!NoPlan \in ErasurePlan /\ Gov!NoPlan.state = "unused" /\ Gov!NoPlan.version = 0
        /\ DOMAIN Gov!NoPlan.cands = {}
    <3>1. none \in [{} -> CandType] /\ {} \in SUBSET Items /\ DOMAIN none = {}
      OBVIOUS
    <3>2. none \in CandMaps
      BY <3>1 DEF CandMaps
    <3>3. Gov!NoPlan = [state |-> "unused", request |-> None, by |-> None, version |-> 0, cands |-> none]
      BY DEF Gov!NoPlan
    <3> HIDE DEF none
    <3> QED BY <3>1, <3>2, <3>3 DEF ErasurePlan, Gov!PlanState
  <2>2. Gov!NoHold \in HoldType /\ Gov!NoRequest \in RequestType
    BY DEF Gov!NoHold, HoldType, Gov!Targets, Gov!NoRequest, RequestType, Gov!Kinds, Gov!RequestState
  <2>3. /\ Gov!NewDocument \in DocType /\ Gov!NewDocument.version = 0 /\ Gov!NewDocument.subject = "none"
        /\ Gov!NewDocument.plans = [p \in Plans |-> Gov!NoPlan]
        /\ Gov!NewDocument.requests = [q \in Requests |-> Gov!NoRequest]
    BY <2>1, <2>2 DEF Gov!NewDocument, DocType
  <2>4. CASE doc = Gov!NewDocument
    BY <2>1, <2>3, <2>4 DEF Cands
  <2>5. ASSUME NEW q \in Requests, NEW kind \in {"erasure", "export"}
        PROVE  /\ Requested(q, kind) \in DocType /\ Requested(q, kind).version = 0
               /\ Requested(q, kind).subject = "active"
               /\ Requested(q, kind).plans = [p \in Plans |-> Gov!NoPlan]
               /\ Requested(q, kind).requests \in [Requests -> RequestType]
               /\ Requested(q, kind).requests[q].state = "approved"
    <3> DEFINE row == [Gov!NoRequest EXCEPT !.kind = kind, !.state = "approved"]
               rows == [Gov!NewDocument.requests EXCEPT ![q] = row]
    <3>1. row \in RequestType /\ row.state = "approved"
      BY <2>2 DEF RequestType, Gov!Kinds, Gov!RequestState
    <3>2. Requested(q, kind) = [Gov!NewDocument EXCEPT !.subject = "active", !.links = Items, !.requests = rows]
      BY DEF Requested
    <3> HIDE DEF row
    <3>3. rows \in [Requests -> RequestType] /\ rows[q] = row
      BY <2>2, <2>3, <3>1
    <3> HIDE DEF rows
    <3> QED BY <2>3, <3>1, <3>2, <3>3 DEF DocType
  <2>6. CASE \E q \in Requests, kind \in {"erasure", "export"} : doc = Requested(q, kind)
    BY <2>1, <2>5, <2>6 DEF Cands
  <2>7. CASE \E q \in Requests, p \in Plans, admin \in Admins : doc = Planned(q, p, admin)
    <3>1. PICK q \in Requests, p \in Plans, admin \in Admins : doc = Planned(q, p, admin)
      BY <2>7
    <3> DEFINE base == Requested(q, "erasure")
               cands == [i \in Items |-> [state |-> "eligible", expected |-> 1]]
               plan == [state |-> "approved", request |-> q, by |-> admin, version |-> 0, cands |-> cands]
               row == [base.requests[q] EXCEPT !.plan = p]
    <3>2. /\ base \in DocType /\ base.version = 0 /\ base.subject = "active"
          /\ base.plans = [x \in Plans |-> Gov!NoPlan]
          /\ base.requests \in [Requests -> RequestType] /\ base.requests[q].state = "approved"
      BY <2>5
    <3>3. cands \in CandMaps /\ DOMAIN cands = Items /\ \A i \in Items : cands[i].state = "eligible"
      <4>1. cands \in [Items -> CandType]
        BY DEF CandType, Gov!CandState
      <4> QED BY <4>1 DEF CandMaps
    <3>4. doc = [base EXCEPT !.requests = [base.requests EXCEPT ![q] = row],
                             !.plans = [base.plans EXCEPT ![p] = plan]]
      BY <3>1, <3>2 DEF Planned, DocType
    <3> HIDE DEF base, cands
    <3>5. plan \in ErasurePlan /\ plan.state = "approved" /\ plan.request = q /\ plan.version = 0
          /\ plan.cands = cands
      BY <3>3 DEF ErasurePlan, Gov!PlanState
    <3>6. row \in RequestType /\ row.state = "approved"
      BY <3>2 DEF RequestType
    <3> HIDE DEF plan, row
    <3>7. /\ [base.requests EXCEPT ![q] = row] \in [Requests -> RequestType]
          /\ [base.plans EXCEPT ![p] = plan] \in [Plans -> ErasurePlan]
      BY <2>1, <3>2, <3>5, <3>6
    <3>8. /\ doc \in DocType /\ doc.version = 0 /\ doc.subject = "active"
          /\ doc.requests[q].state = "approved"
          /\ \A x \in Plans : doc.plans[x] = IF x = p THEN plan ELSE Gov!NoPlan
      BY <3>2, <3>4, <3>6, <3>7 DEF DocType
    <3> QED BY <2>1, <3>3, <3>5, <3>8 DEF Cands
  <2> QED BY <2>4, <2>6, <2>7 DEF Prepared
<1>4. \A p \in Plans : PlanHolds(p)
  <2>1. \A p \in Plans : EffectsCounted(p) /\ CandsGone(p)
    BY <1>1, <1>3 DEF EffectsCounted, CandsGone
  <2>2. \A p \in Plans : RequestFollows(p)
    BY <1>3 DEF RequestFollows
  <2> QED BY <2>1, <2>2 DEF PlanHolds
<1> QED
  BY <1>1, <1>2, <1>3, <1>4
  DEF GovernanceInv, GovernanceTypes, WorkerKnows, HoldsLater, OneWorker, Working, SubjectHolds

\* A step of one worker that leaves the document alone; a resource may go.
LEMMA WorkerStep ==
  ASSUME GovernanceInv, UNCHANGED <<doc, keyOk, effects>>, NEW w \in Agents, NEW op \in WkType,
         wk' = [wk EXCEPT ![w] = op],
         UNCHANGED res,
         Working(w)' => Working(w) /\ op.plan = wk[w].plan,
         WorkerKnows(w)', HoldsLater(w)'
  PROVE  GovernanceInv'
<1>1. /\ wk' \in [Agents -> WkType] /\ wk'[w] = op
      /\ \A v \in Agents : v # w => wk'[v] = wk[v]
  BY GovernanceParts
<1>2. GovernanceTypes'
  BY <1>1 DEF GovernanceInv, GovernanceTypes
<1>3. \A p \in Plans : PlanHolds(p)'
  BY GovernanceParts DEF PlanHolds, EffectsCounted, CandsGone, RequestFollows, Cands
<1>4. \A v \in Agents : WorkerKnows(v)' /\ HoldsLater(v)'
  <2>1. SUFFICES ASSUME NEW v \in Agents, v # w PROVE WorkerKnows(v)' /\ HoldsLater(v)'
    OBVIOUS
  <2>2. WorkerKnows(v) /\ HoldsLater(v) /\ wk'[v] = wk[v]
    BY <1>1, <2>1, GovernanceParts
  <2>3. WorkerKnows(v)'
    BY <2>2 DEF WorkerKnows, Working, Cands
  <2>4. HoldsLater(v)'
    BY <2>2 DEF HoldsLater, Gov!Covers
  <2> QED BY <2>3, <2>4
<1>5. OneWorker'
  BY <1>1, GovernanceParts DEF OneWorker, Working
<1>6. SubjectHolds'
  BY GovernanceParts DEF SubjectHolds
<1> QED
  BY <1>2, <1>3, <1>4, <1>5, <1>6 DEF GovernanceInv

\* A write of the document, one version on.  A plan is left as it is or holds
\* afterwards; so are the workers, and nothing is taken back from a completed
\* request; a hold is an old one or as late as the write.
LEMMA DocumentSaved ==
  ASSUME GovernanceInv, UNCHANGED <<res, keyOk, effects>>,
         doc' \in DocType, doc'.version = doc.version + 1, wk' \in [Agents -> WkType],
         \A p \in Plans : doc'.plans[p] = doc.plans[p] \/ PlanHolds(p)',
         \A q \in Requests : doc.requests[q].state = "completed" => doc'.requests[q].state = "completed",
         \A h \in Holds, x \in Items : Gov!Covers(doc'.holds[h], x) =>
           \/ Gov!Covers(doc.holds[h], x) /\ doc'.holds[h].at = doc.holds[h].at
           \/ doc'.holds[h].at = doc.version + 1,
         \A v \in Agents : \/ WorkerKnows(v)' /\ HoldsLater(v)'
                           \/ /\ wk'[v] = wk[v]
                              /\ Working(v) => doc'.plans[wk[v].plan] = doc.plans[wk[v].plan],
         OneWorker', SubjectHolds'
  PROVE  GovernanceInv'
<1>1. GovernanceTypes'
  BY DEF GovernanceInv, GovernanceTypes
<1>2. \A p \in Plans : PlanHolds(p)'
  <2>1. SUFFICES ASSUME NEW p \in Plans, doc'.plans[p] = doc.plans[p] PROVE PlanHolds(p)'
    OBVIOUS
  <2>2. /\ EffectsCounted(p) /\ CandsGone(p) /\ RequestFollows(p)
        /\ doc.version \in Nat /\ doc.plans[p].version \in Nat
        /\ doc.plans[p].request \in Requests \cup {None}
    BY GovernanceParts DEF PlanHolds, ErasurePlan
  <2>3. doc.plans[p].version <= doc.version + 1 /\ doc.plans[p].version # doc.version + 1
    BY <2>2 DEF RequestFollows
  <2>4. EffectsCounted(p)' /\ CandsGone(p)'
    BY <2>1, <2>2 DEF EffectsCounted, CandsGone, Cands
  <2>5. RequestFollows(p)'
    BY <2>1, <2>2, <2>3 DEF RequestFollows
  <2> QED BY <2>4, <2>5 DEF PlanHolds
<1>3. \A v \in Agents : WorkerKnows(v)' /\ HoldsLater(v)'
  <2>1. SUFFICES ASSUME NEW v \in Agents, wk'[v] = wk[v],
                        Working(v) => doc'.plans[wk[v].plan] = doc.plans[wk[v].plan]
                 PROVE  WorkerKnows(v)' /\ HoldsLater(v)'
    OBVIOUS
  <2>2. /\ WorkerKnows(v) /\ HoldsLater(v) /\ doc.version \in Nat /\ wk[v].read \in Nat
        /\ wk[v] \in WkType
    BY GovernanceParts
  <2>3. WorkerKnows(v)'
    BY <2>1, <2>2 DEF WorkerKnows, Working, Cands
  <2>4. CASE wk[v].pc \in {"inspect", "erase"}
    <3>1. PICK x \in Items : x = wk[v].cand
      BY <2>2, <2>4, GovernanceParts DEF WorkerKnows, Working
    <3>2. wk[v].read <= doc.version /\ wk[v].read <= doc.version + 1 /\ doc.version + 1 > wk[v].read
      BY <2>2, <2>4 DEF HoldsLater
    <3>3. ASSUME NEW h \in Holds, Gov!Covers(doc'.holds[h], x) PROVE doc'.holds[h].at > wk[v].read
      BY <2>2, <2>4, <3>1, <3>2, <3>3 DEF HoldsLater
    <3> QED BY <2>1, <2>3, <3>1, <3>2, <3>3 DEF HoldsLater
  <2>5. CASE wk[v].pc \notin {"inspect", "erase"}
    BY <2>1, <2>3, <2>5 DEF HoldsLater
  <2> QED BY <2>4, <2>5
<1> QED
  BY <1>1, <1>2, <1>3 DEF GovernanceInv

\* A write of an administrator: a plan that it changes has not been claimed.
LEMMA AdminStep ==
  ASSUME GovernanceInv, UNCHANGED <<res, keyOk, wk, effects>>,
         doc' \in DocType, doc'.version = doc.version + 1,
         \A p \in Plans : \/ doc'.plans[p] = doc.plans[p]
                          \/ doc.plans[p].state \in {"unused", "preview"} /\ PlanHolds(p)',
         \A q \in Requests : doc.requests[q].state = "completed" => doc'.requests[q].state = "completed",
         \A h \in Holds, x \in Items : Gov!Covers(doc'.holds[h], x) =>
           \/ Gov!Covers(doc.holds[h], x) /\ doc'.holds[h].at = doc.holds[h].at
           \/ doc'.holds[h].at = doc.version + 1,
         doc'.subject = "erased" => doc.subject = "erased"
  PROVE  GovernanceInv'
<1>1. \A v \in Agents : wk'[v] = wk[v] /\ (Working(v) => doc'.plans[wk[v].plan] = doc.plans[wk[v].plan])
  <2>1. \A v \in Agents : Working(v) => wk[v].plan \in Plans /\ doc.plans[wk[v].plan].state = "executing"
    BY GovernanceParts DEF WorkerKnows
  <2> QED BY <2>1
<1>2. OneWorker'
  BY GovernanceParts DEF OneWorker, Working
<1>3. SubjectHolds'
  BY GovernanceParts DEF SubjectHolds
<1>4. wk' \in [Agents -> WkType]
  BY GovernanceParts
<1> QED
  BY <1>1, <1>2, <1>3, <1>4, DocumentSaved

\* An operation of an administrator that leaves the plans alone.
LEMMA NoPlanStep ==
  ASSUME GovernanceInv, NEW changed \in DocType, Gov!Save(changed), Gov!DocOnly,
         changed.plans = doc.plans, changed.subject = "erased" => doc.subject = "erased",
         \A q \in Requests : doc.requests[q].state = "completed" => changed.requests[q].state = "completed",
         \A h \in Holds, x \in Items : Gov!Covers(changed.holds[h], x) =>
           \/ Gov!Covers(doc.holds[h], x) /\ changed.holds[h].at = doc.holds[h].at
           \/ changed.holds[h].at = doc.version + 1
  PROVE  GovernanceInv'
<1>1. doc.version + 1 \in Nat
  BY GovernanceParts
<1>2. /\ doc' \in DocType /\ doc'.version = doc.version + 1 /\ doc'.plans = changed.plans
      /\ doc'.requests = changed.requests /\ doc'.holds = changed.holds /\ doc'.subject = changed.subject
  BY <1>1 DEF Gov!Save, DocType
<1> QED
  BY <1>2, AdminStep DEF Gov!DocOnly

\* Each operation of an administrator keeps the invariant.
LEMMA AdministerKeeps ==
  ASSUME GovernanceInv,
         \/ \E k \in BOOLEAN : Gov!SavePolicy(k)
         \/ Gov!CreateSubject
         \/ \E r \in Items : Gov!LinkSubjectResource(r)
         \/ \E h \in Holds : Gov!ReleaseHold(h) \/ \E t \in Gov!Targets : Gov!CreateHold(h, t)
         \/ \E q \in Requests : \/ \E k \in Gov!Kinds : Gov!CreateRequest(q, k)
                                \/ Gov!VerifyRequest(q) \/ Gov!ExportRequest(q)
                                \/ \E b \in BOOLEAN : Gov!ReviewRequest(q, b)
  PROVE  GovernanceInv'
<1>t. /\ doc \in DocType /\ doc.version + 1 \in Nat
      /\ doc.requests \in [Requests -> RequestType] /\ doc.holds \in [Holds -> HoldType]
  BY GovernanceParts
\* A change of the requests alone, or of the holds.
<1>q. ASSUME NEW q \in Requests, NEW row \in RequestType, doc.requests[q].state # "completed",
             NEW subject \in {"none", "active", "restricted", "erased"}, NEW restricted \in BOOLEAN,
             subject = "erased" => doc.subject = "erased",
             Gov!Save([doc EXCEPT !.requests = [doc.requests EXCEPT ![q] = row], !.subject = subject,
                                  !.restricted = restricted]),
             Gov!DocOnly
      PROVE  GovernanceInv'
  <2> DEFINE rows == [doc.requests EXCEPT ![q] = row]
             changed == [doc EXCEPT !.requests = rows, !.subject = subject, !.restricted = restricted]
  <2>1. rows \in [Requests -> RequestType]
        /\ \A x \in Requests : doc.requests[x].state = "completed" => rows[x].state = "completed"
    BY <1>t, <1>q
  <2>2. Gov!Save(changed)
    BY <1>q
  <2> HIDE DEF rows
  <2>3. /\ changed \in DocType /\ changed.plans = doc.plans /\ changed.holds = doc.holds
        /\ changed.subject = subject /\ changed.requests = rows
    BY <1>t, <2>1 DEF DocType
  <2> HIDE DEF changed
  <2> QED BY <1>q, <2>1, <2>2, <2>3, NoPlanStep
<1>h. ASSUME NEW h \in Holds, NEW row \in HoldType,
             row.status = "active" => row.at = doc.version + 1,
             Gov!Save([doc EXCEPT !.holds = [doc.holds EXCEPT ![h] = row]]), Gov!DocOnly
      PROVE  GovernanceInv'
  <2> DEFINE rows == [doc.holds EXCEPT ![h] = row]
             changed == [doc EXCEPT !.holds = rows]
  <2>1. rows \in [Holds -> HoldType] /\ rows[h] = row /\ \A x \in Holds : x # h => rows[x] = doc.holds[x]
    BY <1>t
  <2>2. Gov!Save(changed)
    BY <1>h
  <2> HIDE DEF rows
  <2>3. /\ changed \in DocType /\ changed.plans = doc.plans /\ changed.holds = rows
        /\ changed.subject = doc.subject /\ changed.requests = doc.requests
    BY <1>t, <2>1 DEF DocType
  <2> HIDE DEF changed
  <2>4. \A x \in Holds, r \in Items : Gov!Covers(changed.holds[x], r) =>
          \/ Gov!Covers(doc.holds[x], r) /\ changed.holds[x].at = doc.holds[x].at
          \/ changed.holds[x].at = doc.version + 1
    BY <1>h, <2>1, <2>3 DEF Gov!Covers
  <2> QED BY <1>h, <2>2, <2>3, <2>4, NoPlanStep
<1>1. ASSUME NEW k \in BOOLEAN, Gov!SavePolicy(k) PROVE GovernanceInv'
  <2> DEFINE changed == [doc EXCEPT !.keyRef = k]
  <2>1. /\ changed \in DocType /\ changed.plans = doc.plans /\ changed.holds = doc.holds
        /\ changed.subject = doc.subject /\ changed.requests = doc.requests
    BY <1>t DEF DocType
  <2>2. Gov!Save(changed) /\ Gov!DocOnly
    BY <1>1 DEF Gov!SavePolicy
  <2> HIDE DEF changed
  <2> QED BY <2>1, <2>2, NoPlanStep
<1>2. ASSUME Gov!CreateSubject PROVE GovernanceInv'
  <2> DEFINE changed == [doc EXCEPT !.subject = "active"]
  <2>1. /\ changed \in DocType /\ changed.plans = doc.plans /\ changed.holds = doc.holds
        /\ changed.subject = "active" /\ changed.requests = doc.requests
    BY <1>t DEF DocType
  <2>2. Gov!Save(changed) /\ Gov!DocOnly
    BY <1>2 DEF Gov!CreateSubject
  <2> HIDE DEF changed
  <2> QED BY <2>1, <2>2, NoPlanStep
<1>3. ASSUME NEW r \in Items, Gov!LinkSubjectResource(r) PROVE GovernanceInv'
  <2> DEFINE links == doc.links \cup {r}
             changed == [doc EXCEPT !.links = links]
  <2>1. links \in SUBSET Items
    BY <1>t DEF DocType
  <2>2. Gov!Save(changed) /\ Gov!DocOnly
    BY <1>3 DEF Gov!LinkSubjectResource
  <2> HIDE DEF links
  <2>3. /\ changed \in DocType /\ changed.plans = doc.plans /\ changed.holds = doc.holds
        /\ changed.subject = doc.subject /\ changed.requests = doc.requests
    BY <1>t, <2>1 DEF DocType
  <2> HIDE DEF changed
  <2> QED BY <2>2, <2>3, NoPlanStep
<1>4. ASSUME NEW h \in Holds, Gov!ReleaseHold(h) PROVE GovernanceInv'
  <2> DEFINE row == [doc.holds[h] EXCEPT !.status = "released"]
  <2>1. row \in HoldType /\ row.status = "released"
    BY <1>t DEF HoldType
  <2>2. Gov!Save([doc EXCEPT !.holds = [doc.holds EXCEPT ![h] = row]]) /\ Gov!DocOnly
    BY <1>4 DEF Gov!ReleaseHold
  <2> HIDE DEF row
  <2> QED BY <1>h, <2>1, <2>2
<1>5. ASSUME NEW h \in Holds, NEW t \in Gov!Targets, Gov!CreateHold(h, t) PROVE GovernanceInv'
  <2> DEFINE row == [status |-> "active", target |-> t, at |-> doc.version + 1]
  <2>1. row \in HoldType /\ row.at = doc.version + 1
    BY <1>t DEF HoldType
  <2>2. Gov!Save([doc EXCEPT !.holds = [doc.holds EXCEPT ![h] = row]]) /\ Gov!DocOnly
    BY <1>5 DEF Gov!CreateHold
  <2> HIDE DEF row
  <2> QED BY <1>h, <2>1, <2>2
<1>6. ASSUME NEW q \in Requests, NEW row \in RequestType, doc.requests[q].state # "completed",
             Gov!Save([doc EXCEPT !.requests = [doc.requests EXCEPT ![q] = row]]), Gov!DocOnly
      PROVE  GovernanceInv'
  <2>1. [doc EXCEPT !.requests = [doc.requests EXCEPT ![q] = row]]
          = [doc EXCEPT !.requests = [doc.requests EXCEPT ![q] = row], !.subject = doc.subject,
                        !.restricted = doc.restricted]
    BY <1>t DEF DocType
  <2>2. Gov!Save([doc EXCEPT !.requests = [doc.requests EXCEPT ![q] = row], !.subject = doc.subject,
                             !.restricted = doc.restricted])
    BY <1>6, <2>1
  <2>3. doc.subject \in {"none", "active", "restricted", "erased"} /\ doc.restricted \in BOOLEAN
    BY <1>t DEF DocType
  <2> QED BY <1>q, <1>6, <2>2, <2>3
<1>7. ASSUME NEW q \in Requests, NEW k \in Gov!Kinds, Gov!CreateRequest(q, k) PROVE GovernanceInv'
  <2> DEFINE row == [kind |-> k, state |-> "requested", plan |-> None]
  <2>1. row \in RequestType
    BY DEF RequestType, Gov!RequestState
  <2>2. /\ Gov!Save([doc EXCEPT !.requests = [doc.requests EXCEPT ![q] = row]]) /\ Gov!DocOnly
        /\ doc.requests[q].state # "completed"
    BY <1>7 DEF Gov!CreateRequest
  <2> HIDE DEF row
  <2> QED BY <1>6, <2>1, <2>2
<1>8. ASSUME NEW q \in Requests, Gov!VerifyRequest(q) PROVE GovernanceInv'
  <2> DEFINE row == [doc.requests[q] EXCEPT !.state = "verified"]
  <2>1. row \in RequestType
    BY <1>t DEF RequestType, Gov!RequestState
  <2>2. /\ Gov!Save([doc EXCEPT !.requests = [doc.requests EXCEPT ![q] = row]]) /\ Gov!DocOnly
        /\ doc.requests[q].state # "completed"
    BY <1>8 DEF Gov!VerifyRequest
  <2> HIDE DEF row
  <2> QED BY <1>6, <2>1, <2>2
<1>9. ASSUME NEW q \in Requests, Gov!ExportRequest(q) PROVE GovernanceInv'
  <2> DEFINE row == [doc.requests[q] EXCEPT !.state = "completed"]
  <2>1. row \in RequestType
    BY <1>t DEF RequestType, Gov!RequestState
  <2>2. /\ Gov!Save([doc EXCEPT !.requests = [doc.requests EXCEPT ![q] = row]]) /\ Gov!DocOnly
        /\ doc.requests[q].state # "completed"
    BY <1>9 DEF Gov!ExportRequest
  <2> HIDE DEF row
  <2> QED BY <1>6, <2>1, <2>2
<1>10. ASSUME NEW q \in Requests, NEW b \in BOOLEAN, Gov!ReviewRequest(q, b) PROVE GovernanceInv'
  <2> DEFINE restricts == b /\ doc.requests[q].kind = "restriction"
             state == IF ~b THEN "rejected" ELSE IF restricts THEN "completed" ELSE "approved"
             row == [doc.requests[q] EXCEPT !.state = state]
             subject == IF restricts THEN "restricted" ELSE doc.subject
             restricted == doc.restricted \/ restricts
  <2>1. row \in RequestType
    BY <1>t DEF RequestType, Gov!RequestState
  <2>2. /\ subject \in {"none", "active", "restricted", "erased"}
        /\ subject = "erased" => doc.subject = "erased"
        /\ restricted \in BOOLEAN
    BY <1>t DEF DocType
  <2>3. /\ Gov!Save([doc EXCEPT !.requests = [doc.requests EXCEPT ![q] = row], !.subject = subject,
                                !.restricted = restricted])
        /\ Gov!DocOnly /\ doc.requests[q].state # "completed"
    <3>1. [doc EXCEPT !.requests[q].state = IF ~b THEN "rejected"
                                            ELSE IF restricts THEN "completed" ELSE "approved",
                      !.restricted = @ \/ restricts,
                      !.subject = IF restricts THEN "restricted" ELSE @]
            = [doc EXCEPT !.requests = [doc.requests EXCEPT ![q] = row], !.subject = subject,
                          !.restricted = restricted]
      BY <1>t DEF DocType
    <3> QED BY <1>10, <3>1 DEF Gov!ReviewRequest
  <2> HIDE DEF restricts, state, row, subject, restricted
  <2> QED BY <1>q, <2>1, <2>2, <2>3
<1> QED
  BY <1>1, <1>2, <1>3, <1>4, <1>5, <1>7, <1>8, <1>9, <1>10

\* A plan is drawn up.
LEMMA CreatePlanStep ==
  ASSUME GovernanceInv, NEW a \in Admins, NEW p \in Plans, NEW q \in Requests \cup {None},
         NEW links \in SUBSET doc.links, NEW cands \in [links -> Gov!Inspected],
         Gov!CreatePlan(a, p, q, cands)
  PROVE  GovernanceInv'
<1> DEFINE row == [state |-> "preview", request |-> q, by |-> a, version |-> doc.version + 1,
                   cands |-> cands]
           rows == [doc.plans EXCEPT ![p] = row]
           requests == [x \in Requests |->
                          IF x = q THEN [doc.requests[x] EXCEPT !.plan = p] ELSE doc.requests[x]]
           changed == [doc EXCEPT !.plans = rows, !.requests = requests]
<1>t. /\ doc \in DocType /\ doc.version + 1 \in Nat /\ links \in SUBSET Items
      /\ doc.requests \in [Requests -> RequestType] /\ doc.plans \in [Plans -> ErasurePlan]
  BY GovernanceParts DEF DocType
<1>1. /\ cands \in CandMaps /\ DOMAIN cands = links
      /\ \A x \in links : cands[x].state # "completed"
  <2>1. Gov!Inspected \subseteq CandType /\ \A c \in Gov!Inspected : c.state # "completed"
    BY DEF Gov!Inspected, Gov!Candidate, CandType
  <2>2. cands \in [links -> CandType] /\ \A x \in links : cands[x] \in Gov!Inspected
    BY <2>1
  <2> QED BY <1>t, <2>1, <2>2 DEF CandMaps
<1>2. row \in ErasurePlan
  BY <1>t, <1>1 DEF ErasurePlan, Gov!PlanState
<1>3. /\ row.state = "preview" /\ row.request = q /\ row.version = doc.version + 1 /\ row.cands = cands
  OBVIOUS
<1>4. /\ Gov!Save(changed) /\ Gov!DocOnly /\ doc.plans[p].state = "unused"
      /\ q # None => doc.requests[q].state = "approved"
  BY DEF Gov!CreatePlan
<1> HIDE DEF row
<1>5. rows \in [Plans -> ErasurePlan] /\ rows[p] = row /\ \A x \in Plans : x # p => rows[x] = doc.plans[x]
  BY <1>t, <1>2
<1>6. requests \in [Requests -> RequestType] /\ \A x \in Requests : requests[x].state = doc.requests[x].state
  BY <1>t DEF RequestType
<1> HIDE DEF rows, requests
<1>7. /\ changed \in DocType /\ changed.plans = rows /\ changed.requests = requests
      /\ changed.holds = doc.holds /\ changed.subject = doc.subject
  BY <1>t, <1>5, <1>6 DEF DocType
<1> HIDE DEF changed
<1>8. /\ doc' \in DocType /\ doc'.version = doc.version + 1 /\ doc'.plans = rows
      /\ doc'.requests = requests /\ doc'.holds = doc.holds /\ doc'.subject = doc.subject
  BY <1>t, <1>4, <1>7 DEF Gov!Save, DocType
<1>9. PlanHolds(p)'
  <2>1. EffectsCounted(p)'
    BY <1>3, <1>4, <1>5, <1>8, GovernanceParts DEF PlanHolds, EffectsCounted, Gov!DocOnly
  <2>2. CandsGone(p)'
    BY <1>1, <1>3, <1>5, <1>8 DEF CandsGone, Cands
  <2>3. RequestFollows(p)'
    <3>1. doc.version + 1 <= doc.version + 1
      BY <1>t
    <3> QED BY <1>3, <1>4, <1>5, <1>6, <1>8, <3>1 DEF RequestFollows
  <2> QED BY <2>1, <2>2, <2>3 DEF PlanHolds
<1> QED
  BY <1>4, <1>5, <1>6, <1>8, <1>9, AdminStep DEF Gov!DocOnly

\* A plan of the current version, whose request is approved then, is approved.
LEMMA ApprovePlanStep ==
  ASSUME GovernanceInv, NEW a \in Admins, NEW p \in Plans, Gov!ApprovePlan(a, p)
  PROVE  GovernanceInv'
<1> DEFINE row == [doc.plans[p] EXCEPT !.state = "approved", !.version = doc.version + 1]
           rows == [doc.plans EXCEPT ![p] = row]
           changed == [doc EXCEPT !.plans = rows]
<1>t. /\ doc \in DocType /\ doc.version + 1 \in Nat /\ doc.plans[p] \in ErasurePlan
      /\ doc.plans \in [Plans -> ErasurePlan] /\ PlanHolds(p)
  BY GovernanceParts
<1>1. /\ row \in ErasurePlan /\ row.state = "approved" /\ row.request = doc.plans[p].request
      /\ row.version = doc.version + 1 /\ row.cands = doc.plans[p].cands
  BY <1>t DEF ErasurePlan, Gov!PlanState
<1>2. /\ Gov!Save(changed) /\ Gov!DocOnly /\ doc.plans[p].state = "preview"
      /\ doc.plans[p].version = doc.version
  <2>1. [doc EXCEPT !.plans[p].state = "approved", !.plans[p].version = doc.version + 1] = changed
    BY <1>t DEF DocType
  <2> QED BY <2>1 DEF Gov!ApprovePlan
<1> HIDE DEF row
<1>3. rows \in [Plans -> ErasurePlan] /\ rows[p] = row /\ \A x \in Plans : x # p => rows[x] = doc.plans[x]
  BY <1>t, <1>1
<1> HIDE DEF rows
<1>4. /\ changed \in DocType /\ changed.plans = rows /\ changed.requests = doc.requests
      /\ changed.holds = doc.holds /\ changed.subject = doc.subject
  BY <1>t, <1>3 DEF DocType
<1> HIDE DEF changed
<1>5. /\ doc' \in DocType /\ doc'.version = doc.version + 1 /\ doc'.plans = rows
      /\ doc'.requests = doc.requests /\ doc'.holds = doc.holds /\ doc'.subject = doc.subject
  BY <1>t, <1>2, <1>4 DEF Gov!Save, DocType
<1>6. PlanHolds(p)'
  <2>1. EffectsCounted(p)'
    BY <1>t, <1>1, <1>2, <1>3, <1>5 DEF PlanHolds, EffectsCounted, Gov!DocOnly
  <2>2. CandsGone(p)'
    BY <1>t, <1>1, <1>2, <1>3, <1>5 DEF PlanHolds, CandsGone, Cands, Gov!DocOnly
  <2>3. RequestFollows(p)'
    <3>1. doc.version + 1 <= doc.version + 1
      BY <1>t
    <3> QED BY <1>t, <1>1, <1>2, <1>3, <1>5, <3>1 DEF PlanHolds, RequestFollows
  <2> QED BY <2>1, <2>2, <2>3 DEF PlanHolds
<1> QED
  BY <1>2, <1>3, <1>5, <1>6, AdminStep DEF Gov!DocOnly

\* The read before a candidate: no hold that covers it is as old as that read.
LEMMA CheckStep ==
  ASSUME GovernanceInv, NEW w \in Agents, NEW r \in Items, Gov!Check(w, r)
  PROVE  GovernanceInv'
<1>t. /\ wk \in [Agents -> WkType] /\ wk[w] \in WkType /\ WorkerKnows(w) /\ doc.version \in Nat
      /\ doc.version <= doc.version /\ keyOk \in BOOLEAN
  BY GovernanceParts
<1>0. /\ wk[w].pc = "check" /\ r \in wk[w].todo /\ Working(w) /\ doc.plans[wk[w].plan].state = "executing"
      /\ UNCHANGED <<doc, res, keyOk, effects>>
  BY <1>t DEF Gov!Check, Working, WorkerKnows
<1>1. PICK pc \in {"block", "inspect"} :
        /\ pc = "inspect" => ~Gov!Blocked(doc, r)
        /\ wk' = [wk EXCEPT ![w] = [wk[w] EXCEPT !.pc = pc, !.cand = r, !.read = doc.version, !.key = keyOk]]
  BY <1>t, <1>0 DEF Gov!Check
<1> DEFINE op == [wk[w] EXCEPT !.pc = pc, !.cand = r, !.read = doc.version, !.key = keyOk]
<1>2. /\ op \in WkType /\ op.pc = pc /\ op.cand = r /\ op.read = doc.version
      /\ op.plan = wk[w].plan /\ op.todo = wk[w].todo
  BY <1>t DEF WkType
<1>3. wk' = [wk EXCEPT ![w] = op]
  BY <1>1
<1> HIDE DEF op
<1>4. wk'[w] = op
  BY <1>t, <1>3
<1>5. WorkerKnows(w)'
  BY <1>t, <1>0, <1>2, <1>4 DEF WorkerKnows, Working, Cands
<1>6. HoldsLater(w)'
  BY <1>t, <1>0, <1>1, <1>2, <1>4 DEF HoldsLater, Gov!Blocked
<1> QED
  BY <1>0, <1>2, <1>3, <1>5, <1>6, WorkerStep

\* A worker passes from one step at a plan to the next without writing the document.
LEMMA WorkerMoves ==
  ASSUME GovernanceInv, NEW w \in Agents,
         \/ Gov!Start(w) \/ Gov!EraseFails(w) \/ Gov!Finish(w) \/ Gov!Crash(w)
         \/ \E b \in BOOLEAN : Gov!Inspect(w, b)
  PROVE  GovernanceInv'
<1>t. /\ wk \in [Agents -> WkType] /\ wk[w] \in WkType /\ WorkerKnows(w) /\ HoldsLater(w)
  BY GovernanceParts
<1>r. Gov!IdleWk \in WkType /\ Gov!IdleWk.pc = "idle"
  BY DEF Gov!IdleWk, WkType
\* To a place where the worker has no plan.
<1>1. ASSUME NEW op \in WkType, op.pc \in {"idle", "claim"}, wk' = [wk EXCEPT ![w] = op],
             UNCHANGED <<doc, res, keyOk, effects>>
      PROVE  GovernanceInv'
  <2>1. wk'[w] = op
    BY <1>t, <1>1
  <2>2. ~Working(w)' /\ WorkerKnows(w)' /\ HoldsLater(w)'
    BY <1>1, <2>1 DEF Working, WorkerKnows, HoldsLater
  <2> QED BY <1>1, <2>2, WorkerStep
<1>2. ASSUME Gov!Start(w) PROVE GovernanceInv'
  <2> DEFINE found == {p \in Plans : doc.plans[p].state = "approved"}
             op == [Gov!IdleWk EXCEPT !.pc = "claim", !.plans = found]
  <2>1. op \in WkType /\ op.pc = "claim"
    <3>1. found \in SUBSET Plans
      OBVIOUS
    <3> HIDE DEF found
    <3> QED BY <3>1 DEF Gov!IdleWk, WkType
  <2>2. wk' = [wk EXCEPT ![w] = op] /\ UNCHANGED <<doc, res, keyOk, effects>>
    BY <1>2 DEF Gov!Start
  <2> HIDE DEF op
  <2> QED BY <1>1, <2>1, <2>2
<1>3. ASSUME Gov!Finish(w) \/ Gov!Crash(w) PROVE GovernanceInv'
  <2>1. wk' = [wk EXCEPT ![w] = Gov!IdleWk] /\ UNCHANGED <<doc, res, keyOk, effects>>
    BY <1>3 DEF Gov!Finish, Gov!Crash
  <2> QED BY <1>1, <1>r, <2>1
\* On with the candidate.
<1>4. ASSUME NEW pc \in {"erase", "block", "fail"}, wk' = [wk EXCEPT ![w].pc = pc],
             wk[w].pc \in {"inspect", "erase", "record"},
             pc \in {"erase", "block"} => wk[w].pc = "inspect", UNCHANGED <<doc, res, keyOk, effects>>
      PROVE  GovernanceInv'
  <2> DEFINE op == [wk[w] EXCEPT !.pc = pc]
  <2>1. /\ op \in WkType /\ op.pc = pc /\ op.cand = wk[w].cand /\ op.read = wk[w].read
        /\ op.plan = wk[w].plan /\ op.todo = wk[w].todo
    BY <1>t DEF WkType
  <2>2. wk' = [wk EXCEPT ![w] = op]
    BY <1>4
  <2> HIDE DEF op
  <2>3. wk'[w] = op
    BY <1>t, <2>2
  <2>4. Working(w)
    BY <1>4 DEF Working
  <2>5. WorkerKnows(w)'
    BY <1>t, <1>4, <2>1, <2>3, <2>4 DEF WorkerKnows, Working, Cands
  <2>6. HoldsLater(w)'
    BY <1>t, <1>4, <2>1, <2>3 DEF HoldsLater, Gov!Covers
  <2> QED BY <1>4, <2>1, <2>2, <2>4, <2>5, <2>6, WorkerStep
<1>5. ASSUME Gov!EraseFails(w) PROVE GovernanceInv'
  BY <1>4, <1>5 DEF Gov!EraseFails
<1>6. ASSUME NEW b \in BOOLEAN, Gov!Inspect(w, b) PROVE GovernanceInv'
  <2>1. PICK pc \in {"erase", "block"} : wk' = [wk EXCEPT ![w].pc = pc]
    BY <1>6 DEF Gov!Inspect
  <2> QED BY <1>4, <1>6, <2>1 DEF Gov!Inspect
<1> QED
  BY <1>2, <1>3, <1>5, <1>6

\* The effect on a candidate that nothing had been done for.
LEMMA EraseStep ==
  ASSUME GovernanceInv, NEW w \in Agents, Gov!Erase(w)
  PROVE  GovernanceInv'
<1> DEFINE op == [wk[w] EXCEPT !.pc = "record"]
<1>t. /\ wk \in [Agents -> WkType] /\ wk[w] \in WkType /\ WorkerKnows(w)
      /\ res \in [Items -> [exists : BOOLEAN, version : Nat]] /\ effects \in [Plans -> [Items -> Nat]]
  BY GovernanceParts
<1>0. /\ wk[w].pc = "erase" /\ Working(w) /\ wk[w].plan \in Plans /\ wk[w].cand \in wk[w].todo
      /\ doc.plans[wk[w].plan].state = "executing" /\ wk[w].cand \in Items
      /\ effects[wk[w].plan][wk[w].cand] = 0
      /\ UNCHANGED <<doc, keyOk>>
  <2>1. wk[w].pc = "erase" /\ Working(w) /\ UNCHANGED <<doc, keyOk>>
    BY DEF Gov!Erase, Working
  <2> QED BY <1>t, <2>1, GovernanceParts DEF WorkerKnows, Working
<1>p. PICK p \in Plans : p = wk[w].plan
  BY <1>0
<1>x. PICK x \in Items : x = wk[w].cand
  BY <1>0
<1>1. /\ op \in WkType /\ op.pc = "record" /\ op.cand = x /\ op.plan = p /\ op.todo = wk[w].todo
  BY <1>t, <1>p, <1>x DEF WkType
<1>2. /\ wk' = [wk EXCEPT ![w] = op]
      /\ res' = [res EXCEPT ![x].exists = FALSE]
      /\ effects' = [effects EXCEPT ![p][x] = effects[p][x] + 1]
  BY <1>p, <1>x DEF Gov!Erase
<1> HIDE DEF op
<1>3. /\ wk' \in [Agents -> WkType] /\ wk'[w] = op
      /\ \A v \in Agents : v # w => wk'[v] = wk[v]
  BY <1>t, <1>1, <1>2
<1>4. /\ res' \in [Items -> [exists : BOOLEAN, version : Nat]]
      /\ ~res'[x].exists /\ \A y \in Items : ~res[y].exists => ~res'[y].exists
  BY <1>t, <1>2
<1>5. /\ effects' \in [Plans -> [Items -> Nat]] /\ effects'[p][x] = 1
      /\ \A s \in Plans, y \in Items : s # p \/ y # x => effects'[s][y] = effects[s][y]
  <2> DEFINE row == [effects[p] EXCEPT ![x] = 1]
  <2>1. row \in [Items -> Nat] /\ row[x] = 1 /\ \A y \in Items : y # x => row[y] = effects[p][y]
    BY <1>t
  <2>2. effects' = [effects EXCEPT ![p] = row]
    BY <1>0, <1>p, <1>x, <1>2
  <2> HIDE DEF row
  <2> QED BY <1>t, <2>1, <2>2
<1>6. GovernanceTypes'
  BY <1>0, <1>3, <1>4, <1>5 DEF GovernanceInv, GovernanceTypes
<1>7. ASSUME NEW s \in Plans PROVE PlanHolds(s)'
  <2>1. EffectsCounted(s) /\ CandsGone(s) /\ RequestFollows(s) /\ DOMAIN Cands(s) \subseteq Items
    BY GovernanceParts DEF PlanHolds
  <2>2. EffectsCounted(s)'
    BY <1>0, <1>p, <1>5, <2>1 DEF EffectsCounted
  <2>3. CandsGone(s)'
    BY <1>0, <1>4, <2>1 DEF CandsGone, Cands
  <2>4. RequestFollows(s)'
    BY <1>0, <2>1 DEF RequestFollows
  <2> QED BY <2>2, <2>3, <2>4 DEF PlanHolds
<1>8. ASSUME NEW v \in Agents PROVE WorkerKnows(v)' /\ HoldsLater(v)'
  <2>1. CASE v = w
    <3>1. WorkerKnows(w)'
      <4>1. \A y \in wk[w].todo : y \in Items /\ (y # x => effects'[p][y] = 0)
        BY <1>t, <1>0, <1>p, <1>x, <1>5, GovernanceParts DEF WorkerKnows
      <4> QED BY <1>t, <1>0, <1>p, <1>x, <1>1, <1>3, <1>4, <4>1 DEF WorkerKnows, Working, Cands
    <3> QED BY <1>1, <1>3, <2>1, <3>1 DEF HoldsLater
  <2>2. CASE v # w /\ Working(v)
    <3>1. /\ WorkerKnows(v) /\ HoldsLater(v) /\ wk'[v] = wk[v] /\ wk[v].plan # p
      BY <1>0, <1>p, <1>3, <2>2, GovernanceParts DEF OneWorker
    <3>2. PICK s \in Plans : s = wk[v].plan /\ s # p
      BY <2>2, <3>1 DEF WorkerKnows
    <3>3. wk[v].todo \subseteq Items
      BY <2>2, <3>1, GovernanceParts DEF WorkerKnows
    <3>4. \A y \in wk[v].todo : effects'[s][y] = effects[s][y]
      BY <1>5, <3>2, <3>3
    <3>5. WorkerKnows(v)'
      BY <1>0, <1>4, <2>2, <3>1, <3>2, <3>3, <3>4 DEF WorkerKnows, Working, Cands
    <3>6. HoldsLater(v)'
      BY <1>0, <3>1 DEF HoldsLater, Gov!Covers
    <3> QED BY <3>5, <3>6
  <2>3. CASE v # w /\ ~Working(v)
    BY <1>3, <2>3 DEF WorkerKnows, HoldsLater, Working
  <2> QED BY <2>1, <2>2, <2>3
<1>9. OneWorker'
  <2>1. \A v \in Agents : Working(v)' = Working(v) /\ wk'[v].plan = wk[v].plan
    BY <1>0, <1>p, <1>1, <1>3 DEF Working
  <2> QED BY <2>1, GovernanceParts DEF OneWorker
<1>10. SubjectHolds'
  BY <1>0, GovernanceParts DEF SubjectHolds
<1> QED
  BY <1>6, <1>7, <1>8, <1>9, <1>10 DEF GovernanceInv

\* A write of a worker about one plan.
LEMMA WorkerWrites ==
  ASSUME GovernanceInv, NEW w \in Agents, NEW p \in Plans, NEW row \in ErasurePlan, NEW op \in WkType,
         doc' \in DocType, doc'.version = doc.version + 1, doc'.holds = doc.holds,
         doc'.plans = [doc.plans EXCEPT ![p] = row],
         \A q \in Requests : doc.requests[q].state = "completed" => doc'.requests[q].state = "completed",
         wk' = [wk EXCEPT ![w] = op], UNCHANGED <<res, keyOk, effects>>,
         row = doc.plans[p] \/ (PlanHolds(p)' /\ doc.plans[p].state # "completed"),
         \A v \in Agents : v # w /\ Working(v) /\ wk[v].plan = p => row = doc.plans[p] /\ ~Working(w)',
         Working(w)' => op.plan = p,
         WorkerKnows(w)', HoldsLater(w)',
         doc'.subject = "erased" => doc.subject = "erased" \/ (row.state = "completed" /\ row.request # None)
  PROVE  GovernanceInv'
<1>1. /\ wk' \in [Agents -> WkType] /\ wk'[w] = op
      /\ \A v \in Agents : v # w => wk'[v] = wk[v]
  BY GovernanceParts
<1>2. doc'.plans[p] = row /\ \A s \in Plans : s # p => doc'.plans[s] = doc.plans[s]
  BY GovernanceParts
<1>3. \A s \in Plans : doc'.plans[s] = doc.plans[s] \/ PlanHolds(s)'
  BY <1>2
<1>4. \A v \in Agents : v # w => wk'[v] = wk[v] /\ (Working(v) => doc'.plans[wk[v].plan] = doc.plans[wk[v].plan])
  <2>1. \A v \in Agents : Working(v) => wk[v].plan \in Plans
    BY GovernanceParts DEF WorkerKnows
  <2> QED BY <1>1, <1>2, <2>1
<1>5. OneWorker'
  <2>1. SUFFICES ASSUME NEW u \in Agents, NEW v \in Agents, Working(u)', Working(v)', wk'[u].plan = wk'[v].plan
                 PROVE  u = v
    BY DEF OneWorker
  <2>2. \A x \in Agents : x # w => Working(x)' = Working(x)
    BY <1>1 DEF Working
  <2>3. CASE u # w /\ v # w
    BY <1>1, <2>1, <2>2, <2>3, GovernanceParts DEF OneWorker
  <2>4. CASE u = w /\ v # w
    BY <1>1, <2>1, <2>2, <2>4
  <2>5. CASE u # w /\ v = w
    BY <1>1, <2>1, <2>2, <2>5
  <2> QED BY <2>3, <2>4, <2>5
<1>6. SubjectHolds'
  <2>1. \A s \in Plans : doc.plans[s].state = "completed" => doc'.plans[s] = doc.plans[s]
    BY <1>2
  <2> QED BY <1>2, <2>1, GovernanceParts DEF SubjectHolds
<1>7. \A h \in Holds, x \in Items : Gov!Covers(doc'.holds[h], x) =>
         \/ Gov!Covers(doc.holds[h], x) /\ doc'.holds[h].at = doc.holds[h].at
         \/ doc'.holds[h].at = doc.version + 1
  OBVIOUS
<1>8. \A v \in Agents : \/ WorkerKnows(v)' /\ HoldsLater(v)'
                        \/ /\ wk'[v] = wk[v]
                           /\ Working(v) => doc'.plans[wk[v].plan] = doc.plans[wk[v].plan]
  BY <1>4
<1> QED
  BY <1>1, <1>3, <1>5, <1>6, <1>7, <1>8, DocumentSaved

\* A plan is claimed, found stale, or left to another worker.
LEMMA ClaimStep ==
  ASSUME GovernanceInv, NEW w \in Agents, NEW p \in Plans, Gov!Claim(w, p)
  PROVE  GovernanceInv'
<1> DEFINE plan == doc.plans[p]
           free == plan.state = "approved"
           current == plan.version = doc.version
           next == [wk[w] EXCEPT !.plans = @ \ {p}]
<1>t. /\ wk \in [Agents -> WkType] /\ wk[w] \in WkType /\ doc \in DocType /\ doc.version + 1 \in Nat
      /\ doc.plans \in [Plans -> ErasurePlan] /\ plan \in ErasurePlan
      /\ doc.requests \in [Requests -> RequestType]
      /\ DOMAIN plan.cands \subseteq Items
      /\ EffectsCounted(p) /\ CandsGone(p) /\ RequestFollows(p)
  BY GovernanceParts DEF PlanHolds, Cands
<1>0. wk[w].pc = "claim" /\ ~Working(w) /\ UNCHANGED <<res, keyOk, effects>>
  BY DEF Gov!Claim, Working
<1>n. next \in WkType /\ next.pc = "claim"
  <2>1. wk[w].plans \ {p} \subseteq Plans
    BY <1>t DEF WkType
  <2> QED BY <1>t, <1>0, <2>1 DEF WkType
<1>1. CASE ~free
  <2>1. doc' = [doc EXCEPT !.version = doc.version + 1] /\ wk' = [wk EXCEPT ![w] = next]
    BY <1>1 DEF Gov!Claim, Gov!Claimable, Gov!Save
  <2>2. /\ doc' \in DocType /\ doc'.version = doc.version + 1 /\ doc'.holds = doc.holds
        /\ doc'.plans = doc.plans /\ doc'.requests = doc.requests /\ doc'.subject = doc.subject
    BY <1>t, <2>1 DEF DocType
  <2>3. doc'.plans = [doc.plans EXCEPT ![p] = plan]
    BY <1>t, <2>2
  <2> HIDE DEF next
  <2>4. wk'[w] = next
    BY <1>t, <2>1
  <2>5. ~Working(w)' /\ WorkerKnows(w)' /\ HoldsLater(w)' /\ (Working(w)' => next.plan = p)
    BY <1>n, <2>4 DEF Working, WorkerKnows, HoldsLater
  <2>8. /\ \A q \in Requests : doc.requests[q].state = "completed" => doc'.requests[q].state = "completed"
        /\ doc'.subject = "erased" => doc.subject = "erased" \/ (plan.state = "completed" /\ plan.request # None)
    BY <2>2
  <2>6. \A v \in Agents : v # w /\ Working(v) /\ wk[v].plan = p => plan = doc.plans[p] /\ ~Working(w)'
    BY <2>5
  <2>7. plan = doc.plans[p]
    OBVIOUS
  <2> HIDE DEF plan, free, current
  <2> QED BY <1>t, <1>0, <1>n, <2>1, <2>2, <2>3, <2>5, <2>6, <2>7, <2>8, WorkerWrites
<1>2. CASE free
  <2> DEFINE row == [plan EXCEPT !.state = IF current THEN "executing" ELSE "blocked", !.version = doc.version + 1]
             requests == [x \in Requests |-> IF x = plan.request /\ current
                                             THEN [doc.requests[x] EXCEPT !.state = "executing"]
                                             ELSE doc.requests[x]]
             changed == [doc EXCEPT !.plans = [doc.plans EXCEPT ![p] = row], !.requests = requests]
  <2>1. /\ row \in ErasurePlan /\ row.state = IF current THEN "executing" ELSE "blocked"
        /\ row.version = doc.version + 1 /\ row.cands = plan.cands /\ row.request = plan.request
    BY <1>t DEF ErasurePlan, Gov!PlanState
  <2>2. /\ requests \in [Requests -> RequestType]
        /\ \A x \in Requests : doc.requests[x].state = "completed" => requests[x].state = "completed"
    <3>1. \A x \in Requests : [doc.requests[x] EXCEPT !.state = "executing"] \in RequestType
      BY <1>t DEF RequestType, Gov!RequestState
    <3>2. \A x \in Requests : x = plan.request /\ current /\ x # None => doc.requests[x].state = "approved"
      BY <1>2, <1>t DEF RequestFollows
    <3>3. \A x \in Requests : x = plan.request /\ current => doc.requests[x].state # "completed"
      BY <3>2, NoneIsNothing
    <3>4. \A x \in Requests : requests[x] = IF x = plan.request /\ current
                                            THEN [doc.requests[x] EXCEPT !.state = "executing"]
                                            ELSE doc.requests[x]
      OBVIOUS
    <3>5. \A x \in Requests : requests[x] \in RequestType
      BY <1>t, <3>1, <3>4
    <3>6. requests \in [Requests -> RequestType]
      BY <3>5
    <3>7. \A x \in Requests : doc.requests[x].state = "completed" => requests[x].state = "completed"
      BY <3>3, <3>4
    <3> QED BY <3>6, <3>7
  <2>3. /\ doc' = [changed EXCEPT !.version = doc.version + 1]
        /\ wk' = [wk EXCEPT ![w] = IF current THEN [next EXCEPT !.pc = "check", !.plan = p, !.todo = DOMAIN plan.cands]
                                   ELSE next]
    <3>1. [doc EXCEPT !.plans[p].state = IF current THEN "executing" ELSE "blocked",
                      !.plans[p].version = doc.version + 1,
                      !.requests = [x \in Requests |-> IF x = plan.request /\ current
                                      THEN [@[x] EXCEPT !.state = "executing"] ELSE @[x]]]
            = changed
      BY <1>t DEF DocType, ErasurePlan
    <3>2. doc' = [[doc EXCEPT !.plans[p].state = IF current THEN "executing" ELSE "blocked",
                      !.plans[p].version = doc.version + 1,
                      !.requests = [x \in Requests |-> IF x = plan.request /\ current
                                      THEN [@[x] EXCEPT !.state = "executing"] ELSE @[x]]]
                    EXCEPT !.version = doc.version + 1]
      BY <1>2 DEF Gov!Claim, Gov!Claimable, Gov!Save
    <3>3. wk' = [wk EXCEPT ![w] = IF current
                                  THEN [next EXCEPT !.pc = "check", !.plan = p, !.todo = DOMAIN plan.cands]
                                  ELSE next]
      BY <1>2 DEF Gov!Claim, Gov!Claimable
    <3> HIDE DEF changed, next
    <3> QED BY <3>1, <3>2, <3>3
  <2> HIDE DEF row, requests
  <2>4. /\ doc' \in DocType /\ doc'.version = doc.version + 1 /\ doc'.holds = doc.holds
        /\ doc'.plans = [doc.plans EXCEPT ![p] = row] /\ doc'.requests = requests
        /\ doc'.subject = doc.subject
    <3>1. [doc.plans EXCEPT ![p] = row] \in [Plans -> ErasurePlan]
      BY <1>t, <2>1
    <3> QED BY <1>t, <2>1, <2>2, <2>3, <3>1 DEF DocType
  <2>5. doc'.plans[p] = row
    BY <1>t, <2>4
  <2>6. PlanHolds(p)'
    <3>1. doc.version + 1 <= doc.version + 1
      BY <1>t
    <3>2. EffectsCounted(p)' /\ CandsGone(p)' /\ RequestFollows(p)'
      BY <1>t, <1>0, <2>1, <2>4, <2>5, <3>1 DEF EffectsCounted, CandsGone, RequestFollows, Cands
    <3> QED BY <3>2 DEF PlanHolds
  <2>7. \A v \in Agents : ~(Working(v) /\ wk[v].plan = p)
    BY <1>2, GovernanceParts DEF WorkerKnows
  <2>c. /\ \A x \in Requests : doc.requests[x].state = "completed" => doc'.requests[x].state = "completed"
        /\ doc'.subject = "erased" => doc.subject = "erased" \/ (row.state = "completed" /\ row.request # None)
        /\ \A v \in Agents : v # w /\ Working(v) /\ wk[v].plan = p => row = doc.plans[p] /\ ~Working(w)'
    BY <2>2, <2>4, <2>7
  <2>8. CASE ~current
    <3> HIDE DEF next
    <3>1. wk' = [wk EXCEPT ![w] = next]
      BY <2>3, <2>8
    <3>2. wk'[w] = next
      BY <1>t, <3>1
    <3>3. ~Working(w)' /\ WorkerKnows(w)' /\ HoldsLater(w)'
      BY <1>n, <3>2 DEF Working, WorkerKnows, HoldsLater
    <3>4. doc.plans[p].state # "completed"
      BY <1>2
    <3> HIDE DEF changed, free, current, plan
    <3> QED BY <1>0, <1>n, <2>1, <2>4, <2>6, <2>c, <3>1, <3>3, <3>4, WorkerWrites
  <2>9. CASE current
    <3> DEFINE op == [next EXCEPT !.pc = "check", !.plan = p, !.todo = DOMAIN plan.cands]
    <3>1. op \in WkType /\ op.pc = "check" /\ op.plan = p /\ op.todo = DOMAIN plan.cands
      BY <1>t, <1>n DEF WkType
    <3>2. wk' = [wk EXCEPT ![w] = op]
      BY <2>3, <2>9
    <3> HIDE DEF op
    <3>3. wk'[w] = op
      BY <1>t, <3>2
    <3>4. WorkerKnows(w)'
      <4>1. \A x \in DOMAIN plan.cands : effects[p][x] = 0
        BY <1>t, <1>2 DEF EffectsCounted
      <4> QED BY <1>0, <2>1, <2>5, <2>9, <3>1, <3>3, <4>1 DEF WorkerKnows, Working, Cands
    <3>5. HoldsLater(w)'
      BY <3>1, <3>3 DEF HoldsLater
    <3>6. doc.plans[p].state # "completed"
      BY <1>2
    <3> HIDE DEF changed, free, current, plan, next
    <3> QED BY ZenonT(30), <1>0, <2>1, <2>4, <2>6, <2>c, <3>1, <3>2, <3>4, <3>5, <3>6, WorkerWrites
  <2> QED BY <2>8, <2>9
<1> QED
  BY <1>1, <1>2

\* What a worker at a plan knows, and that no other is at it.
LEMMA AtPlan ==
  ASSUME GovernanceInv, NEW w \in Agents, Working(w)
  PROVE  /\ wk[w].plan \in Plans /\ doc.plans[wk[w].plan].state = "executing"
         /\ \A v \in Agents : v # w => ~(Working(v) /\ wk[v].plan = wk[w].plan)
         /\ wk[w].pc \in {"record", "block", "fail"} =>
              wk[w].cand \in wk[w].todo /\ wk[w].cand \in Items /\ wk[w].cand \in DOMAIN Cands(wk[w].plan)
         /\ wk[w].todo \subseteq Items
BY GovernanceParts DEF WorkerKnows, OneWorker

\* The candidate's erasure is recorded.
LEMMA CompleteCandidateStep ==
  ASSUME GovernanceInv, NEW w \in Agents, Gov!CompleteCandidate(w)
  PROVE  GovernanceInv'
<1>0. wk[w].pc = "record" /\ Working(w) /\ UNCHANGED <<res, keyOk, effects>>
  BY DEF Gov!CompleteCandidate, Working
<1>p. PICK p \in Plans : p = wk[w].plan
  BY <1>0, AtPlan
<1>x. PICK x \in Items : x = wk[w].cand
  BY <1>0, AtPlan
<1> DEFINE plan == doc.plans[p]
           left == wk[w].todo \ {x}
           op == [wk[w] EXCEPT !.todo = left, !.pc = IF left = {} THEN "finish" ELSE "check"]
<1>t. /\ wk \in [Agents -> WkType] /\ wk[w] \in WkType /\ doc \in DocType /\ doc.version + 1 \in Nat
      /\ doc.plans \in [Plans -> ErasurePlan] /\ plan \in ErasurePlan
      /\ DOMAIN plan.cands \subseteq Items /\ plan.cands \in [DOMAIN plan.cands -> CandType]
      /\ EffectsCounted(p) /\ CandsGone(p) /\ RequestFollows(p) /\ WorkerKnows(w)
  BY GovernanceParts DEF PlanHolds, Cands
<1>1. /\ plan.state = "executing" /\ x \in wk[w].todo /\ x \in DOMAIN plan.cands /\ ~res[x].exists
      /\ \A v \in Agents : v # w => ~(Working(v) /\ wk[v].plan = p)
  BY <1>0, <1>p, <1>x, <1>t, AtPlan DEF WorkerKnows, Cands
<1>2. /\ op \in WkType /\ op.pc = (IF left = {} THEN "finish" ELSE "check") /\ op.plan = p
      /\ op.todo = left /\ left \subseteq wk[w].todo
  <2>1. left \in SUBSET Items
    BY <1>0, AtPlan
  <2> HIDE DEF left
  <2>2. wk[w].todo \ {x} = left
    BY DEF left
  <2> QED BY <1>t, <1>p, <2>1, <2>2 DEF WkType
<1>3. wk' = [wk EXCEPT ![w] = op]
  BY <1>x DEF Gov!CompleteCandidate
<1>4. PICK row \in ErasurePlan :
        /\ row.state = "executing" /\ row.version \in {plan.version, doc.version + 1}
        /\ row = plan \/ row.version = doc.version + 1
        /\ row.request = plan.request /\ DOMAIN row.cands = DOMAIN plan.cands
        /\ row.cands[x].state = "completed"
        /\ \A y \in DOMAIN plan.cands : y # x => row.cands[y] = plan.cands[y]
        /\ doc' = [doc EXCEPT !.plans = [doc.plans EXCEPT ![p] = row], !.version = doc.version + 1]
  <2>1. CASE plan.cands[x].state = "completed"
    <3>1. doc' = [doc EXCEPT !.version = doc.version + 1]
      BY <1>p, <1>x, <2>1 DEF Gov!CompleteCandidate, Gov!Save
    <3>2. doc' = [doc EXCEPT !.plans = [doc.plans EXCEPT ![p] = plan], !.version = doc.version + 1]
      <4>1. [doc.plans EXCEPT ![p] = plan] = doc.plans
        BY <1>t
      <4> QED BY <1>t, <3>1, <4>1 DEF DocType
    <3> QED BY <1>t, <1>1, <2>1, <3>2
  <2>2. CASE plan.cands[x].state # "completed"
    <3> DEFINE cand == [plan.cands[x] EXCEPT !.state = "completed"]
               cands == [plan.cands EXCEPT ![x] = cand]
               row == [plan EXCEPT !.cands = cands, !.version = doc.version + 1]
    <3>1. cand \in CandType /\ cand.state = "completed"
      BY <1>t, <1>1 DEF CandType, Gov!CandState
    <3>2. doc' = [doc EXCEPT !.plans = [doc.plans EXCEPT ![p] = row], !.version = doc.version + 1]
      <4>1. [doc EXCEPT !.plans[p].cands[x].state = "completed", !.plans[p].version = doc.version + 1]
              = [doc EXCEPT !.plans = [doc.plans EXCEPT ![p] = row]]
        BY <1>t, <1>1 DEF DocType, ErasurePlan
      <4>2. doc' = [[doc EXCEPT !.plans[p].cands[x].state = "completed",
                                !.plans[p].version = doc.version + 1] EXCEPT !.version = doc.version + 1]
        BY <1>p, <1>x, <2>2 DEF Gov!CompleteCandidate, Gov!Save
      <4> HIDE DEF row
      <4> QED BY <1>t, <4>1, <4>2 DEF DocType
    <3> HIDE DEF cand
    <3>3. /\ cands \in [DOMAIN plan.cands -> CandType] /\ cands[x] = cand
          /\ \A y \in DOMAIN plan.cands : y # x => cands[y] = plan.cands[y]
      BY <1>t, <1>1, <3>1
    <3> HIDE DEF cands
    <3>4. cands \in CandMaps /\ DOMAIN cands = DOMAIN plan.cands
      BY <1>t, <3>3 DEF CandMaps
    <3>5. /\ row \in ErasurePlan /\ row.state = plan.state /\ row.version = doc.version + 1
          /\ row.request = plan.request /\ row.cands = cands
      BY <1>t, <3>4 DEF ErasurePlan
    <3> HIDE DEF row
    <3> QED BY <1>1, <3>1, <3>2, <3>3, <3>4, <3>5
  <2> QED BY <2>1, <2>2
<1>5. /\ doc' \in DocType /\ doc'.version = doc.version + 1 /\ doc'.holds = doc.holds
      /\ doc'.plans = [doc.plans EXCEPT ![p] = row] /\ doc'.requests = doc.requests
      /\ doc'.subject = doc.subject /\ doc'.plans[p] = row
  <2>1. [doc.plans EXCEPT ![p] = row] \in [Plans -> ErasurePlan]
    BY <1>t
  <2> QED BY <1>t, <1>4, <2>1 DEF DocType
<1>6. PlanHolds(p)'
  <2>1. EffectsCounted(p)'
    BY <1>t, <1>0, <1>4, <1>5 DEF EffectsCounted
  <2>2. CandsGone(p)'
    BY <1>t, <1>0, <1>1, <1>4, <1>5 DEF CandsGone, Cands
  <2>3. RequestFollows(p)'
    <3>1. plan.version <= doc.version + 1 /\ doc.version + 1 <= doc.version + 1
      BY <1>t, GovernanceParts DEF RequestFollows
    <3>2. row.version <= doc.version + 1
      BY <1>4, <3>1
    <3> QED BY <1>4, <1>5, <3>2 DEF RequestFollows
  <2> QED BY <2>1, <2>2, <2>3 DEF PlanHolds
<1> HIDE DEF op
<1>7. wk'[w] = op
  BY <1>t, <1>3
<1>8. WorkerKnows(w)'
  <2>1. left \subseteq DOMAIN row.cands
    BY <1>0, <1>p, <1>t, <1>4 DEF WorkerKnows, Cands
  <2>2. \A y \in DOMAIN row.cands \ left : row.cands[y].state = "completed"
    BY <1>0, <1>p, <1>t, <1>4 DEF WorkerKnows, Cands
  <2>3. \A y \in left : effects[p][y] = 0
    BY <1>0, <1>p, <1>x, <1>t DEF WorkerKnows
  <2> QED BY <1>0, <1>2, <1>4, <1>5, <1>7, <2>1, <2>2, <2>3 DEF WorkerKnows, Working, Cands
<1>9. HoldsLater(w)' /\ (Working(w)' => op.plan = p)
  BY <1>2, <1>7 DEF HoldsLater
<1>10. \A v \in Agents : v # w /\ Working(v) /\ wk[v].plan = p => row = doc.plans[p] /\ ~Working(w)'
  BY <1>1
<1>11. doc.plans[p].state # "completed"
  BY <1>1
<1>12. \A q \in Requests : doc.requests[q].state = "completed" => doc'.requests[q].state = "completed"
  BY <1>5
<1>13. doc'.subject = "erased" => doc.subject = "erased" \/ (row.state = "completed" /\ row.request # None)
  BY <1>5
<1> HIDE DEF plan, left
<1> QED
  BY <1>0, <1>2, <1>3, <1>4, <1>5, <1>6, <1>8, <1>9, <1>10, <1>11, <1>12, <1>13, WorkerWrites

\* A candidate is blocked or failed, and the plan with it.
LEMMA StopCandidateStep ==
  ASSUME GovernanceInv, NEW w \in Agents, Gov!StopCandidate(w)
  PROVE  GovernanceInv'
<1>0. wk[w].pc \in {"block", "fail"} /\ Working(w) /\ UNCHANGED <<res, keyOk, effects>>
  BY DEF Gov!StopCandidate, Working
<1>p. PICK p \in Plans : p = wk[w].plan
  BY <1>0, AtPlan
<1>x. PICK x \in Items : x = wk[w].cand
  BY <1>0, AtPlan
<1>s. PICK s \in {"blocked", "failed"} : s = IF wk[w].pc = "block" THEN "blocked" ELSE "failed"
  OBVIOUS
<1> DEFINE plan == doc.plans[p]
           cand == [plan.cands[x] EXCEPT !.state = s]
           cands == [plan.cands EXCEPT ![x] = cand]
           row == [plan EXCEPT !.cands = cands, !.state = "blocked", !.version = doc.version + 1]
           op == [wk[w] EXCEPT !.pc = "claim", !.todo = {}]
<1>t. /\ wk \in [Agents -> WkType] /\ wk[w] \in WkType /\ doc \in DocType /\ doc.version + 1 \in Nat
      /\ doc.plans \in [Plans -> ErasurePlan] /\ plan \in ErasurePlan
      /\ DOMAIN plan.cands \subseteq Items /\ plan.cands \in [DOMAIN plan.cands -> CandType]
      /\ EffectsCounted(p) /\ CandsGone(p) /\ RequestFollows(p) /\ WorkerKnows(w)
  BY GovernanceParts DEF PlanHolds, Cands
<1>1. /\ plan.state = "executing" /\ x \in DOMAIN plan.cands
      /\ \A v \in Agents : v # w => ~(Working(v) /\ wk[v].plan = p)
  BY <1>0, <1>p, <1>x, AtPlan DEF Cands
<1>2. cand \in CandType /\ cand.state = s
  BY <1>t, <1>1 DEF CandType, Gov!CandState
<1>3. doc' = [doc EXCEPT !.plans = [doc.plans EXCEPT ![p] = row], !.version = doc.version + 1]
  <2>1. [doc EXCEPT !.plans[p].cands[x].state = s, !.plans[p].state = "blocked",
                    !.plans[p].version = doc.version + 1]
          = [doc EXCEPT !.plans = [doc.plans EXCEPT ![p] = row]]
    BY <1>t, <1>1 DEF DocType, ErasurePlan
  <2>2. doc' = [[doc EXCEPT !.plans[p].cands[x].state = s, !.plans[p].state = "blocked",
                            !.plans[p].version = doc.version + 1] EXCEPT !.version = doc.version + 1]
    BY <1>p, <1>x, <1>s DEF Gov!StopCandidate, Gov!Save
  <2> HIDE DEF row
  <2> QED BY <1>t, <2>1, <2>2 DEF DocType
<1> HIDE DEF cand
<1>4. /\ cands \in [DOMAIN plan.cands -> CandType] /\ cands[x] = cand
      /\ \A y \in DOMAIN plan.cands : y # x => cands[y] = plan.cands[y]
  BY <1>t, <1>1, <1>2
<1> HIDE DEF cands
<1>5. cands \in CandMaps /\ DOMAIN cands = DOMAIN plan.cands
  BY <1>t, <1>4 DEF CandMaps
<1>6. /\ row \in ErasurePlan /\ row.state = "blocked" /\ row.version = doc.version + 1
      /\ row.cands = cands
  BY <1>t, <1>5 DEF ErasurePlan, Gov!PlanState
<1> HIDE DEF row
<1>7. /\ doc' \in DocType /\ doc'.version = doc.version + 1 /\ doc'.holds = doc.holds
      /\ doc'.plans = [doc.plans EXCEPT ![p] = row] /\ doc'.requests = doc.requests
      /\ doc'.subject = doc.subject /\ doc'.plans[p] = row
  <2>1. [doc.plans EXCEPT ![p] = row] \in [Plans -> ErasurePlan]
    BY <1>t, <1>6
  <2> QED BY <1>t, <1>3, <1>6, <2>1 DEF DocType
<1>8. PlanHolds(p)'
  <2>1. EffectsCounted(p)'
    BY <1>t, <1>0, <1>6, <1>7 DEF EffectsCounted
  <2>2. CandsGone(p)'
    BY <1>t, <1>0, <1>2, <1>4, <1>5, <1>6, <1>7 DEF CandsGone, Cands
  <2>3. RequestFollows(p)'
    <3>1. doc.version + 1 <= doc.version + 1
      BY <1>t
    <3> QED BY <1>6, <1>7, <3>1 DEF RequestFollows
  <2> QED BY <2>1, <2>2, <2>3 DEF PlanHolds
<1>9. op \in WkType /\ op.pc = "claim"
  BY <1>t DEF WkType
<1>10. wk' = [wk EXCEPT ![w] = op]
  BY DEF Gov!StopCandidate
<1> HIDE DEF op
<1>11. wk'[w] = op
  BY <1>t, <1>10
<1>12. ~Working(w)' /\ WorkerKnows(w)' /\ HoldsLater(w)'
  BY <1>9, <1>11 DEF Working, WorkerKnows, HoldsLater
<1>13. \A v \in Agents : v # w /\ Working(v) /\ wk[v].plan = p => row = doc.plans[p] /\ ~Working(w)'
  BY <1>1
<1>14. doc.plans[p].state # "completed"
  BY <1>1
<1> HIDE DEF plan
<1> QED
  BY ZenonT(30), <1>0, <1>6, <1>7, <1>8, <1>9, <1>10, <1>12, <1>13, <1>14, WorkerWrites

\* A plan whose candidates are all recorded is completed, with its request.
LEMMA CompletePlanStep ==
  ASSUME GovernanceInv, NEW w \in Agents, Gov!CompletePlan(w)
  PROVE  GovernanceInv'
<1>0. wk[w].pc = "finish" /\ Working(w) /\ UNCHANGED <<res, keyOk, effects>>
  BY DEF Gov!CompletePlan, Working
<1>p. PICK p \in Plans : p = wk[w].plan
  BY <1>0, AtPlan
<1> DEFINE plan == doc.plans[p]
           q == plan.request
           row == [plan EXCEPT !.state = "completed", !.version = doc.version + 1]
           requests == [x \in Requests |-> IF x = q THEN [doc.requests[x] EXCEPT !.state = "completed"]
                                           ELSE doc.requests[x]]
           subject == IF q # None THEN "erased" ELSE doc.subject
           op == [wk[w] EXCEPT !.pc = "claim"]
<1>t. /\ wk \in [Agents -> WkType] /\ wk[w] \in WkType /\ doc \in DocType /\ doc.version + 1 \in Nat
      /\ doc.plans \in [Plans -> ErasurePlan] /\ plan \in ErasurePlan
      /\ doc.requests \in [Requests -> RequestType] /\ q \in Requests \cup {None}
      /\ EffectsCounted(p) /\ CandsGone(p) /\ RequestFollows(p) /\ WorkerKnows(w)
  BY GovernanceParts DEF PlanHolds, ErasurePlan
<1>1. /\ plan.state = "executing"
      /\ \A v \in Agents : v # w => ~(Working(v) /\ wk[v].plan = p)
      /\ \A x \in DOMAIN plan.cands : plan.cands[x].state = "completed"
  BY <1>0, <1>p, <1>t, AtPlan DEF WorkerKnows, Cands
<1>2. /\ row \in ErasurePlan /\ row.state = "completed" /\ row.version = doc.version + 1
      /\ row.cands = plan.cands /\ row.request = q
  BY <1>t DEF ErasurePlan, Gov!PlanState
<1>3. /\ requests \in [Requests -> RequestType]
      /\ \A x \in Requests : doc.requests[x].state = "completed" => requests[x].state = "completed"
      /\ q # None => requests[q].state = "completed"
  <2>1. \A x \in Requests : /\ [doc.requests[x] EXCEPT !.state = "completed"] \in RequestType
                            /\ [doc.requests[x] EXCEPT !.state = "completed"].state = "completed"
    BY <1>t DEF RequestType, Gov!RequestState
  <2> QED BY <1>t, <2>1
<1>4. subject \in {"none", "active", "restricted", "erased"}
  BY <1>t DEF DocType
<1>5. doc' = [doc EXCEPT !.plans = [doc.plans EXCEPT ![p] = row], !.requests = requests,
                         !.subject = subject, !.version = doc.version + 1]
  <2>1. [doc EXCEPT !.plans[p].state = "completed", !.plans[p].version = doc.version + 1,
                    !.requests = [x \in Requests |-> IF x = q THEN [@[x] EXCEPT !.state = "completed"] ELSE @[x]],
                    !.subject = IF q # None THEN "erased" ELSE @]
          = [doc EXCEPT !.plans = [doc.plans EXCEPT ![p] = row], !.requests = requests, !.subject = subject]
    BY <1>t DEF DocType, ErasurePlan
  <2>2. doc' = [[doc EXCEPT !.plans[p].state = "completed", !.plans[p].version = doc.version + 1,
                    !.requests = [x \in Requests |-> IF x = q THEN [@[x] EXCEPT !.state = "completed"] ELSE @[x]],
                    !.subject = IF q # None THEN "erased" ELSE @] EXCEPT !.version = doc.version + 1]
    BY <1>p, <1>1 DEF Gov!CompletePlan, Gov!Save
  <2> HIDE DEF row, requests, subject
  <2> QED BY <1>t, <2>1, <2>2 DEF DocType
<1> HIDE DEF row, requests
<1>6. /\ doc' \in DocType /\ doc'.version = doc.version + 1 /\ doc'.holds = doc.holds
      /\ doc'.plans = [doc.plans EXCEPT ![p] = row] /\ doc'.requests = requests
      /\ doc'.subject = subject /\ doc'.plans[p] = row
  <2>1. [doc.plans EXCEPT ![p] = row] \in [Plans -> ErasurePlan]
    BY <1>t, <1>2
  <2> HIDE DEF subject
  <2> QED BY <1>t, <1>2, <1>3, <1>4, <1>5, <2>1 DEF DocType
<1>7. PlanHolds(p)'
  <2>1. EffectsCounted(p)'
    BY <1>t, <1>0, <1>2, <1>6 DEF EffectsCounted
  <2>2. CandsGone(p)'
    BY <1>t, <1>0, <1>1, <1>2, <1>6 DEF CandsGone, Cands
  <2>3. RequestFollows(p)'
    <3>1. doc.version + 1 <= doc.version + 1
      BY <1>t
    <3> QED BY <1>2, <1>3, <1>6, <3>1 DEF RequestFollows
  <2> QED BY <2>1, <2>2, <2>3 DEF PlanHolds
<1>8. op \in WkType /\ op.pc = "claim"
  BY <1>t DEF WkType
<1>9. wk' = [wk EXCEPT ![w] = op]
  BY DEF Gov!CompletePlan
<1> HIDE DEF op
<1>10. wk'[w] = op
  BY <1>t, <1>9
<1>11. ~Working(w)' /\ WorkerKnows(w)' /\ HoldsLater(w)'
  BY <1>8, <1>10 DEF Working, WorkerKnows, HoldsLater
<1>12. \A v \in Agents : v # w /\ Working(v) /\ wk[v].plan = p => row = doc.plans[p] /\ ~Working(w)'
  BY <1>1
<1>13. doc.plans[p].state # "completed"
  BY <1>1
<1>14. doc'.subject = "erased" => doc.subject = "erased" \/ (row.state = "completed" /\ row.request # None)
  BY <1>2, <1>6
<1>15. \A x \in Requests : doc.requests[x].state = "completed" => doc'.requests[x].state = "completed"
  BY <1>3, <1>6
<1> HIDE DEF plan, q, subject
<1> QED
  BY ZenonT(30), <1>0, <1>2, <1>6, <1>7, <1>8, <1>9, <1>11, <1>12, <1>13, <1>14, <1>15, WorkerWrites

\* What others do to resources and keys keeps the invariant: what is gone stays gone.
LEMMA EnvironmentKeeps ==
  ASSUME GovernanceInv, Gov!KeyChanges \/ \E r \in Items : Gov!EditResource(r)
  PROVE  GovernanceInv'
<1>1. /\ UNCHANGED <<doc, wk, effects>> /\ keyOk' \in BOOLEAN
      /\ res' \in [Items -> [exists : BOOLEAN, version : Nat]]
      /\ \A x \in Items : res'[x].exists = res[x].exists
  <2>1. CASE Gov!KeyChanges
    BY <2>1, GovernanceParts DEF Gov!KeyChanges
  <2>2. CASE \E r \in Items : Gov!EditResource(r)
    <3>1. PICK r \in Items : Gov!EditResource(r)
      BY <2>2
    <3> DEFINE row == [res[r] EXCEPT !.version = @ + 1]
    <3>2. row \in [exists : BOOLEAN, version : Nat] /\ row.exists = res[r].exists
      <4>1. res[r].version + 1 \in Nat
        BY GovernanceParts
      <4> QED BY <4>1, GovernanceParts
    <3>3. res' = [res EXCEPT ![r] = row] /\ UNCHANGED <<doc, wk, effects, keyOk>>
      BY <3>1 DEF Gov!EditResource
    <3> HIDE DEF row
    <3> QED BY <3>2, <3>3, GovernanceParts
  <2> QED BY <2>1, <2>2
<1>2. GovernanceTypes'
  BY <1>1 DEF GovernanceInv, GovernanceTypes
<1>3. \A p \in Plans : PlanHolds(p)'
  <2>1. \A p \in Plans : /\ EffectsCounted(p) /\ CandsGone(p) /\ RequestFollows(p)
                         /\ DOMAIN Cands(p) \subseteq Items
    BY GovernanceParts DEF PlanHolds
  <2>2. \A p \in Plans : EffectsCounted(p)' /\ RequestFollows(p)'
    BY <1>1, <2>1 DEF EffectsCounted, RequestFollows
  <2>3. \A p \in Plans : CandsGone(p)'
    BY <1>1, <2>1 DEF CandsGone, Cands
  <2> QED BY <2>2, <2>3 DEF PlanHolds
<1>4. \A v \in Agents : WorkerKnows(v)' /\ HoldsLater(v)'
  <2>1. SUFFICES ASSUME NEW v \in Agents PROVE WorkerKnows(v)' /\ HoldsLater(v)'
    OBVIOUS
  <2>2. HoldsLater(v)'
    BY <1>1, GovernanceParts DEF HoldsLater, Gov!Covers
  <2>3. wk[v].pc = "record" => wk[v].cand \in Items
    BY AtPlan DEF Working
  <2>4. WorkerKnows(v)'
    BY <1>1, <2>3, GovernanceParts DEF WorkerKnows, Working, Cands
  <2> QED BY <2>2, <2>4
<1>5. OneWorker' /\ SubjectHolds'
  BY <1>1, GovernanceParts DEF OneWorker, Working, SubjectHolds
<1> QED
  BY <1>2, <1>3, <1>4, <1>5 DEF GovernanceInv

\* Each operation of administrators and workers keeps the invariant.
LEMMA GovernanceStep ==
  ASSUME GovernanceInv, Gov!Next
  PROVE  GovernanceInv'
<1>1. CASE Gov!Administer
  <2>1. CASE \E a \in Admins, p \in Plans :
               \/ Gov!ApprovePlan(a, p)
               \/ \E q \in Requests \cup {None}, links \in SUBSET doc.links :
                    \E cands \in [links -> Gov!Inspected] : Gov!CreatePlan(a, p, q, cands)
    BY <2>1, CreatePlanStep, ApprovePlanStep
  <2> QED BY <1>1, <2>1, AdministerKeeps DEF Gov!Administer
<1>2. ASSUME NEW w \in Agents, Gov!Work(w) PROVE GovernanceInv'
  BY <1>2, WorkerMoves, EraseStep, CompleteCandidateStep, StopCandidateStep, CompletePlanStep, ClaimStep,
    CheckStep DEF Gov!Work
<1>3. CASE Gov!Environment
  BY <1>3, WorkerMoves, EnvironmentKeeps DEF Gov!Environment
<1> QED
  BY <1>1, <1>2, <1>3 DEF Gov!Next

\* Each resource of a plan is erased at most once, and a completed plan means that its resources
\* are gone and its request is completed, for any number of plans, resources and workers that crash
\* between an erasure and its record (processApprovedPlans).
THEOREM ErasureAlwaysSound == Spec => []ErasureSound
<1> DEFINE Inv == service = "governance" => GovernanceInv
<1>1. Init => Inv
  BY GovernanceInit DEF Init
<1>2. Inv /\ [Next]_vars => Inv'
  <2>1. CASE UNCHANGED vars
    <3>1. UNCHANGED <<service, doc, res, keyOk, wk, effects>>
      BY <2>1 DEF vars, governance
    <3>2. GovernanceInv' = GovernanceInv
      BY <3>1 DEF GovernanceInv, GovernanceTypes, PlanHolds, EffectsCounted, CandsGone, RequestFollows, Cands,
        WorkerKnows, HoldsLater, Working, OneWorker, SubjectHolds, Gov!Covers
    <3> QED BY <3>1, <3>2
  <2>2. CASE Next
    BY <2>2, GovernanceStep DEF Next
  <2> QED BY <2>1, <2>2
<1>3. Inv => ErasureSound
  <2>1. ASSUME GovernanceInv PROVE Gov!EffectsOnce /\ Gov!CompletedMeansErased
    BY <2>1, GovernanceParts
    DEF PlanHolds, EffectsCounted, CandsGone, RequestFollows, Cands, SubjectHolds, Gov!EffectsOnce,
      Gov!CompletedMeansErased
  <2> QED BY <2>1 DEF ErasureSound
<1> QED
  BY <1>1, <1>2, <1>3, PTL DEF Spec

\* Nothing is erased that a hold covers which was there when the worker read the document before
\* it, for any number of holds, plans and workers (createHold against processApprovedPlans).
THEOREM HoldsAlwaysProtect == Spec => HoldProtects
<1> DEFINE Inv == service = "governance" => GovernanceInv
<1>1. Init => Inv
  BY GovernanceInit DEF Init
<1>2. Inv /\ [Next]_vars => Inv' /\ [service = "governance" => Gov!ErasesUnheld]_vars
  <2>1. CASE UNCHANGED vars
    <3>1. UNCHANGED <<service, doc, res, keyOk, wk, effects>>
      BY <2>1 DEF vars, governance
    <3>2. GovernanceInv' = GovernanceInv
      BY <3>1 DEF GovernanceInv, GovernanceTypes, PlanHolds, EffectsCounted, CandsGone, RequestFollows, Cands,
        WorkerKnows, HoldsLater, Working, OneWorker, SubjectHolds, Gov!Covers
    <3> QED BY <2>1, <3>1, <3>2
  <2>2. ASSUME Inv, Next PROVE Inv' /\ (service = "governance" => Gov!ErasesUnheld)
    <3>1. Inv'
      BY <2>2, GovernanceStep DEF Next
    <3>2. service = "governance" => Gov!ErasesUnheld
      BY <2>2, GovernanceParts DEF HoldsLater, Gov!ErasesUnheld, Gov!Erases
    <3> QED BY <3>1, <3>2
  <2> QED BY <2>1, <2>2
<1> QED
  BY <1>1, <1>2, PTL DEF Spec, HoldProtects
=============================================================================
