----------------------------- MODULE MCServices -----------------------------
(***************************************************************************)
(* The services that keep one document per scope and act on content or on  *)
(* other systems, and those that people meet in or enter by, for TLC.      *)
(* They share no state that their models keep, so a run follows one of     *)
(* them at a time: `service` is chosen in the initial state and the others *)
(* stand still.  A run is thereby the union of their state spaces, not the *)
(* product.  Agents act at the same time, items are what they act on.      *)
(***************************************************************************)
EXTENDS Naturals, FiniteSets, TLC

CONSTANTS
  Agents, Items, None,
  Services,                                         \* the services that are followed
  Holds, Requests, Plans, Admins,                   \* governance
  People, Releases, Clients,                        \* catalog
  Regions, Home,                                    \* regions
  Budgets,                                          \* gateway
  Proposals, Agenda, Records                        \* authoring, knowledge, migration

\* Limits of the code.
CONSTANTS MaxReceipts, MaxCalls

\* Bounds of the models.
CONSTANTS MaxDocument, MaxResVersion, MaxToken, MaxTopology, MaxDay, MaxPrompt, MaxCost,
          MaxRev, MaxPlanWrites, MaxDraft, MaxTargetRev, MaxChanges, MaxSeq, MaxOffer,
          MaxAgreement, MaxTime, MaxReplays, MaxCounts,
          MaxOps, MaxMerges, MaxSessions, MaxConcurrent, MaxAttempts, MaxRevisions,
          MaxEdits, MaxTasks

VARIABLES
  service,
  doc, res, keyOk, wk, effects,
  pub, rel, asking, inspecting, plugin, client, recent, began,
  topo, plans, fresh, effect, operator,
  gw, today, call, billed,
  auth, drafted, author, reviewer,
  know, content, human, applied,
  source, mig, target, runner, synced,
  origin, agreed, mirror, syncs, steward,
  counted, occurredAt, jobs, counter, provided,
  ops, branches, suggestion, merges, conflicts,
  users, linked, provider, sessions, login, passkey, account, policy,
  upload, completion, assets, objects, renderer, appended,
  drafts, editor, reading, task, edits, tasks, lost, slipped

governance == <<doc, res, keyOk, wk, effects>>
catalog    == <<pub, rel, asking, inspecting, plugin, client, recent, began>>
regions    == <<topo, plans, fresh, effect, operator>>
gateway    == <<gw, today, call, billed>>
authoring  == <<auth, drafted, author, reviewer>>
knowledge  == <<know, content, human, applied>>
migration  == <<source, mig, target, runner, synced>>
federation == <<origin, agreed, mirror, syncs, steward>>
analytics  == <<counted, occurredAt, jobs, counter, provided>>
together   == <<ops, branches, suggestion, merges, conflicts>>
identity   == <<users, linked, provider, sessions, login, passkey, account, policy>>
library    == <<upload, completion, assets, objects, renderer, appended>>
editing    == <<drafts, editor, reading, task, edits, tasks, lost, slipped>>

Gov == INSTANCE Governance WITH Resources <- Items, Workers <- Agents, MaxVersion <- MaxDocument
Cat == INSTANCE Plugins
Reg == INSTANCE RegionalFailover WITH Failovers <- Items, Operators <- Agents
Gat == INSTANCE AiGateway WITH Callers <- Agents, Ids <- Items
Aut == INSTANCE AiAuthoring WITH Authors <- Agents, Reviewers <- Items
Kno == INSTANCE KnowledgeAgents WITH Humans <- Agents, Keys <- Items, MaxWrites <- MaxPlanWrites
Mig == INSTANCE Migration WITH Syncs <- Items, Runners <- Agents
Fed == INSTANCE Federation WITH Stewards <- Agents, SyncPlans <- Items
Ana == INSTANCE Analytics WITH Events <- Items, Workers <- Agents, MaxWrites <- MaxCounts,
                               doc <- counted, worker <- counter, provider <- provided
Col == INSTANCE Collaboration
\* Two users, and one user beside the emergency account, which has no part in the first.
Ide(Users, Logins) == INSTANCE Identity
Ass == INSTANCE Assets WITH Completions <- Items, Renderers <- {"adapter"}
Edi == INSTANCE StudioEditor WITH Entries <- Items

\* Besides the empty document, governance starts with a subject whose request
\* is approved, and with a plan approved for it, so that the bound on writes
\* suffices for each half.
Requested(q, kind) ==
  [Gov!NewDocument EXCEPT
     !.subject = "active", !.links = Items,
     !.requests[q] = [Gov!NoRequest EXCEPT !.kind = kind, !.state = "approved"]]

Planned(q, p, admin) ==
  [Requested(q, "erasure") EXCEPT
     !.requests[q].plan = p,
     !.plans[p] = [state |-> "approved", request |-> q, by |-> admin, version |-> 0,
                   cands |-> [i \in Items |-> [state |-> "eligible", expected |-> 1]]]]

Prepared ==
  \/ doc = Gov!NewDocument
  \/ \E q \in Requests : \/ \E kind \in {"erasure", "export"} : doc = Requested(q, kind)
                         \/ \E p \in Plans, admin \in Admins : doc = Planned(q, p, admin)

ASSUME Bounded == /\ MaxRev \in Nat \ {0} /\ MaxReceipts \in Nat \ {0} /\ MaxDay \in Nat \ {0}
                  /\ MaxCost \in Nat /\ IsFiniteSet(Agents)
                  /\ MaxOps \in Nat /\ MaxSessions \in Nat /\ MaxConcurrent \in Nat \ {0}
                  /\ MaxRevisions \in Nat \ {0} /\ MaxEdits \in Nat /\ MaxTasks \in Nat
ASSUME HomeIsARegion == Home \in Regions
ASSUME NoneIsNothing == None \notin Agenda \cup Items \cup Requests \cup {"user", "account"}
ASSUME AccountApart == "account" \notin Items
ASSUME NoneIsNoTask ==
  None \notin [kind : {"save", "publish", "create", "migrate", "reload"},
               step : {"save", "publish", "run"}, entry : Items, rev : Nat, sent : SUBSET Nat]

-----------------------------------------------------------------------------
\* The variables of a service that is not followed are None throughout.
Init ==
  /\ service \in Services
  /\ IF service = "governance" THEN Prepared /\ Gov!InitAround
     ELSE doc = None /\ res = None /\ keyOk = None /\ wk = None /\ effects = None
  /\ IF service = "catalog" THEN Cat!Init
     ELSE /\ pub = None /\ rel = None /\ asking = None /\ inspecting = None /\ plugin = None
          /\ client = None /\ recent = None /\ began = None
  /\ IF service = "regions" THEN Reg!Init
     ELSE topo = None /\ plans = None /\ fresh = None /\ effect = None /\ operator = None
  /\ IF service = "gateway" THEN Gat!Init
     ELSE gw = None /\ today = None /\ call = None /\ billed = None
  /\ IF service = "authoring" THEN Aut!Init
     ELSE auth = None /\ drafted = None /\ author = None /\ reviewer = None
  /\ IF service = "knowledge" THEN Kno!Init
     ELSE know = None /\ content = None /\ human = None /\ applied = None
  /\ IF service = "migration" THEN Mig!Init
     ELSE source = None /\ mig = None /\ target = None /\ runner = None /\ synced = None
  /\ IF service = "federation" THEN Fed!Init
     ELSE /\ origin = None /\ agreed = None /\ mirror = None /\ syncs = None
          /\ steward = None
  /\ IF service = "analytics" THEN Ana!Init
     ELSE /\ counted = None /\ occurredAt = None /\ jobs = None /\ counter = None
          /\ provided = None
  /\ IF service = "collaboration" THEN Col!Init
     ELSE /\ ops = None /\ branches = None /\ suggestion = None /\ merges = None
          /\ conflicts = None
  /\ IF service = "identity" THEN Ide(Items, Agents)!Init
     ELSE IF service = "emergency" THEN Ide({"user"}, {"login"})!Init
     ELSE /\ users = None /\ linked = None /\ provider = None /\ sessions = None
          /\ login = None /\ passkey = None /\ account = None /\ policy = None
  /\ IF service = "library" THEN Ass!Init
     ELSE /\ upload = None /\ completion = None /\ assets = None /\ objects = None
          /\ renderer = None /\ appended = None
  /\ IF service = "editor" THEN Edi!Init
     ELSE /\ drafts = None /\ editor = None /\ reading = None /\ task = None
          /\ edits = None /\ tasks = None /\ lost = None /\ slipped = None

Still(name, theirs) == IF service = name THEN TRUE ELSE UNCHANGED theirs

OthersStill ==
  /\ Still("governance", governance)
  /\ Still("catalog", catalog)
  /\ Still("regions", regions)
  /\ Still("gateway", gateway)
  /\ Still("authoring", authoring)
  /\ Still("knowledge", knowledge)
  /\ Still("migration", migration)
  /\ Still("federation", federation)
  /\ Still("analytics", analytics)
  /\ Still("collaboration", together)
  /\ IF service = "emergency" THEN TRUE ELSE Still("identity", identity)
  /\ Still("library", library)
  /\ Still("editor", editing)

Next ==
  /\ UNCHANGED service
  /\ \/ service = "governance" /\ Gov!Next
     \/ service = "catalog" /\ Cat!Next
     \/ service = "regions" /\ Reg!Next
     \/ service = "gateway" /\ Gat!Next
     \/ service = "authoring" /\ Aut!Next
     \/ service = "knowledge" /\ Kno!Next
     \/ service = "migration" /\ Mig!Next
     \/ service = "federation" /\ Fed!Next
     \/ service = "analytics" /\ Ana!Next
     \/ service = "collaboration" /\ Col!Next
     \/ service = "identity" /\ Ide(Items, Agents)!Directory
     \/ service = "emergency" /\ Ide({"user"}, {"login"})!Next
     \/ service = "library" /\ Ass!Next
     \/ service = "editor" /\ Edi!Next
  /\ OthersStill

vars == <<service, governance, catalog, regions, gateway, authoring, knowledge, migration,
          federation, analytics, together, identity, library, editing>>

Spec == Init /\ [][Next]_vars

Alike == Permutations(Agents) \cup Permutations(Items)

-----------------------------------------------------------------------------
\* Each is evaluated where its service is followed; elsewhere nothing moves.

\* Each resource of a plan is erased at most once, and a completed plan means that
\* its eligible resources are gone (processApprovedPlans, by workers that crash
\* between an erasure and its record, and two of them at a time).
ErasureSound == service = "governance" => Gov!EffectsOnce /\ Gov!CompletedMeansErased

\* No resource is erased under a hold that was there when the worker read the
\* document before it (createHold against processApprovedPlans).
HoldProtects == [][service = "governance" => Gov!ErasesUnheld]_vars

\* The proof of a publisher is of its current challenge, and an approved
\* release has a passing latest review by another than its approver
\* (verifyPublisherDomain, reviewRelease and approveRelease side by side).
TrustIsEarned == service = "catalog" => Cat!TrustIsEarned

\* After the suspension of a publisher no request that arrives installs a
\* plugin of it (suspendPublisher against the install routes).
SuspensionBlocks == [][service = "catalog" => Cat!NoneInstalledSince]_vars

\* The topology changes by a policy while no failover is in flight, or once for
\* each that the provider carried out, whatever answers were lost or came late
\* (updatePolicy, execute, reconcile).
TopologyHeld == [][service = "regions" => Reg!TopologyHeld]_vars

\* The books of a day cover what the provider charged for it, with requests
\* that fail, crash or settle on the next day (#reserve, #succeed, #fail).
BudgetCovers == service = "gateway" => Gat!BudgetCovers

\* A decision on a proposal, and the revision decided on, stay (reviewProposal
\* reads the target before it writes, createProposal answers retries).
DecidedStays == [][service = "authoring" => Aut!DecidedStays]_vars

\* What a retry repeats takes effect once: a plan reaches the draft at most once
\* and is carried out only if it did (executePlan writes the draft and its
\* document in two steps); an event is counted once as long as its receipt is
\* kept, and not passed on before (process in jobs delivered at least once).
AppliedOnce ==
  /\ service = "knowledge" => Kno!AppliedOnce
  /\ service = "analytics" => Ana!CountedOnce

\* What lies before the checkpoint of a migration has been written and
\* published, and no plan but a late one has gone back on it (planSync takes a
\* delta from it, executePlan advances it).
CheckpointCovers == service = "migration" => Mig!CheckpointCovers

\* No synchronization reviewed under an earlier version of the agreement
\* changes the mirror (executeSync against setAgreementState and
\* inspectAgreement).
AgreementBinds == [][service = "federation" => Fed!AgreementBinds]_vars

\* Values that compete on the main branch are the variants of one open conflict
\* (synchronizeConflicts after every operation, merge and resolution).
CompetingRecorded == service = "collaboration" => Col!CompetingRecorded

\* A live session is of an active user or of the emergency account after its
\* one use, and a login is worth one session (deprovisionUser and anonymizeUser
\* between the steps of a login).
AccessFollowsDirectory ==
  /\ service = "identity" => Ide(Items, Agents)!AccessFollowsDirectory
  /\ service = "emergency" => Ide({"user"}, {"login"})!AccessFollowsDirectory

\* A verified asset has no object that failed or escaped the inspection
\* (completeUpload, with parts sent again while it runs).
DeliveredWasInspected == service = "library" => Ass!DeliveredWasInspected

\* The editor takes back nothing that others saved, shows no changes as saved that
\* are not, and opens another entry over unsaved changes only if it was told to.
EditsSafe == service = "editor" => Edi!EditsSafe

\* docs/migration-and-cutover.md:124 says that a manual edit of a target blocks
\* the next update; #buildEffect asks for that where the link is applied, not
\* where a plan that failed left it pending.
DriftBlocks == [][service = "migration" => ~Mig!OverwritesByHand]_vars
=============================================================================
