# GridStory in TLA+

GridStory is a content management system: a control plane in TypeScript
(`packages/core`, `apps/api`) over SQLite or PostgreSQL, a Studio in the browser
(`apps/studio`) and client libraries. This directory models what keeps state in it
and where its operations meet. TLC checks the models on small instances, TLAPS proves
theorems about them for every value of the constants.

`PROJECT.json` is the index: components, runs, the source lines of every
definition (`map`), the mutants that show what each property is sensitive to, the
disagreements between documents and code (`findings`), the hazards and the theorems.

## 1. The system

### Processes and shared state

API processes (`apps/api/src/server.ts`) serve requests, worker processes
(`apps/api/src/worker.ts`) run a cycle over all scopes: due releases, due workflow
schedules and escalations, the outbox and jobs, approved governance plans. Both
call the same services of `packages/core`, and share nothing but the database. A
service reads records, computes, and writes records back with `await` in between,
so the operations of different processes, and different requests of one process,
interleave at every database call. A worker that meets an error ends and is
started again. The Studio is one event loop per browser tab; its hazards are answers
that arrive after the person has gone on.

Three disciplines keep the state consistent, and which one is used decides what
can go wrong:

| discipline | where | what can go wrong |
|---|---|---|
| one transaction that checks what it depends on | content repository, claims and acknowledgements of the queue | what was checked outside of the transaction |
| a version compared when a whole document is saved | governance, AI gateway, regional, marketplace, collaboration, identity, experiments, fleet, ... | an effect outside of the document between two versions |
| a whole record saved without comparison | workflow instances, releases, assets, plugin installations | lost updates |

The second discipline is a model of its own: `VersionedDocument` is the protocol step
by step, and implements `AtomicDocument`. That is why a write of a document is one step
in the modules of the services that use it. `PostgresStore` does the same for the
transactions of PostgreSQL, which `ContentStore` takes as one step each (import, which
is not split there, is the exception).

### Components

The notes under `components` in `PROJECT.json` say what of each is left out.

| component | state | operations | interacts with | hard behaviour | correct when | module |
|---|---|---|---|---|---|---|
| content repository, audit log | entries with two pointers, immutable revisions, hash chain, outbox rows | create, updateDraft, publish, publishMany, deleteEntry, append, verify | every service | optimistic checks, many entries at once, ids that return | no lost update, pointers valid, log explains them, chain verifies | `ContentStore`, `PostgresStore` |
| portability | archives | export, validate, import | repository | an archive torn by a writer | an archive is a state the scope was in | `ContentStore` |
| outbox and jobs, worker process | rows with lease, attempts, state | claim, expand, run, acknowledge, retry, replay | repository, webhooks, search | crashes, overrun leases, takeovers, late answers | every event reaches its destinations, decisions are final and by the owner | `DurableQueue` |
| editorial workflow, its definitions | one instance per entry: state, request, schedules, history | transition, decide, schedule, cancel, process due, gate of publication | content service, worker, jobs | lost updates, crash between write and enqueue, stale schedules | only reviewed revisions are published | `EditorialFlow` |
| releases, content service, routes | record with pinned and previous revisions | create, validate, schedule, cancel, execute, roll back, process due | workflow, worker | checks outside of the transaction, lost updates, two releases of one entry | all members or none, the record says what happened | `ReleaseFlow` |
| versioned documents | one document per service and scope | replace, mutate with retries | most services | two writers of one version | each change applied once, to the whole | `VersionedDocument` |
| governance | subjects, holds, requests, plans | plan, approve, execute, hold, process | all stores, worker | a hold racing with an erasure, a crash within a plan | erased once, nothing held, nothing unapproved | `Governance` |
| AI gateway | policy, budgets, usage, receipts | reserve, succeed, fail, disable | providers | concurrent reservations, late settlements, receipts cut off | the books cover what was billed | `AiGateway` |
| AI authoring | proposals | create, review, apply | gateway, drafts | a review of a target that moves | decisions stand | `AiAuthoring` |
| knowledge and agents | sources, plans, executions | plan, review, execute, retry | content service | a crash between the draft and the record | a plan reaches the draft once | `KnowledgeAgents` |
| regional failover | topology, plans | preflight, approve, execute, reconcile | adapters | ambiguous outcomes | topology follows what was carried out | `RegionalFailover` |
| marketplace, plugins | publishers, releases, installations | prove, inspect, review, approve, suspend, install | DNS, runtime | answers about what was replaced meanwhile | trust rests on the present proof, suspended means not installed | `Marketplace`, `Plugins` |
| migration | project, recipes, links, checkpoint | plan, approve, execute, reconcile | source, content service | plans that fail half way, a source that goes on | nothing before the checkpoint is lost | `Migration` |
| federation | offers, agreements, plans, mirror | inspect, suspend, plan, execute | other deployments | an agreement that changes below a plan | only the agreed reaches the mirror | `Federation` |
| analytics | counts, receipts | process, replay | queue, adapters | jobs delivered twice | counted once while the receipt is kept | `Analytics` |
| search | lexical and semantic index | index, rebuild, remove | queue, repository | jobs out of order, failures, erasure | ready means the same as stored | `SearchIndex` |
| collaboration | operations, branches, suggestions, conflicts | submit, branch, merge, resolve | content service | values that compete over several branches | every competition is an open conflict | `Collaboration` |
| identity | users, sessions, logins, credentials, emergency account | sign in, refresh, deprovision, anonymise, ceremony | identity provider, API | deprovisioning between two steps of a login | live sessions are of active users | `Identity` |
| experiments, personalization | targeting draft and publication, experiments, cached answers | start, pause, resume, publish, decide | visitors, edge caches | targeting that changes below an experiment | one experiment per placement, cached means own | `Experiments`, `Personalization` |
| assets | upload, record, revisions, renditions | part, complete, render, update, erase | object store, scanner | a part sent again during completion | delivered means inspected | `Assets` |
| schema life cycle, validation | generations, approvals | compare, assess, deploy | drafts | an old generation that returns | what was valid stays so or was approved | `SchemaLifecycle` |
| content queries | none (a cursor) | query | repository | writes between two pages | untouched entries appear once | `ContentQuery` |
| localization | configuration, variants | resolve, translate | repository | publications between the queries, two translators | the best published variant | `Localization` |
| fleet | members, generations, observations | register, check, suspend, remove | deployments | a member that changes while it is checked | evidence is about present settings | `Fleet` |
| backup and restore | archives, manifests, targets | backup, verify, restore | files, database tools | killed anywhere, a database that is written to | vouched for means whole | `Recovery` |
| Studio session and history | authority, lifetime, history slots | check, switch, refuse, navigate, restore | API, browser | answers out of order, compensation | one identity per lifetime, the address follows | `StudioSession`, `StudioHistory` |
| Studio editor, composition | draft, selection, trees, undo | load, edit, save, publish, move | API, other clients | late answers, indices that shift | nothing taken back, trees keep their rules | `StudioEditor`, `CompositionEditor` |
| preview | grants, popup, numbered messages | open, close, patch, select | popup, server | answers after the popup changed, one line of numbers | no grant left open, latest draft shown | `PreviewGrants`, `PreviewBridge` |
| authorization, HTTP API, client, tenant scope | roles, grants | decide, project, route | every service | a projection that ages | what is offered is refused only for cause | `Authorization`, `StudioAccess` |
| quality, overview, upgrade check, rendering | none | | | | | left out (section 6) |
| graceful shutdown | one state | request | process signals | a timer and a completion in one event loop | | left out (section 6) |

## 2. Modules

Every module is one component with its state, Init, one action per operation or step,
Next and the specification. Four of them hold their TLC definitions at their end
("For TLC"). `MCServices` and `MCPlatform` put the others together.

| module | what it is |
|---|---|
| `VersionTree` | what the store promises (ADR 0002): a tree of immutable versions with a head and a live reference per entry |
| `ContentStore`, `ContentStore_proofs` | the repository, export and import, which implements `VersionTree`; its theorems |
| `PostgresStore` | the operations of the PostgreSQL adapter, statement by statement |
| `DurableQueue`, `DurableQueue_proofs` | outbox, jobs, leases and workers; theorems |
| `EditorialFlow`, `EditorialFlow_proofs` | the workflow of one entry, publication and schedules; theorems |
| `ReleaseFlow`, `ReleaseFlow_proofs` | releases beside single publications and edits; theorems |
| `AtomicDocument`, `VersionedDocument` | what a document promises; the protocol that implements it |
| `MCServices` | the services that share agents and items: `Governance`, `Marketplace` with `Plugins`, `RegionalFailover`, `AiGateway`, `AiAuthoring`, `KnowledgeAgents`, `Migration`, `Federation`, `Analytics`, and what people work in: `Collaboration`, `Identity` (with the emergency account on its own too), `Assets`, `StudioEditor` |
| `Services_proofs` | theorems on marketplace, plugins, regions, gateway, authoring, knowledge, federation, analytics, collaboration, sign-in, assets and the editor |
| `Execution_proofs` | theorems on governance and migration, the two that execute plans step by step |
| `PlatformParts` | the instances of `MCPlatform` that theorems are about, for any constants: documents, experiments, visits, the fleet, the index, backups, statements, and of the Studio its locations, session and preview; the inductive invariant of each and what its steps preserve |
| `MCPlatform` | what readers and visitors go through, the storage and the Studio; it extends `PlatformParts`, and its theorems are at its end: `SearchIndex`, `Experiments`, `Personalization`, `SchemaLifecycle`, `ContentQuery`, `Localization`, `Fleet`, `Recovery`, `PostgresStore`, `VersionedDocument`, and of the Studio `StudioHistory`, `StudioSession`, `CompositionEditor`, `PreviewGrants`, `PreviewBridge`, `Authorization`, `StudioAccess` |

A behaviour of `MCServices` or `MCPlatform` chooses a service at first and follows that
one: its `Next` is a disjunction guarded by `service`, and the variables of the others
rest. The state space is the union of the services', not their product. Where two of
them interact (gateway and authoring, marketplace and plugins, access and API), the
module of one has the steps of the other that it meets.

Parameters are CONSTANTS with named assumptions. Every bound of a model is a
constant that begins with `Max`, used in guards only. Variables marked *history*
in the declarations are read by properties and by the bounds alone. A definition
with a `Mutant:` comment is followed or preceded by the wrong version of it that a
mutant run puts in its place; nothing else refers to it.

### ContentStore

A transaction of the repository is one action: SQLite runs it under
`BEGIN IMMEDIATE`, PostgreSQL under a lock of the entry row. `Create`,
`UpdateDraft`, `Publish`, `PublishMany` (by `PublishRelease` and
`RollbackRelease`), `DeleteEntry` and `Import` each write pointers, revisions,
audit rows and outbox rows as their function does. `adapter` is the repository of
the deployment, chosen at first and for good: with SQLite, which is synchronous, an
export is one step (`ExportAtOnce`), with PostgreSQL, whose export uses no
transaction, one step per query (`ExportList`, `ExportGroup`, `ExportRevisions`,
`ExportAudit`, `ExportDone`). A writer in between tears a PostgreSQL archive. The
history variable `meanwhile` says what befell each entry between the list of drafts
and the end of the export: nothing, writes, or that it was deleted or replaced.
`ArchiveIsSnapshot` says of both databases what the record of such an entry is worth:
that of an untouched entry is a valid snapshot whose log explains its pointers; that of
one written meanwhile has too many revisions and events, but with its log cut at some
event it is such a snapshot; of one deleted or replaced nothing is said, and the import
refuses what does not validate. `torn` are the entries last imported from a record that
was not untouched: their log may say more than their pointers, so `AuditExplainsPointers`
leaves them out, and them alone. Pointers, hash chains, immutability, the separation of
scopes and the refinement hold of them all the same. A revision stands for its data. A
hash stands for the chain it was computed from, so that a collision is excluded
and everything else about the chain is checked.

### DurableQueue

A worker is at a step of `drain` with a batch of claims; each claim remembers the
attempt it was given. Time is two booleans of a row: it is `ready`
(`available_at`, `run_at`), its lease is `expired`. `Due` and `Expire` set them
(a lease expires by itself when no running worker holds it; `Slip` is a worker
that overruns its lease). `Crash` loses the batch, `Restart` is the orchestrator.
Acknowledgements check `state = 'processing' AND lease_owner = ?`, and a worker
that fails the check throws, which ends the cycle and the process. `Outcome` says
what an effect can do: happen and be reported, not happen, or happen and be
reported as an error. The fixed destinations are those each event has, a webhook
is read from the subscriptions during the expansion. `DeleteEntry` and
`ReplaceEntry` remove rows as the repository does.

### EditorialFlow

One entry, its workflow instance and the processes that serve requests. A process
is a record with a program counter: every `getInstance`, `saveInstance`, read or
write of the entry is a step, and `Save` writes the record the process has,
whatever is stored by then: that is what `saveInstance` does. `notify` saves
the record once more (`Notify`). A request begins with `Begin` (what the server
reads and checks), the worker's pass with `BeginPass` and `ListInstances`; a
schedule is executed by the same steps as the request it stands for, and returns
into the pass (`job`). The jobs of a transition's actions are kept by their key, the
history event and the revision that the instance is about when they are enqueued, so
that a pass after a new draft enqueues them again. `clock` holds the schedules that are due and the requests
whose deadline has passed. The facts of a request or a schedule that never change
are kept beside the instance under its id. `FollowHistory` switches the history and
the jobs of transitions on; without it they are empty, which halves the state space
where no property is about them.

### ReleaseFlow

Entries with two pointers, a short form of their workflow, and release records that
are saved whole. `assessRelease` reads member by member (`AssessMember`), then the
routes of the published entries (`AssessTogether`); `execute` assesses twice, once
in `validate` and once in `publishRelease`. `PublishMany` and `RollbackMany` are
the transaction that compares the pointers and moves them. `TellWorkflow` is
`contentPublished`, which throws for a member whose workflow left the approved
state, after the pointers moved. Validation of data, references and quality may
refuse at any time. The workflow of an entry is one step per operation here;
`EditorialFlow` has the steps.

### The services of MCServices

*Governance.* `Administer` plans, approves, creates and releases holds and handles
requests; `Work` is `processApprovedPlans` step by step: read the document, claim a plan,
check a candidate, call its processor, record, and between any two of these the worker
may die or another may take over. A processor can succeed, fail, or be blocked. The
bound on writes would cut a behaviour before a plan is carried out, so that some
behaviours start from a document with an approved request or plan.

*Marketplace, Plugins.* The DNS lookup and the inspection of an artifact lie between a
read and a write (`AskDomain`, `AnswerDomain`, `BeginReview`, `EndReview`). A client that
installs asks the catalog, then for the trust in the publisher, then saves the
installation whole, without a comparison. A manifest signed with a key of the
configuration goes past the catalog (`InstallConfigured`), and no suspension reaches it.

*RegionalFailover.* The provider (`ProviderActs`, external) carries a failover out, or
not, whether or not its answer arrives; `Execute`, `GiveUp` and `Reconcile` are what the
service makes of it.

*AiGateway.* A request is `Begin`, `Reserve`, `Generate` (the provider, external),
`Succeed` or `Fail`; it may be abandoned at any step, and the day may change. Receipts
are the newest `MaxReceipts`. `KeepsRepeated` says that no request is cut off from the
receipts while a duplicate of it is being estimated, which the default of
`MaxReceipts` in the code makes very unlikely and nothing excludes (section 3).

*AiAuthoring.* A proposal is asked of the gateway, evaluated, stored; a review reads the
document, then the target, then writes.

*KnowledgeAgents.* A plan pins a revision; `Claim` records its execution, `UpdateDraft`
writes through the content service and `FinalizeExecution` records the result; a crash
between them is repaired by a retry with the same key.

*Migration.* `PlanSync` reads the document, `ReadSource` the source, `BuildEffect` one
target after another, and `SavePlan` stores the plan unless project or recipe changed
meanwhile; until then the plan is at its place in the model's document, where nobody
sees it. `late` marks, for the properties only, a plan that read a target which another
one had already brought to a later state of the source, and what it wrote. `Start`, `Look`, `PrepareLink`, `WriteTarget`, `PublishTarget`, `FinalizeLink` go through
a plan record by record; runners die, recover and overtake each other.

*Federation.* Producer and consumer in one model: an offer is inspected into an agreement,
a plan is previewed from a snapshot and executed by digest after a second reading.

*Analytics.* Jobs that are delivered at least once count into a document whose receipts
are cut off; the newest stay.

*Collaboration.* One target; operations with their dependencies, conflicts recomputed
after every call.

*Identity.* Each call is one write; what spans calls are a login (`login`) and a passkey
ceremony (`passkey`). Its users and its answers to a login are parameters of the instance. `policy` is the
limit of sessions, which an administrator may change, and the limit that held when each
user's last session began: a stricter policy ends no session by itself.

*Assets.* Parts sent again while a completion inspects and assembles them.

*StudioEditor.* Content is the set of the edits it contains, so that what is lost can be
told.

### The services of MCPlatform

*SearchIndex.* One worker and any order of jobs, retried until dead; `Erase` enqueues a
removal before the row goes. *Experiments, Personalization.* Each operation one write; a visit decides against the
publication, and a shared cache keeps an answer under the key the service named.
*SchemaLifecycle.* The comparison of documents as operators, and deployments by two
generations side by side. *ContentQuery, Localization.* A page or a route is read
query by query while entries are written. *Fleet.* A check reads, asks the deployment,
and writes into a document that may have changed. *Recovery.* The two commands step by
step, killed anywhere. *PostgresStore.* READ COMMITTED with row locks: each statement of
the adapter is a step; `Working` bounds what may be asked for by the entries that requests
are about and the rows that a request still finds. *VersionedDocument.* Reads, saves and conflicts of the shared
protocol.

*StudioHistory.* Slots of the browser with marks of their epoch; `BrowserGoes` is the
browser carrying out a traversal later. *StudioSession.* Checks of the access, switches
of scope and refused calls, whose answers arrive in any order, and React, which renders
what was set later. *CompositionEditor.* Trees as sequences per place; commands,
drag and keyboard, undo and redo. *PreviewGrants, PreviewBridge.* Opening and closing
with answers that come late, and both ends of the numbered channel.
*Authorization, StudioAccess.* The tables of what each method needs and
each route demands, and a Studio that works with a projection while an administrator
changes the roles.

## 3. Runs

`MaxOps` counts requests, `MaxCrashes` crashes. Deadlock is not checked where
nobody has to ask for anything more, the normal end of these systems. Each property has
a mutant, a plausible error in the mapped code, that the run finds at the same bounds.

| run | instance | checks |
|---|---|---|
| `ContentStore` | 2 entries, 3 revisions, 2 scopes, 4 audit events per entry, 1 export, either adapter | `StoreSound`, `RevisionsImmutable`, `AuditExplainsPointers`, `ArchiveIsSnapshot`, `ScopeIsolation`, `TreeSpec` (refinement) |
| `DurableQueue` | 2 fair workers, 1 event, 1 destination, 2 attempts each, 1 crash, 1 overrun lease | `AttemptsCounted`, `SettledStays`, `EveryRowSettles` |
| `WebhookExpansion` | 2 workers, a webhook that is switched on or off as the destination, 1 replay, 1 crash, 1 overrun lease | `SucceededMeansExpanded`, `OneDeliveryPerAttempt` |
| `ScheduledFlow` | a process and a fair worker, schedules, rejections, escalation, history followed, 4 operations, 1 crash | `ReviewCovers`, `SchedulesSettle`, `ActionsEventuallyEnqueued` |
| `ReleaseFlow` | 2 processes, 2 published entries with 2 revisions, 1 release, every operation, 4 of them, 1 crash | `NeverPartial`, `ReleasesAccounted`, `RollbackReplacesOwn` |
| `TwoReleases` | 2 fair processes, 2 releases of the same entries, 4 operations | `ExecutionSettles` |
| `Services` | the services of `MCServices`, 2 agents, 2 items, document versions up to 4 | `ErasureSound`, `HoldProtects` (governance), `TrustIsEarned`, `SuspensionBlocks` (marketplace and plugins), `TopologyHeld` (regions), `BudgetCovers` (gateway), `DecidedStays` (authoring), `AppliedOnce` (knowledge, analytics), `CheckpointCovers` (migration), `AgreementBinds` (federation), `CompetingRecorded` (collaboration), `AccessFollowsDirectory` (identity, emergency), `DeliveredWasInspected` (library), `EditsSafe` (editor) |
| `Platform` | the parts below, 2 agents, 2 items | `ReadsSound` (pages, locales, chains), `RecordsSound` (search, fleet, recovery), `TargetingSound` (experiments, visits), `EvolutionSound` (schemas, comparison), `WritesAtomic` (document, statements, rollback, translations, fleet), `StudioSound` (studio, session, grants, bridge), `AccessSound` (access), `CompositionSound` (composition) |

Why these bounds: a lost update takes two processes, a takeover two workers; a
stale copy takes one operation that overlaps another, and the operations suffice
for a request, its approval, a publication or a schedule, and a draft in between. Two
entries are a release that can be partial, two releases of them a conflict. Three
revisions of an entry are a publication, a later one and a way back. Two attempts tell
the last one from the others. In `Services`, two agents are two workers, operators,
clients or callers, whichever the service has, and two items two resources, records,
plans or request ids; four versions of a document are a claim, its answer, a change in
between and what follows; `MaxReceipts = 1` makes receipts fall off, `MaxDay = 2` lets a
request settle on the day after; a budget of 2 is met by two requests of cost 1 or one of 2. One change of the source, its
recipe or the project makes a migration's plan out of date; a late plan needs three plans
and two changes of the source, an instance (one agent, three items, `MaxTargetRev = 3`,
`MaxChanges = 2`, no other changes) with 142,575 states on which `CheckpointCovers` was
checked once, and `ChangeStands` found false. Three operations on two branches
compete, are merged and resolved, with 2 merges; 2 sessions of which a user may have one or,
where the emergency account is followed, one or two as the policy says, are the limit and
the first beyond it, 2 attempts the last one and the one before; 2 revisions
of an asset are a completion and an update; 3 edits and 2 operations of the editor are a
draft, somebody else's save and one more beside a late answer. One user is beside the
emergency account where that is followed.

The bounds of `Platform` that are not two of each: 3 slots and 2 addresses of the browser
history; 3 ids, 2 values, pages of 1, 3 queries and 2 writes for lists; 3 locales with all
chains of up to 2 fallbacks for the order of a chain, 2 configurations where routes are
resolved beside 3 writes (two that publish a path in two locales, and one that takes the
page away which the request had picked; 4 and 5 writes, 412,859 and 730,422 states, were
checked once), 3 writes beside two translators; one fleet member with 2
adapters and 2 instances, 2 observations and 4 versions; 2 recovery commands and 2 writes
of the database, without overlapping commands; 2 scopes, 3 configurations and one cached
answer for visits; 3 audit rows for statements on
2 entries, 4 for the rollback of one. `SameDoors`, which does not depend on the steps, is
evaluated while the Studio checks its access.

### Where the documents say otherwise

Each of these runs checks one sentence of the documents, and TLC finds the
execution in which the code does something else (`findings` quotes the lines).

| run | the document says | what happens |
|---|---|---|
| `RouteAfterRollback` | published paths are unique | a rollback does not check routes at all |
| `DriftBlocks` | a manual edit of the target blocks the next update | a link that a failed plan left pending is not compared |
| `GuardrailHolds` | only a passing snapshot lets a paused experiment resume | an insufficient one replaces the failed one and suffices |
| `ClicksHeard` | navigation works after the refusal of a typed address | it waits for a traversal that led out of the history |

The modules keep the following definitions, which TLC refuted in the same way and which
no run repeats.

| definition | the document says | what happens |
|---|---|---|
| `NothingObsoleteDelivered` | `docs/portability.md:47`: replacement stops old deliveries | jobs expanded before the import remain and run |
| `DraftResetsWorkflow` | `docs/workflows.md:13`: a new draft resets the workflow | a transition in progress writes the old instance back |
| `ScheduleBoundToRevision` | `docs/workflows.md:42`: a schedule is bound to its revision | only publication compares it |
| `FailedBeforeWrite` | `docs/releases.md:47`: failures precede the atomic write | the notification of the workflow fails after it |
| `KeyCheckedBeforeErasure` | `docs/data-governance.md:26`: the worker rechecks the state of the key before each effect | the key is asked for when a plan is made and approved only |
| `MergeWaits` | `docs/authoring-and-collaboration.md:44`: a merge stays conflicted until every variant is resolved | it is merged once the conflicts it listed are closed, whatever competes since |
| `MirrorAdvances` | `docs/content-federation-and-syndication.md:103`: a regression of the sequence is blocked | a plan whose effects were read earlier takes back what another mirrored meanwhile |
| `RevisionsKept` | `docs/assets.md:7`: an update never rewrites the prior record | a rendition saves the record it read before its adapter answered |
| `FailedLeavesDraft` | `docs/knowledge-and-reviewed-agents.md:32`: a retry reconciles what was half done | a plan marked failed may have written the draft, and no retry takes it up |
| `RevocationStands` | `docs/plugins.md:50` | enabling that waits for the runtime writes over a revocation (two clients) |
| `WithdrawnStays` | `docs/adr/0016-evidence-bound-marketplace.md:32`: rejection blocks future installation | a review under way when the release was rejected makes it reviewed again |
| `CleanupIsStrict` | comment at `apps/studio/src/App.tsx:211`: a strict cleanup barrier | of two openings that overlap, the late grant of the first takes the place of the second's |
| `ReadyShows` | comment at `apps/studio/src/studio-session.tsx:55` | ready is set and not rendered yet |
| `DraftReachesPage` | `docs/adr/0004-preview-session-protocol.md:22,28`: patches are queued, reconnection is handled | of a patch and a selection that take one number, the later is lost for good |
| `EditsGuarded` | `docs/composition-editor.md:9`: unsaved changes are guarded | operations that reload the selected entry do not ask |
| `RollbackKeepsValid` | `docs/schema-lifecycle.md` | going back to an earlier generation needs no approval |
| `MissingIsMissing` | SQLite answers with a conflict | PostgreSQL answers that the entry is missing, if a draft was committed while the request waited |
| `EvidenceIsOwn` | `docs/interoperability-and-fleet.md:55` | a member registered again starts with generation 1 and is given what a check of the earlier one found |
| `PageFound` (`Localization`) | `docs/localization.md:70`: a request may use the variant of the next locale when its own is missing | the page that a request picked in one locale is deleted before it is resolved; the request ends with 404, though another page holds the path in the next locale all along (`localization-service.ts:378`, `:286`) |
| `EnqueuedOnce` | `docs/workflow-actions.md:19-21`: repeated reconciliation is safe | the key of an action names the revision the instance is about now (`workflow-service.ts:375`); after the next draft the reconciliation (`:395-420`) enqueues the actions of the past again |
| `ChangeStands` (`Migration`) | `docs/migration-and-cutover.md:123`: the checkpoint advances only after the complete plan succeeds | with three plans: one fails and leaves its link pending, the next reads link and source, the source changes, a third brings the change into the target and completes; only now the second reads the target (`migration-service.ts:622`), so that it expects the revision it will revert, and if it does not complete, no delta reads the change again |
| `RestoreRefusesOverwrite` | `docs/adr/0007-recovery-and-rollout.md:39` | of two restores to one path the second removes the target of the first |

Further consequences that are visible in the models, without a definition of their own:

- What is saved whole without a comparison can be written over: a history event, a mark
  of escalation or the published state of a release, by a process that read before. Two
  publications that check their routes before either commits can take one path.
- Attempts of a queue row can exceed the maximum when workers crash between claim and
  outcome, as only a reported failure is compared with it. Workers with one process id
  in two containers share a lease owner, so what is said about leases assumes that
  names differ (`NamesDiffer`). A job enqueued between the statements of `deleteEntry`
  survives the entry.
- Without `KeepsRepeated`, three callers and one receipt refute `BudgetCovers`: a third
  call's receipt cuts off the first's while a duplicate of the first is being estimated,
  which is then billed and not counted (`docs/ai-gateway.md:68`,
  `ai-gateway-service.ts:492`). Analytics counts an event twice that is replayed after
  its receipt was cut off (`docs/adr/0019-bounded-content-analytics.md:30`).
- A migration's `Complete` records the recipe versions of that moment, not those of the
  plan (`docs/migration-and-cutover.md:72`), and a plan without effects, which names no
  recipe, executes after its recipe changed (`migration-service.ts:740`). A regional preflight does not refuse while
  another plan is in flight. A governance worker that loses its claim has raised the
  version, and blocks the plan of the winner.
- With more than one index worker a stale document can overwrite a newer one, as no
  version is handed to the adapters (`docs/search-and-taxonomies.md:25`).
- A stricter session policy leaves the sessions that exceed it alive until the user signs
  in again (`enterprise-identity-service.ts:270`).
- `completeWebAuthnRegistration` does not look again at user and session
  (`docs/data-governance.md:13`).
- Field ids need not be unique (`packages/contracts` schema), fields that are not
  declared are not validated and can block a later deployment, and the assessment looks
  at drafts alone.
- GraphQL in production demands a session even for published fields, with a permission
  that viewer, author and publisher lack, where REST delivers to anybody
  (`docs/content-queries.md:88`, `docs/identity-and-access.md:29`). Semantic search and
  approvals can be refused with 403 for reasons the Studio's table does not know, and
  like every 403 that ends its private state (`docs/adr/0030`:152, `docs/troubleshooting.md:37`).
- `resolveRoute` can miss a route that moves between two locales during its queries.
  A page-limited editor can list pages and open none. A runtime of a preview that reloads after its handshake never becomes ready.
- A killed restore leaves a partial SQLite database; of two backups to one path the
  loser removes the files of the winner.

### Fairness

`DurableQueue`: a running worker goes on, an ended one is restarted (the
orchestrator of the deployment guide), and time passes; `runWorkerLoop` repeats its
cycle until it is told to stop. No fairness for crashes, overrun leases or requests.
`ScheduledFlow`: a process that runs goes on, the worker starts pass after pass, and
schedules become due. `TwoReleases`: a process that runs goes on. Liveness of
an execution is checked without crashes: after one, the record stays `executing`,
which every operation refuses; no document promises more (see `hazards`).
`Services` and `Platform` check safety only and state no fairness.

## 4. Proofs

All theorems are for any sets of entries, revisions, scopes, workers, events,
destinations, processes, requests and schedules, any finite set of people and any
bounds; the assumptions on constants are the named ASSUMEs. Of `MCServices` they are
that `MaxRev`, `MaxReceipts`, `MaxDay`, `MaxConcurrent` and `MaxRevisions` are positive and
the other bounds numbers, that agents are finitely many (the sum of what they owe is taken
over them), that `Home` is a region, that no item is called like the emergency account, and
that `None` is none of the plans, items, requests, holders and tasks; its sets stay
parameters, so that a theorem about it is about any number of workers, clients, plans
and records of each service.

| theorem | property | argument |
|---|---|---|
| `ContentStore_proofs!TypeCorrect` | `TypeOK` | inductive by itself; one lemma per action |
| `StoreAlwaysSound` (`PointersAlwaysValid`, `AuditAlwaysChained`), `RevisionsAlwaysImmutable` | `StoreSound`, `RevisionsImmutable` | one inductive invariant `IInv`, below |
| `StoreImplementsVersionTree` | `TreeSpec` | from `IInv`: every step of the store is a `Commit`, `Promote`, `Remove`, `Restore` or stutter |
| `AuditAlwaysExplains` | `AuditExplainsPointers` | each pointer is that of a last event of its kind, carried as the existence of such an event, in the store and in what an export holds; what is imported from an untouched record has it from there |
| `ArchivesAreSnapshots` | `ArchiveIsSnapshot` | for either adapter: there is a length of the log at which the export found the entry, and all that is read later only adds to it; below |
| `ScopesStayApart` | `ScopeIsolation` | every step writes rows of one scope: for each there is a scope that all entries it touches are in, before and after |
| `DurableQueue_proofs!TypeCorrect` | `TypeOK` | inductive with `WorkerOK` |
| `AttemptsAreCounted` (`DecisionsAreOwn`, `NothingGivenUpEarly`) | `AttemptsCounted` | if no two workers share a name (`NamesDiffer`): attempts only grow, and a lease under my name is the one I was given |
| `DecisionsAreFinal` | `SettledStays` | every action that changes a row is guarded by a claimable or leased state |
| `SuccessIsDelivery`, `SuccessIsExpansion` | `SucceededMeansExpanded` | with `Progress`: what a worker has left to do, or has done, covers what was subscribed all along |
| `DeliveriesAreCounted` | `OneDeliveryPerAttempt` | effects, with the claims that have not been carried out (a Cardinality), are at most the attempts; a claim has one holder |
| `EditorialFlow_proofs!TypeCorrect` | `TypeOK` | inductive with the parts below on operations and transitions |
| `ReviewsCover` (`PublicationsReviewed`, `ApprovalsEarned`, `OnlyPublishingPublishes`) | `ReviewCovers` | one inductive invariant `IInv`, below |
| `ReleaseFlow_proofs!TypeCorrect` | `TypeOK` | inductive with the parts on what a process holds |
| `NeverPartialAlways`, `ReleasesAlwaysAccounted`, `RollbacksReplaceOwn` | `NeverPartial`, `ReleasesAccounted`, `RollbackReplacesOwn` | one inductive invariant, below |
| `PlatformParts!DocumentTypeCorrect`, `WritesAreAtomic`, `ImplementsAtomicDocument` | | a save that finds the version it read finds the document it read |
| `Services_proofs!DecisionsStand` | `DecidedStays` | a review that still holds the current document has the proposal pending |
| `TopologyAlwaysHeld` | `TopologyHeld` | an answer of the adapter is true of what the provider did; a plan not yet executed was not carried out; a failed one was refused |
| `TrustAlwaysEarned`, `SuspensionAlwaysBlocks` | `TrustIsEarned`, `SuspensionBlocks` | proof and challenge, review and approval are kept together by every write; a publisher suspended when the request began is suspended still |
| `AgreementAlwaysBinds` | `AgreementBinds` | a plan names a past version of the agreement or the active one |
| `AlwaysAppliedOnce` | `AppliedOnce` | a plan claimed by nobody else fits the document, what is applied was planned on an earlier revision; each receipt kept counts once |
| `BudgetAlwaysCovers` | `BudgetCovers` | what was billed plus what calls still owe is at most the usage of the day; below |
| `DeliveredAlwaysInspected` | `DeliveredWasInspected` | a completion ends with the first revision, so that none is under way once there is a record; what is about to be saved as verified, and what an adapter still renders, is of a clean object |
| `AccessAlwaysFollows` | `AccessFollowsDirectory` | sessions are numbered as they are issued, and ending them keeps every limit; below |
| `CompetingAlwaysRecorded` | `CompetingRecorded` | operations form an order, one open conflict at most is on the main branch; below |
| `EditsAlwaysSafe` | `EditsSafe` | the draft contains the revision it is on, a write has what the draft had, a read covers what its opening drops |
| `Execution_proofs!CheckpointAlwaysCovers` | `CheckpointCovers` | a plan that is out of date and not late expects revisions that are past, so that it cannot complete; a late one only says what the source no longer says |
| `ErasureAlwaysSound`, `HoldsAlwaysProtect` | `ErasureSound`, `HoldProtects` | one worker per plan that executes; what is recorded is gone; below |
| `MCPlatform!TargetingAlwaysSound` | `TargetingSound` | one trial of a placement at most is active, what is pinned was published; what a cache keeps was decided from a publication that nobody rewrites, and its key decides it |
| `StudioAlwaysSound` (`AddressAlwaysFollows`, `IdentityPerLifetime`, `PreviewAlwaysSound`) | `StudioSound` | one inductive invariant for each of the four parts, below |
| `RecordsAlwaysSound` | `RecordsSound` | the same for the index, the fleet and the backups |
| `WritesAlwaysAtomic` | `WritesAtomic` | what a transaction has written and not committed follows from its request and its progress; below |

`IInv` of the store has besides its invariants: a revision present is as it
was minted, an absent id was not minted or its row was removed, what a running
export or an archive holds is as it was minted (an import may bring it back), and
ids are fresh when minted. Without the part on archives neither the immutability
nor the refinement is inductive: an import writes what an export read earlier.

`SInv` adds what the audit log and the archives need. Of an entry that a running export has
listed and that nobody deleted or replaced since, there is a cut of its log, in the store as
long as the log has not been read and in the archive from then on, up to which the log
explains the pointers that were listed and names the revisions there were then
(`CutAt`). A write appends behind the cut, so that what is read later has the cut as a
prefix; if there was no write the cut is the whole log. That is carried through the four
queries, the finished archive and an import, which makes an entry `torn` exactly if its
record was not untouched.

`IInv` of the workflow is about every copy of the instance, the stored one and the
two a process may hold, because any of them may become the stored one: each copy is
about a revision that exists, claims approved, published or archived only of a
reviewed revision, and counts for its pending request only approvals that were
given (`CopyOK`). That stays true of an old copy whatever happens meanwhile, since
drafts, approvals and publication only grow (`Grows`, `CopyStays`). The rest is what
a process knows between two steps: at the save what its checks established
(`SaveOK`), at the commit that the revision it read last was reviewed and is at
least the one it expects (`PublishOK`); the repository's comparison with the draft
then makes the three the same.

The invariant of the releases is of the same kind: every copy of a record, stored or
held, agrees with the pins of its release, which nobody changes once they are set, and
claims a publication, a schedule or a rollback only if the history has it; what a
process knows at its commit are facts that only grow (approvals, swaps, restores). TLC
checked it on 1,964,225 states before it was proved.

The gateway's invariant sums what calls owe, which no theorem of the library can add up
over a function. It is therefore the number of pairs of a caller and a unit that it owes
(`Pile`): a step of one caller changes the pairs of that caller alone, so that
`FS_`-theorems on disjoint unions give the difference. Besides the sum it needs that a
reservation has one holder, that a duplicate finds the receipt (`KeepsRepeated`), and
that the receipt of a reservation says what was reserved and on which day.

The invariant of the erasure: two workers at one executing plan hold the same version,
so that one of them will lose; a candidate recorded as erased is gone; the effects of a
plan on a resource are at most one, and none before its worker got there; a plan that
carries the version of the document has an approved request; a hold that covers what is
being erased is later than the reading of the worker.

The invariant of the sign-in has, besides what `AccessFollowsDirectory` says, that the
numbers of the sessions issued are an initial segment, as a new one takes the next and the
newest are those that stay (`NewestFew` counts them); that the account's one session comes
with its state; and that a login that was answered stays answered. `LeastNatural`, that a
set of numbers has a least element, is obtained from the well-foundedness of finite sets,
and stands in for an induction where one is needed.

The invariant of the collaboration: dependencies are operations that are there, are closed
and never name the operation itself (`WellFormed`), so that each operation of a branch is
a head or precedes one (`HeadsCover`, by the greatest number of dependencies). A
resolution depends on all heads, after it nothing competes there (`NothingCompetes`); a
write to another branch leaves the conflicts of the main one as they are.

The invariant of the editor: a save that the server has not made yet fits the draft it was
taken from, its answer puts the editor on what was sent, and until a proposal slips in
between the draft is what was sent. Reads and saves exclude each other, which is why a late
answer never meets a save.

The invariant of the statements says of every transaction what its own tables are: those
it found, changed as its request and the statement it has come to say (a function of the
two and of the committed rows). It stays true because what a transaction has locked nobody
else writes, because a live entry's draft is its latest revision, and because a revision in
the making is minted by nobody else. At the commit the tables are then those of one
operation of `ContentStore`, which is what `AtomicStep` asks.

The invariant of the index: a view that is not held as it is stored is covered by an open
job, or is still in front of the worker; what the worker has read is current unless a job is
open. A first candidate without the last part was not inductive, since a stale reading may
be written over a right view. The invariant of the fleet: what was observed of the present
generation of a member, in its present life, was observed under the settings it has; a
check that read the document as it is has the member as it is. The invariant of the
backups: from its beginning a backup finds archive and manifest as it left them, and after
its verification a restore finds them as it verified them; one backup and one restore run
at a time, as the model of the commands has it (that others may not is the last row of the
refuted definitions).

The invariants of the Studio. Of the locations (`Led`): when nothing is asked and nothing leads
back, the browser shows what was accepted; a compensation leads to nothing else; and what was
last seen of the browser is the mark of the slot it is at. Of
the session (`OfLifetime`, `Owned`): what a lifetime holds, has sent or waits for is of the
identity that it began with. Of the grants (`LiveInHand`): a session that lives is in the
hand of the page, of an opening or of a cleanup, as long as openings did not overlap; of
`CleanupIsStrict` it is known that they do otherwise. Of the bridge: the patches that are
stored, queued, sent and received form one line that rises, whose last is the latest draft.

The lemmas of a part are in `PlatformParts` and not in `MCPlatform`, as the provers need a
context without the definitions that TLC alone uses, and as `MCPlatform` gives the steps
of the parts values from records and tables that no theorem depends on. `PlatformParts`
assumes that `None` is none of the agents, items, locations, users, documents, files and
rows (`NoneApart`, `RowsApart`), that three bounds are numbers, that what stands for an
attribute that is not given is no value of one (`MissingIsNoValue`; the code has `null`
there, and conditions compare with strings, numbers and Booleans), and that visitors have
four fields and no more (`VisitorsAreRecords`).

With TLC only:

- liveness and anything about ENABLED, which is out of the prover's reach:
  `EveryRowSettles`, `SchedulesSettle`, `ActionsEventuallyEnqueued`, `ExecutionSettles`;
- `ReadsSound`, `EvolutionSound` and `CompositionSound`: what a list of pages, a chain of
  locales, a comparison of schemas or a command of the editor computes from its data is
  defined by folds and recursion over that data, and needs an induction over it;
- `AccessSound`: that a few tables of some two hundred rows agree, which TLC evaluates row by
  row, and which as a theorem would be as many cases about strings and no argument.

Of the runs' invariants and action properties these four are the only ones without a theorem.

## 5. Plan

Nothing of the plan is left. Were the provers to instantiate the induction theorems of the
library, `PagesComplete` and `ChainOrdered` would come first: their arguments are
short, that a cursor is a place in a total order and that a chain visits no locale twice.

## 6. What is not modelled

Content quality is a set of rules over one revision, and where its gate matters, the
gate may refuse at any time. Overview and inventory are read-only projections. Graceful
shutdown is a signal, a timer and a completion in one event loop: whichever settles the
race clears the others in the same task, so that nothing interleaves. The rolling upgrade
check compares two pairs of answers and keeps no state. Rendering is a pure function of
trees of components.

Of what is modelled, left out are: field data and its validation where no property
depends on it, wording, parsing, rate limits; workflows other than the default one;
rollback policies other than the manual one (a time window is a guard on a timestamp);
telemetry; the import in `PostgresStore`; comment threads and presence; groups, roles and messages of the identity protocols; refusals
of a service that answer 403 for reasons of their own. `components` in `PROJECT.json`
has the list with reasons.
