---------------------------- MODULE ContentStore ----------------------------
(***************************************************************************)
(* The content repository of GridStory: entries with a draft and a         *)
(* published pointer, immutable revisions, a hash-chained audit log and a  *)
(* transactional outbox, written by one database transaction per           *)
(* operation, and the portable export and import over the same tables.     *)
(*                                                                         *)
(* One action per repository operation.  A transaction (BEGIN IMMEDIATE in *)
(* SQLite, an entry row lock in PostgreSQL) is one step; the export of the *)
(* PostgreSQL adapter is not a transaction and is one step per query; that *)
(* of the synchronous SQLite adapter is one step.  A store has one adapter *)
(* for good: both are initial states.                                      *)
(* A refused operation changes nothing and is not a step.                  *)
(*                                                                         *)
(* The data of a revision is its identity: two rows with one id have the   *)
(* same data.  Actors, timestamps and event ids are left out.              *)
(***************************************************************************)
EXTENDS Naturals, Sequences, FiniteSets, TLC

CONSTANTS
    Entry,         \* entry ids
    Rev,           \* revision ids (random UUIDs, never minted twice)
    Scope,         \* organization/tenant/workspace/site/environment/locale
    None,          \* no row, or a NULL column
    Unchecked,     \* an expectation the caller of publishMany left undefined
    MaxAudit,      \* bound of the model: audit events per entry
    MaxExports     \* bound of the model: exports started

ASSUME NoneAssumption == None \notin Entry \cup Rev \cup Scope
ASSUME UncheckedAssumption == Unchecked \notin Rev \cup {None}
ASSUME BoundAssumption == MaxAudit \in Nat /\ MaxExports \in Nat

VARIABLES
    home,       \* entries: the scope that owns the row, None when no row
    draft,      \* entries.current_draft_revision_id
    published,  \* entries.published_revision_id
    rev,        \* the revisions table, by primary key
    audit,      \* audit_events of each entry, ordered by sequence
    outbox,     \* outbox_events of each aggregate, in order of insertion
    minted,     \* history: every revision row as it was first written
    restored,   \* history: how many audit events of an entry were imported
    adapter,    \* the repository of this deployment
    building,   \* the export that is running
    archive,    \* the last complete logical archive
    exports,    \* how many exports have been started
    meanwhile,  \* history: what befell an entry that the running export listed
                \* before it read the entry's log
    torn        \* history: the entries last imported from a record of an export
                \* that they were written during

storeVars == <<home, draft, published, rev, audit, outbox>>
exportVars == <<adapter, building, archive, exports>>
vars == <<storeVars, minted, restored, exportVars, meanwhile, torn>>

-----------------------------------------------------------------------------
(* Rows *)

Action == {"created", "updated", "published"}

Adapter == {"sqlite", "postgres"}

NoRow == [entry |-> None, seq |-> 0, base |-> None]

\* A listed entry whose row is gone, or another life's, is replaced; so is one
\* that was torn before the export began.
Meanwhile == {"untouched", "written", "replaced"}

\* The fields of an audit event, in the portable form an archive holds.
Event == [seq : Nat, action : Action, rev : Rev]

\* SHA-256 over the fields and the predecessor's hash.  Without collisions a
\* hash stands for the whole chain it was computed from.
EventHash(s, e, ev, previous) == Append(previous, <<s, e, ev>>)

\* Mutant: the import hashes each event on its own.
UnchainedPrefix(s, e, evs, i) == IF i = 0 THEN <<>> ELSE << <<s, e, evs[i]>> >>

\* The hash the import computes for the i-th of the archived events evs.
RehashedPrefix(s, e, evs, i) == [j \in 1..i |-> <<s, e, evs[j]>>]

\* base_revision_id of an entry's first revision.  Mutant: it is left undefined.
UndefinedBase == Unchecked
FirstBase == None

Fields(row) == [seq |-> row.seq, action |-> row.action, rev |-> row.rev]

\* The revisions of an entry (ON DELETE CASCADE keeps none of an absent one).
Revs(e) == {r \in Rev : rev[r].entry = e}

\* The optimistic check of updateDraft and publish: expectedRevisionId is still
\* the draft.  Mutant: it is not checked.
DraftUnchecked(e, expected) == TRUE
DraftIs(e, expected) == draft[e] = expected

\* The target of a publication must be a revision of the entry itself.
\* Mutant: any existing revision will do.
TargetExists(e, r) == rev[r].entry # None
IsTarget(e, r) == r \in Revs(e)

\* What a deletion and a replacing import leave of the entry's outbox events.
\* Mutant: they keep them.
OutboxKept(e) == outbox[e]
OutboxPurged(e) == <<>>

\* An id that belongs to another scope is rejected.  Mutant: it is not.
AnyOwner(s, conflicts) == TRUE
OwnedBy(s, conflicts) == \A e \in conflicts : home[e] = s

\* Mutant: ids are compared with the rows present only.
FreshAmongRows(r) == rev[r] = NoRow

\* randomUUID has not returned this id before.
Fresh(r) == minted[r] = NoRow

\* verifyAuditEvents finds no sequence, predecessor or hash mismatch.
Verified(s, e, log) ==
    \A i \in DOMAIN log :
        LET previous == IF i = 1 THEN <<>> ELSE log[i - 1].hash IN
        /\ log[i].seq = i
        /\ log[i].prev = previous
        /\ log[i].hash = EventHash(s, e, Fields(log[i]), previous)

-----------------------------------------------------------------------------
(* What each transaction appends *)

\* #audit: the successor of the entry's last event.
AuditRow(s, e, action, r) ==
    LET n == Len(audit[e])
        previous == IF n = 0 THEN <<>> ELSE audit[e][n].hash
        ev == [seq |-> IF n = 0 THEN 1 ELSE audit[e][n].seq + 1,
               action |-> action, rev |-> r]
    IN  [seq |-> ev.seq, action |-> action, rev |-> r, prev |-> previous,
         hash |-> EventHash(s, e, ev, previous)]

Audited(s, e, action, r) == Append(audit[e], AuditRow(s, e, action, r))

\* #emitOutbox
Emitted(e, action, r) == Append(outbox[e], [action |-> action, rev |-> r])

-----------------------------------------------------------------------------
(* History: the writes that overtake a running export *)

\* Listed, and the log not read yet.
Unread == (building.todo \cup {building.current}) \ {None}

Overtaken(es, how) ==
    meanwhile' = [e \in Entry |->
        IF e \in es \cap Unread /\ meanwhile[e] # "replaced" THEN how ELSE meanwhile[e]]

Untouched == [e \in Entry |-> "untouched"]

-----------------------------------------------------------------------------
(* Content operations *)

Create(s, e, r) ==
    /\ home[e] = None
    /\ Fresh(r)
    /\ home' = [home EXCEPT ![e] = s]
    /\ draft' = [draft EXCEPT ![e] = r]
    /\ published' = [published EXCEPT ![e] = None]
    /\ rev' = [rev EXCEPT ![r] = [entry |-> e, seq |-> 1, base |-> FirstBase]]
    /\ audit' = [audit EXCEPT ![e] = Audited(s, e, "created", r)]
    /\ outbox' = [outbox EXCEPT ![e] = Emitted(e, "created", r)]
    /\ minted' = [minted EXCEPT ![r] = IF @ = NoRow THEN rev'[r] ELSE @]
    /\ restored' = [restored EXCEPT ![e] = 0]
    /\ Overtaken({e}, "written")
    /\ UNCHANGED <<exportVars, torn>>

\* The new revision is numbered MAX(sequence) + 1 and based on the draft the
\* caller loaded, which must still be the draft.
UpdateDraft(s, e, expected, r) ==
    /\ home[e] = s
    /\ DraftIs(e, expected)
    /\ Fresh(r)
    /\ Len(audit[e]) < MaxAudit
    /\ \E top \in Revs(e) :
          /\ \A x \in Revs(e) : rev[x].seq <= rev[top].seq
          /\ rev' = [rev EXCEPT ![r] = [entry |-> e, seq |-> rev[top].seq + 1,
                                        base |-> expected]]
    /\ minted' = [minted EXCEPT ![r] = IF @ = NoRow THEN rev'[r] ELSE @]
    /\ draft' = [draft EXCEPT ![e] = r]
    /\ audit' = [audit EXCEPT ![e] = Audited(s, e, "updated", r)]
    /\ outbox' = [outbox EXCEPT ![e] = Emitted(e, "updated", r)]
    /\ Overtaken({e}, "written")
    /\ UNCHANGED <<home, published, restored, exportVars, torn>>

Publish(s, e, expected) ==
    /\ home[e] = s
    /\ DraftIs(e, expected)
    /\ Len(audit[e]) < MaxAudit
    /\ published' = [published EXCEPT ![e] = expected]
    /\ audit' = [audit EXCEPT ![e] = Audited(s, e, "published", expected)]
    /\ outbox' = [outbox EXCEPT ![e] = Emitted(e, "published", expected)]
    /\ Overtaken({e}, "written")
    /\ UNCHANGED <<home, draft, rev, minted, restored, exportVars, torn>>

\* Every member is checked before any pointer moves.
PublishMany(s, members, target, expectedDraft, expectedPublished) ==
    /\ \A e \in members :
          /\ home[e] = s
          /\ expectedDraft[e] \in {Unchecked, draft[e]}
          /\ expectedPublished[e] \in {Unchecked, published[e]}
          /\ IsTarget(e, target[e])
          /\ Len(audit[e]) < MaxAudit
    /\ published' = [e \in Entry |-> IF e \in members THEN target[e]
                                     ELSE published[e]]
    /\ audit' = [e \in Entry |-> IF e \in members
                                 THEN Audited(s, e, "published", target[e])
                                 ELSE audit[e]]
    /\ outbox' = [e \in Entry |-> IF e \in members
                                  THEN Emitted(e, "published", target[e])
                                  ELSE outbox[e]]
    /\ Overtaken(members, "written")
    /\ UNCHANGED <<home, draft, rev, minted, restored, exportVars, torn>>

\* deleteEntry: the outbox and, by cascade, the revisions and the audit.
DeleteEntry(s, e) ==
    /\ home[e] = s
    /\ home' = [home EXCEPT ![e] = None]
    /\ draft' = [draft EXCEPT ![e] = None]
    /\ published' = [published EXCEPT ![e] = None]
    /\ rev' = [r \in Rev |-> IF r \in Revs(e) THEN NoRow ELSE rev[r]]
    /\ audit' = [audit EXCEPT ![e] = <<>>]
    /\ outbox' = [outbox EXCEPT ![e] = OutboxPurged(e)]
    /\ restored' = [restored EXCEPT ![e] = 0]
    /\ Overtaken({e}, "replaced")
    /\ torn' = torn \ {e}
    /\ UNCHANGED <<minted, exportVars>>

-----------------------------------------------------------------------------
(* Export: list the drafts, then read each entry's revisions and audit *)

EmptyArchive ==
    [members |-> {}, draft |-> [e \in Entry |-> None],
     published |-> [e \in Entry |-> None], rev |-> [r \in Rev |-> NoRow],
     audit |-> [e \in Entry |-> <<>>], meanwhile |-> Untouched]

Idle == [step |-> "idle", todo |-> {}, current |-> None, content |-> EmptyArchive]

Listed(s) == {e \in Entry : home[e] = s}

\* Mutant: the archive forgets what is published.
DraftPointers(s) ==
    [EmptyArchive EXCEPT
        !.members = Listed(s),
        !.draft = [e \in Entry |-> IF e \in Listed(s) THEN draft[e] ELSE None]]

\* list(perspective draft): the pointers of every entry of the scope.
Pointers(s) ==
    [EmptyArchive EXCEPT
        !.members = Listed(s),
        !.draft = [e \in Entry |-> IF e \in Listed(s) THEN draft[e] ELSE None],
        !.published = [e \in Entry |-> IF e \in Listed(s) THEN published[e]
                                                          ELSE None]]

\* Mutant: only the draft is read, not the whole history.
WithDraftOnly(content, es) ==
    [content EXCEPT !.rev = [r \in Rev |->
        IF rev[r].entry \in es /\ draft[rev[r].entry] = r THEN rev[r]
        ELSE content.rev[r]]]

\* listRevisions of the entries es.
WithRevisions(content, es) ==
    [content EXCEPT !.rev = [r \in Rev |-> IF rev[r].entry \in es THEN rev[r]
                                           ELSE content.rev[r]]]

\* listAuditEvents, without the hashes: the import computes its own.
PortableEvents(e) == [i \in DOMAIN audit[e] |-> Fields(audit[e][i])]

WithAudit(content, es) ==
    [content EXCEPT !.audit = [e \in Entry |-> IF e \in es THEN PortableEvents(e)
                                               ELSE content.audit[e]]]

ExportAtOnce(s) ==
    /\ adapter = "sqlite"
    /\ exports < MaxExports
    /\ exports' = exports + 1
    /\ archive' = WithAudit(WithRevisions(Pointers(s), Listed(s)), Listed(s))
    /\ UNCHANGED <<storeVars, minted, restored, adapter, building, meanwhile, torn>>

ExportList(s) ==
    /\ adapter = "postgres"
    /\ building.step = "idle"
    /\ exports < MaxExports
    /\ exports' = exports + 1
    /\ building' = [step |-> "next", todo |-> Listed(s), current |-> None,
                    content |-> Pointers(s)]
    /\ meanwhile' = [e \in Entry |-> IF e \in torn THEN "replaced" ELSE "untouched"]
    /\ UNCHANGED <<storeVars, minted, restored, adapter, archive, torn>>

\* getTranslationGroup finds the entry, or the whole export fails.
ExportGroup(e) ==
    /\ building.step = "next"
    /\ e \in building.todo
    /\ building' = IF home[e] = None THEN Idle
                   ELSE [building EXCEPT !.step = "revisions", !.current = e,
                                         !.todo = @ \ {e}]
    /\ meanwhile' = IF home[e] = None THEN Untouched ELSE meanwhile
    /\ UNCHANGED <<storeVars, minted, restored, adapter, archive, exports, torn>>

ExportRevisions ==
    /\ building.step = "revisions"
    /\ building' = [building EXCEPT
                       !.step = "audit",
                       !.content = WithRevisions(@, {building.current})]
    /\ UNCHANGED <<storeVars, minted, restored, adapter, archive, exports, meanwhile, torn>>

ExportAudit ==
    /\ building.step = "audit"
    /\ building' = [building EXCEPT
                       !.step = "next", !.current = None,
                       !.content = WithAudit(@, {building.current})]
    /\ UNCHANGED <<storeVars, minted, restored, adapter, archive, exports, meanwhile, torn>>

ExportDone ==
    /\ building.step = "next"
    /\ building.todo = {}
    /\ archive' = [building.content EXCEPT !.meanwhile = meanwhile]
    /\ building' = Idle
    /\ meanwhile' = Untouched
    /\ UNCHANGED <<storeVars, minted, restored, adapter, exports, torn>>

-----------------------------------------------------------------------------
(* Import *)

ArchivedRevs(a, e) == {r \in Rev : a.rev[r].entry = e}

\* validatePortableRecord
ValidRecord(a, e) ==
    LET ids == ArchivedRevs(a, e) IN
    /\ a.draft[e] \in ids
    /\ a.published[e] \in ids \cup {None}
    /\ \A r \in ids :
          /\ a.rev[r].base \in ids \cup {None}
          /\ \A x \in ids \ {r} : a.rev[x].seq # a.rev[r].seq
    /\ \A i \in DOMAIN a.audit[e] :
          a.audit[e][i].seq = i /\ a.audit[e][i].rev \in ids

ValidArchive(a) == \A e \in a.members : ValidRecord(a, e)

Policy == {"reject", "skip", "replace"}

\* The archived events, chained anew in the scope they are imported into.
ImportedRow(s, e, evs, i) ==
    [seq |-> evs[i].seq, action |-> evs[i].action, rev |-> evs[i].rev,
     prev |-> RehashedPrefix(s, e, evs, i - 1),
     hash |-> RehashedPrefix(s, e, evs, i)]

ImportedLog(s, e, evs) == [i \in DOMAIN evs |-> ImportedRow(s, e, evs, i)]

\* importPortableContent of every selected record of archive a.
ImportRecords(s, a, selected) ==
    /\ \A r \in Rev : a.rev[r].entry \in selected =>
                         rev[r].entry \in selected \cup {None}
    /\ home' = [e \in Entry |-> IF e \in selected THEN s ELSE home[e]]
    /\ draft' = [e \in Entry |-> IF e \in selected THEN a.draft[e] ELSE draft[e]]
    /\ published' = [e \in Entry |-> IF e \in selected THEN a.published[e]
                                     ELSE published[e]]
    /\ rev' = [r \in Rev |->
                 IF a.rev[r].entry \in selected THEN a.rev[r]
                 ELSE IF rev[r].entry \in selected THEN NoRow ELSE rev[r]]
    /\ audit' = [e \in Entry |->
                   IF e \in selected THEN ImportedLog(s, e, a.audit[e])
                   ELSE audit[e]]
    /\ outbox' = [e \in Entry |-> IF e \in selected /\ home[e] # None
                                  THEN OutboxPurged(e) ELSE outbox[e]]
    /\ restored' = [e \in Entry |-> IF e \in selected THEN Len(a.audit[e])
                                    ELSE restored[e]]
    /\ torn' = (torn \ selected) \cup {e \in selected : a.meanwhile[e] # "untouched"}
    /\ Overtaken(selected, "replaced")

Import(s, policy) ==
    LET conflicts == {e \in archive.members : home[e] # None}
        selected == IF policy = "skip" THEN archive.members \ conflicts
                    ELSE archive.members
    IN  /\ ValidArchive(archive)
        /\ OwnedBy(s, conflicts)
        /\ policy = "reject" => conflicts = {}
        /\ selected # {}
        /\ ImportRecords(s, archive, selected)
        /\ UNCHANGED <<minted, exportVars>>

-----------------------------------------------------------------------------
(* The specification *)

Init ==
    /\ home = [e \in Entry |-> None]
    /\ draft = [e \in Entry |-> None]
    /\ published = [e \in Entry |-> None]
    /\ rev = [r \in Rev |-> NoRow]
    /\ audit = [e \in Entry |-> <<>>]
    /\ outbox = [e \in Entry |-> <<>>]
    /\ minted = [r \in Rev |-> NoRow]
    /\ restored = [e \in Entry |-> 0]
    /\ adapter \in Adapter
    /\ building = Idle
    /\ archive = EmptyArchive
    /\ exports = 0
    /\ meanwhile = Untouched
    /\ torn = {}

\* ContentService.publishRelease: each member's target is its pinned draft.
PublishRelease(s) ==
    \E members \in SUBSET Entry \ {{}} :
    \E target \in [members -> Rev], prior \in [members -> Rev \cup {None}] :
        PublishMany(s, members, target, target, prior)

\* ContentService.rollbackRelease: back to the revisions published before, while
\* the release's own are still published; drafts are not looked at.
RollbackRelease(s) ==
    \E members \in SUBSET Entry \ {{}} :
    \E target \in [members -> Rev], current \in [members -> Rev] :
        PublishMany(s, members, target, [e \in members |-> Unchecked], current)

Export == \/ \E s \in Scope : ExportAtOnce(s) \/ ExportList(s)
          \/ \E e \in Entry : ExportGroup(e)
          \/ ExportRevisions \/ ExportAudit \/ ExportDone

Next ==
    \/ \E s \in Scope, e \in Entry, r \in Rev : Create(s, e, r)
    \/ \E s \in Scope, e \in Entry, expected, r \in Rev :
          UpdateDraft(s, e, expected, r)
    \/ \E s \in Scope, e \in Entry, expected \in Rev : Publish(s, e, expected)
    \/ \E s \in Scope : PublishRelease(s) \/ RollbackRelease(s)
    \/ \E s \in Scope, e \in Entry : DeleteEntry(s, e)
    \/ Export
    \/ \E s \in Scope, policy \in Policy : Import(s, policy)

Spec == Init /\ [][Next]_vars

-----------------------------------------------------------------------------
(* Types *)

RevRow == [entry : Entry \cup {None}, seq : Nat, base : Rev \cup {None}]
Digest == Seq(Scope \X Entry \X Event)
AuditEntry == [seq : Nat, action : Action, rev : Rev, prev : Digest, hash : Digest]
OutboxEvent == [action : Action, rev : Rev]
Pointer == Rev \cup {None}

Archive == [members : SUBSET Entry, draft : [Entry -> Pointer],
            published : [Entry -> Pointer], rev : [Rev -> RevRow],
            audit : [Entry -> Seq(Event)], meanwhile : [Entry -> Meanwhile]]

Building == [step : {"idle", "next", "revisions", "audit"}, todo : SUBSET Entry,
             current : Entry \cup {None}, content : Archive]

TypeOK ==
    /\ home \in [Entry -> Scope \cup {None}]
    /\ draft \in [Entry -> Pointer]
    /\ published \in [Entry -> Pointer]
    /\ rev \in [Rev -> RevRow]
    /\ audit \in [Entry -> Seq(AuditEntry)]
    /\ outbox \in [Entry -> Seq(OutboxEvent)]
    /\ minted \in [Rev -> RevRow]
    /\ restored \in [Entry -> Nat]
    /\ adapter \in Adapter
    /\ building \in Building
    /\ archive \in Archive
    /\ exports \in 0..MaxExports
    /\ meanwhile \in [Entry -> Meanwhile]
    /\ torn \in SUBSET Entry

-----------------------------------------------------------------------------
(* Safety *)

\* Referential integrity that no foreign key states: the pointers of an entry
\* are NULL or name revisions of that same entry, a live entry has a draft, and
\* nothing of a deleted entry is left in any table.
PointersValid ==
    \A e \in Entry :
        IF home[e] = None
        THEN /\ draft[e] = None /\ published[e] = None
             /\ Revs(e) = {} /\ audit[e] = <<>> /\ outbox[e] = <<>>
        ELSE draft[e] \in Revs(e) /\ published[e] \in Revs(e) \cup {None}

\* verifyAuditEvents reports no failure for any entry, in whatever scope the
\* entry was imported into.
AuditChained == \A e \in Entry : Verified(home[e], e, audit[e])

\* What any writer leaves behind can be read and verified: the pointers and the
\* chain of every entry.
StoreSound == PointersValid /\ AuditChained

\* A revision never changes once written, not even by being deleted with its
\* entry and brought back from an archive.
RevisionsImmutable ==
    \A r \in Rev : rev[r].entry # None => rev[r] = minted[r]

\* The optimistic check loses no update: the revisions of an entry form one
\* chain, numbered from one, each based on the one before, the draft last.
LinearHistory ==
    \A e \in Entry \ torn : home[e] # None =>
        /\ \A r \in Revs(e) :
              /\ rev[r].seq \in 1..Cardinality(Revs(e))
              /\ IF rev[r].seq = 1 THEN rev[r].base = None
                 ELSE /\ rev[r].base \in Revs(e)
                      /\ rev[rev[r].base].seq + 1 = rev[r].seq
        /\ rev[draft[e]].seq = Cardinality(Revs(e))

\* The last event of an entry's log whose action is among acts, or None.
LastOf(log, acts) ==
    LET at == {i \in DOMAIN log : log[i].action \in acts}
    IN  IF at = {} THEN None
        ELSE log[CHOOSE i \in at : \A j \in at : j <= i].rev

\* The pointers are those a log says: the draft is the last revision it says was
\* created or updated, the published revision the last it says was published.
Explains(log, d, p) ==
    d = LastOf(log, {"created", "updated"}) /\ p = LastOf(log, {"published"})

\* The audit log explains the content of every entry, whichever adapter it is in
\* and whatever was exported while others wrote, save for the entries that were
\* written during the export they were last imported from.
AuditExplainsPointers ==
    \A e \in Entry \ torn : Explains(audit[e], draft[e], published[e])

\* The outbox holds exactly the events of this life of the entry, in order: one
\* for each audit event written since the entry was created or imported, none
\* left from before its deletion or replacement.
OutboxFollowsAudit ==
    \A e \in Entry :
        /\ Len(outbox[e]) + restored[e] = Len(audit[e])
        /\ \A i \in DOMAIN outbox[e] :
              /\ outbox[e][i].action = audit[e][restored[e] + i].action
              /\ outbox[e][i].rev = audit[e][restored[e] + i].rev

\* A step writes rows of the entry: its own, or one of its revisions, audit
\* events or outbox events.
Touched(e) ==
    \/ home[e] # home'[e] \/ draft[e] # draft'[e] \/ published[e] # published'[e]
    \/ audit[e] # audit'[e] \/ outbox[e] # outbox'[e]
    \/ \E r \in Rev : rev[r] # rev'[r] /\ e \in {rev[r].entry, rev'[r].entry}

\* The scopes the row of the entry is in, before and after the step.
Owners(e) == {home[e], home'[e]} \ {None}

\* No step writes rows of two scopes: neither a release nor an import reaches an
\* entry of another scope, and no entry goes from one scope to another.
ScopeIsolation ==
    [][\A e, f \in Entry : Touched(e) /\ Touched(f) =>
          \A s \in Owners(e), t \in Owners(f) : s = t]_vars

\* The record of e in archive a, its log cut after n events, passes the import's
\* own validation, and the log explains the pointers.
SnapshotAt(a, e, n) ==
    LET log == SubSeq(a.audit[e], 1, n) IN
    /\ ValidRecord([a EXCEPT !.audit[e] = log], e)
    /\ Explains(log, a.draft[e], a.published[e])

\* What an archive says of an entry is a state the entry was in.  That is so of
\* the whole record when nobody wrote the entry between the list of drafts and
\* the read of its log, and always in SQLite, whose export is one step.
\* The record of an entry that was written meanwhile has the revisions and the
\* events of later states too: cut at some event, its log is again a state the
\* entry was in.  Only of an entry that was deleted or replaced is nothing said.
ArchiveIsSnapshot ==
    \A e \in archive.members :
        /\ archive.meanwhile[e] = "untouched" =>
              SnapshotAt(archive, e, Len(archive.audit[e]))
        /\ archive.meanwhile[e] = "written" =>
              /\ adapter = "postgres"
              /\ \E n \in 1..Len(archive.audit[e]) : SnapshotAt(archive, e, n)

\* The store implements a tree of immutable versions with two references per
\* entry (VersionTree): every write is based on the head it was written over.
Tree == INSTANCE VersionTree WITH
            commit <- [r \in Rev |-> [entry |-> minted[r].entry,
                                      base |-> minted[r].base]],
            head <- draft, live <- published
TreeSpec == Tree!Spec
-----------------------------------------------------------------------------
(* For TLC: what may be exchanged for another of its kind.                *)

Symmetry == Permutations(Entry) \cup Permutations(Rev) \cup Permutations(Scope)
=============================================================================
