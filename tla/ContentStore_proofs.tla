------------------------- MODULE ContentStore_proofs -------------------------
(***************************************************************************)
(* Proofs about ContentStore, for every set of entries, revisions and      *)
(* scopes, every bound, and both exports.                                  *)
(***************************************************************************)
EXTENDS ContentStore, TLAPS

(***************************************************************************)
(* Type correctness.                                                       *)
(***************************************************************************)

\* An audit row built by #audit is well typed.
LEMMA AuditedType ==
    ASSUME TypeOK, NEW s \in Scope, NEW e \in Entry, NEW act \in Action, NEW r \in Rev
    PROVE  Audited(s, e, act, r) \in Seq(AuditEntry)
<1> DEFINE n == Len(audit[e])
           prev == IF n = 0 THEN <<>> ELSE audit[e][n].hash
           num == IF n = 0 THEN 1 ELSE audit[e][n].seq + 1
           ev == [seq |-> num, action |-> act, rev |-> r]
<1>1. audit[e] \in Seq(AuditEntry) /\ n \in Nat
  BY DEF TypeOK
<1>2. n # 0 => audit[e][n] \in AuditEntry
  BY <1>1
<1>3. prev \in Digest
  <2>1. CASE n = 0
    BY <2>1 DEF Digest
  <2>2. CASE n # 0
    BY <2>2, <1>2 DEF AuditEntry
  <2> QED BY <2>1, <2>2
<1>4. num \in Nat
  <2>1. CASE n = 0
    BY <2>1
  <2>2. CASE n # 0
    BY <2>2, <1>2 DEF AuditEntry
  <2> QED BY <2>1, <2>2
<1>5. ev \in Event
  BY <1>4 DEF Event
<1>6. EventHash(s, e, ev, prev) \in Digest
  BY <1>3, <1>5 DEF EventHash, Digest
<1>7. AuditRow(s, e, act, r) \in AuditEntry
  <2> HIDE DEF n, prev, num
  <2>1. AuditRow(s, e, act, r) =
          [seq |-> num, action |-> act, rev |-> r, prev |-> prev,
           hash |-> EventHash(s, e, ev, prev)]
    BY DEF AuditRow, n, prev, num
  <2> QED BY <2>1, <1>3, <1>4, <1>6 DEF AuditEntry
<1> QED BY <1>1, <1>7 DEF Audited

LEMMA EmittedType ==
    ASSUME TypeOK, NEW e \in Entry, NEW act \in Action, NEW r \in Rev
    PROVE  Emitted(e, act, r) \in Seq(OutboxEvent)
<1>1. outbox[e] \in Seq(OutboxEvent)
  BY DEF TypeOK
<1>2. [action |-> act, rev |-> r] \in OutboxEvent
  BY DEF OutboxEvent
<1> QED BY <1>1, <1>2 DEF Emitted

\* What the import recomputes is a digest over the archived prefix.
LEMMA RehashedType ==
    ASSUME NEW s \in Scope, NEW e \in Entry, NEW evs \in Seq(Event),
           NEW i \in 0..Len(evs)
    PROVE  RehashedPrefix(s, e, evs, i) \in Digest
<1>1. \A j \in 1..i : <<s, e, evs[j]>> \in Scope \X Entry \X Event
  OBVIOUS
<1> QED BY <1>1 DEF RehashedPrefix, Digest

LEMMA ImportedLogType ==
    ASSUME NEW s \in Scope, NEW e \in Entry, NEW evs \in Seq(Event)
    PROVE  ImportedLog(s, e, evs) \in Seq(AuditEntry)
<1>1. \A i \in 1..Len(evs) : ImportedRow(s, e, evs, i) \in AuditEntry
  <2> SUFFICES ASSUME NEW i \in 1..Len(evs)
               PROVE  ImportedRow(s, e, evs, i) \in AuditEntry
    OBVIOUS
  <2>1. evs[i] \in Event
    OBVIOUS
  <2>2. i \in 0..Len(evs) /\ i - 1 \in 0..Len(evs)
    OBVIOUS
  <2>3. RehashedPrefix(s, e, evs, i) \in Digest
    BY <2>2, RehashedType
  <2>4. RehashedPrefix(s, e, evs, i - 1) \in Digest
    BY <2>2, RehashedType
  <2> QED BY <2>1, <2>3, <2>4 DEF ImportedRow, AuditEntry, Event
<1>2. ImportedLog(s, e, evs) = [i \in 1..Len(evs) |-> ImportedRow(s, e, evs, i)]
  BY DEF ImportedLog
<1> QED BY <1>1, <1>2

LEMMA UntouchedType == Untouched \in [Entry -> Meanwhile]
BY DEF Untouched, Meanwhile

\* Whatever a write does to the history, it keeps its type.
LEMMA OvertakenType ==
    ASSUME TypeOK, NEW es, NEW how \in Meanwhile, Overtaken(es, how)
    PROVE  meanwhile' \in [Entry -> Meanwhile]
BY DEF TypeOK, Overtaken

LEMMA EmptyArchiveType == EmptyArchive \in Archive
<1>1. NoRow \in RevRow
  BY DEF NoRow, RevRow
<1> QED BY <1>1, UntouchedType DEF EmptyArchive, Archive, Pointer

LEMMA IdleType == Idle \in Building
BY EmptyArchiveType DEF Idle, Building

LEMMA PointersType ==
    ASSUME TypeOK, NEW s \in Scope
    PROVE  Pointers(s) \in Archive
BY EmptyArchiveType DEF TypeOK, Pointers, Listed, Archive, EmptyArchive

LEMMA WithRevisionsType ==
    ASSUME TypeOK, NEW content \in Archive, NEW es
    PROVE  WithRevisions(content, es) \in Archive
BY DEF TypeOK, WithRevisions, Archive

LEMMA PortableEventsType ==
    ASSUME TypeOK, NEW e \in Entry
    PROVE  PortableEvents(e) \in Seq(Event)
<1>1. audit[e] \in Seq(AuditEntry)
  BY DEF TypeOK
<1>2. \A i \in 1..Len(audit[e]) : Fields(audit[e][i]) \in Event
  <2> SUFFICES ASSUME NEW i \in 1..Len(audit[e])
               PROVE  Fields(audit[e][i]) \in Event
    OBVIOUS
  <2>1. audit[e][i] \in AuditEntry
    BY <1>1
  <2> QED BY <2>1 DEF Fields, Event, AuditEntry
<1>3. PortableEvents(e) = [i \in 1..Len(audit[e]) |-> Fields(audit[e][i])]
  BY <1>1 DEF PortableEvents
<1>4. Len(audit[e]) \in Nat
  BY <1>1
<1> QED BY <1>2, <1>3, <1>4

LEMMA WithAuditType ==
    ASSUME TypeOK, NEW content \in Archive, NEW es
    PROVE  WithAudit(content, es) \in Archive
BY PortableEventsType DEF WithAudit, Archive

LEMMA TypeInit == Init => TypeOK
BY EmptyArchiveType, IdleType, UntouchedType, NoneAssumption, BoundAssumption
   DEF Init, TypeOK, RevRow, NoRow, Pointer

LEMMA TypeCreate ==
    ASSUME TypeOK, NEW s \in Scope, NEW e \in Entry, NEW r \in Rev, Create(s, e, r)
    PROVE  TypeOK'
<1>1. [entry |-> e, seq |-> 1, base |-> FirstBase] \in RevRow
  BY DEF RevRow, FirstBase
<1>2. Audited(s, e, "created", r) \in Seq(AuditEntry)
  BY AuditedType DEF Action
<1>3. Emitted(e, "created", r) \in Seq(OutboxEvent)
  BY EmittedType DEF Action
<1>4. meanwhile' \in [Entry -> Meanwhile]
  BY OvertakenType DEF Create, Meanwhile
<1> QED BY <1>1, <1>2, <1>3, <1>4 DEF TypeOK, Create, exportVars, Pointer

LEMMA TypeUpdateDraft ==
    ASSUME TypeOK, NEW s \in Scope, NEW e \in Entry, NEW expected \in Rev, NEW r \in Rev,
           UpdateDraft(s, e, expected, r)
    PROVE  TypeOK'
<1>1. PICK top \in Revs(e) :
        rev' = [rev EXCEPT ![r] = [entry |-> e, seq |-> rev[top].seq + 1,
                                   base |-> expected]]
  BY DEF UpdateDraft
<1>2. [entry |-> e, seq |-> rev[top].seq + 1, base |-> expected] \in RevRow
  BY DEF TypeOK, RevRow, Revs
<1>3. rev' \in [Rev -> RevRow]
  BY <1>1, <1>2 DEF TypeOK
<1>4. minted' \in [Rev -> RevRow]
  BY <1>3 DEF TypeOK, UpdateDraft
<1>5. Audited(s, e, "updated", r) \in Seq(AuditEntry)
  BY AuditedType DEF Action
<1>6. Emitted(e, "updated", r) \in Seq(OutboxEvent)
  BY EmittedType DEF Action
<1>7. meanwhile' \in [Entry -> Meanwhile]
  BY OvertakenType DEF UpdateDraft, Meanwhile
<1> QED BY <1>3, <1>4, <1>5, <1>6, <1>7 DEF TypeOK, UpdateDraft, exportVars, Pointer

LEMMA TypePublish ==
    ASSUME TypeOK, NEW s \in Scope, NEW e \in Entry, NEW expected \in Rev,
           Publish(s, e, expected)
    PROVE  TypeOK'
<1>1. Audited(s, e, "published", expected) \in Seq(AuditEntry)
  BY AuditedType DEF Action
<1>2. Emitted(e, "published", expected) \in Seq(OutboxEvent)
  BY EmittedType DEF Action
<1>3. meanwhile' \in [Entry -> Meanwhile]
  BY OvertakenType DEF Publish, Meanwhile
<1> QED BY <1>1, <1>2, <1>3 DEF TypeOK, Publish, exportVars, Pointer

LEMMA TypePublishMany ==
    ASSUME TypeOK, NEW s \in Scope, NEW members \in SUBSET Entry,
           NEW target \in [members -> Rev], NEW ed, NEW ep,
           PublishMany(s, members, target, ed, ep)
    PROVE  TypeOK'
<1>1. \A e \in members : Audited(s, e, "published", target[e]) \in Seq(AuditEntry)
  BY AuditedType DEF Action
<1>2. \A e \in members : Emitted(e, "published", target[e]) \in Seq(OutboxEvent)
  BY EmittedType DEF Action
<1>3. meanwhile' \in [Entry -> Meanwhile]
  BY OvertakenType DEF PublishMany, Meanwhile
<1> QED BY <1>1, <1>2, <1>3 DEF TypeOK, PublishMany, exportVars, Pointer

LEMMA TypeDeleteEntry ==
    ASSUME TypeOK, NEW s \in Scope, NEW e \in Entry, DeleteEntry(s, e)
    PROVE  TypeOK'
<1>1. NoRow \in RevRow
  BY DEF NoRow, RevRow
<1>2. meanwhile' \in [Entry -> Meanwhile]
  BY OvertakenType DEF DeleteEntry, Meanwhile
<1>3. torn' \in SUBSET Entry
  BY DEF TypeOK, DeleteEntry
<1>4. /\ home' \in [Entry -> Scope \cup {None}]
      /\ draft' \in [Entry -> Pointer] /\ published' \in [Entry -> Pointer]
      /\ rev' \in [Rev -> RevRow]
      /\ audit' \in [Entry -> Seq(AuditEntry)] /\ outbox' \in [Entry -> Seq(OutboxEvent)]
      /\ restored' \in [Entry -> Nat]
  BY <1>1 DEF TypeOK, DeleteEntry, OutboxPurged, Pointer
<1> QED BY <1>2, <1>3, <1>4 DEF TypeOK, DeleteEntry, exportVars

LEMMA TypeExport ==
    ASSUME TypeOK, Export
    PROVE  TypeOK'
<1> USE DEF storeVars
<1>1. CASE \E s \in Scope : ExportAtOnce(s)
  BY <1>1, PointersType, WithRevisionsType, WithAuditType, BoundAssumption
     DEF TypeOK, ExportAtOnce
<1>2. CASE \E s \in Scope : ExportList(s)
  <2>1. meanwhile' \in [Entry -> Meanwhile]
    BY <1>2 DEF ExportList, Meanwhile
  <2> QED BY <1>2, <2>1, PointersType, BoundAssumption
          DEF TypeOK, ExportList, Building, Listed
<1>3. CASE \E e \in Entry : ExportGroup(e)
  <2> PICK e \in Entry : ExportGroup(e)
    BY <1>3
  <2>1. [building EXCEPT !.step = "revisions", !.current = e, !.todo = @ \ {e}]
          \in Building
    BY DEF TypeOK, Building
  <2>2. building' \in Building
    BY <2>1, IdleType DEF ExportGroup
  <2>3. meanwhile' \in [Entry -> Meanwhile]
    BY UntouchedType DEF TypeOK, ExportGroup
  <2> QED BY <2>2, <2>3 DEF TypeOK, ExportGroup
<1>4. CASE ExportRevisions
  <2>1. WithRevisions(building.content, {building.current}) \in Archive
    BY WithRevisionsType DEF TypeOK, Building
  <2> QED BY <1>4, <2>1 DEF TypeOK, ExportRevisions, Building
<1>5. CASE ExportAudit
  <2>1. WithAudit(building.content, {building.current}) \in Archive
    BY WithAuditType DEF TypeOK, Building
  <2> QED BY <1>5, <2>1 DEF TypeOK, ExportAudit, Building
<1>6. CASE ExportDone
  <2>1. [building.content EXCEPT !.meanwhile = meanwhile] \in Archive
    BY DEF TypeOK, Building, Archive
  <2> QED BY <1>6, <2>1, IdleType, UntouchedType DEF TypeOK, ExportDone
<1> QED BY <1>1, <1>2, <1>3, <1>4, <1>5, <1>6 DEF Export

LEMMA TypeImport ==
    ASSUME TypeOK, NEW s \in Scope, NEW policy \in Policy, Import(s, policy)
    PROVE  TypeOK'
<1>1. PICK selected \in SUBSET Entry : ImportRecords(s, archive, selected)
  BY DEF Import, TypeOK, Archive
<1>2. \A e \in Entry : archive.audit[e] \in Seq(Event)
  BY DEF TypeOK, Archive
<1>3. audit' \in [Entry -> Seq(AuditEntry)]
  <2> SUFFICES ASSUME NEW e \in selected
               PROVE  audit'[e] \in Seq(AuditEntry)
    BY <1>1 DEF ImportRecords, TypeOK
  <2>1. audit'[e] = ImportedLog(s, e, archive.audit[e])
    BY <1>1 DEF ImportRecords
  <2> QED BY <2>1, <1>2, ImportedLogType
<1>4. rev' \in [Rev -> RevRow]
  <2>1. NoRow \in RevRow
    BY DEF NoRow, RevRow
  <2> QED BY <2>1, <1>1 DEF TypeOK, ImportRecords, Archive
<1>5. restored' \in [Entry -> Nat]
  BY <1>1, <1>2 DEF TypeOK, ImportRecords
<1>6. outbox' \in [Entry -> Seq(OutboxEvent)]
  BY <1>1 DEF TypeOK, ImportRecords, OutboxPurged
<1>7. home' \in [Entry -> Scope \cup {None}]
  BY <1>1 DEF TypeOK, ImportRecords
<1>8. draft' \in [Entry -> Pointer] /\ published' \in [Entry -> Pointer]
  BY <1>1 DEF TypeOK, ImportRecords, Archive
<1>9. meanwhile' \in [Entry -> Meanwhile] /\ torn' \in SUBSET Entry
  <2>1. meanwhile' \in [Entry -> Meanwhile]
    BY <1>1, OvertakenType DEF ImportRecords, Meanwhile
  <2> QED BY <1>1, <2>1 DEF TypeOK, ImportRecords
<1> QED BY <1>3, <1>4, <1>5, <1>6, <1>7, <1>8, <1>9 DEF TypeOK, Import, exportVars

LEMMA TypeStep == TypeOK /\ [Next]_vars => TypeOK'
<1> SUFFICES ASSUME TypeOK, [Next]_vars
             PROVE  TypeOK'
  OBVIOUS
<1>1. ASSUME NEW s \in Scope, PublishRelease(s)
      PROVE  TypeOK'
  BY <1>1, TypePublishMany DEF PublishRelease
<1>2. ASSUME NEW s \in Scope, RollbackRelease(s)
      PROVE  TypeOK'
  BY <1>2, TypePublishMany DEF RollbackRelease
<1>3. CASE UNCHANGED vars
  BY <1>3 DEF vars, storeVars, exportVars, TypeOK
<1> QED BY <1>1, <1>2, <1>3, TypeCreate, TypeUpdateDraft, TypePublish,
           TypeDeleteEntry, TypeExport, TypeImport DEF Next

\* Every reachable state is well typed: the tables hold rows of their columns'
\* types whatever the operations and their order.
THEOREM TypeCorrect == Spec => []TypeOK
BY TypeInit, TypeStep, PTL DEF Spec

(***************************************************************************)
(* The hash chain.  A verified log stays verified when #audit appends to   *)
(* it, and the log an import writes verifies in the scope it is written    *)
(* to, whatever scope the archive came from.                               *)
(***************************************************************************)

LEMMA AuditedVerified ==
    ASSUME TypeOK, NEW s \in Scope, NEW e \in Entry, NEW act \in Action, NEW r \in Rev,
           Verified(s, e, audit[e])
    PROVE  Verified(s, e, Audited(s, e, act, r))
<1> DEFINE log == audit[e]
           n == Len(log)
           row == AuditRow(s, e, act, r)
           prev == IF n = 0 THEN <<>> ELSE log[n].hash
<1>1. log \in Seq(AuditEntry) /\ n \in Nat
  BY DEF TypeOK
<1>2. n # 0 => log[n].seq = n
  BY <1>1 DEF Verified
<1>3. row = [seq |-> n + 1, action |-> act, rev |-> r, prev |-> prev,
             hash |-> EventHash(s, e, [seq |-> n + 1, action |-> act, rev |-> r], prev)]
  BY <1>1, <1>2 DEF AuditRow
<1>4. Fields(row) = [seq |-> n + 1, action |-> act, rev |-> r]
  BY <1>3 DEF Fields
<1> DEFINE new == Append(log, row)
<1>5. new = Audited(s, e, act, r)
  BY DEF Audited
<1> HIDE DEF row
<1>6. /\ DOMAIN new = 1..(n + 1)
      /\ new[n + 1] = row
      /\ \A i \in 1..n : new[i] = log[i]
  BY <1>1
<1>7. SUFFICES ASSUME NEW i \in 1..(n + 1)
               PROVE  LET previous == IF i = 1 THEN <<>> ELSE new[i - 1].hash IN
                      /\ new[i].seq = i
                      /\ new[i].prev = previous
                      /\ new[i].hash = EventHash(s, e, Fields(new[i]), previous)
  BY <1>5, <1>6 DEF Verified
<1>8. CASE i = n + 1
  <2>1. prev = IF i = 1 THEN <<>> ELSE new[i - 1].hash
    BY <1>1, <1>6, <1>8
  <2> HIDE DEF prev, new
  <2> QED BY <1>3, <1>4, <1>6, <1>8, <2>1
<1>9. CASE i \in 1..n
  <2>1. i \in DOMAIN log
    BY <1>1, <1>9
  <2>2. i # 1 => new[i - 1] = log[i - 1]
    BY <1>1, <1>6, <1>9
  <2> HIDE DEF new
  <2> QED BY <1>6, <1>9, <2>1, <2>2 DEF Verified
<1> QED BY <1>1, <1>8, <1>9

\* One more event hashed onto the digest of the events before it.
LEMMA RehashedStep ==
    ASSUME NEW s, NEW e, NEW evs \in Seq(Event), NEW i \in 1..Len(evs)
    PROVE  RehashedPrefix(s, e, evs, i)
             = EventHash(s, e, evs[i], RehashedPrefix(s, e, evs, i - 1))
<1> DEFINE f(j) == <<s, e, evs[j]>>
           before == [j \in 1..(i - 1) |-> f(j)]
           after == [j \in 1..i |-> f(j)]
<1>1. before \in Seq({f(j) : j \in 1..Len(evs)}) /\ Len(before) = i - 1
  OBVIOUS
<1>2. after \in Seq({f(j) : j \in 1..Len(evs)}) /\ Len(after) = i
  OBVIOUS
<1>3. Append(before, f(i)) = after
  <2> DEFINE left == Append(before, f(i))
  <2>1. left \in Seq({f(j) : j \in 1..Len(evs)}) /\ Len(left) = i
    BY <1>1
  <2>2. \A j \in 1..i : left[j] = after[j]
    <3> SUFFICES ASSUME NEW j \in 1..i
                 PROVE  left[j] = after[j]
      OBVIOUS
    <3>1. j # i => left[j] = before[j]
      BY <1>1
    <3>2. left[i] = f(i)
      BY <1>1
    <3> QED BY <3>1, <3>2
  <2> HIDE DEF left, after
  <2>3. left = [j \in 1..i |-> left[j]] /\ after = [j \in 1..i |-> after[j]]
    BY <1>2, <2>1
  <2>4. left = after
    BY <2>2, <2>3
  <2> QED BY <2>4 DEF left, after
<1> QED BY <1>3 DEF RehashedPrefix, EventHash

LEMMA ImportedVerified ==
    ASSUME NEW s, NEW e, NEW evs \in Seq(Event), \A i \in DOMAIN evs : evs[i].seq = i
    PROVE  Verified(s, e, ImportedLog(s, e, evs))
<1> DEFINE log == ImportedLog(s, e, evs)
<1>1. DOMAIN log = 1..Len(evs) /\ \A i \in 1..Len(evs) : log[i] = ImportedRow(s, e, evs, i)
  BY DEF ImportedLog
<1>2. SUFFICES ASSUME NEW i \in 1..Len(evs)
               PROVE  LET previous == IF i = 1 THEN <<>> ELSE log[i - 1].hash IN
                      /\ log[i].seq = i
                      /\ log[i].prev = previous
                      /\ log[i].hash = EventHash(s, e, Fields(log[i]), previous)
  BY <1>1 DEF Verified
<1> HIDE DEF log
<1>3. log[i] = ImportedRow(s, e, evs, i)
  BY <1>1
<1>4. Fields(log[i]) = evs[i]
  <2>1. Fields(log[i]) = [seq |-> evs[i].seq, action |-> evs[i].action, rev |-> evs[i].rev]
    BY <1>3 DEF Fields, ImportedRow
  <2>2. evs[i] \in Event
    OBVIOUS
  <2> QED BY <2>1, <2>2 DEF Event
<1>5. RehashedPrefix(s, e, evs, i - 1) = IF i = 1 THEN <<>> ELSE log[i - 1].hash
  <2>1. CASE i = 1
    BY <2>1 DEF RehashedPrefix
  <2>2. CASE i # 1
    <3>1. i - 1 \in 1..Len(evs)
      BY <2>2
    <3> QED BY <1>1, <2>2, <3>1 DEF ImportedRow
  <2> QED BY <2>1, <2>2
<1> QED BY <1>3, <1>4, <1>5, RehashedStep DEF ImportedRow

(***************************************************************************)
(* The integrity of the store.  Immutability is not inductive alone: an    *)
(* archive can bring a deleted row back, so archives, complete or being    *)
(* built, must hold rows as they were minted.                              *)
(***************************************************************************)

AsMinted(content) ==
    \A r \in Rev : content.rev[r].entry # None => content.rev[r] = minted[r]

ArchivesAsMinted == AsMinted(archive) /\ AsMinted(building.content)

IInv == /\ TypeOK
        /\ PointersValid
        /\ AuditChained
        /\ RevisionsImmutable
        /\ ArchivesAsMinted

LEMMA IInvInit == Init => IInv
<1> SUFFICES ASSUME Init
             PROVE  IInv
  OBVIOUS
<1>1. TypeOK
  BY TypeInit
<1>2. PointersValid
  BY NoneAssumption DEF Init, PointersValid, Revs, NoRow
<1>3. AuditChained
  BY DEF Init, AuditChained, Verified
<1>4. RevisionsImmutable
  BY DEF Init, RevisionsImmutable
<1>5. ArchivesAsMinted
  BY DEF Init, ArchivesAsMinted, AsMinted, Idle, EmptyArchive, NoRow
<1> QED BY <1>1, <1>2, <1>3, <1>4, <1>5 DEF IInv

\* A fresh id has no row in the table and none in any archive.
LEMMA FreshNowhere ==
    ASSUME IInv, NEW r \in Rev, Fresh(r)
    PROVE  /\ rev[r].entry = None
           /\ archive.rev[r].entry = None
           /\ building.content.rev[r].entry = None
BY DEF IInv, Fresh, NoRow, RevisionsImmutable, ArchivesAsMinted, AsMinted

\* Minting a row for a fresh id leaves every other row, and every archive, as
\* minted.
LEMMA Mint ==
    ASSUME IInv, NEW r \in Rev, NEW row \in RevRow, Fresh(r),
           rev' = [rev EXCEPT ![r] = row],
           minted' = [minted EXCEPT ![r] = IF @ = NoRow THEN rev'[r] ELSE @],
           UNCHANGED exportVars
    PROVE  RevisionsImmutable' /\ ArchivesAsMinted'
<1>1. rev \in [Rev -> RevRow] /\ minted \in [Rev -> RevRow]
  BY DEF IInv, TypeOK
<1>2. minted' = [minted EXCEPT ![r] = row]
  BY <1>1 DEF Fresh
<1>3. RevisionsImmutable'
  BY <1>1, <1>2 DEF IInv, RevisionsImmutable
<1>4. ArchivesAsMinted'
  BY <1>1, <1>2, FreshNowhere DEF IInv, ArchivesAsMinted, AsMinted, exportVars
<1> QED BY <1>3, <1>4

LEMMA IInvCreate ==
    ASSUME IInv, NEW s \in Scope, NEW e \in Entry, NEW r \in Rev, Create(s, e, r)
    PROVE  IInv'
<1> USE DEF IInv
<1>1. TypeOK'
  BY TypeCreate
<1> DEFINE row == [entry |-> e, seq |-> 1, base |-> FirstBase]
<1>2. row \in RevRow /\ row.entry = e
  BY DEF RevRow, FirstBase
<1> HIDE DEF row
<1>3. rev' = [rev EXCEPT ![r] = row]
  BY DEF Create, row
<1>4. rev[r].entry = None
  BY FreshNowhere DEF Create
<1>5. PointersValid'
  <2>1. \A x \in Entry : Revs(x)' = IF x = e THEN Revs(e) \cup {r} ELSE Revs(x)
    BY <1>2, <1>3, <1>4, NoneAssumption DEF Revs, TypeOK
  <2> QED BY <2>1, NoneAssumption DEF Create, PointersValid, TypeOK
<1>6. AuditChained'
  <2>1. Verified(s, e, audit[e])
    BY DEF Create, PointersValid, Verified
  <2>2. Verified(s, e, Audited(s, e, "created", r))
    BY <2>1, AuditedVerified DEF Action
  <2> QED BY <2>2 DEF Create, AuditChained, TypeOK
<1>7. RevisionsImmutable' /\ ArchivesAsMinted'
  BY <1>2, <1>3, Mint DEF Create
<1> QED BY <1>1, <1>5, <1>6, <1>7

LEMMA IInvUpdateDraft ==
    ASSUME IInv, NEW s \in Scope, NEW e \in Entry, NEW expected \in Rev, NEW r \in Rev,
           UpdateDraft(s, e, expected, r)
    PROVE  IInv'
<1> USE DEF IInv
<1>1. TypeOK'
  BY TypeUpdateDraft
<1>2. PICK row \in RevRow : row.entry = e /\ rev' = [rev EXCEPT ![r] = row]
  <2>1. PICK top \in Revs(e) :
          rev' = [rev EXCEPT ![r] = [entry |-> e, seq |-> rev[top].seq + 1,
                                     base |-> expected]]
    BY DEF UpdateDraft
  <2>2. [entry |-> e, seq |-> rev[top].seq + 1, base |-> expected] \in RevRow
    BY DEF TypeOK, RevRow, Revs
  <2> QED BY <2>1, <2>2
<1>3. rev[r].entry = None
  BY FreshNowhere DEF UpdateDraft
<1>4. PointersValid'
  <2>1. \A x \in Entry : Revs(x)' = IF x = e THEN Revs(e) \cup {r} ELSE Revs(x)
    BY <1>2, <1>3, NoneAssumption DEF Revs, TypeOK
  <2> QED BY <2>1, NoneAssumption DEF UpdateDraft, PointersValid, TypeOK
<1>5. AuditChained'
  <2>1. Verified(s, e, Audited(s, e, "updated", r))
    BY AuditedVerified DEF Action, UpdateDraft, AuditChained
  <2> QED BY <2>1 DEF UpdateDraft, AuditChained, TypeOK
<1>6. RevisionsImmutable' /\ ArchivesAsMinted'
  BY <1>2, Mint DEF UpdateDraft
<1> QED BY <1>1, <1>4, <1>5, <1>6

LEMMA IInvPublish ==
    ASSUME IInv, NEW s \in Scope, NEW e \in Entry, NEW expected \in Rev,
           Publish(s, e, expected)
    PROVE  IInv'
<1> USE DEF IInv
<1>1. TypeOK'
  BY TypePublish
<1>2. PointersValid'
  BY NoneAssumption DEF Publish, DraftIs, PointersValid, TypeOK, Revs
<1>3. AuditChained'
  <2>1. Verified(s, e, Audited(s, e, "published", expected))
    BY AuditedVerified DEF Action, Publish, AuditChained
  <2> QED BY <2>1 DEF Publish, AuditChained, TypeOK
<1>4. RevisionsImmutable' /\ ArchivesAsMinted'
  BY DEF Publish, RevisionsImmutable, ArchivesAsMinted, AsMinted, exportVars
<1> QED BY <1>1, <1>2, <1>3, <1>4

LEMMA IInvPublishMany ==
    ASSUME IInv, NEW s \in Scope, NEW members \in SUBSET Entry,
           NEW target \in [members -> Rev], NEW ed, NEW ep,
           PublishMany(s, members, target, ed, ep)
    PROVE  IInv'
<1> USE DEF IInv
<1>1. TypeOK'
  BY TypePublishMany
<1>2. PointersValid'
  BY NoneAssumption DEF PublishMany, IsTarget, PointersValid, TypeOK, Revs
<1>3. AuditChained'
  <2>1. \A e \in members : Verified(s, e, Audited(s, e, "published", target[e]))
    BY AuditedVerified DEF Action, PublishMany, AuditChained
  <2> QED BY <2>1 DEF PublishMany, AuditChained
<1>4. RevisionsImmutable' /\ ArchivesAsMinted'
  BY DEF PublishMany, RevisionsImmutable, ArchivesAsMinted, AsMinted, exportVars
<1> QED BY <1>1, <1>2, <1>3, <1>4

LEMMA IInvDeleteEntry ==
    ASSUME IInv, NEW s \in Scope, NEW e \in Entry, DeleteEntry(s, e)
    PROVE  IInv'
<1> USE DEF IInv
<1>1. TypeOK'
  BY TypeDeleteEntry
<1>2. PointersValid'
  <2>1. \A x \in Entry : Revs(x)' = IF x = e THEN {} ELSE Revs(x)
    BY NoneAssumption DEF DeleteEntry, Revs, NoRow, TypeOK
  <2> QED BY <2>1, NoneAssumption DEF DeleteEntry, OutboxPurged, PointersValid, TypeOK
<1>3. AuditChained'
  BY DEF DeleteEntry, AuditChained, Verified, TypeOK
<1>4. RevisionsImmutable' /\ ArchivesAsMinted'
  BY DEF DeleteEntry, NoRow, RevisionsImmutable, ArchivesAsMinted, AsMinted, exportVars
<1> QED BY <1>1, <1>2, <1>3, <1>4

\* Reading rows into an archive keeps them as minted.
LEMMA ReadAsMinted ==
    ASSUME IInv, NEW content \in Archive, NEW es, AsMinted(content)
    PROVE  AsMinted(WithRevisions(content, es)) /\ AsMinted(WithAudit(content, es))
<1>1. \A r \in Rev : WithRevisions(content, es).rev[r]
                       = IF rev[r].entry \in es THEN rev[r] ELSE content.rev[r]
  BY DEF WithRevisions, Archive
<1>2. WithAudit(content, es).rev = content.rev
  BY DEF WithAudit, Archive
<1> QED BY <1>1, <1>2 DEF IInv, AsMinted, RevisionsImmutable

LEMMA IInvExport ==
    ASSUME IInv, Export
    PROVE  IInv'
<1> USE DEF IInv, storeVars
<1>1. TypeOK'
  BY TypeExport
<1>2. UNCHANGED <<storeVars, minted>>
  BY DEF Export, ExportAtOnce, ExportList, ExportGroup, ExportRevisions, ExportAudit,
         ExportDone
<1>3. PointersValid' /\ AuditChained' /\ RevisionsImmutable'
  BY <1>2 DEF PointersValid, Revs, AuditChained, RevisionsImmutable
<1>4. \A s \in Scope : Pointers(s) \in Archive /\ AsMinted(Pointers(s))
  BY PointersType DEF Pointers, EmptyArchive, AsMinted, NoRow
<1>5. AsMinted(Idle.content)
  BY DEF Idle, EmptyArchive, AsMinted, NoRow
<1>6. building.content \in Archive
  BY DEF TypeOK, Building
<1>7. AsMinted(archive') /\ AsMinted(building'.content)
  <2>1. CASE \E s \in Scope : ExportAtOnce(s)
    BY <2>1, <1>4, ReadAsMinted, WithRevisionsType DEF ExportAtOnce, ArchivesAsMinted
  <2>2. CASE \E s \in Scope : ExportList(s)
    BY <2>2, <1>4 DEF ExportList, ArchivesAsMinted
  <2>3. CASE \E e \in Entry : ExportGroup(e)
    BY <2>3, <1>5 DEF ExportGroup, ArchivesAsMinted, TypeOK, Building
  <2>4. CASE ExportRevisions
    BY <2>4, <1>6, ReadAsMinted DEF ExportRevisions, ArchivesAsMinted, TypeOK, Building
  <2>5. CASE ExportAudit
    BY <2>5, <1>6, ReadAsMinted DEF ExportAudit, ArchivesAsMinted, TypeOK, Building
  <2>6. CASE ExportDone
    <3>1. archive'.rev = building.content.rev /\ building' = Idle
      BY <1>6, <2>6 DEF ExportDone, Archive
    <3> QED BY <1>5, <3>1 DEF ArchivesAsMinted, AsMinted, ExportDone
  <2> QED BY <2>1, <2>2, <2>3, <2>4, <2>5, <2>6 DEF Export
<1>8. ArchivesAsMinted'
  BY <1>2, <1>7 DEF ArchivesAsMinted, AsMinted
<1> QED BY <1>1, <1>3, <1>8

LEMMA IInvImport ==
    ASSUME IInv, NEW s \in Scope, NEW policy \in Policy, Import(s, policy)
    PROVE  IInv'
<1> USE DEF IInv
<1>1. TypeOK'
  BY TypeImport
<1>2. PICK selected \in SUBSET Entry :
        selected \subseteq archive.members /\ ImportRecords(s, archive, selected)
  BY DEF Import, TypeOK, Archive
<1>3. \A e \in selected : ValidRecord(archive, e)
  BY <1>2 DEF Import, ValidArchive
<1>4. PointersValid'
  <2>1. \A e \in selected : Revs(e)' = ArchivedRevs(archive, e)
    BY <1>2, NoneAssumption DEF ImportRecords, Revs, ArchivedRevs, NoRow, TypeOK
  <2>2. \A e \in Entry \ selected : Revs(e)' = Revs(e)
    BY <1>2, NoneAssumption DEF ImportRecords, Revs, NoRow, TypeOK
  <2>3. ASSUME NEW e \in selected
        PROVE  /\ home'[e] # None /\ draft'[e] \in Revs(e)'
               /\ published'[e] \in Revs(e)' \cup {None}
    BY <1>2, <1>3, <2>1, NoneAssumption DEF ImportRecords, ValidRecord
  <2>4. ASSUME NEW e \in Entry \ selected
        PROVE  /\ home'[e] = home[e] /\ draft'[e] = draft[e]
               /\ published'[e] = published[e] /\ audit'[e] = audit[e]
               /\ outbox'[e] = outbox[e]
    BY <1>2 DEF ImportRecords
  <2> QED BY <2>2, <2>3, <2>4 DEF PointersValid
<1>5. AuditChained'
  <2>1. ASSUME NEW e \in selected
        PROVE  Verified(home'[e], e, audit'[e])
    <3>1. home'[e] = s /\ audit'[e] = ImportedLog(s, e, archive.audit[e])
      BY <1>2 DEF ImportRecords
    <3>2. archive.audit[e] \in Seq(Event)
      BY DEF TypeOK, Archive
    <3>3. \A i \in DOMAIN archive.audit[e] : archive.audit[e][i].seq = i
      BY <1>3 DEF ValidRecord
    <3> QED BY <3>1, <3>2, <3>3, ImportedVerified
  <2>2. ASSUME NEW e \in Entry \ selected
        PROVE  home'[e] = home[e] /\ audit'[e] = audit[e]
    BY <1>2 DEF ImportRecords
  <2> QED BY <2>1, <2>2 DEF AuditChained
<1>6. RevisionsImmutable'
  BY <1>2 DEF Import, ImportRecords, RevisionsImmutable, ArchivesAsMinted, AsMinted,
              NoRow
<1>7. ArchivesAsMinted'
  BY DEF Import, ArchivesAsMinted, AsMinted, exportVars
<1> QED BY <1>1, <1>4, <1>5, <1>6, <1>7

LEMMA IInvStep == IInv /\ [Next]_vars => IInv'
<1> SUFFICES ASSUME IInv, [Next]_vars
             PROVE  IInv'
  OBVIOUS
<1>1. ASSUME NEW s \in Scope, PublishRelease(s)
      PROVE  IInv'
  BY <1>1, IInvPublishMany DEF PublishRelease
<1>2. ASSUME NEW s \in Scope, RollbackRelease(s)
      PROVE  IInv'
  BY <1>2, IInvPublishMany DEF RollbackRelease
<1>3. CASE UNCHANGED vars
  <2>1. TypeOK'
    BY <1>3, TypeStep DEF IInv
  <2> QED BY <1>3, <2>1
          DEF vars, storeVars, exportVars, IInv, PointersValid, Revs, AuditChained,
              RevisionsImmutable, ArchivesAsMinted, AsMinted
<1> QED BY <1>1, <1>2, <1>3, IInvCreate, IInvUpdateDraft, IInvPublish,
           IInvDeleteEntry, IInvExport, IInvImport DEF Next

\* In every reachable state, whatever is exported while others write and
\* imported where: pointers name revisions of their own entry and nothing of a
\* deleted entry is left.
THEOREM PointersAlwaysValid == Spec => []PointersValid
<1>1. IInv => PointersValid
  BY DEF IInv
<1> QED BY IInvInit, IInvStep, <1>1, PTL DEF Spec

\* verifyAuditEvents never reports a failure for what the store wrote itself.
THEOREM AuditAlwaysChained == Spec => []AuditChained
<1>1. IInv => AuditChained
  BY DEF IInv
<1> QED BY IInvInit, IInvStep, <1>1, PTL DEF Spec

\* What any writer leaves behind, through imports and deletions, can be read and
\* verified.
THEOREM StoreAlwaysSound == Spec => []StoreSound
<1>1. PointersValid /\ AuditChained => StoreSound
  BY DEF StoreSound
<1> QED BY PointersAlwaysValid, AuditAlwaysChained, <1>1, PTL

\* ADR 0002: a revision, as long as it exists and whenever it is restored, is
\* the row first written under its id.
THEOREM RevisionsAlwaysImmutable == Spec => []RevisionsImmutable
<1>1. IInv => RevisionsImmutable
  BY DEF IInv
<1> QED BY IInvInit, IInvStep, <1>1, PTL DEF Spec

(***************************************************************************)
(* The refinement of VersionTree.                                          *)
(***************************************************************************)

\* The tree of the refinement mapping.
TreeCommit == [r \in Rev |-> [entry |-> minted[r].entry, base |-> minted[r].base]]

\* A row of an entry is a version of it in the tree.
LEMMA RowIsVersion ==
    ASSUME IInv, NEW e \in Entry, NEW r \in Revs(e)
    PROVE  r \in Tree!Versions(e)
BY NoneAssumption DEF IInv, Revs, RevisionsImmutable, Tree!Versions

LEMMA MintIsCommit ==
    ASSUME IInv, NEW e \in Entry, NEW r \in Rev, NEW row \in RevRow, Fresh(r),
           row.entry = e, row.base = draft[e],
           rev' = [rev EXCEPT ![r] = row],
           minted' = [minted EXCEPT ![r] = IF @ = NoRow THEN rev'[r] ELSE @],
           draft' = [draft EXCEPT ![e] = r], published' = published
    PROVE  Tree!Commit(e, r)
<1>1. rev \in [Rev -> RevRow] /\ minted \in [Rev -> RevRow]
  BY DEF IInv, TypeOK
<1>2. minted' = [minted EXCEPT ![r] = row]
  BY <1>1 DEF Fresh
<1>3. TreeCommit[r] = Tree!Unborn
  BY DEF Fresh, NoRow, TreeCommit, Tree!Unborn
<1>4. TreeCommit' = [TreeCommit EXCEPT ![r] = [entry |-> e, base |-> draft[e]]]
  BY <1>1, <1>2 DEF TreeCommit
<1> QED BY <1>3, <1>4 DEF Tree!Commit, TreeCommit

LEMMA RefinesInit == Init => Tree!Init
BY DEF Init, NoRow, Tree!Init, Tree!Unborn

LEMMA PublicationIsPromotion ==
    ASSUME IInv, UNCHANGED <<minted, draft>>, TypeOK',
           \A e \in Entry : published'[e] # published[e] =>
              home[e] # None /\ published'[e] \in Revs(e)
    PROVE  Tree!Promote
<1>1. \A e \in Entry : home[e] # None => draft[e] # None
  BY NoneAssumption DEF IInv, PointersValid, Revs
<1>2. published' \in [Entry -> Rev \cup {None}]
  BY DEF TypeOK, Pointer
<1> QED BY <1>1, <1>2, RowIsVersion DEF Tree!Promote

LEMMA ImportIsRestore ==
    ASSUME IInv, NEW s \in Scope, NEW policy \in Policy, Import(s, policy)
    PROVE  Tree!Restore
<1> USE DEF IInv
<1>1. TypeOK'
  BY TypeImport
<1>2. PICK selected \in SUBSET Entry :
        selected \subseteq archive.members /\ ImportRecords(s, archive, selected)
  BY DEF Import, TypeOK, Archive
<1>3. \A e \in selected : ValidRecord(archive, e)
  BY <1>2 DEF Import, ValidArchive
<1>4. \A e \in Entry : \A r \in ArchivedRevs(archive, e) : r \in Tree!Versions(e)
  BY NoneAssumption DEF ArchivedRevs, ArchivesAsMinted, AsMinted, Tree!Versions
<1>5. draft' \in [Entry -> Rev \cup {None}] /\ published' \in [Entry -> Rev \cup {None}]
  BY <1>1 DEF TypeOK, Pointer
<1>6. ASSUME NEW e \in Entry, <<draft'[e], published'[e]>> # <<draft[e], published[e]>>
      PROVE  /\ draft'[e] \in Tree!Versions(e)
             /\ published'[e] \in Tree!Versions(e) \cup {None}
  <2>1. e \in selected
    BY <1>2, <1>6 DEF ImportRecords
  <2>2. draft'[e] = archive.draft[e] /\ published'[e] = archive.published[e]
    BY <1>2, <2>1 DEF ImportRecords
  <2> QED BY <1>3, <1>4, <2>1, <2>2 DEF ValidRecord
<1>7. minted' = minted
  BY DEF Import
<1> QED BY <1>5, <1>6, <1>7 DEF Tree!Restore

LEMMA RefinesNext == IInv /\ [Next]_vars => [Tree!Next]_(Tree!vars)
<1> SUFFICES ASSUME IInv, [Next]_vars
             PROVE  Tree!Next \/ UNCHANGED <<minted, draft, published>>
  BY DEF Tree!vars
<1> USE DEF IInv
<1>1. ASSUME NEW s \in Scope, NEW e \in Entry, NEW r \in Rev, Create(s, e, r)
      PROVE  Tree!Next
  <2> DEFINE row == [entry |-> e, seq |-> 1, base |-> FirstBase]
  <2>1. row \in RevRow /\ row.entry = e /\ row.base = None
    BY DEF RevRow, FirstBase
  <2>2. draft[e] = None /\ published[e] = None
    BY <1>1 DEF Create, PointersValid
  <2>3. published' = published
    BY <1>1, <2>2 DEF Create, TypeOK
  <2>4. rev' = [rev EXCEPT ![r] = row]
    BY <1>1 DEF Create
  <2> HIDE DEF row
  <2>5. Tree!Commit(e, r)
    BY <1>1, <2>1, <2>2, <2>3, <2>4, MintIsCommit DEF Create
  <2> QED BY <2>5 DEF Tree!Next
<1>2. ASSUME NEW s \in Scope, NEW e \in Entry, NEW expected \in Rev, NEW r \in Rev,
             UpdateDraft(s, e, expected, r)
      PROVE  Tree!Next
  <2>1. PICK row \in RevRow :
          row.entry = e /\ row.base = draft[e] /\ rev' = [rev EXCEPT ![r] = row]
    <3>1. PICK top \in Revs(e) :
            rev' = [rev EXCEPT ![r] = [entry |-> e, seq |-> rev[top].seq + 1,
                                       base |-> expected]]
      BY <1>2 DEF UpdateDraft
    <3>2. [entry |-> e, seq |-> rev[top].seq + 1, base |-> expected] \in RevRow
      BY DEF TypeOK, RevRow, Revs
    <3> QED BY <1>2, <3>1, <3>2 DEF UpdateDraft, DraftIs
  <2>2. Tree!Commit(e, r)
    BY <1>2, <2>1, MintIsCommit DEF UpdateDraft
  <2> QED BY <2>2 DEF Tree!Next
<1>3. ASSUME NEW s \in Scope, NEW e \in Entry, NEW expected \in Rev,
             Publish(s, e, expected)
      PROVE  Tree!Next
  <2>1. \A x \in Entry : published'[x] # published[x] =>
          home[x] # None /\ published'[x] \in Revs(x)
    BY <1>3, NoneAssumption DEF Publish, DraftIs, PointersValid, TypeOK
  <2>2. Tree!Promote
    BY <1>3, <2>1, TypePublish, PublicationIsPromotion DEF Publish
  <2> QED BY <2>2 DEF Tree!Next
<1>4. ASSUME NEW s \in Scope, NEW members \in SUBSET Entry,
             NEW target \in [members -> Rev], NEW ed, NEW ep,
             PublishMany(s, members, target, ed, ep)
      PROVE  Tree!Next
  <2>1. \A x \in Entry : published'[x] # published[x] =>
          home[x] # None /\ published'[x] \in Revs(x)
    BY <1>4, NoneAssumption DEF PublishMany, IsTarget
  <2>2. Tree!Promote
    BY SMTT(20), <1>4, <2>1, TypePublishMany, PublicationIsPromotion DEF PublishMany
  <2> QED BY <2>2 DEF Tree!Next
<1>5. ASSUME NEW s \in Scope, PublishRelease(s) \/ RollbackRelease(s)
      PROVE  Tree!Next
  BY <1>4, <1>5 DEF PublishRelease, RollbackRelease
<1>6. ASSUME NEW s \in Scope, NEW e \in Entry, DeleteEntry(s, e)
      PROVE  Tree!Next
  <2>1. Tree!Remove(e)
    BY <1>6 DEF DeleteEntry, Tree!Remove
  <2> QED BY <2>1 DEF Tree!Next
<1>7. CASE Export
  BY <1>7 DEF Export, ExportAtOnce, ExportList, ExportGroup, ExportRevisions,
              ExportAudit, ExportDone, storeVars
<1>8. ASSUME NEW s \in Scope, NEW policy \in Policy, Import(s, policy)
      PROVE  Tree!Next
  BY <1>8, ImportIsRestore DEF Tree!Next
<1>9. CASE UNCHANGED vars
  BY <1>9 DEF vars, storeVars
<1> QED BY <1>1, <1>2, <1>3, <1>5, <1>6, <1>7, <1>8, <1>9 DEF Next

\* The store is a tree of immutable versions: no write is based on anything but
\* the draft it replaces, and publication, deletion and import only move
\* references to versions of the same entry, even with archives that are not
\* snapshots.
THEOREM StoreImplementsVersionTree == Spec => TreeSpec
<1>1. Init => Tree!Init
  BY RefinesInit
<1>2. IInv /\ [Next]_vars => [Tree!Next]_(Tree!vars)
  BY RefinesNext
<1> QED BY <1>1, <1>2, IInvInit, IInvStep, PTL DEF Spec, TreeSpec, Tree!Spec

(***************************************************************************)
(* The audit log explains the pointers, and an archive is a snapshot.  An  *)
(* archive brings both pointers and log back, so the two need each other;  *)
(* and of an export that others write beside, it is kept at each of its    *)
(* queries that the pointers it listed are those of a prefix of the log,   *)
(* and that the revisions it read support that prefix.                     *)
(***************************************************************************)

\* p is the revision of the last of the first n events whose action is among acts.
IsLast(log, n, acts, p) ==
    \/ p = None /\ \A i \in 1..n : log[i].action \notin acts
    \/ \E i \in 1..n :
          /\ log[i].action \in acts /\ log[i].rev = p
          /\ \A j \in 1..n : log[j].action \in acts => j <= i

\* The first n events of a log explain the pointers d and p.
Shows(log, n, d, p) ==
    IsLast(log, n, {"created", "updated"}, d) /\ IsLast(log, n, {"published"}, p)

Explained ==
    \A e \in Entry \ torn : Shows(audit[e], Len(audit[e]), draft[e], published[e])

\* What the import validates of the revisions R of an entry.
RowsOK(rows, R) ==
    \A r \in R : /\ rows[r].base \in R \cup {None}
                 /\ \A x \in R \ {r} : rows[x].seq # rows[r].seq

\* What the import validates, of the rows in the tables.
RowsValid ==
    \A e \in Entry :
        /\ RowsOK(rev, Revs(e))
        /\ \A i \in DOMAIN audit[e] : audit[e][i].rev \in Revs(e)

\* The first n events of a log, and the pointers they explain, are about R.
Supports(R, log, n, d, p) ==
    /\ d \in R /\ p \in R \cup {None}
    /\ \A i \in 1..n : log[i].rev \in R
    /\ Shows(log, n, d, p)

\* The revisions of an entry that the running export goes by: those it read, or
\* those it is going to read.
Known(e) ==
    IF building.step = "audit" /\ e = building.current
    THEN ArchivedRevs(building.content, e) ELSE Revs(e)

Pending(e) ==
    \E n \in 0..Len(audit[e]) :
        /\ Supports(Known(e), audit[e], n, building.content.draft[e],
                    building.content.published[e])
        /\ meanwhile[e] = "untouched" => n = Len(audit[e])

PendingOK ==
    \A e \in Unread : meanwhile[e] # "replaced" =>
        /\ Pending(e)
        /\ building.step = "audit" /\ e = building.current =>
              RowsOK(building.content.rev, ArchivedRevs(building.content, e))

\* The record of e in archive a, cut after n events, is valid and explained.
CutAt(a, e, n) ==
    /\ RowsOK(a.rev, ArchivedRevs(a, e))
    /\ Supports(ArchivedRevs(a, e), a.audit[e], n, a.draft[e], a.published[e])
    /\ \A i \in 1..n : a.audit[e][i].seq = i

Recorded(a, e, how) ==
    how # "replaced" => \E n \in 0..Len(a.audit[e]) :
        CutAt(a, e, n) /\ (how = "untouched" => n = Len(a.audit[e]))

DoneOK == \A e \in building.content.members \ Unread :
              Recorded(building.content, e, meanwhile[e])

ArchiveOK == \A e \in archive.members : Recorded(archive, e, archive.meanwhile[e])

\* Whose revisions the export has not read.
Unfetched ==
    building.todo \cup (IF building.step = "revisions" THEN {building.current} ELSE {})

Shape ==
    /\ building.step = "idle" => building = Idle /\ meanwhile = Untouched
    /\ building.step \in {"revisions", "audit"} <=> building.current # None
    /\ building.current \notin building.todo
    /\ \A e \in Unfetched : ArchivedRevs(building.content, e) = {}
    /\ adapter = "sqlite" =>
          building = Idle /\ torn = {} /\ archive.meanwhile = Untouched

ExportsOK == Shape /\ PendingOK /\ DoneOK /\ ArchiveOK

SInv == IInv /\ RowsValid /\ ExportsOK /\ Explained

LEMMA LastIs ==
    ASSUME NEW log, NEW n \in Nat, NEW acts, NEW p, DOMAIN log = 1..n,
           IsLast(log, n, acts, p)
    PROVE  p = LastOf(log, acts)
<1> DEFINE at == {i \in DOMAIN log : log[i].action \in acts}
           c == CHOOSE i \in at : \A j \in at : j <= i
<1>1. CASE at = {}
  BY <1>1 DEF IsLast, LastOf
<1>2. CASE at # {}
  <2>1. PICK i \in at : log[i].rev = p /\ \A j \in at : j <= i
    BY <1>2 DEF IsLast
  <2>2. c \in at /\ \A j \in at : j <= c
    BY <2>1
  <2>3. c = i
    BY <2>1, <2>2
  <2>4. LastOf(log, acts) = log[c].rev
    BY <1>2 DEF LastOf
  <2> QED BY <2>1, <2>3, <2>4
<1> QED BY <1>1, <1>2

LEMMA ShowsExplains ==
    ASSUME NEW log, NEW n \in Nat, NEW d, NEW p, DOMAIN log = 1..n, Shows(log, n, d, p)
    PROVE  Explains(log, d, p)
BY LastIs DEF Shows, Explains

\* The event that is appended is the last one, if it is of the kind at all.
LEMMA LastAppended ==
    ASSUME NEW log, NEW new, NEW n \in Nat, NEW acts, NEW p, IsLast(log, n, acts, p),
           \A i \in 1..n : new[i] = log[i]
    PROVE  IsLast(new, n + 1, acts,
                  IF new[n + 1].action \in acts THEN new[n + 1].rev ELSE p)
<1>1. CASE new[n + 1].action \in acts
  <2>1. n + 1 \in 1..(n + 1) /\ \A j \in 1..(n + 1) : j <= n + 1
    OBVIOUS
  <2> QED BY <1>1, <2>1 DEF IsLast
<1>2. CASE new[n + 1].action \notin acts
  <2>1. CASE p = None /\ \A i \in 1..n : log[i].action \notin acts
    <3>1. \A i \in 1..(n + 1) : new[i].action \notin acts
      BY <1>2, <2>1
    <3> QED BY <1>2, <2>1, <3>1 DEF IsLast
  <2>2. CASE ~(p = None /\ \A i \in 1..n : log[i].action \notin acts)
    <3>1. PICK i \in 1..n : /\ log[i].action \in acts /\ log[i].rev = p
                            /\ \A j \in 1..n : log[j].action \in acts => j <= i
      BY <2>2 DEF IsLast
    <3>2. /\ i \in 1..(n + 1) /\ new[i].action \in acts /\ new[i].rev = p
          /\ \A j \in 1..(n + 1) : new[j].action \in acts => j <= i
      BY <1>2, <3>1
    <3> QED BY <1>2, <3>2 DEF IsLast
  <2> QED BY <2>1, <2>2
<1> QED BY <1>1, <1>2

\* Two logs that agree on n events explain the same pointers with them.
LEMMA SameEvents ==
    ASSUME NEW log, NEW other, NEW n, NEW d, NEW p, Shows(log, n, d, p),
           \A i \in 1..n : other[i].action = log[i].action /\ other[i].rev = log[i].rev
    PROVE  Shows(other, n, d, p)
BY DEF Shows, IsLast

\* What #audit leaves of a log, and what it adds.
LEMMA AuditedLog ==
    ASSUME TypeOK, NEW s \in Scope, NEW e \in Entry, NEW act \in Action, NEW r \in Rev
    PROVE  LET n == Len(audit[e])
               new == Audited(s, e, act, r)
           IN  /\ n \in Nat /\ DOMAIN audit[e] = 1..n
               /\ Len(new) = n + 1 /\ DOMAIN new = 1..(n + 1)
               /\ \A i \in 1..n : new[i] = audit[e][i]
               /\ new[n + 1].action = act /\ new[n + 1].rev = r
<1> DEFINE row == AuditRow(s, e, act, r)
<1>1. audit[e] \in Seq(AuditEntry)
  BY DEF TypeOK
<1>2. row.action = act /\ row.rev = r
  BY DEF AuditRow
<1>3. Audited(s, e, act, r) = Append(audit[e], row)
  BY DEF Audited
<1> HIDE DEF row
<1> QED BY <1>1, <1>2, <1>3

\* What an operation appends explains the pointers it sets.
LEMMA AuditedShows ==
    ASSUME TypeOK, NEW s \in Scope, NEW e \in Entry, NEW act \in Action, NEW r \in Rev,
           NEW d, NEW p, Shows(audit[e], Len(audit[e]), d, p)
    PROVE  LET new == Audited(s, e, act, r) IN
           Shows(new, Len(new), IF act = "published" THEN d ELSE r,
                                IF act = "published" THEN r ELSE p)
<1> DEFINE n == Len(audit[e])
           new == Audited(s, e, act, r)
<1>1. /\ n \in Nat /\ Len(new) = n + 1 /\ \A i \in 1..n : new[i] = audit[e][i]
      /\ new[n + 1].action = act /\ new[n + 1].rev = r
  BY AuditedLog
<1> HIDE DEF new
<1>2. /\ IsLast(new, n + 1, {"created", "updated"},
                 IF act \in {"created", "updated"} THEN r ELSE d)
      /\ IsLast(new, n + 1, {"published"}, IF act \in {"published"} THEN r ELSE p)
  BY <1>1, LastAppended DEF Shows
<1>3. Shows(new, Len(new), IF act = "published" THEN d ELSE r,
                           IF act = "published" THEN r ELSE p)
  BY <1>1, <1>2 DEF Shows, Action
<1> QED BY <1>3 DEF new

\* The revision an operation appends is one of the entry, and so are the others.
LEMMA AuditedRevs ==
    ASSUME TypeOK, NEW s \in Scope, NEW e \in Entry, NEW act \in Action, NEW r \in Rev,
           NEW R, \A i \in DOMAIN audit[e] : audit[e][i].rev \in R, r \in R
    PROVE  \A i \in DOMAIN Audited(s, e, act, r) : Audited(s, e, act, r)[i].rev \in R
<1> DEFINE n == Len(audit[e])
           new == Audited(s, e, act, r)
<1>1. /\ n \in Nat /\ DOMAIN audit[e] = 1..n /\ DOMAIN new = 1..(n + 1)
      /\ \A i \in 1..n : new[i] = audit[e][i]
      /\ new[n + 1].rev = r
  BY AuditedLog
<1> HIDE DEF new
<1>2. \A i \in DOMAIN new : new[i].rev \in R
  BY <1>1
<1> QED BY <1>2 DEF new

LEMMA SInvInit == Init => SInv
<1> SUFFICES ASSUME Init
             PROVE  SInv
  OBVIOUS
<1>1. IInv
  BY IInvInit
<1>2. RowsValid
  BY NoneAssumption DEF Init, RowsValid, RowsOK, Revs, NoRow
<1>3. building.todo = {} /\ building.current = None /\ building.step = "idle"
  BY DEF Init, Idle
<1>4. Unread = {} /\ Unfetched = {}
  BY <1>3 DEF Unread, Unfetched
<1>5. ExportsOK
  BY <1>3, <1>4 DEF Init, ExportsOK, Shape, PendingOK, DoneOK, ArchiveOK, EmptyArchive, Idle
<1>6. Explained
  BY DEF Init, Explained, Shows, IsLast
<1> QED BY <1>1, <1>2, <1>5, <1>6 DEF SInv

\* An operation on the entries es beside an export, which it tells of them: what
\* the export listed of the others stands, and of es too unless it replaces them.
LEMMA ExportBeside ==
    ASSUME SInv, UNCHANGED exportVars, NEW es, NEW how \in {"written", "replaced"},
           Overtaken(es, how), adapter = "sqlite" => torn' = {},
           \A e \in Entry : e \notin es \/ how = "written" => Revs(e) \subseteq Revs(e)',
           \A e \in Entry \ es : audit'[e] = audit[e],
           how = "written" => \A e \in es :
              /\ Len(audit'[e]) \in Nat /\ Len(audit'[e]) >= Len(audit[e])
              /\ \A i \in 1..Len(audit[e]) : audit'[e][i] = audit[e][i]
    PROVE  ExportsOK'
<1>1. /\ building' = building /\ archive' = archive /\ adapter' = adapter
      /\ Unread' = Unread /\ Unfetched' = Unfetched
  BY DEF exportVars, Unread, Unfetched
<1>2. /\ TypeOK /\ Unread \subseteq Entry /\ building.content.members \subseteq Entry
      /\ \A e \in Entry : Len(audit[e]) \in Nat
  BY DEF SInv, IInv, TypeOK, Unread, Building, Archive
<1>3. ASSUME NEW e \in Entry \ Unread PROVE meanwhile'[e] = meanwhile[e]
  BY <1>3 DEF Overtaken
<1>4. Shape'
  <2>1. CASE building.step = "idle"
    <3>1. Unread = {}
      BY <2>1 DEF SInv, ExportsOK, Shape, Unread, Idle
    <3>2. meanwhile' = meanwhile
      BY <1>2, <3>1 DEF Overtaken, TypeOK
    <3> QED BY <1>1, <3>2 DEF SInv, ExportsOK, Shape, ArchivedRevs
  <2>2. CASE building.step # "idle"
    BY <1>1, <2>2 DEF SInv, ExportsOK, Shape, ArchivedRevs
  <2> QED BY <2>1, <2>2
<1>5. PendingOK'
  <2> SUFFICES ASSUME NEW e \in Unread, meanwhile'[e] # "replaced"
               PROVE  /\ Pending(e)'
                      /\ building.step = "audit" /\ e = building.current =>
                            RowsOK(building.content.rev, ArchivedRevs(building.content, e))
    BY <1>1 DEF PendingOK, RowsOK, ArchivedRevs
  <2>1. /\ meanwhile[e] # "replaced" /\ (e \notin es \/ how = "written") /\ e \in Entry
        /\ meanwhile'[e] = "untouched" => e \notin es /\ meanwhile[e] = "untouched"
    BY <1>2 DEF Overtaken
  <2>2. PICK n \in 0..Len(audit[e]) :
          /\ Supports(Known(e), audit[e], n, building.content.draft[e],
                      building.content.published[e])
          /\ meanwhile[e] = "untouched" => n = Len(audit[e])
    BY <2>1 DEF SInv, ExportsOK, PendingOK, Pending
  <2>3. Known(e) \subseteq Known(e)'
    BY <1>1, <2>1 DEF Known, ArchivedRevs
  <2>4. /\ n \in 0..Len(audit'[e]) /\ \A i \in 1..n : audit'[e][i] = audit[e][i]
        /\ meanwhile'[e] = "untouched" => n = Len(audit'[e])
    <3>1. CASE e \in es
      BY <1>2, <2>1, <2>2, <3>1
    <3>2. CASE e \notin es
      BY <2>1, <2>2, <3>2
    <3> QED BY <3>1, <3>2
  <2>5. Supports(Known(e)', audit'[e], n, building.content.draft[e],
                 building.content.published[e])
    BY <2>2, <2>3, <2>4, SameEvents DEF Supports
  <2>6. Pending(e)'
    BY <1>1, <2>4, <2>5 DEF Pending
  <2> QED BY <2>1, <2>6 DEF SInv, ExportsOK, PendingOK
<1>6. DoneOK'
  BY <1>1, <1>2, <1>3 DEF SInv, ExportsOK, DoneOK, Recorded, CutAt, ArchivedRevs
<1>7. ArchiveOK'
  BY <1>1 DEF SInv, ExportsOK, ArchiveOK, Recorded, CutAt, ArchivedRevs
<1> QED BY <1>4, <1>5, <1>6, <1>7 DEF ExportsOK

LEMMA SCreate ==
    ASSUME SInv, NEW s \in Scope, NEW e \in Entry, NEW r \in Rev, Create(s, e, r)
    PROVE  RowsValid' /\ ExportsOK' /\ Explained'
<1>1. IInv /\ TypeOK /\ rev[r].entry = None
  BY FreshNowhere DEF SInv, IInv, Create
<1> DEFINE row == [entry |-> e, seq |-> 1, base |-> FirstBase]
<1>2. rev' = [rev EXCEPT ![r] = row] /\ row.entry = e /\ row.base = None
  BY DEF Create, FirstBase
<1> HIDE DEF row
<1>3. \A x \in Entry : Revs(x)' = IF x = e THEN {r} ELSE Revs(x)
  BY <1>1, <1>2, NoneAssumption DEF Revs, TypeOK, IInv, PointersValid, Create
<1>4. \A x \in Entry : audit'[x] = IF x = e THEN Audited(s, e, "created", r) ELSE audit[x]
  BY <1>1 DEF Create, TypeOK
<1>5. audit[e] = <<>>
  BY <1>1 DEF IInv, PointersValid, Create
<1>6. RowsValid'
  <2>a. \A i \in DOMAIN audit[e] : audit[e][i].rev \in {r}
    BY <1>5
  <2>1. \A i \in DOMAIN Audited(s, e, "created", r) : Audited(s, e, "created", r)[i].rev \in {r}
    BY <1>1, <2>a, AuditedRevs DEF Action
  <2>2. \A x \in Entry \ {e} : \A y \in Revs(x) : rev'[y] = rev[y]
    BY <1>1, <1>2, NoneAssumption DEF Revs, TypeOK
  <2>3. rev'[r].base = None
    BY <1>1, <1>2 DEF TypeOK
  <2> QED BY <1>3, <1>4, <2>1, <2>2, <2>3 DEF RowsValid, RowsOK, SInv
<1>7. ExportsOK'
  <2>1. \A x \in {e} : /\ Len(audit'[x]) \in Nat /\ Len(audit'[x]) >= Len(audit[x])
                       /\ \A i \in 1..Len(audit[x]) : audit'[x][i] = audit[x][i]
    BY <1>1, <1>4, AuditedLog DEF Action
  <2>2. \A x \in Entry : Revs(x) \subseteq Revs(x)'
    BY <1>1, <1>3 DEF IInv, PointersValid, Create
  <2>3. Overtaken({e}, "written") /\ UNCHANGED exportVars /\ torn' = torn
    BY DEF Create
  <2> QED BY <1>4, <2>1, <2>2, <2>3, ExportBeside DEF SInv, ExportsOK, Shape
<1>8. Explained'
  <2>1. Shows(audit[e], Len(audit[e]), None, None)
    BY <1>5 DEF Shows, IsLast
  <2>2. Shows(audit'[e], Len(audit'[e]), r, None)
    BY <1>1, <1>4, <2>1, AuditedShows DEF Action
  <2> QED BY <1>1, <1>4, <2>2 DEF Create, Explained, SInv, TypeOK
<1> QED BY <1>6, <1>7, <1>8

LEMMA SUpdateDraft ==
    ASSUME SInv, NEW s \in Scope, NEW e \in Entry, NEW expected \in Rev, NEW r \in Rev,
           UpdateDraft(s, e, expected, r)
    PROVE  RowsValid' /\ ExportsOK' /\ Explained'
<1>1. IInv /\ TypeOK /\ rev[r].entry = None
  BY FreshNowhere DEF SInv, IInv, UpdateDraft
<1>2. PICK row \in RevRow : /\ row.entry = e /\ rev' = [rev EXCEPT ![r] = row]
                            /\ row.base = expected /\ \A x \in Revs(e) : rev[x].seq # row.seq
  <2>1. PICK top \in Revs(e) :
          /\ \A x \in Revs(e) : rev[x].seq <= rev[top].seq
          /\ rev' = [rev EXCEPT ![r] = [entry |-> e, seq |-> rev[top].seq + 1,
                                        base |-> expected]]
    BY DEF UpdateDraft
  <2>2. [entry |-> e, seq |-> rev[top].seq + 1, base |-> expected] \in RevRow
    BY <1>1 DEF TypeOK, RevRow, Revs
  <2>3. \A x \in Revs(e) : rev[x].seq \in Nat
    BY <1>1 DEF TypeOK, RevRow, Revs
  <2>4. \A x \in Revs(e) : rev[x].seq # rev[top].seq + 1
    BY <2>1, <2>3
  <2> QED BY <2>1, <2>2, <2>4
<1>3. \A x \in Entry : Revs(x)' = IF x = e THEN Revs(e) \cup {r} ELSE Revs(x)
  BY <1>1, <1>2, NoneAssumption DEF Revs, TypeOK
<1>4. \A x \in Entry : audit'[x] = IF x = e THEN Audited(s, e, "updated", r) ELSE audit[x]
  BY <1>1 DEF UpdateDraft, TypeOK
<1>5. expected = draft[e] /\ home[e] # None /\ draft[e] \in Revs(e)
  BY <1>1, NoneAssumption DEF UpdateDraft, DraftIs, IInv, PointersValid
<1>6. RowsValid'
  <2>1. \A i \in DOMAIN Audited(s, e, "updated", r) :
          Audited(s, e, "updated", r)[i].rev \in Revs(e) \cup {r}
    BY <1>1, AuditedRevs DEF Action, SInv, RowsValid
  <2>2. \A x \in Entry : \A y \in Revs(x) : rev'[y] = rev[y]
    BY <1>1, <1>2, NoneAssumption DEF Revs, TypeOK
  <2>3. rev'[r] = row /\ r \notin Revs(e)
    BY <1>1, <1>2, NoneAssumption DEF TypeOK, Revs
  <2>4. ASSUME NEW x \in Entry, NEW y \in Revs(x)'
        PROVE  /\ rev'[y].base \in Revs(x)' \cup {None}
               /\ \A z \in Revs(x)' \ {y} : rev'[z].seq # rev'[y].seq
    <3>1. CASE x # e
      BY <1>3, <2>2, <2>4, <3>1 DEF SInv, RowsValid, RowsOK
    <3>2. CASE x = e /\ y = r
      BY <1>2, <1>3, <1>5, <2>2, <2>3, <2>4, <3>2
    <3>3. CASE x = e /\ y # r
      BY <1>2, <1>3, <2>2, <2>3, <2>4, <3>3 DEF SInv, RowsValid, RowsOK
    <3> QED BY <3>1, <3>2, <3>3
  <2>5. \A x \in Entry : \A i \in DOMAIN audit'[x] : audit'[x][i].rev \in Revs(x)'
    BY <1>3, <1>4, <2>1 DEF SInv, RowsValid
  <2> QED BY <2>4, <2>5 DEF RowsValid, RowsOK
<1>7. ExportsOK'
  <2>1. \A x \in {e} : /\ Len(audit'[x]) \in Nat /\ Len(audit'[x]) >= Len(audit[x])
                       /\ \A i \in 1..Len(audit[x]) : audit'[x][i] = audit[x][i]
    BY <1>1, <1>4, AuditedLog DEF Action
  <2>2. Overtaken({e}, "written") /\ UNCHANGED exportVars /\ torn' = torn
    BY DEF UpdateDraft
  <2> QED BY <1>3, <1>4, <2>1, <2>2, ExportBeside DEF SInv, ExportsOK, Shape
<1>8. Explained'
  <2>1. e \notin torn => Shows(audit[e], Len(audit[e]), draft[e], published[e])
    BY DEF SInv, Explained
  <2>2. e \notin torn => Shows(audit'[e], Len(audit'[e]), r, published[e])
    BY <1>1, <1>4, <2>1, AuditedShows DEF Action
  <2> QED BY <1>1, <1>4, <2>2 DEF UpdateDraft, Explained, SInv, TypeOK
<1> QED BY <1>6, <1>7, <1>8

LEMMA SPublishMany ==
    ASSUME SInv, NEW s \in Scope, NEW members \in SUBSET Entry,
           NEW target \in [members -> Rev], NEW ed, NEW ep,
           PublishMany(s, members, target, ed, ep)
    PROVE  RowsValid' /\ ExportsOK' /\ Explained'
<1>1. TypeOK
  BY DEF SInv, IInv
<1>2. \A x \in Entry : audit'[x] = IF x \in members THEN Audited(s, x, "published", target[x])
                                                    ELSE audit[x]
  BY DEF PublishMany
<1>3. rev' = rev /\ \A x \in Entry : Revs(x)' = Revs(x)
  BY DEF PublishMany, Revs
<1>4. RowsValid'
  <2>1. ASSUME NEW x \in members
        PROVE  \A i \in DOMAIN Audited(s, x, "published", target[x]) :
                  Audited(s, x, "published", target[x])[i].rev \in Revs(x)
    <3>1. target[x] \in Revs(x) /\ x \in Entry /\ target[x] \in Rev
      BY DEF PublishMany, IsTarget
    <3> QED BY <1>1, <3>1, AuditedRevs DEF Action, SInv, RowsValid
  <2> QED BY <1>2, <1>3, <2>1 DEF RowsValid, RowsOK, SInv
<1>5. ExportsOK'
  <2>1. \A x \in members : /\ Len(audit'[x]) \in Nat /\ Len(audit'[x]) >= Len(audit[x])
                           /\ \A i \in 1..Len(audit[x]) : audit'[x][i] = audit[x][i]
    BY <1>1, <1>2, AuditedLog DEF Action
  <2>2. Overtaken(members, "written") /\ UNCHANGED exportVars /\ torn' = torn
    BY DEF PublishMany
  <2> QED BY <1>2, <1>3, <2>1, <2>2, ExportBeside DEF SInv, ExportsOK, Shape
<1>6. Explained'
  <2>1. ASSUME NEW x \in members, x \notin torn
        PROVE  Shows(audit'[x], Len(audit'[x]), draft[x], target[x])
    <3>1. Shows(audit[x], Len(audit[x]), draft[x], published[x])
      BY <2>1 DEF SInv, Explained
    <3> QED BY <1>1, <1>2, <3>1, AuditedShows DEF Action
  <2> QED BY <1>2, <2>1 DEF PublishMany, Explained, SInv
<1> QED BY <1>4, <1>5, <1>6

LEMMA SPublish ==
    ASSUME SInv, NEW s \in Scope, NEW e \in Entry, NEW expected \in Rev,
           Publish(s, e, expected)
    PROVE  RowsValid' /\ ExportsOK' /\ Explained'
<1>1. TypeOK /\ IInv
  BY DEF SInv, IInv
<1>2. \A x \in Entry : audit'[x] = IF x = e THEN Audited(s, e, "published", expected)
                                            ELSE audit[x]
  BY <1>1 DEF Publish, TypeOK
<1>3. rev' = rev /\ \A x \in Entry : Revs(x)' = Revs(x)
  BY DEF Publish, Revs
<1>4. expected \in Revs(e)
  BY <1>1, NoneAssumption DEF Publish, DraftIs, IInv, PointersValid
<1>5. RowsValid'
  <2>1. \A i \in DOMAIN Audited(s, e, "published", expected) :
          Audited(s, e, "published", expected)[i].rev \in Revs(e)
    BY <1>1, <1>4, AuditedRevs DEF Action, SInv, RowsValid
  <2> QED BY <1>2, <1>3, <2>1 DEF RowsValid, RowsOK, SInv
<1>6. ExportsOK'
  <2>1. \A x \in {e} : /\ Len(audit'[x]) \in Nat /\ Len(audit'[x]) >= Len(audit[x])
                       /\ \A i \in 1..Len(audit[x]) : audit'[x][i] = audit[x][i]
    BY <1>1, <1>2, AuditedLog DEF Action
  <2>2. Overtaken({e}, "written") /\ UNCHANGED exportVars /\ torn' = torn
    BY DEF Publish
  <2> QED BY <1>2, <1>3, <2>1, <2>2, ExportBeside DEF SInv, ExportsOK, Shape
<1>7. Explained'
  <2>1. e \notin torn => Shows(audit[e], Len(audit[e]), draft[e], published[e])
    BY DEF SInv, Explained
  <2>2. e \notin torn => Shows(audit'[e], Len(audit'[e]), draft[e], expected)
    BY <1>1, <1>2, <2>1, AuditedShows DEF Action
  <2> QED BY <1>1, <1>2, <2>2 DEF Publish, Explained, SInv, TypeOK
<1> QED BY <1>5, <1>6, <1>7

LEMMA SDeleteEntry ==
    ASSUME SInv, NEW s \in Scope, NEW e \in Entry, DeleteEntry(s, e)
    PROVE  RowsValid' /\ ExportsOK' /\ Explained'
<1>1. TypeOK
  BY DEF SInv, IInv
<1>2. \A x \in Entry : Revs(x)' = IF x = e THEN {} ELSE Revs(x)
  BY <1>1, NoneAssumption DEF DeleteEntry, Revs, NoRow, TypeOK
<1>3. \A x \in Entry \ {e} : \A y \in Revs(x) : rev'[y] = rev[y]
  BY DEF DeleteEntry, Revs
<1>4. \A x \in Entry : audit'[x] = IF x = e THEN <<>> ELSE audit[x]
  BY <1>1 DEF DeleteEntry, TypeOK
<1>5. RowsValid'
  BY <1>2, <1>3, <1>4 DEF RowsValid, RowsOK, SInv
<1>6. ExportsOK'
  <2>1. /\ Overtaken({e}, "replaced") /\ UNCHANGED exportVars
        /\ adapter = "sqlite" => torn' = {}
    BY DEF DeleteEntry, SInv, ExportsOK, Shape
  <2> QED BY <1>2, <1>4, <2>1, ExportBeside
<1>7. Explained'
  <2>1. Shows(<<>>, 0, None, None)
    BY DEF Shows, IsLast
  <2> QED BY <1>1, <1>4, <2>1 DEF DeleteEntry, Explained, SInv, TypeOK
<1> QED BY <1>5, <1>6, <1>7

\* What reading adds to an archive, and what it leaves
LEMMA Reading ==
    ASSUME NEW content \in Archive, NEW es \in SUBSET Entry
    PROVE  LET b == WithRevisions(content, es)
               a == WithAudit(content, es)
           IN  /\ b.members = content.members /\ b.draft = content.draft
               /\ b.published = content.published /\ b.audit = content.audit
               /\ b.meanwhile = content.meanwhile
               /\ \A r \in Rev : b.rev[r] = IF rev[r].entry \in es THEN rev[r]
                                            ELSE content.rev[r]
               /\ a.members = content.members /\ a.draft = content.draft
               /\ a.published = content.published /\ a.rev = content.rev
               /\ a.meanwhile = content.meanwhile
               /\ \A e \in Entry : a.audit[e] = IF e \in es THEN PortableEvents(e)
                                                ELSE content.audit[e]
BY DEF WithRevisions, WithAudit, Archive

\* The archive of the synchronous export is the scope as it is.
LEMMA AtOnce ==
    ASSUME SInv, NEW s \in Scope, NEW a,
           a = WithAudit(WithRevisions(Pointers(s), Listed(s)), Listed(s))
    PROVE  /\ a.members = Listed(s) /\ a.meanwhile = Untouched
           /\ \A e \in Listed(s) : /\ a.draft[e] = draft[e] /\ a.published[e] = published[e]
                                   /\ a.audit[e] = PortableEvents(e)
                                   /\ ArchivedRevs(a, e) = Revs(e)
                                   /\ \A r \in Revs(e) : a.rev[r] = rev[r]
<1>1. TypeOK /\ Pointers(s) \in Archive
  BY PointersType DEF SInv, IInv
<1>2. /\ Pointers(s).members = Listed(s) /\ Pointers(s).meanwhile = Untouched
      /\ \A e \in Listed(s) : /\ Pointers(s).draft[e] = draft[e]
                              /\ Pointers(s).published[e] = published[e]
      /\ \A r \in Rev : Pointers(s).rev[r] = NoRow
  BY DEF Pointers, EmptyArchive, Listed
<1> DEFINE b == WithRevisions(Pointers(s), Listed(s))
<1>3. /\ b.members = Pointers(s).members /\ b.draft = Pointers(s).draft
      /\ b.published = Pointers(s).published /\ b \in Archive
      /\ b.meanwhile = Pointers(s).meanwhile
      /\ \A r \in Rev : b.rev[r] = IF rev[r].entry \in Listed(s) THEN rev[r]
                                   ELSE Pointers(s).rev[r]
  <2>1. Listed(s) \in SUBSET Entry
    BY DEF Listed
  <2> QED BY <1>1, <2>1, WithRevisionsType, Reading
<1> HIDE DEF b
<1>4. /\ a.members = b.members /\ a.draft = b.draft /\ a.published = b.published
      /\ a.rev = b.rev /\ a.meanwhile = b.meanwhile
      /\ \A e \in Listed(s) : a.audit[e] = PortableEvents(e)
  <2>1. Listed(s) \in SUBSET Entry /\ a = WithAudit(b, Listed(s))
    BY DEF Listed, b
  <2> QED BY <1>3, <2>1, Reading
<1>5. \A r \in Rev : a.rev[r] = IF rev[r].entry \in Listed(s) THEN rev[r] ELSE NoRow
  BY <1>2, <1>3, <1>4
<1>6. \A e \in Listed(s) : ArchivedRevs(a, e) = Revs(e)
  BY <1>5, NoneAssumption DEF ArchivedRevs, Revs, Listed, NoRow
<1>7. \A e \in Listed(s) : \A r \in Revs(e) : a.rev[r] = rev[r]
  BY <1>5 DEF Revs
<1> QED BY <1>2, <1>3, <1>4, <1>6, <1>7

LEMMA PortableSame ==
    ASSUME SInv, NEW e \in Entry
    PROVE  /\ Len(PortableEvents(e)) = Len(audit[e]) /\ Len(audit[e]) \in Nat
           /\ DOMAIN audit[e] = 1..Len(audit[e])
           /\ \A i \in 1..Len(audit[e]) : /\ PortableEvents(e)[i].action = audit[e][i].action
                                          /\ PortableEvents(e)[i].rev = audit[e][i].rev
                                          /\ PortableEvents(e)[i].seq = i
<1>1. audit[e] \in Seq(AuditEntry)
  BY DEF SInv, IInv, TypeOK
<1>2. PortableEvents(e) = [i \in 1..Len(audit[e]) |-> Fields(audit[e][i])]
  BY <1>1 DEF PortableEvents
<1>3. \A i \in 1..Len(audit[e]) : audit[e][i].seq = i
  BY <1>1 DEF SInv, IInv, AuditChained, Verified
<1>4. Len(audit[e]) \in Nat /\ DOMAIN audit[e] = 1..Len(audit[e])
  BY <1>1
<1>5. Len(PortableEvents(e)) = Len(audit[e])
  BY <1>2, <1>4
<1> QED BY <1>2, <1>3, <1>4, <1>5 DEF Fields

\* As an entry that is not torn stands, all of its log supports its pointers.
LEMMA Standing ==
    ASSUME SInv, NEW e \in Entry \ torn, home[e] # None
    PROVE  /\ Len(audit[e]) \in 0..Len(audit[e])
           /\ Supports(Revs(e), audit[e], Len(audit[e]), draft[e], published[e])
<1>1. Len(audit[e]) \in Nat /\ DOMAIN audit[e] = 1..Len(audit[e])
  BY PortableSame
<1>2. draft[e] \in Revs(e) /\ published[e] \in Revs(e) \cup {None}
  BY DEF SInv, IInv, PointersValid
<1>3. \A i \in 1..Len(audit[e]) : audit[e][i].rev \in Revs(e)
  BY <1>1 DEF SInv, RowsValid
<1> QED BY <1>1, <1>2, <1>3 DEF Supports, SInv, Explained

LEMMA SExportAtOnce ==
    ASSUME SInv, NEW s \in Scope, ExportAtOnce(s)
    PROVE  ExportsOK'
<1>1. PICK a : a = WithAudit(WithRevisions(Pointers(s), Listed(s)), Listed(s))
  OBVIOUS
<1>2. /\ archive' = a /\ adapter = "sqlite" /\ adapter' = adapter
      /\ building' = building /\ meanwhile' = meanwhile /\ torn' = torn
      /\ audit' = audit /\ rev' = rev
  BY <1>1 DEF ExportAtOnce, storeVars
<1>3. /\ a.members = Listed(s) /\ a.meanwhile = Untouched
      /\ \A e \in Listed(s) : /\ a.draft[e] = draft[e] /\ a.published[e] = published[e]
                              /\ a.audit[e] = PortableEvents(e)
                              /\ ArchivedRevs(a, e) = Revs(e)
                              /\ \A r \in Revs(e) : a.rev[r] = rev[r]
  BY <1>1, AtOnce
<1>4. building = Idle /\ torn = {} /\ Unread = {} /\ Unfetched = {}
  BY <1>2 DEF SInv, ExportsOK, Shape, Idle, Unread, Unfetched
<1>5. ASSUME NEW e \in Listed(s)
      PROVE  Recorded(a, e, "untouched")
  <2>1. e \in Entry \ torn /\ home[e] # None
    BY <1>4, <1>5, NoneAssumption DEF Listed
  <2> DEFINE n == Len(audit[e])
  <2>2. /\ n \in 0..Len(a.audit[e]) /\ n = Len(a.audit[e])
        /\ Supports(Revs(e), audit[e], n, draft[e], published[e])
    BY <1>3, <1>5, <2>1, Standing, PortableSame
  <2>3. \A i \in 1..n : /\ a.audit[e][i].action = audit[e][i].action
                        /\ a.audit[e][i].rev = audit[e][i].rev /\ a.audit[e][i].seq = i
    BY <1>3, <1>5, <2>1, PortableSame
  <2>4. RowsOK(a.rev, Revs(e))
    BY <1>3, <1>5, <2>1 DEF SInv, RowsValid, RowsOK
  <2> HIDE DEF n
  <2>5. Supports(ArchivedRevs(a, e), a.audit[e], n, a.draft[e], a.published[e])
    BY <1>3, <1>5, <2>2, <2>3, SameEvents DEF Supports
  <2>6. CutAt(a, e, n)
    BY <1>3, <1>5, <2>3, <2>4, <2>5 DEF CutAt
  <2> QED BY <2>2, <2>6 DEF Recorded
<1>6. ArchiveOK'
  <2>1. \A e \in Listed(s) : a.meanwhile[e] = "untouched"
    BY <1>3 DEF Untouched, Listed
  <2>2. \A e \in a.members : Recorded(a, e, a.meanwhile[e])
    BY <1>3, <1>5, <2>1
  <2> QED BY <1>2, <2>2 DEF ArchiveOK, Recorded, CutAt, ArchivedRevs
<1>7. Unread' = {} /\ Unfetched' = {}
  BY <1>2, <1>4 DEF Unread, Unfetched
<1>8. PendingOK' /\ DoneOK'
  BY <1>2, <1>4, <1>7 DEF PendingOK, DoneOK, Idle, EmptyArchive
<1>9. Shape'
  BY <1>2, <1>3, <1>4, <1>7 DEF Shape, SInv, ExportsOK
<1> QED BY <1>6, <1>8, <1>9 DEF ExportsOK

LEMMA SExportList ==
    ASSUME SInv, NEW s \in Scope, ExportList(s)
    PROVE  ExportsOK'
<1> DEFINE c == Pointers(s)
<1>1. /\ building' = [step |-> "next", todo |-> Listed(s), current |-> None, content |-> c]
      /\ meanwhile' = [e \in Entry |-> IF e \in torn THEN "replaced" ELSE "untouched"]
      /\ archive' = archive /\ adapter' = adapter /\ adapter = "postgres"
      /\ audit' = audit /\ rev' = rev
  BY DEF ExportList, storeVars
<1>2. /\ c.members = Listed(s)
      /\ \A e \in Listed(s) : c.draft[e] = draft[e] /\ c.published[e] = published[e]
      /\ \A r \in Rev : c.rev[r] = NoRow
  BY DEF Pointers, EmptyArchive, Listed
<1> HIDE DEF c
<1>3. Listed(s) \subseteq Entry /\ \A e \in Listed(s) : home[e] # None
  BY NoneAssumption DEF Listed
<1>4. Unread' = Listed(s) /\ Unfetched' = Listed(s) /\ building'.content = c
  BY <1>1, <1>3, NoneAssumption DEF Unread, Unfetched
<1>5. Shape'
  <2>1. \A e \in Listed(s) : ArchivedRevs(c, e) = {}
    BY <1>2, <1>3, NoneAssumption DEF ArchivedRevs, NoRow
  <2> QED BY <1>1, <1>3, <1>4, <2>1, NoneAssumption DEF Shape, ArchivedRevs
<1>6. PendingOK'
  <2> SUFFICES ASSUME NEW e \in Listed(s), meanwhile'[e] # "replaced"
               PROVE  Pending(e)'
    BY <1>1, <1>4 DEF PendingOK
  <2>1. e \in Entry \ torn /\ home[e] # None
    BY <1>1, <1>3
  <2>2. /\ Len(audit[e]) \in 0..Len(audit[e])
        /\ Supports(Revs(e), audit[e], Len(audit[e]), c.draft[e], c.published[e])
    BY <1>2, <2>1, Standing
  <2>3. Known(e)' = Revs(e)
    BY <1>1 DEF Known, Revs
  <2> QED BY <1>1, <1>4, <2>2, <2>3 DEF Pending
<1>7. DoneOK'
  BY <1>2, <1>4 DEF DoneOK
<1>8. ArchiveOK'
  BY <1>1 DEF SInv, ExportsOK, ArchiveOK, Recorded, CutAt, ArchivedRevs
<1> QED BY <1>5, <1>6, <1>7, <1>8 DEF ExportsOK

LEMMA SExportGroup ==
    ASSUME SInv, NEW e \in Entry, ExportGroup(e)
    PROVE  ExportsOK'
<1>1. /\ building.step = "next" /\ e \in building.todo
      /\ archive' = archive /\ adapter' = adapter /\ torn' = torn
      /\ audit' = audit /\ rev' = rev
  BY DEF ExportGroup, storeVars
<1>2. ArchiveOK'
  BY <1>1 DEF SInv, ExportsOK, ArchiveOK, Recorded, CutAt, ArchivedRevs
<1>3. building.current = None /\ adapter # "sqlite"
  BY <1>1 DEF SInv, ExportsOK, Shape, Idle
<1>4. CASE home[e] = None
  <2>1. building' = Idle /\ meanwhile' = Untouched
    BY <1>4 DEF ExportGroup
  <2>2. Unread' = {} /\ Unfetched' = {}
    BY <2>1 DEF Unread, Unfetched, Idle
  <2>3. Shape'
    BY <1>1, <1>3, <2>1, <2>2 DEF Shape, Idle
  <2>4. PendingOK' /\ DoneOK'
    BY <2>1, <2>2 DEF PendingOK, DoneOK, Idle, EmptyArchive
  <2> QED BY <1>2, <2>3, <2>4 DEF ExportsOK
<1>5. CASE home[e] # None
  <2>1. /\ building'.step = "revisions" /\ building'.current = e
        /\ building'.todo = building.todo \ {e} /\ building'.content = building.content
        /\ meanwhile' = meanwhile
    BY <1>5 DEF ExportGroup, SInv, IInv, TypeOK, Building
  <2>2. Unread' = Unread /\ Unfetched' = building.todo /\ Unfetched = building.todo
    BY <1>1, <1>3, <2>1, NoneAssumption DEF Unread, Unfetched
  <2>3. Shape'
    BY <1>1, <1>3, <2>1, <2>2, NoneAssumption
       DEF Shape, SInv, ExportsOK, ArchivedRevs
  <2>4. \A x \in Unread : Known(x)' = Known(x)
    BY <1>1, <2>1 DEF Known, Revs
  <2>5. PendingOK'
    BY <1>1, <2>1, <2>2, <2>4 DEF PendingOK, Pending, SInv, ExportsOK
  <2>6. DoneOK'
    BY SMTT(20), <2>1, <2>2 DEF DoneOK, Recorded, CutAt, ArchivedRevs, SInv, ExportsOK
  <2> QED BY <1>2, <2>3, <2>5, <2>6 DEF ExportsOK
<1> QED BY <1>4, <1>5

LEMMA SExportRevisions ==
    ASSUME SInv, ExportRevisions
    PROVE  ExportsOK'
<1> DEFINE e == building.current
           c == building.content
           d == WithRevisions(c, {e})
<1>1. /\ building.step = "revisions" /\ archive' = archive /\ adapter' = adapter
      /\ torn' = torn /\ audit' = audit /\ rev' = rev /\ meanwhile' = meanwhile
  BY DEF ExportRevisions, storeVars
<1>2. /\ e \in Entry /\ e \notin building.todo /\ adapter # "sqlite"
      /\ c \in Archive /\ building.todo \subseteq Entry
  BY <1>1 DEF SInv, IInv, ExportsOK, Shape, TypeOK, Building, Idle
<1>3. /\ building'.step = "audit" /\ building'.current = e
      /\ building'.todo = building.todo /\ building'.content = d
  BY DEF ExportRevisions, SInv, IInv, TypeOK, Building
<1>4. /\ d.members = c.members /\ d.draft = c.draft /\ d.published = c.published
      /\ d.audit = c.audit
      /\ \A r \in Rev : d.rev[r] = IF rev[r].entry = e THEN rev[r] ELSE c.rev[r]
  <2>1. {e} \in SUBSET Entry
    BY <1>2
  <2> QED BY <1>2, <2>1, Reading
<1>5. ArchivedRevs(c, e) = {}
  BY <1>1 DEF SInv, ExportsOK, Shape, Unfetched
<1>6. ASSUME NEW r \in Rev, rev[r].entry = e
      PROVE  c.rev[r].entry \in {e, None}
  BY <1>2, <1>6, NoneAssumption
     DEF SInv, IInv, RevisionsImmutable, ArchivesAsMinted, AsMinted
<1> HIDE DEF c, d, e
<1>7. ArchivedRevs(d, e) = Revs(e) /\ \A r \in Revs(e) : d.rev[r] = rev[r]
  BY <1>2, <1>4, <1>5, NoneAssumption DEF ArchivedRevs, Revs
<1>8. ASSUME NEW x \in Entry \ {e}
      PROVE  /\ ArchivedRevs(d, x) = ArchivedRevs(c, x)
             /\ \A r \in ArchivedRevs(c, x) : d.rev[r] = c.rev[r]
  BY <1>4, <1>6, <1>8, NoneAssumption DEF ArchivedRevs
<1>9. /\ Unread' = Unread /\ Unfetched' = building.todo
      /\ building.todo \subseteq Unfetched /\ e \in Unread
  BY <1>1, <1>2, <1>3, NoneAssumption DEF Unread, Unfetched, e
<1>10. Shape'
  <2>1. \A x \in building.todo : ArchivedRevs(d, x) = {}
    BY <1>2, <1>8, <1>9 DEF SInv, ExportsOK, Shape, c
  <2> QED BY <1>1, <1>2, <1>3, <1>9, <2>1, NoneAssumption DEF Shape, ArchivedRevs
<1>11. PendingOK'
  <2>1. \A x \in Unread : Known(x)' = Revs(x) /\ Known(x) = Revs(x)
    BY <1>1, <1>3, <1>7 DEF Known, Revs, ArchivedRevs
  <2>2. \A x \in Unread : Pending(x) => Pending(x)'
    BY <1>1, <1>3, <1>4, <2>1 DEF Pending, c
  <2>3. RowsOK(d.rev, ArchivedRevs(d, e))
    BY <1>2, <1>7 DEF SInv, RowsValid, RowsOK
  <2> QED BY <1>1, <1>3, <1>9, <2>2, <2>3
          DEF PendingOK, SInv, ExportsOK, RowsOK, ArchivedRevs
<1>12. DoneOK'
  <2> SUFFICES ASSUME NEW x \in c.members \ Unread
               PROVE  Recorded(d, x, meanwhile[x])
    BY <1>1, <1>3, <1>4, <1>9 DEF DoneOK, Recorded, CutAt, ArchivedRevs
  <2>1. Recorded(c, x, meanwhile[x])
    BY DEF SInv, ExportsOK, DoneOK, c
  <2>2. x \in Entry \ {e}
    BY <1>2, <1>9 DEF Archive
  <2>3. RowsOK(c.rev, ArchivedRevs(c, x)) => RowsOK(d.rev, ArchivedRevs(d, x))
    BY <1>8, <2>2 DEF RowsOK
  <2> QED BY <1>4, <1>8, <2>1, <2>2, <2>3 DEF Recorded, CutAt
<1>13. ArchiveOK'
  BY <1>1 DEF SInv, ExportsOK, ArchiveOK, Recorded, CutAt, ArchivedRevs
<1> QED BY <1>10, <1>11, <1>12, <1>13 DEF ExportsOK

LEMMA SExportAudit ==
    ASSUME SInv, ExportAudit
    PROVE  ExportsOK'
<1> DEFINE e == building.current
           c == building.content
           d == WithAudit(c, {e})
<1>1. /\ building.step = "audit" /\ archive' = archive /\ adapter' = adapter
      /\ torn' = torn /\ audit' = audit /\ rev' = rev /\ meanwhile' = meanwhile
  BY DEF ExportAudit, storeVars
<1>2. /\ e \in Entry /\ e \notin building.todo /\ adapter # "sqlite"
      /\ c \in Archive /\ building.todo \subseteq Entry
  BY <1>1 DEF SInv, IInv, ExportsOK, Shape, TypeOK, Building, Idle
<1>3. /\ building'.step = "next" /\ building'.current = None
      /\ building'.todo = building.todo /\ building'.content = d
  BY DEF ExportAudit, SInv, IInv, TypeOK, Building
<1>4. /\ d.members = c.members /\ d.draft = c.draft /\ d.published = c.published
      /\ d.rev = c.rev
      /\ \A x \in Entry : d.audit[x] = IF x = e THEN PortableEvents(e) ELSE c.audit[x]
  <2>1. {e} \in SUBSET Entry
    BY <1>2
  <2> QED BY <1>2, <2>1, Reading
<1> HIDE DEF c, d, e
<1>5. /\ Unread = building.todo \cup {e} /\ Unread' = building.todo
      /\ Unfetched = building.todo /\ Unfetched' = building.todo
  BY <1>1, <1>2, <1>3, NoneAssumption DEF Unread, Unfetched, e
<1>6. \A x : ArchivedRevs(d, x) = ArchivedRevs(c, x)
  BY <1>4 DEF ArchivedRevs
<1>7. Shape'
  BY <1>1, <1>2, <1>3, <1>4, <1>5, NoneAssumption
     DEF Shape, SInv, ExportsOK, ArchivedRevs, c
<1>8. PendingOK'
  <2>1. \A x \in building.todo : Known(x)' = Known(x)
    BY <1>1, <1>2, <1>3 DEF Known, Revs, e
  <2> QED BY <1>1, <1>3, <1>4, <1>5, <2>1 DEF PendingOK, Pending, SInv, ExportsOK, c
<1>9. ASSUME meanwhile[e] # "replaced"
      PROVE  Recorded(d, e, meanwhile[e])
  <2>1. PICK n \in 0..Len(audit[e]) :
          /\ Supports(Known(e), audit[e], n, c.draft[e], c.published[e])
          /\ meanwhile[e] = "untouched" => n = Len(audit[e])
    BY <1>5, <1>9 DEF SInv, ExportsOK, PendingOK, Pending, c
  <2>2. Known(e) = ArchivedRevs(c, e) /\ RowsOK(c.rev, ArchivedRevs(c, e))
    BY <1>1, <1>5, <1>9 DEF SInv, ExportsOK, PendingOK, Known, c, e
  <2>3. /\ d.audit[e] = PortableEvents(e) /\ Len(d.audit[e]) = Len(audit[e])
        /\ Len(audit[e]) \in Nat
        /\ \A i \in 1..Len(audit[e]) : /\ d.audit[e][i].action = audit[e][i].action
                                        /\ d.audit[e][i].rev = audit[e][i].rev
                                        /\ d.audit[e][i].seq = i
    BY <1>2, <1>4, PortableSame
  <2>4. \A i \in 1..n : i \in 1..Len(audit[e])
    BY <2>1, <2>3
  <2>5. Supports(ArchivedRevs(d, e), d.audit[e], n, d.draft[e], d.published[e])
    BY <1>4, <1>6, <2>1, <2>2, <2>3, <2>4, SameEvents DEF Supports
  <2>6. CutAt(d, e, n)
    BY <1>4, <1>6, <2>2, <2>3, <2>4, <2>5 DEF CutAt
  <2> QED BY <2>1, <2>3, <2>6 DEF Recorded
<1>10. DoneOK'
  <2> SUFFICES ASSUME NEW x \in c.members \ building.todo
               PROVE  Recorded(d, x, meanwhile[x])
    BY <1>1, <1>3, <1>4, <1>5 DEF DoneOK, Recorded, CutAt, ArchivedRevs
  <2>1. CASE x = e
    BY <1>9, <2>1 DEF Recorded
  <2>2. CASE x # e
    <3>1. Recorded(c, x, meanwhile[x])
      BY <1>5, <2>2 DEF SInv, ExportsOK, DoneOK, c
    <3>2. x \in Entry
      BY <1>2 DEF Archive
    <3> QED BY <1>4, <1>6, <2>2, <3>1, <3>2 DEF Recorded, CutAt
  <2> QED BY <2>1, <2>2
<1>11. ArchiveOK'
  BY <1>1 DEF SInv, ExportsOK, ArchiveOK, Recorded, CutAt, ArchivedRevs
<1> QED BY <1>7, <1>8, <1>10, <1>11 DEF ExportsOK

LEMMA SExportDone ==
    ASSUME SInv, ExportDone
    PROVE  ExportsOK'
<1> DEFINE c == building.content
           d == [c EXCEPT !.meanwhile = meanwhile]
<1>1. /\ building.step = "next" /\ building.todo = {} /\ archive' = d
      /\ building' = Idle /\ meanwhile' = Untouched /\ adapter' = adapter
  BY DEF ExportDone
<1>2. building.current = None /\ adapter # "sqlite" /\ c \in Archive
  BY <1>1 DEF SInv, IInv, ExportsOK, Shape, TypeOK, Building, Idle
<1>3. /\ d.members = c.members /\ d.draft = c.draft /\ d.published = c.published
      /\ d.rev = c.rev /\ d.audit = c.audit /\ d.meanwhile = meanwhile
  BY <1>2 DEF Archive
<1>4. Unread = {} /\ Unread' = {} /\ Unfetched' = {}
  BY <1>1, <1>2 DEF Unread, Unfetched, Idle
<1> HIDE DEF c, d
<1>5. ArchiveOK'
  <2>1. \A e \in c.members : Recorded(c, e, meanwhile[e])
    BY <1>4 DEF SInv, ExportsOK, DoneOK, c
  <2>2. \A e \in d.members : Recorded(d, e, d.meanwhile[e])
    BY <1>3, <2>1 DEF Recorded, CutAt, ArchivedRevs
  <2> QED BY <1>1, <2>2 DEF ArchiveOK, Recorded, CutAt, ArchivedRevs
<1>6. PendingOK' /\ DoneOK'
  BY <1>1, <1>4 DEF PendingOK, DoneOK, Idle, EmptyArchive
<1>7. Shape'
  BY <1>1, <1>2, <1>4 DEF Shape, Idle
<1> QED BY <1>5, <1>6, <1>7 DEF ExportsOK

LEMMA SExport ==
    ASSUME SInv, Export
    PROVE  RowsValid' /\ ExportsOK' /\ Explained'
<1>1. UNCHANGED <<storeVars, torn>>
  BY DEF Export, ExportAtOnce, ExportList, ExportGroup, ExportRevisions, ExportAudit,
         ExportDone
<1>2. RowsValid' /\ Explained'
  BY <1>1 DEF storeVars, SInv, RowsValid, Revs, Explained
<1>3. ExportsOK'
  BY SExportAtOnce, SExportList, SExportGroup, SExportRevisions, SExportAudit,
     SExportDone DEF Export
<1> QED BY <1>2, <1>3

LEMMA SImport ==
    ASSUME SInv, NEW s \in Scope, NEW policy \in Policy, Import(s, policy)
    PROVE  RowsValid' /\ ExportsOK' /\ Explained'
<1>1. TypeOK
  BY DEF SInv, IInv
<1>2. PICK selected \in SUBSET Entry :
        selected \subseteq archive.members /\ ImportRecords(s, archive, selected)
  BY <1>1 DEF Import, TypeOK, Archive
<1>3. \A e \in selected : ValidRecord(archive, e)
  BY <1>2 DEF Import, ValidArchive
<1>4. \A e \in selected : Revs(e)' = ArchivedRevs(archive, e)
  BY <1>1, <1>2, NoneAssumption DEF ImportRecords, Revs, ArchivedRevs, NoRow, TypeOK
<1>5. \A e \in Entry \ selected : Revs(e)' = Revs(e)
  BY <1>1, <1>2, NoneAssumption DEF ImportRecords, Revs, NoRow, TypeOK
<1>6. \A e \in selected : \A r \in Revs(e)' : rev'[r] = archive.rev[r]
  BY <1>2, <1>4 DEF ImportRecords, ArchivedRevs
<1>7. \A e \in Entry \ selected : \A r \in Revs(e)' : rev'[r] = rev[r]
  <2>1. ASSUME NEW e \in Entry \ selected, NEW r \in Revs(e)
        PROVE  rev'[r] = rev[r]
    <3>1. r \in Rev /\ rev[r].entry \notin selected \cup {None}
      BY <2>1, NoneAssumption DEF Revs
    <3> QED BY <1>2, <3>1 DEF ImportRecords
  <2> QED BY <1>5, <2>1
<1>8. ASSUME NEW e \in selected
      PROVE  /\ Len(audit'[e]) = Len(archive.audit[e])
             /\ DOMAIN archive.audit[e] = 1..Len(archive.audit[e])
             /\ DOMAIN audit'[e] = DOMAIN archive.audit[e]
             /\ \A i \in DOMAIN archive.audit[e] :
                  /\ audit'[e][i].action = archive.audit[e][i].action
                  /\ audit'[e][i].rev = archive.audit[e][i].rev
             /\ draft'[e] = archive.draft[e] /\ published'[e] = archive.published[e]
  <2>1. archive.audit[e] \in Seq(Event) /\ e \in Entry
    BY <1>1, <1>8 DEF TypeOK, Archive
  <2>2. audit'[e] = ImportedLog(s, e, archive.audit[e])
    BY <1>2, <1>8 DEF ImportRecords
  <2>3. audit'[e] = [i \in 1..Len(archive.audit[e]) |-> ImportedRow(s, e, archive.audit[e], i)]
    BY <2>1, <2>2 DEF ImportedLog
  <2>4. DOMAIN archive.audit[e] = 1..Len(archive.audit[e]) /\ Len(archive.audit[e]) \in Nat
    BY <2>1
  <2>5. Len(audit'[e]) = Len(archive.audit[e]) /\ DOMAIN audit'[e] = DOMAIN archive.audit[e]
    BY <2>3, <2>4
  <2>6. draft'[e] = archive.draft[e] /\ published'[e] = archive.published[e]
    BY <1>2, <1>8 DEF ImportRecords
  <2> QED BY <2>3, <2>4, <2>5, <2>6 DEF ImportedRow
<1>9. ASSUME NEW e \in Entry \ selected
      PROVE  audit'[e] = audit[e] /\ draft'[e] = draft[e] /\ published'[e] = published[e]
  BY <1>2, <1>9 DEF ImportRecords
<1>10. RowsValid'
  <2>1. ASSUME NEW e \in selected
        PROVE  /\ \A r \in Revs(e)' :
                    /\ rev'[r].base \in Revs(e)' \cup {None}
                    /\ \A x \in Revs(e)' \ {r} : rev'[x].seq # rev'[r].seq
               /\ \A i \in DOMAIN audit'[e] : audit'[e][i].rev \in Revs(e)'
    BY <1>3, <1>4, <1>6, <1>8, <2>1 DEF ValidRecord
  <2>2. ASSUME NEW e \in Entry \ selected
        PROVE  /\ \A r \in Revs(e)' :
                    /\ rev'[r].base \in Revs(e)' \cup {None}
                    /\ \A x \in Revs(e)' \ {r} : rev'[x].seq # rev'[r].seq
               /\ \A i \in DOMAIN audit'[e] : audit'[e][i].rev \in Revs(e)'
    BY <1>5, <1>7, <1>9, <2>2 DEF SInv, RowsValid, RowsOK
  <2> QED BY <2>1, <2>2 DEF RowsValid, RowsOK
<1>11. ExportsOK'
  <2>1. Overtaken(selected, "replaced") /\ UNCHANGED exportVars
    BY <1>2 DEF Import, ImportRecords
  <2>2. adapter = "sqlite" => torn' = {}
    BY <1>2 DEF SInv, ExportsOK, Shape, ImportRecords, Untouched
  <2>3. \A e \in Entry \ selected : Revs(e) \subseteq Revs(e)' /\ audit'[e] = audit[e]
    BY <1>5, <1>9
  <2> QED BY <2>1, <2>2, <2>3, ExportBeside
<1>12. ASSUME NEW e \in Entry \ torn'
       PROVE  Shows(audit'[e], Len(audit'[e]), draft'[e], published'[e])
  <2>1. CASE e \in selected
    <3>1. archive.meanwhile[e] = "untouched"
      BY <1>2, <1>12, <2>1 DEF ImportRecords
    <3>2. Shows(archive.audit[e], Len(archive.audit[e]), archive.draft[e], archive.published[e])
      BY <1>2, <2>1, <3>1 DEF SInv, ExportsOK, ArchiveOK, Recorded, CutAt, Supports
    <3> QED BY <1>8, <2>1, <3>2, SameEvents
  <2>2. CASE e \notin selected
    <3>1. e \notin torn
      BY <1>2, <1>12, <2>2 DEF ImportRecords
    <3> QED BY <1>9, <2>2, <3>1 DEF SInv, Explained
  <2> QED BY <2>1, <2>2
<1> QED BY <1>10, <1>11, <1>12 DEF Explained

LEMMA SInvStep == SInv /\ [Next]_vars => SInv'
<1> SUFFICES ASSUME SInv, [Next]_vars
             PROVE  SInv'
  OBVIOUS
<1>1. IInv'
  BY IInvStep DEF SInv
<1>2. ASSUME NEW s \in Scope, PublishRelease(s) \/ RollbackRelease(s)
      PROVE  RowsValid' /\ ExportsOK' /\ Explained'
  BY <1>2, SPublishMany DEF PublishRelease, RollbackRelease
<1>3. CASE UNCHANGED vars
  <2>1. RowsValid' /\ Explained'
    BY <1>3 DEF vars, storeVars, exportVars, SInv, RowsValid, Revs, Explained
  <2>2. Overtaken({}, "written") /\ UNCHANGED exportVars
    BY <1>3 DEF vars, exportVars, Overtaken, SInv, IInv, TypeOK
  <2>3. \A e \in Entry : audit'[e] = audit[e] /\ Revs(e) \subseteq Revs(e)'
    BY <1>3 DEF vars, storeVars, Revs
  <2>4. adapter = "sqlite" => torn' = {}
    BY <1>3 DEF vars, SInv, ExportsOK, Shape
  <2> QED BY <1>1, <2>1, <2>2, <2>3, <2>4, ExportBeside DEF SInv
<1>4. CASE Next
  <2>1. RowsValid' /\ ExportsOK' /\ Explained'
    BY <1>2, <1>4, SCreate, SUpdateDraft, SPublish, SDeleteEntry, SExport, SImport DEF Next
  <2> QED BY <1>1, <2>1 DEF SInv
<1> QED BY <1>3, <1>4

\* Whoever reads the audit log of an entry (listAuditEvents) finds out what its
\* draft and its published revision are, in either adapter, after releases and
\* rollbacks, deletions, exports beside writers and imports; save for the entries
\* that were written during the very export they were last imported from.
THEOREM AuditAlwaysExplains == Spec => []AuditExplainsPointers
<1>1. ASSUME SInv PROVE AuditExplainsPointers
  <2>1. \A e \in Entry : Len(audit[e]) \in Nat /\ DOMAIN audit[e] = 1..Len(audit[e])
    BY <1>1, PortableSame
  <2> QED BY <1>1, <2>1, ShowsExplains DEF SInv, Explained, AuditExplainsPointers
<1> QED BY SInvInit, SInvStep, <1>1, PTL DEF Spec

\* A record that is valid and explained up to n events is a snapshot cut there.
LEMMA CutIsSnapshot ==
    ASSUME NEW a \in Archive, NEW e \in Entry, NEW n \in 0..Len(a.audit[e]), CutAt(a, e, n)
    PROVE  SnapshotAt(a, e, n)
<1> DEFINE log == SubSeq(a.audit[e], 1, n)
           b == [a EXCEPT !.audit[e] = log]
<1>1. a.audit[e] \in Seq(Event) /\ Len(a.audit[e]) \in Nat
  BY DEF Archive
<1>2. DOMAIN log = 1..n /\ \A i \in 1..n : log[i] = a.audit[e][i]
  BY <1>1
<1>3. /\ b.draft = a.draft /\ b.published = a.published /\ b.rev = a.rev
      /\ b.audit[e] = log
  BY DEF Archive
<1> HIDE DEF log, b
<1>4. ArchivedRevs(b, e) = ArchivedRevs(a, e)
  BY <1>3 DEF ArchivedRevs
<1>5. ValidRecord(b, e)
  BY <1>2, <1>3, <1>4 DEF ValidRecord, CutAt, RowsOK, Supports
<1>6. Shows(log, n, a.draft[e], a.published[e])
  BY <1>2, SameEvents DEF CutAt, Supports
<1>7. Explains(log, a.draft[e], a.published[e])
  BY <1>2, <1>6, ShowsExplains
<1> QED BY <1>5, <1>7 DEF SnapshotAt, b, log

\* Both exports, with any writes between the queries of the asynchronous one: the
\* record of an entry nobody wrote meanwhile is one the import accepts, with a log
\* that explains its pointers; that of an entry that was written has such a record
\* as a prefix.
THEOREM ArchivesAreSnapshots == Spec => []ArchiveIsSnapshot
<1>1. ASSUME SInv PROVE ArchiveIsSnapshot
  <2> SUFFICES ASSUME NEW e \in archive.members
               PROVE  /\ archive.meanwhile[e] = "untouched" =>
                            SnapshotAt(archive, e, Len(archive.audit[e]))
                      /\ archive.meanwhile[e] = "written" =>
                            /\ adapter = "postgres"
                            /\ \E n \in 1..Len(archive.audit[e]) : SnapshotAt(archive, e, n)
    BY DEF ArchiveIsSnapshot
  <2>1. archive \in Archive /\ e \in Entry /\ adapter \in Adapter
    BY <1>1 DEF SInv, IInv, TypeOK, Archive
  <2>2. archive.meanwhile[e] # "replaced" =>
          \E n \in 0..Len(archive.audit[e]) :
            /\ CutAt(archive, e, n) /\ SnapshotAt(archive, e, n)
            /\ archive.meanwhile[e] = "untouched" => n = Len(archive.audit[e])
    BY <1>1, <2>1, CutIsSnapshot DEF SInv, ExportsOK, ArchiveOK, Recorded
  <2>3. archive.meanwhile[e] = "written" => adapter = "postgres"
    BY <1>1, <2>1 DEF SInv, ExportsOK, Shape, Untouched, Adapter
  <2>4. ASSUME NEW n \in 0..Len(archive.audit[e]), CutAt(archive, e, n)
        PROVE  n \in 1..Len(archive.audit[e])
    <3>1. archive.draft[e] # None
      BY <2>1, <2>4, NoneAssumption DEF CutAt, Supports, ArchivedRevs
    <3>2. n # 0
      BY <2>4, <3>1 DEF CutAt, Supports, Shows, IsLast
    <3>3. Len(archive.audit[e]) \in Nat
      BY <2>1 DEF Archive
    <3> QED BY <2>4, <3>2, <3>3
  <2> QED BY <2>2, <2>3, <2>4
<1> QED BY SInvInit, SInvStep, <1>1, PTL DEF Spec

\* A step that touches entries of scope s only, and new ones, which it puts there.
InScope(s) == \A e \in Entry : Touched(e) => Owners(e) \subseteq {s}

LEMMA MintInScope ==
    ASSUME SInv, NEW s \in Scope, NEW x \in Entry, NEW r \in Rev, NEW row \in RevRow,
           rev[r].entry = None, row.entry = x, rev' = [rev EXCEPT ![r] = row],
           home[x] \in {s, None}, home'[x] = s,
           \A e \in Entry \ {x} : /\ home'[e] = home[e] /\ draft'[e] = draft[e]
                                  /\ published'[e] = published[e]
                                  /\ audit'[e] = audit[e] /\ outbox'[e] = outbox[e]
    PROVE  InScope(s)
<1>1. rev \in [Rev -> RevRow]
  BY DEF SInv, IInv, TypeOK
<1>2. \A e \in Entry : Touched(e) => e = x
  BY <1>1, NoneAssumption DEF Touched
<1> QED BY <1>2 DEF InScope, Owners

LEMMA PublishInScope ==
    ASSUME SInv, NEW s \in Scope, NEW members \in SUBSET Entry, rev' = rev, home' = home,
           draft' = draft, \A e \in members : home[e] = s,
           \A e \in Entry \ members : /\ published'[e] = published[e]
                                      /\ audit'[e] = audit[e] /\ outbox'[e] = outbox[e]
    PROVE  InScope(s)
<1>1. \A e \in Entry : Touched(e) => e \in members
  BY DEF Touched
<1> QED BY <1>1 DEF InScope, Owners

LEMMA DeleteInScope ==
    ASSUME SInv, NEW s \in Scope, NEW x \in Entry, DeleteEntry(s, x)
    PROVE  InScope(s)
<1>1. TypeOK
  BY DEF SInv, IInv
<1>2. \A e \in Entry : Touched(e) => e = x
  BY <1>1, NoneAssumption DEF Touched, DeleteEntry, Revs, NoRow, TypeOK
<1> QED BY <1>1, <1>2 DEF InScope, Owners, DeleteEntry, TypeOK

LEMMA ImportInScope ==
    ASSUME SInv, NEW s \in Scope, NEW policy \in Policy, Import(s, policy)
    PROVE  InScope(s)
<1>1. TypeOK
  BY DEF SInv, IInv
<1>2. PICK selected \in SUBSET Entry :
        selected \subseteq archive.members /\ ImportRecords(s, archive, selected)
  BY <1>1 DEF Import, TypeOK, Archive
<1>3. \A e \in Entry : Touched(e) => e \in selected
  <2>1. ASSUME NEW r \in Rev, rev[r] # rev'[r]
        PROVE  /\ rev[r].entry \in selected \cup {None}
               /\ rev'[r].entry \in selected \cup {None}
    BY <1>2, <2>1 DEF ImportRecords, NoRow
  <2>2. ASSUME NEW e \in Entry \ selected
        PROVE  /\ home'[e] = home[e] /\ draft'[e] = draft[e] /\ published'[e] = published[e]
               /\ audit'[e] = audit[e] /\ outbox'[e] = outbox[e]
    BY <1>2, <2>2 DEF ImportRecords
  <2> QED BY <2>1, <2>2, NoneAssumption DEF Touched
<1>4. \A e \in selected : home[e] \in {s, None} /\ home'[e] = s
  BY <1>2 DEF Import, ImportRecords, OwnedBy
<1> QED BY <1>3, <1>4 DEF InScope, Owners

LEMMA StepInScope ==
    ASSUME SInv, Next, ~Export
    PROVE  \E s \in Scope : InScope(s)
<1> USE DEF SInv, IInv
<1>1. ASSUME NEW s \in Scope, NEW e \in Entry, NEW r \in Rev, Create(s, e, r)
      PROVE  InScope(s)
  <2> DEFINE row == [entry |-> e, seq |-> 1, base |-> FirstBase]
  <2>1. row \in RevRow /\ row.entry = e
    BY DEF RevRow, FirstBase
  <2>2. rev' = [rev EXCEPT ![r] = row] /\ rev[r].entry = None
    BY <1>1, FreshNowhere DEF Create
  <2> HIDE DEF row
  <2>3. /\ home[e] = None /\ home'[e] = s
        /\ \A x \in Entry \ {e} : /\ home'[x] = home[x] /\ draft'[x] = draft[x]
                                  /\ published'[x] = published[x]
                                  /\ audit'[x] = audit[x] /\ outbox'[x] = outbox[x]
    BY <1>1 DEF Create, TypeOK
  <2> QED BY <2>1, <2>2, <2>3, MintInScope
<1>2. ASSUME NEW s \in Scope, NEW e \in Entry, NEW expected \in Rev, NEW r \in Rev,
             UpdateDraft(s, e, expected, r)
      PROVE  InScope(s)
  <2>1. PICK row \in RevRow : row.entry = e /\ rev' = [rev EXCEPT ![r] = row]
    <3>1. PICK top \in Revs(e) :
            rev' = [rev EXCEPT ![r] = [entry |-> e, seq |-> rev[top].seq + 1,
                                       base |-> expected]]
      BY <1>2 DEF UpdateDraft
    <3>2. [entry |-> e, seq |-> rev[top].seq + 1, base |-> expected] \in RevRow
      BY DEF TypeOK, RevRow, Revs
    <3> QED BY <3>1, <3>2
  <2>2. rev[r].entry = None
    BY <1>2, FreshNowhere DEF UpdateDraft
  <2>3. /\ home[e] = s /\ home'[e] = s
        /\ \A x \in Entry \ {e} : /\ home'[x] = home[x] /\ draft'[x] = draft[x]
                                  /\ published'[x] = published[x]
                                  /\ audit'[x] = audit[x] /\ outbox'[x] = outbox[x]
    BY <1>2 DEF UpdateDraft, TypeOK
  <2> QED BY <2>1, <2>2, <2>3, MintInScope
<1>3. ASSUME NEW s \in Scope, NEW e \in Entry, NEW expected \in Rev,
             Publish(s, e, expected)
      PROVE  InScope(s)
  <2>1. /\ rev' = rev /\ home' = home /\ draft' = draft /\ \A x \in {e} : home[x] = s
        /\ \A x \in Entry \ {e} : /\ published'[x] = published[x]
                                  /\ audit'[x] = audit[x] /\ outbox'[x] = outbox[x]
    BY <1>3 DEF Publish, TypeOK
  <2>2. {e} \in SUBSET Entry
    OBVIOUS
  <2> QED BY <2>1, <2>2, PublishInScope
<1>4. ASSUME NEW s \in Scope, NEW members \in SUBSET Entry,
             NEW target \in [members -> Rev], NEW ed, NEW ep,
             PublishMany(s, members, target, ed, ep)
      PROVE  InScope(s)
  <2>1. /\ rev' = rev /\ home' = home /\ draft' = draft /\ \A x \in members : home[x] = s
        /\ \A x \in Entry \ members : /\ published'[x] = published[x]
                                      /\ audit'[x] = audit[x] /\ outbox'[x] = outbox[x]
    BY <1>4 DEF PublishMany
  <2> QED BY <2>1, PublishInScope
<1>5. ASSUME NEW s \in Scope, PublishRelease(s) \/ RollbackRelease(s)
      PROVE  InScope(s)
  BY <1>4, <1>5 DEF PublishRelease, RollbackRelease
<1> QED BY <1>1, <1>2, <1>3, <1>5, DeleteInScope, ImportInScope DEF Next

\* Whatever rows a step writes, of entries, their pointers, revisions, logs and
\* outboxes, it writes those of one scope: a release publishes within its own, an
\* import refuses the ids and the revision keys that another scope holds
\* (importPortableContent), and nothing moves an entry between scopes.
THEOREM ScopesStayApart == Spec => ScopeIsolation
<1> DEFINE Apart == \A e, f \in Entry : Touched(e) /\ Touched(f) =>
                       \A s \in Owners(e), t \in Owners(f) : s = t
<1>1. ASSUME SInv, [Next]_vars
      PROVE  [Apart]_vars
  <2>1. CASE UNCHANGED vars
    BY <2>1
  <2>2. CASE Export
    <3>1. \A e \in Entry : ~Touched(e)
      BY <2>2 DEF Touched, Export, ExportAtOnce, ExportList, ExportGroup, ExportRevisions,
                  ExportAudit, ExportDone, storeVars
    <3> QED BY <3>1
  <2>3. CASE Next /\ ~Export
    <3>1. PICK s \in Scope : InScope(s)
      BY <1>1, <2>3, StepInScope
    <3> QED BY <3>1 DEF InScope
  <2> QED BY <1>1, <2>1, <2>2, <2>3
<1> QED BY SInvInit, SInvStep, <1>1, PTL DEF Spec, ScopeIsolation
=============================================================================
