--------------------------- MODULE PostgresStore ----------------------------
(***************************************************************************)
(* The operations of the PostgreSQL adapter on an entry, statement by      *)
(* statement.  ContentStore takes each for one step; here several          *)
(* transactions run at once under READ COMMITTED, so that each statement   *)
(* sees what was committed before it began and what its own transaction    *)
(* wrote, and only the row lock of the entry (FOR UPDATE) and the unique   *)
(* keys stand between them.  PostgreSQL itself is modelled by what the     *)
(* adapter relies on: a statement that waited for a row reads it again and *)
(* joins it with the revision it found before it waited.                   *)
(*                                                                         *)
(* A revision row, the audit rows and the outbox rows of an entry are      *)
(* written under its lock.  The one scope is that of the connection.       *)
(***************************************************************************)
EXTENDS Naturals, Sequences, FiniteSetsExt, SequencesExt

CONSTANTS
  Entry, Rev, None,
  Sessions,    \* connections of the pool
  MaxAudit     \* bound on the audit rows of all entries when a transaction starts

VARIABLES
  tables,      \* what is committed
  minted,      \* history: every revision row as it was first committed
  lock,        \* which transaction holds the row of each entry
  tx           \* the transaction of each connection

vars == <<tables, minted, lock, tx>>

Scope     == "scope"
Unchecked == "unchecked"

NoRow == [entry |-> None, seq |-> 0, base |-> None]

EmptyTables ==
  [home |-> [e \in Entry |-> None], draft |-> [e \in Entry |-> None],
   published |-> [e \in Entry |-> None], rev |-> [r \in Rev |-> NoRow],
   audit |-> [e \in Entry |-> <<>>], outbox |-> [e \in Entry |-> <<>>]]

\* Bound on the audit rows of an entry: transactions that run at the same time add theirs.
MaxLog == MaxAudit + 3

\* The repository as ContentStore has it: one step for each operation.
Store == INSTANCE ContentStore WITH
  Scope <- {Scope}, MaxExports <- 0, MaxAudit <- MaxLog,
  home <- tables.home, draft <- tables.draft, published <- tables.published,
  rev <- tables.rev, audit <- tables.audit, outbox <- tables.outbox,
  restored <- [e \in Entry |-> 0], adapter <- "postgres", archive <- None, exports <- 0,
  building <- [todo |-> {}, current |-> None],
  meanwhile <- [e \in Entry |-> "untouched"], torn <- {}

-----------------------------------------------------------------------------
(* What a transaction wrote and has not committed *)

Unwritten ==
  [row |-> [e \in Entry |-> None], rev |-> [r \in Rev |-> NoRow],
   audit |-> [e \in Entry |-> <<>>], outbox |-> [e \in Entry |-> <<>>]]

Deleted(own) == {e \in Entry : own.row[e] # None /\ own.row[e].home = None}

\* The row of an entry, as the transaction left it or as it is committed.
EntryRow(own, e) ==
  IF own.row[e] # None THEN own.row[e]
  ELSE [home |-> tables.home[e], draft |-> tables.draft[e], published |-> tables.published[e]]

\* The tables with the writes of a transaction; a deletion cascades.
Written(own) ==
  [home      |-> [e \in Entry |-> EntryRow(own, e).home],
   draft     |-> [e \in Entry |-> EntryRow(own, e).draft],
   published |-> [e \in Entry |-> EntryRow(own, e).published],
   rev |-> [r \in Rev |->
     IF own.rev[r] # NoRow THEN own.rev[r]
     ELSE IF tables.rev[r].entry \in Deleted(own) THEN NoRow ELSE tables.rev[r]],
   audit |-> [e \in Entry |->
     IF e \in Deleted(own) THEN <<>> ELSE tables.audit[e] \o own.audit[e]],
   outbox |-> [e \in Entry |->
     IF e \in Deleted(own) THEN <<>> ELSE tables.outbox[e] \o own.outbox[e]]]

Idle ==
  [step |-> "idle", kind |-> None, members |-> <<>>, todo |-> <<>>, rev |-> None,
   target |-> [e \in Entry |-> None], expectedDraft |-> [e \in Entry |-> None],
   expectedPublished |-> [e \in Entry |-> None], pinned |-> None, seq |-> 0,
   tail |-> <<>>, own |-> Unwritten]

View(s) == Written(tx[s].own)

Member(s) == Head(tx[s].todo)

Goes(s, changes) == tx' = [tx EXCEPT ![s] = changes]

Keeps == UNCHANGED <<tables, minted>>

\* COMMIT and ROLLBACK release the rows.
Released(s) == [e \in Entry |-> IF lock[e] = s THEN None ELSE lock[e]]

Rollback(s) ==
  /\ Goes(s, Idle)
  /\ lock' = Released(s)
  /\ Keeps

-----------------------------------------------------------------------------
(* Requests: what a client loaded when it made its request *)

\* randomUUID has not returned this id before, to this transaction or another.
Unused == {r \in Rev : minted[r] = NoRow /\ \A s \in Sessions : tx[s].rev # r}

Present == {e \in Entry : tables.home[e] # None}

\* Every transaction but a deletion adds to the audit rows.
Room(rows) == MapThenSumSet(LAMBDA e : Len(tables.audit[e]), Entry) < rows

Orders(es) == {<<e>> : e \in es} \cup {p \in es \X es : p[1] # p[2]}

\* What was published before: revisions older than the published one.
Earlier(e) ==
  {r \in Rev : /\ tables.published[e] # None
               /\ tables.rev[r].entry = e
               /\ tables.rev[r].seq < tables.rev[tables.published[e]].seq}

Requested(s, kind, members, request) ==
  Goes(s, [request EXCEPT
             !.kind = kind, !.members = members, !.todo = members,
             !.step = IF kind = "create" THEN "row" ELSE "lock"])

\* A request about some of the entries es, while the audit log has fewer than so many rows.
Request(s, es, rows) ==
  /\ tx[s].step = "idle"
  /\ UNCHANGED <<tables, minted, lock>>
  /\ \/ \E e \in es \ Present :
          /\ Unused # {}
          /\ Requested(s, "create", <<e>>, [Idle EXCEPT !.rev = CHOOSE r \in Unused : TRUE])
     \/ \E e \in es \cap Present : Requested(s, "delete", <<e>>, Idle)
     \/ \E e \in es \cap Present :
          /\ Unused # {}
          /\ Room(rows)
          /\ Requested(s, "update", <<e>>,
               [Idle EXCEPT !.rev = CHOOSE r \in Unused : TRUE, !.expectedDraft = tables.draft,
                            !.expectedPublished = [x \in Entry |-> Unchecked]])
     \/ \E e \in es \cap Present :
          /\ Room(rows)
          /\ Requested(s, "publish", <<e>>,
               [Idle EXCEPT !.target = tables.draft, !.expectedDraft = tables.draft,
                            !.expectedPublished = [x \in Entry |-> Unchecked]])
     \* publishRelease and rollbackRelease, in the order of the release's members
     \/ \E members \in Orders(es \cap Present) :
          /\ Room(rows)
          /\ Requested(s, "publishMany", members,
               [Idle EXCEPT !.target = tables.draft, !.expectedDraft = tables.draft,
                            !.expectedPublished = tables.published])
     \/ \E members \in Orders(es \cap Present), target \in [Entry -> Rev \cup {None}] :
          /\ Room(rows)
          /\ \A e \in Entry : IF e \in ToSet(members) THEN target[e] \in Earlier(e)
                                                    ELSE target[e] = None
          /\ Requested(s, "publishMany", members,
               [Idle EXCEPT !.target = target, !.expectedPublished = tables.published,
                            !.expectedDraft = [e \in Entry |-> Unchecked]])

-----------------------------------------------------------------------------
(* #entryRow with a lock, and the checks on what it returned *)

\* Mutant: the statement does not lock the row.
Unlocked(s, e) == lock
Locked(s, e) == [lock EXCEPT ![e] = s]

Expected(s, e) ==
  /\ tx[s].expectedDraft[e] \in {Unchecked, View(s).draft[e]}
  /\ tx[s].expectedPublished[e] \in {Unchecked, View(s).published[e]}

HasTarget(s, e) == tx[s].kind = "publishMany" => View(s).rev[tx[s].target[e]].entry = e

\* The statement that follows once all the rows are locked.
AfterLocks == [update |-> "number", publish |-> "point", publishMany |-> "point",
               delete |-> "remove"]

Returned(s, e) ==
  IF tx[s].kind = "delete" \/ (Expected(s, e) /\ HasTarget(s, e))
  THEN /\ lock' = Locked(s, e)
       /\ Goes(s, IF Len(tx[s].todo) > 1
                  THEN [tx[s] EXCEPT !.todo = Tail(@), !.step = "lock", !.pinned = None]
                  ELSE [tx[s] EXCEPT !.todo = tx[s].members, !.pinned = None,
                                     !.step = AfterLocks[tx[s].kind]])
       /\ Keeps
  ELSE Rollback(s)

Lock(s) ==
  /\ tx[s].step = "lock"
  /\ LET e == Member(s) IN
     IF tables.home[e] = None THEN Rollback(s)
     ELSE IF lock[e] \in {None, s} THEN Returned(s, e)
     ELSE /\ Goes(s, [tx[s] EXCEPT !.step = "wait", !.pinned = tables.draft[e]])
          /\ UNCHANGED <<tables, minted, lock>>

\* The row is read again.  The draft perspective joins it with the revision
\* that was the draft before: where there is a new draft, nothing is returned.
Found(s, e) ==
  /\ tables.home[e] # None
  /\ tx[s].kind # "delete" => tables.draft[e] = tx[s].pinned

Resume(s) ==
  /\ tx[s].step = "wait"
  /\ lock[Member(s)] = None
  /\ IF Found(s, Member(s)) THEN Returned(s, Member(s)) ELSE Rollback(s)

-----------------------------------------------------------------------------
(* The statements that write *)

\* INSERT INTO entries waits for a transaction that writes this id, and is
\* refused when the id exists.
Row(s) ==
  /\ tx[s].step = "row"
  /\ LET e == Member(s) IN
     /\ lock[e] = None
     /\ IF tables.home[e] # None THEN Rollback(s)
        ELSE /\ lock' = [lock EXCEPT ![e] = s]
             /\ Goes(s, [tx[s] EXCEPT !.step = "insert", !.own.row[e] =
                           [home |-> Scope, draft |-> None, published |-> None]])
             /\ Keeps

Number(s) ==
  /\ tx[s].step = "number"
  /\ LET seqs == {View(s).rev[r].seq : r \in {x \in Rev : View(s).rev[x].entry = Member(s)}} IN
     Goes(s, [tx[s] EXCEPT !.step = "insert",
                !.seq = CHOOSE n \in seqs \cup {0} : \A m \in seqs : m <= n])
  /\ UNCHANGED <<tables, minted, lock>>

\* UNIQUE (entry_id, sequence): waits for one that is not committed.
Insert(s) ==
  /\ tx[s].step = "insert"
  /\ LET e == Member(s)
         taken(rows) == \E r \in Rev : rows[r].entry = e /\ rows[r].seq = tx[s].seq + 1
         base == IF tx[s].kind = "create" THEN None ELSE tx[s].expectedDraft[e]
     IN
     /\ \A other \in Sessions \ {s} : ~taken(tx[other].own.rev)
     /\ IF taken(tables.rev) THEN Rollback(s)
        ELSE /\ Goes(s, [tx[s] EXCEPT !.step = "point", !.own.rev[tx[s].rev] =
                           [entry |-> e, seq |-> tx[s].seq + 1, base |-> base]])
             /\ UNCHANGED <<tables, minted, lock>>

\* UPDATE entries: a pointer moves, the other column stays as it is.
Point(s) ==
  /\ tx[s].step = "point"
  /\ LET e == Member(s)
         drafts == tx[s].kind \in {"create", "update"}
     IN
     /\ lock[e] \in {None, s}
     /\ lock' = [lock EXCEPT ![e] = s]
     /\ Goes(s, [tx[s] EXCEPT !.step = "tail", !.own.row[e] =
          [home |-> View(s).home[e],
           draft |-> IF drafts THEN tx[s].rev ELSE View(s).draft[e],
           published |-> IF drafts THEN View(s).published[e] ELSE tx[s].target[e]]])
     /\ Keeps

\* #audit: the last event, then the insertion of its successor (unique by its
\* sequence), then the outbox event.
ReadTail(s) ==
  /\ tx[s].step = "tail"
  /\ LET log == View(s).audit[Member(s)] IN
     Goes(s, [tx[s] EXCEPT !.step = "record",
                           !.tail = IF log = <<>> THEN <<>> ELSE <<log[Len(log)]>>])
  /\ UNCHANGED <<tables, minted, lock>>

Names == [create |-> "created", update |-> "updated", publish |-> "published",
          publishMany |-> "published"]

Event(s, e) ==
  LET t == tx[s]
      r == IF t.kind \in {"create", "update"} THEN t.rev ELSE t.target[e]
      previous == IF t.tail = <<>> THEN <<>> ELSE t.tail[1].hash
      seq == IF t.tail = <<>> THEN 1 ELSE t.tail[1].seq + 1
      fields == [seq |-> seq, action |-> Names[t.kind], rev |-> r]
  IN  [seq |-> seq, action |-> Names[t.kind], rev |-> r, prev |-> previous,
       hash |-> Store!EventHash(Scope, e, fields, previous)]

Record(s) ==
  /\ tx[s].step = "record"
  /\ LET e == Member(s)
         event == Event(s, e)
     IN
     IF \E i \in DOMAIN tables.audit[e] : tables.audit[e][i].seq = event.seq THEN Rollback(s)
     ELSE /\ Goes(s, [tx[s] EXCEPT
                !.own.audit[e] = <<event>>,
                !.own.outbox[e] = <<[action |-> event.action, rev |-> event.rev]>>,
                !.tail = <<>>, !.todo = Tail(@),
                !.step = IF Len(tx[s].todo) > 1 THEN "point" ELSE "commit"])
          /\ UNCHANGED <<tables, minted, lock>>

\* The outbox events, and the entry with what hangs on it.
Delete(s) ==
  /\ tx[s].step = "remove"
  /\ Goes(s, [tx[s] EXCEPT !.step = "commit", !.own.row[Member(s)] =
                [home |-> None, draft |-> None, published |-> None]])
  /\ UNCHANGED <<tables, minted, lock>>

Commit(s) ==
  /\ tx[s].step = "commit"
  /\ \A e \in Entry : tx[s].own.audit[e] # <<>> => Len(tables.audit[e]) < MaxLog
  /\ tables' = View(s)
  /\ minted' = [r \in Rev |-> IF minted[r] = NoRow THEN tx[s].own.rev[r] ELSE minted[r]]
  /\ Goes(s, Idle)
  /\ lock' = Released(s)

\* A statement fails, the connection is lost, or the transaction is the one that
\* PostgreSQL ends to resolve a deadlock.
Fail(s) ==
  /\ tx[s].step # "idle"
  /\ Rollback(s)

-----------------------------------------------------------------------------
Init ==
  /\ tables = EmptyTables
  /\ minted = [r \in Rev |-> NoRow]
  /\ lock = [e \in Entry |-> None]
  /\ tx = [s \in Sessions |-> Idle]

\* Bounded by the entries that requests are about, and by the rows that they still find.
Working(es, rows) ==
  \E s \in Sessions :
    \/ Request(s, es, rows) \/ Lock(s) \/ Resume(s) \/ Row(s) \/ Number(s) \/ Insert(s)
    \/ Point(s) \/ ReadTail(s) \/ Record(s) \/ Delete(s) \/ Commit(s) \/ Fail(s)

Next == Working(Entry, MaxAudit)

Spec == Init /\ [][Next]_vars

-----------------------------------------------------------------------------
\* The operation of ContentStore that a transaction asked for.
Applied(t) ==
  LET e == t.members[1]
  IN
  \/ t.kind = "create" /\ Store!Create(Scope, e, t.rev)
  \/ t.kind = "update" /\ Store!UpdateDraft(Scope, e, t.expectedDraft[e], t.rev)
  \/ t.kind = "publish" /\ Store!Publish(Scope, e, t.expectedDraft[e])
  \/ /\ t.kind = "publishMany"
     /\ Store!PublishMany(Scope, ToSet(t.members), t.target, t.expectedDraft, t.expectedPublished)
  \/ t.kind = "delete" /\ Store!DeleteEntry(Scope, e)

\* What is committed changes by whole operations only, each as if it had run
\* alone at that moment (updateDraft, publish and publishMany under the row lock).
AtomicStep ==
  tables' # tables => \E s \in Sessions : tx[s].step = "commit" /\ Applied(tx[s])

\* No docs say so: a request for an entry that exists is never answered with
\* NotFoundError.  The adapter answers so where a new draft was committed while
\* the request waited for the row; SQLite answers ConflictError.
MissingIsMissing ==
  \A s \in Sessions :
    (tx[s].step = "wait" /\ lock[Member(s)] = None /\ tables.home[Member(s)] # None)
      => Found(s, Member(s))
=============================================================================
