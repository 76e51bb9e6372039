--------------------------- MODULE PlatformParts ---------------------------
(***************************************************************************)
(* The parts of MCPlatform that theorems are about, for any values of the  *)
(* constants: documents, experiments, personalization, the fleet, the      *)
(* search index, the backups and the transactions of PostgreSQL, and of    *)
(* the Studio the session, the locations and the preview.  Each section    *)
(* has the inductive invariant of a part and what its steps preserve; the  *)
(* theorems on the specification of the run are in MCPlatform, which puts  *)
(* the other services beside these.                                        *)
(***************************************************************************)
EXTENDS Naturals, Integers, SequencesExt, SequenceTheorems, FiniteSetTheorems, WellFoundedInduction, TLAPS

CONSTANTS
  Agents, Items, None,
  Writers, MaxAttempts,                                   \* VersionedDocument
  Placements, MaxTargeting,                               \* Experiments
  Scopes, Configurations, Visitors, MaxRevision,          \* Personalization
  Members, Operators, MaxObservations, MaxVersion,        \* Fleet
  MaxSlots, MaxGoing,                                     \* StudioHistory
  MaxChecks, MaxSwitches,                                 \* StudioSession
  MaxCloses,                                              \* PreviewGrants
  MaxPatches, MaxSends, MaxReloads, MaxBootstraps,        \* PreviewBridge
  Revisions, MaxRows,                                     \* PostgresStore
  MaxEntryRev,                                            \* SearchIndex
  MaxWrites                                               \* Recovery

\* Two entries, and one with a longer life that a release can roll back.
Stored == Items \cup {"entry"}

\* Documents, files, locations, users and None are told apart.
ASSUME NoneApart ==
  /\ None \notin Agents \cup Items
  /\ None \notin [hash : Agents, index : 0..MaxSlots]
  /\ None \notin {"author", "reader", "other"}
  /\ None \notin Agents \X {"author", "reader", "other"}
  /\ None \notin [version : Nat, changes : [Writers -> Nat]]
  /\ None \notin [content : Nat, whole : BOOLEAN, by : Agents]

\* So are rows, their columns and what was not asked.
ASSUME RowsApart ==
  /\ None \notin Stored \cup Revisions \cup {"scope", "create", "update"}
  /\ "unchecked" \notin Revisions \cup {None}
  /\ None \notin [home : {"scope", None}, draft : Revisions \cup {None}, published : Revisions \cup {None}]

ASSUME BoundsAreNumbers == {MaxSlots, MaxCloses, MaxObservations} \subseteq Nat

\* What stands for an attribute that is not given is no value of one.
ASSUME MissingIsNoValue ==
  \A c \in Configurations : \A key \in DOMAIN c.attributes : "missing" \notin c.attributes[key].values

ASSUME VisitorsAreRecords ==
  \A visitor \in Visitors :
    visitor = [attributes |-> visitor.attributes, granted |-> visitor.granted, denied |-> visitor.denied,
               privacyControl |-> visitor.privacyControl]

VARIABLES
  stored, writer,
  targeting, trials, owed,
  targets, kept,
  fleet, check, lives,
  browser, adapter, pending, overtaken,
  server, session, wanted, shown, checking, switching, calls, held,
  grants, page, window, start, closing, unrevoked, overlapped,
  bridge, controller, runtime, toRuntime, toController, queue, sends, missed,
  tables, minted, lock, tx,
  entry, open, indexer, index, semantic,
  database, live, archive, manifest, target, running, restored

document      == <<stored, writer>>
experiments   == <<targeting, trials, owed>>
visits        == <<targets, kept>>
members       == <<fleet, check, lives>>
locations     == <<browser, adapter, pending, overtaken>>
authority     == <<server, session, wanted, shown, checking, switching, calls, held>>
popups        == <<grants, page, window, start, closing, unrevoked, overlapped>>
messages      == <<bridge, controller, runtime, toRuntime, toController, queue, sends, missed>>
statements    == <<tables, minted, lock, tx>>
search        == <<entry, open, indexer, index, semantic>>
backups       == <<database, live, archive, manifest, target, running, restored>>

Doc == INSTANCE VersionedDocument
Exp == INSTANCE Experiments WITH Trials <- Items
Per == INSTANCE Personalization
Fle == INSTANCE Fleet WITH Adapters <- Agents, Instances <- Items
His == INSTANCE StudioHistory WITH Hashes <- Agents
Ses == INSTANCE StudioSession WITH Scopes <- Agents
Gra == INSTANCE PreviewGrants WITH Starts <- Agents, Entries <- Items
Bri == INSTANCE PreviewBridge

-----------------------------------------------------------------------------
(* A write of a document is atomic, for any number of writers and tries.   *)
(* A writer that is about to save holds a copy of the document which is    *)
(* no newer than the stored one, and the same if their versions agree: no  *)
(* two contents ever had the same version.                                 *)

\* A copy that was read is the row itself, or of an earlier version.
NoNewer(base, row) ==
  base # None => /\ row # None
                 /\ base.version <= row.version
                 /\ base.version = row.version => base = row

CopiesAreOld == \A w \in Writers : writer[w].pc = "save" => NoNewer(writer[w].base, stored)

DocumentInv == Doc!TypeOK /\ CopiesAreOld

\* No row is read as an empty document.
LEMMA OrEmptyType ==
  ASSUME NEW row \in Doc!Document \cup {None}
  PROVE  Doc!OrEmpty(row) \in Doc!Document
BY DEF Doc!OrEmpty, Doc!Empty, Doc!Document

\* A change makes a document of the next version.
LEMMA ChangedType ==
  ASSUME NEW base \in Doc!Document, NEW w \in Writers
  PROVE  /\ Doc!Changed(base, w) \in Doc!Document
         /\ Doc!Changed(base, w).version = base.version + 1
BY DEF Doc!Changed, Doc!Document

\* The types hold initially and no step leaves them.
LEMMA DocumentTypes ==
  /\ Doc!Init => Doc!TypeOK
  /\ Doc!TypeOK /\ [Doc!Next]_(Doc!vars) => Doc!TypeOK'
<1>1. Doc!Init => Doc!TypeOK
  BY DEF Doc!Init, Doc!TypeOK, Doc!Idle, Doc!Document
<1>2. ASSUME Doc!TypeOK, [Doc!Next]_(Doc!vars) PROVE Doc!TypeOK'
  <2>1. CASE UNCHANGED Doc!vars
    BY <1>2, <2>1 DEF Doc!vars, Doc!TypeOK
  <2>2. ASSUME NEW w \in Writers, Doc!ClientReads(w) \/ Doc!MutationReads(w) PROVE Doc!TypeOK'
    <3>1. Doc!OrEmpty(stored).version \in Nat
      BY <1>2, OrEmptyType DEF Doc!TypeOK, Doc!Document
    <3>2. QED
      BY <1>2, <2>2, <3>1 DEF Doc!ClientReads, Doc!MutationReads, Doc!TypeOK
  <2>3. ASSUME NEW w \in Writers, Doc!Conflict(w) \/ Doc!GiveUp(w) PROVE Doc!TypeOK'
    BY <1>2, <2>3 DEF Doc!Conflict, Doc!GiveUp, Doc!TypeOK
  <2>4. ASSUME NEW w \in Writers, Doc!ReplaceReads(w) PROVE Doc!TypeOK'
    <3>1. CASE Doc!Conflict(w)
      BY <2>3, <3>1
    <3>2. CASE ~Doc!Conflict(w)
      BY <1>2, <2>4, <3>2 DEF Doc!ReplaceReads, Doc!TypeOK
    <3>3. QED
      BY <3>1, <3>2
  <2>5. ASSUME NEW w \in Writers, Doc!Save(w) PROVE Doc!TypeOK'
    <3>1. CASE Doc!Conflict(w)
      BY <2>3, <3>1
    <3>2. CASE ~Doc!Conflict(w)
      <4>1. /\ stored' = Doc!Changed(Doc!OrEmpty(writer[w].base), w)
            /\ writer' = [writer EXCEPT ![w].pc = "saved"]
        BY <2>5, <3>2 DEF Doc!Save
      <4>2. Doc!OrEmpty(writer[w].base) \in Doc!Document
        BY <1>2, OrEmptyType DEF Doc!TypeOK
      <4>3. stored' \in Doc!Document
        BY <4>1, <4>2, ChangedType
      <4>4. QED
        BY <1>2, <4>1, <4>3 DEF Doc!TypeOK
    <3>3. QED
      BY <3>1, <3>2
  <2>6. QED
    BY <1>2, <2>1, <2>2, <2>3, <2>4, <2>5 DEF Doc!Next
<1>3. QED
  BY <1>1, <1>2

\* A save that is not refused replaces the very contents it was computed from.
LEMMA SavesOnWhatItRead ==
  ASSUME DocumentInv, NEW w \in Writers, writer[w].pc = "save", Doc!Matches(writer[w].base)
  PROVE  Doc!OrEmpty(writer[w].base) = Doc!OrEmpty(stored)
BY DEF DocumentInv, CopiesAreOld, NoNewer, Doc!Matches, Doc!OrEmpty

\* Copies stay old: the row only changes to a higher version.
LEMMA CopiesInductive ==
  ASSUME None \notin Doc!Document, DocumentInv, [Doc!Next]_(Doc!vars)
  PROVE  CopiesAreOld'
<1>1. Doc!TypeOK'
  BY DocumentTypes DEF DocumentInv
<1>2. CASE UNCHANGED Doc!vars
  BY <1>2 DEF Doc!vars, DocumentInv, CopiesAreOld, NoNewer
<1>3. ASSUME NEW w \in Writers, UNCHANGED stored,
             writer' = [writer EXCEPT ![w] = writer'[w]],
             writer'[w].pc = "save" => writer'[w].base = stored
      PROVE  CopiesAreOld'
  <2>1. SUFFICES ASSUME NEW x \in Writers, writer'[x].pc = "save"
                 PROVE  NoNewer(writer'[x].base, stored')
    BY DEF CopiesAreOld
  <2>2. CASE x = w
    BY <1>1, <1>3, <2>1, <2>2 DEF NoNewer, Doc!TypeOK, Doc!Document
  <2>3. CASE x # w
    <3>1. writer'[x] = writer[x]
      BY <1>3, <2>3 DEF DocumentInv, Doc!TypeOK
    <3>2. QED
      BY <1>3, <2>1, <3>1 DEF DocumentInv, CopiesAreOld, NoNewer
  <2>4. QED
    BY <2>2, <2>3
<1>4. ASSUME NEW w \in Writers, Doc!Conflict(w) PROVE CopiesAreOld'
  BY <1>3, <1>4 DEF Doc!Conflict, DocumentInv, Doc!TypeOK, CopiesAreOld
<1>5. ASSUME NEW w \in Writers, Doc!ClientReads(w) \/ Doc!MutationReads(w) \/ Doc!GiveUp(w) PROVE CopiesAreOld'
  BY <1>3, <1>5 DEF Doc!ClientReads, Doc!MutationReads, Doc!GiveUp, DocumentInv, Doc!TypeOK
<1>6. ASSUME NEW w \in Writers, Doc!ReplaceReads(w) PROVE CopiesAreOld'
  <2>1. CASE Doc!Conflict(w)
    BY <1>4, <2>1 DEF CopiesAreOld
  <2>2. CASE ~Doc!Conflict(w)
    BY <1>3, <1>6, <2>2 DEF Doc!ReplaceReads, DocumentInv, Doc!TypeOK
  <2>3. QED
    BY <2>1, <2>2
<1>7. ASSUME NEW w \in Writers, Doc!Save(w) PROVE CopiesAreOld'
  <2>1. CASE Doc!Conflict(w)
    BY <1>4, <2>1 DEF CopiesAreOld
  <2>2. CASE ~Doc!Conflict(w)
    <3>1. /\ Doc!Matches(writer[w].base)
          /\ writer[w].pc = "save"
          /\ stored' = Doc!Changed(Doc!OrEmpty(stored), w)
          /\ writer' = [writer EXCEPT ![w].pc = "saved"]
      BY <1>7, <2>2, SavesOnWhatItRead DEF Doc!Save
    <3>2. Doc!OrEmpty(stored) \in Doc!Document
      BY OrEmptyType DEF DocumentInv, Doc!TypeOK
    <3>3. /\ stored' \in Doc!Document
          /\ stored' # None
          /\ stored'.version = Doc!OrEmpty(stored).version + 1
      BY <3>1, <3>2, ChangedType
    <3>4. SUFFICES ASSUME NEW x \in Writers, writer'[x].pc = "save", writer'[x].base # None
                   PROVE  /\ writer'[x].base.version <= stored'.version
                          /\ writer'[x].base.version # stored'.version
      BY <3>3 DEF CopiesAreOld, NoNewer
    <3>5. x # w /\ writer'[x] = writer[x]
      BY <3>1, <3>4 DEF DocumentInv, Doc!TypeOK
    <3>6. stored # None /\ writer[x].base.version <= stored.version
      BY <3>4, <3>5 DEF DocumentInv, CopiesAreOld, NoNewer
    <3>7. writer[x].base.version \in Nat /\ stored.version \in Nat /\ Doc!OrEmpty(stored) = stored
      BY <3>4, <3>5, <3>6 DEF DocumentInv, Doc!TypeOK, Doc!Document, Doc!OrEmpty
    <3>8. QED
      BY <3>3, <3>5, <3>6, <3>7
  <2>3. QED
    BY <2>1, <2>2
<1>8. QED
  BY <1>2, <1>4, <1>5, <1>6, <1>7 DEF Doc!Next

-----------------------------------------------------------------------------
\* The types of the row and of the writers, for any numbers of both.
THEOREM DocumentTypeCorrect ==
  Doc!Spec => []Doc!TypeOK
BY DocumentTypes, PTL DEF Doc!Spec

\* What a writer is told is what became of its change.
LEMMA StepIsAtomic ==
  ASSUME None \notin Doc!Document, DocumentInv, [Doc!Next]_(Doc!vars)
  PROVE  [Doc!Atomic!Next]_(Doc!Atomic!dvars)
<1> USE DEF Doc!Atomic!dvars
<1>1. CASE UNCHANGED Doc!vars
  BY <1>1 DEF Doc!vars, Doc!Told
<1>2. ASSUME NEW w \in Writers, UNCHANGED stored,
             writer' = [writer EXCEPT ![w] = writer'[w]],
             Doc!Told(w) = "open", Doc!Told(w)' = "open"
      PROVE  UNCHANGED Doc!Atomic!dvars
  BY <1>2 DEF Doc!Told, DocumentInv, Doc!TypeOK
<1>3. ASSUME NEW w \in Writers, UNCHANGED stored,
             writer' = [writer EXCEPT ![w] = writer'[w]],
             Doc!Told(w) = "open", Doc!Told(w)' = "refused"
      PROVE  Doc!Atomic!Next
  <2>1. Doc!Atomic!Refuse(w)
    BY <1>3 DEF Doc!Atomic!Refuse, Doc!Told, DocumentInv, Doc!TypeOK
  <2>2. QED
    BY <2>1 DEF Doc!Atomic!Next
<1>4. ASSUME NEW w \in Writers, Doc!Conflict(w), writer[w].pc \in {"read", "save"}
      PROVE  [Doc!Atomic!Next]_(Doc!Atomic!dvars)
  BY <1>2, <1>3, <1>4 DEF Doc!Conflict, Doc!Told, DocumentInv, Doc!TypeOK
<1>5. ASSUME NEW w \in Writers, Doc!ClientReads(w) \/ Doc!MutationReads(w) PROVE UNCHANGED Doc!Atomic!dvars
  BY <1>2, <1>5 DEF Doc!ClientReads, Doc!MutationReads, Doc!Told, DocumentInv, Doc!TypeOK
<1>6. ASSUME NEW w \in Writers, Doc!GiveUp(w) PROVE Doc!Atomic!Next
  BY <1>3, <1>6 DEF Doc!GiveUp, Doc!Told, DocumentInv, Doc!TypeOK
<1>7. ASSUME NEW w \in Writers, Doc!ReplaceReads(w) PROVE [Doc!Atomic!Next]_(Doc!Atomic!dvars)
  <2>1. CASE Doc!Conflict(w)
    BY <1>4, <1>7, <2>1 DEF Doc!ReplaceReads
  <2>2. CASE ~Doc!Conflict(w)
    BY <1>2, <1>7, <2>2 DEF Doc!ReplaceReads, Doc!Told, DocumentInv, Doc!TypeOK
  <2>3. QED
    BY <2>1, <2>2
<1>8. ASSUME NEW w \in Writers, Doc!Save(w) PROVE [Doc!Atomic!Next]_(Doc!Atomic!dvars)
  <2>1. CASE Doc!Conflict(w)
    BY <1>4, <1>8, <2>1 DEF Doc!Save
  <2>2. CASE ~Doc!Conflict(w)
    <3>1. /\ writer[w].pc = "save"
          /\ stored' = Doc!Changed(Doc!OrEmpty(stored), w)
          /\ writer' = [writer EXCEPT ![w].pc = "saved"]
      BY <1>8, <2>2, SavesOnWhatItRead DEF Doc!Save
    <3>2. Doc!OrEmpty(stored) \in Doc!Document
      BY OrEmptyType DEF DocumentInv, Doc!TypeOK
    <3>3. stored' \in Doc!Document /\ stored' # None
      BY <3>1, <3>2, ChangedType
    <3>4. Doc!OrEmpty(stored)'.changes = [Doc!OrEmpty(stored).changes EXCEPT ![w] = @ + 1]
      BY <3>1, <3>3 DEF Doc!OrEmpty, Doc!Changed
    <3>5. Doc!Told(w) = "open" /\ [x \in Writers |-> Doc!Told(x)]' = [[x \in Writers |-> Doc!Told(x)] EXCEPT ![w] = "saved"]
      BY <3>1 DEF Doc!Told, DocumentInv, Doc!TypeOK
    <3>6. Doc!Atomic!Apply(w)
      BY <3>4, <3>5 DEF Doc!Atomic!Apply
    <3>7. QED
      BY <3>6 DEF Doc!Atomic!Next
  <2>3. QED
    BY <2>1, <2>2
<1>9. QED
  BY <1>1, <1>5, <1>6, <1>7, <1>8 DEF Doc!Next

\* A step keeps the copies old, and is a step of the atomic document.
LEMMA DocumentStep ==
  ASSUME None \notin Doc!Document, DocumentInv, [Doc!Next]_(Doc!vars)
  PROVE  DocumentInv' /\ Doc!AtomicStep
BY DocumentTypes, CopiesInductive, StepIsAtomic DEF DocumentInv, Doc!AtomicStep

\* Every copy that is about to be saved is the stored row or of an earlier version.
LEMMA CopiesAlwaysOld ==
  ASSUME None \notin Doc!Document
  PROVE  Doc!Spec => []DocumentInv
<1>1. Doc!Init => DocumentInv
  BY DocumentTypes DEF Doc!Init, DocumentInv, CopiesAreOld, Doc!Idle
<1>2. DocumentInv /\ [Doc!Next]_(Doc!vars) => DocumentInv'
  BY DocumentTypes, CopiesInductive DEF DocumentInv
<1>3. QED
  BY <1>1, <1>2, PTL DEF Doc!Spec

\* No change is lost or applied twice, however reads and saves interleave: a
\* change is in the document exactly if its writer was told so.
THEOREM WritesAreAtomic ==
  ASSUME None \notin Doc!Document
  PROVE  Doc!Spec => Doc!WritesAtomic
<1>1. DocumentInv /\ [Doc!Next]_(Doc!vars) => [Doc!Atomic!Next]_(Doc!Atomic!dvars)
  BY StepIsAtomic
<1>2. QED
  BY <1>1, CopiesAlwaysOld, PTL DEF Doc!WritesAtomic, Doc!Spec

\* The protocol of reads and conditional saves implements the atomic document.
THEOREM ImplementsAtomicDocument ==
  ASSUME None \notin Doc!Document
  PROVE  Doc!Spec => Doc!Atomic!Spec
<1>1. Doc!Init => Doc!Atomic!Init
  BY DEF Doc!Init, Doc!Atomic!Init, Doc!OrEmpty, Doc!Empty, Doc!Told, Doc!Idle
<1>2. QED
  BY <1>1, WritesAreAtomic, PTL DEF Doc!Spec, Doc!Atomic!Spec, Doc!WritesAtomic

-----------------------------------------------------------------------------
(* Experiments (Experiments): what is active keeps its placement until it has ended, and a trial   *)
(* is started on what is published, which the draft is never behind.                               *)

TrialType == [state : Exp!TState, place : Placements, pinned : Nat,
              last : Exp!Evidence \cup {"none"}, proven : BOOLEAN]

ExperimentTypes ==
  /\ targeting \in [draft : Nat, published : Nat]
  /\ trials \in [Items -> TrialType]

\* Of the trials of a placement, one is active.
OneActive ==
  \A t, other \in Items : Exp!Active(t) /\ Exp!Active(other) /\ trials[t].place = trials[other].place
                            => t = other

\* A trial that was started is on a targeting that was published, and what was promoted is
\* a targeting that the draft has left behind.
PinnedIsPublished(t) ==
  /\ trials[t].state \in {"running", "paused", "completed"} =>
       0 < trials[t].pinned /\ trials[t].pinned <= targeting.draft
  /\ trials[t].state = "promoted" => trials[t].pinned < targeting.draft

ExperimentInv ==
  /\ ExperimentTypes /\ targeting.published <= targeting.draft /\ OneActive
  /\ \A t \in Items : PinnedIsPublished(t)

\* Nothing is published and nothing was started.
LEMMA ExperimentInit == Exp!Init => ExperimentInv
<1>1. SUFFICES ASSUME Exp!Init PROVE ExperimentInv
  OBVIOUS
<1>2. PICK place \in Placements :
        trials = [t \in Items |-> [Exp!NewTrial(place) EXCEPT !.state = "none"]]
  BY <1>1 DEF Exp!Init
<1> DEFINE new == [Exp!NewTrial(place) EXCEPT !.state = "none"]
<1>3. new \in TrialType /\ new.state = "none"
  BY DEF Exp!NewTrial, TrialType, Exp!TState
<1>4. trials = [t \in Items |-> new]
  BY <1>2
<1> HIDE DEF new
<1> QED BY <1>1, <1>3, <1>4 DEF Exp!Init, ExperimentInv, ExperimentTypes, OneActive, PinnedIsPublished,
  Exp!Active

\* A step of one trial that leaves what was pinned to it.
LEMMA TrialMoves ==
  ASSUME ExperimentInv, NEW t \in Items, NEW x \in TrialType,
         trials' = [trials EXCEPT ![t] = x], UNCHANGED targeting,
         x.state \in {"running", "paused"} => Exp!Active(t) /\ x.place = trials[t].place,
         x.state # "promoted",
         x.state \in {"running", "paused", "completed"} =>
           0 < x.pinned /\ x.pinned <= targeting.draft
  PROVE  ExperimentInv'
<1>1. ExperimentTypes'
  BY DEF ExperimentInv, ExperimentTypes
<1>2. ASSUME NEW u \in Items PROVE trials'[u] = IF u = t THEN x ELSE trials[u]
  BY DEF ExperimentInv, ExperimentTypes
<1>3. OneActive'
  BY <1>2 DEF ExperimentInv, OneActive, Exp!Active
<1>4. ASSUME NEW u \in Items PROVE PinnedIsPublished(u)'
  BY <1>2 DEF ExperimentInv, PinnedIsPublished
<1> QED BY <1>1, <1>3, <1>4 DEF ExperimentInv

\* Every step of the experiments and of the targeting keeps it.
LEMMA ExperimentStep == ExperimentInv /\ Exp!Next => ExperimentInv'
<1>0. SUFFICES ASSUME ExperimentInv PROVE Exp!Next => ExperimentInv'
  OBVIOUS
<1>t. \A t \in Items : trials[t] \in TrialType
  BY <1>0 DEF ExperimentInv, ExperimentTypes
<1>1. ASSUME Exp!ReplaceDraft \/ Exp!Publish PROVE ExperimentInv'
  BY <1>0, <1>1, <1>t DEF Exp!ReplaceDraft, Exp!Publish, ExperimentInv, ExperimentTypes, OneActive,
    PinnedIsPublished, Exp!Active, TrialType
<1>2. ASSUME NEW t \in Items, NEW place \in Placements, Exp!SaveDraft(t, place)
      PROVE  ExperimentInv'
  <2>1. Exp!NewTrial(place) \in TrialType
    BY DEF Exp!NewTrial, TrialType, Exp!TState
  <2>2. Exp!NewTrial(place).state = "draft"
    BY DEF Exp!NewTrial
  <2> QED BY <1>0, <1>2, <2>1, <2>2, TrialMoves DEF Exp!SaveDraft
<1>3. ASSUME NEW t \in Items, Exp!Start(t) PROVE ExperimentInv'
  <2>1. /\ targeting.published \in Nat \ {0} /\ targeting.published <= targeting.draft
        /\ trials[t] \in TrialType /\ UNCHANGED targeting
    BY <1>0, <1>3, <1>t DEF Exp!Start, ExperimentInv, ExperimentTypes
  <2>2. PICK x \in TrialType : /\ trials' = [trials EXCEPT ![t] = x] /\ x.state = "running"
                               /\ x.place = trials[t].place /\ x.pinned = targeting.published
    <3> DEFINE y == [trials[t] EXCEPT !.state = "running", !.pinned = targeting.published]
    <3>1. y \in TrialType /\ y.state = "running" /\ y.place = trials[t].place /\ y.pinned = targeting.published
      BY <2>1 DEF TrialType, Exp!TState
    <3>2. trials' = [trials EXCEPT ![t] = y]
      BY <1>3, <1>0 DEF Exp!Start, ExperimentInv, ExperimentTypes
    <3> QED BY <3>1, <3>2
  <2>3. ExperimentTypes'
    BY <1>0, <2>1, <2>2 DEF ExperimentInv, ExperimentTypes
  <2>4. ASSUME NEW u \in Items PROVE trials'[u] = IF u = t THEN x ELSE trials[u]
    BY <1>0, <2>2 DEF ExperimentInv, ExperimentTypes
  <2>5. OneActive'
    BY <1>0, <1>3, <2>2, <2>4 DEF Exp!Start, Exp!Overlaps, ExperimentInv, OneActive, Exp!Active
  <2>6. ASSUME NEW u \in Items PROVE PinnedIsPublished(u)'
    BY <1>0, <2>1, <2>2, <2>4 DEF ExperimentInv, PinnedIsPublished
  <2> QED BY <1>0, <2>1, <2>3, <2>5, <2>6 DEF ExperimentInv
<1>4. ASSUME NEW t \in Items, NEW x \in TrialType,
             trials' = [trials EXCEPT ![t] = x], UNCHANGED targeting, Exp!Active(t),
             x.place = trials[t].place, x.pinned = trials[t].pinned, x.state # "promoted"
      PROVE  ExperimentInv'
  BY <1>0, <1>4, TrialMoves DEF ExperimentInv, PinnedIsPublished, Exp!Active
<1>5. ASSUME NEW t \in Items, Exp!Pause(t) \/ Exp!Resume(t) \/ Exp!Complete(t)
      PROVE  ExperimentInv'
  <2> DEFINE Moved(state) == [trials[t] EXCEPT !.state = state]
  <2>1. ASSUME NEW state \in {"running", "paused", "completed"}
        PROVE  /\ Moved(state) \in TrialType /\ Moved(state).place = trials[t].place
               /\ Moved(state).pinned = trials[t].pinned /\ Moved(state).state = state
    BY <1>t DEF TrialType, Exp!TState
  <2>2. /\ Exp!Active(t) /\ UNCHANGED targeting
        /\ \E state \in {"running", "paused", "completed"} : trials' = [trials EXCEPT ![t] = Moved(state)]
    BY <1>0, <1>5 DEF Exp!Pause, Exp!Resume, Exp!Complete, Exp!Active, ExperimentInv, ExperimentTypes
  <2> HIDE DEF Moved
  <2> QED BY <1>4, <2>1, <2>2
<1>6. ASSUME NEW t \in Items, Exp!Cancel(t) PROVE ExperimentInv'
  <2>1. PICK x \in TrialType : trials' = [trials EXCEPT ![t] = x] /\ x.state = "cancelled"
    <3> DEFINE y == [trials[t] EXCEPT !.state = "cancelled"]
    <3>1. y \in TrialType /\ y.state = "cancelled"
      BY <1>t DEF TrialType, Exp!TState
    <3>2. trials' = [trials EXCEPT ![t] = y]
      BY <1>6 DEF Exp!Cancel
    <3> QED BY <3>1, <3>2
  <2> QED BY <1>0, <1>6, <2>1, TrialMoves DEF Exp!Cancel
<1>7. ASSUME NEW t \in Items, NEW v \in Exp!Evidence, Exp!RecordMetrics(t, v) PROVE ExperimentInv'
  <2> DEFINE to == IF v = "failed" /\ trials[t].state = "running" THEN "paused" ELSE trials[t].state
             y == [trials[t] EXCEPT !.proven = @ \/ v = "passed", !.last = v, !.state = to]
  <2>1. /\ y \in TrialType /\ y.place = trials[t].place /\ y.pinned = trials[t].pinned /\ y.state = to
        /\ trials[t].state \in {"running", "paused", "completed"} /\ UNCHANGED targeting
    BY <1>t, <1>7 DEF TrialType, Exp!TState, Exp!Evidence, Exp!RecordMetrics
  <2>2. trials' = [trials EXCEPT ![t] = y]
    BY <1>0, <1>7 DEF Exp!RecordMetrics, ExperimentInv, ExperimentTypes
  <2>3. y.state \in {"running", "paused", "completed"} /\ (Exp!Active(t) \/ y.state = "completed")
    BY <2>1 DEF Exp!Active
  <2>4. PinnedIsPublished(t)
    BY <1>0 DEF ExperimentInv
  <2> HIDE DEF y, to
  <2> QED BY <1>0, <2>1, <2>2, <2>3, <2>4, TrialMoves DEF PinnedIsPublished
<1>8. ASSUME NEW t \in Items, Exp!Promote(t) PROVE ExperimentInv'
  <2>1. PICK x \in TrialType : /\ trials' = [trials EXCEPT ![t] = x] /\ x.state = "promoted"
                               /\ x.pinned = trials[t].pinned
    <3> DEFINE y == [trials[t] EXCEPT !.state = "promoted", !.last = "passed"]
    <3>1. y \in TrialType /\ y.state = "promoted" /\ y.pinned = trials[t].pinned
      BY <1>t DEF TrialType, Exp!TState, Exp!Evidence
    <3>2. trials' = [trials EXCEPT ![t] = y]
      BY <1>0, <1>8 DEF Exp!Promote, ExperimentInv, ExperimentTypes
    <3> QED BY <3>1, <3>2
  <2>2. /\ targeting' \in [draft : Nat, published : Nat]
        /\ targeting'.draft = targeting.draft + 1 /\ targeting'.published = targeting.published
    BY <1>0, <1>8 DEF Exp!Promote, ExperimentInv, ExperimentTypes
  <2>3. ExperimentTypes'
    BY <1>0, <2>1, <2>2 DEF ExperimentInv, ExperimentTypes
  <2>4. ASSUME NEW u \in Items PROVE trials'[u] = IF u = t THEN x ELSE trials[u]
    BY <1>0, <2>1 DEF ExperimentInv, ExperimentTypes
  <2>5. OneActive'
    BY <1>0, <2>1, <2>4 DEF ExperimentInv, OneActive, Exp!Active
  <2>6. ASSUME NEW u \in Items PROVE PinnedIsPublished(u)'
    <3>1. /\ targeting.draft \in Nat /\ trials[u].pinned \in Nat /\ PinnedIsPublished(u)
          /\ PinnedIsPublished(t) /\ trials[t].state = "completed"
      BY <1>0, <1>8, <1>t DEF ExperimentInv, ExperimentTypes, TrialType, Exp!Promote
    <3> QED BY <2>1, <2>2, <2>4, <3>1 DEF PinnedIsPublished
  <2>7. targeting'.published <= targeting'.draft
    BY <1>0, <2>2 DEF ExperimentInv, ExperimentTypes
  <2> QED BY <2>3, <2>5, <2>6, <2>7 DEF ExperimentInv
<1> QED
  BY <1>1, <1>2, <1>3, <1>5, <1>6, <1>7, <1>8 DEF Exp!Next

\* Which trials a visitor of a placement takes part in.
LEMMA ExperimentSound == ExperimentInv => Exp!OneTrialPerPlacement
<1>1. SUFFICES ASSUME ExperimentInv PROVE Exp!OneTrialPerPlacement
  OBVIOUS
<1>2. ASSUME NEW t \in Items PROVE PinnedIsPublished(t)
  BY <1>1 DEF ExperimentInv
<1> QED BY <1>1, <1>2 DEF ExperimentInv, OneActive, PinnedIsPublished, Exp!OneTrialPerPlacement, Exp!Allocates

-----------------------------------------------------------------------------
(* Personalization (Personalization): an answer that is kept was decided from what its key has,    *)
(* for a publication that no other of its scope has the revision of.                               *)

Publication == [revision : Nat, configuration : Configurations]
Targets == [draft : Publication, published : Publication \cup {None}]

\* No later revision of the scope has the number of this one.
NotRewritten(scope, publication) ==
  /\ publication.revision <= targets[scope].draft.revision
  /\ publication.revision = targets[scope].draft.revision => publication = targets[scope].draft

WasPublished(scope, publication) ==
  /\ NotRewritten(scope, publication)
  /\ targets[scope].published # None =>
       /\ publication.revision <= targets[scope].published.revision
       /\ publication.revision = targets[scope].published.revision => publication = targets[scope].published

KeptFor(scope, publication, resource, visitor) ==
  /\ WasPublished(scope, publication)
  /\ Per!Accepted(publication.configuration, visitor)
  /\ kept.key = Per!sharedCacheKey(scope, publication, resource, visitor) /\ kept.key # None
  /\ kept.variant = Per!Decide(publication.configuration, resource, visitor)

KeptWasDecided ==
  kept # None =>
    \E scope \in Scopes, publication \in Publication, visitor \in Visitors :
      \E resource \in DOMAIN publication.configuration.decisions :
        KeptFor(scope, publication, resource, visitor)

TargetingInv ==
  /\ targets \in [Scopes -> Targets]
  /\ \A scope \in Scopes :
       targets[scope].published # None => NotRewritten(scope, targets[scope].published)
  /\ KeptWasDecided

\* Who fulfils the same conditions gets the same variant.
LEMMA SameMatched ==
  ASSUME NEW c, NEW resource, NEW v, NEW w,
         \A id \in DOMAIN c.decisions[resource].rules : \A condition \in c.audiences[id].conditions :
           Per!evaluateCondition(c, condition, v) <=> Per!evaluateCondition(c, condition, w)
  PROVE  Per!Decide(c, resource, v) = Per!Decide(c, resource, w)
<1>1. Per!Matched(c, resource, v) = Per!Matched(c, resource, w)
  BY DEF Per!Matched
<1> QED BY <1>1 DEF Per!Decide

\* What says that an attribute is not given is no value of one.
LEMMA GivenIsNotMissing ==
  ASSUME NEW c \in Configurations, NEW visitor, Per!Accepted(c, visitor),
         NEW key \in DOMAIN visitor.attributes
  PROVE  visitor.attributes[key] # "missing"
BY MissingIsNoValue DEF Per!Accepted

\* Two visitors with the same shared key get the same variant.
LEMMA KeyDecides ==
  ASSUME NEW publication \in Publication, NEW resource, NEW scope, NEW v, NEW w,
         Per!Accepted(publication.configuration, v), Per!Accepted(publication.configuration, w),
         Per!sharedCacheKey(scope, publication, resource, v) # None,
         Per!sharedCacheKey(scope, publication, resource, v) = Per!sharedCacheKey(scope, publication, resource, w)
  PROVE  Per!Decide(publication.configuration, resource, v) = Per!Decide(publication.configuration, resource, w)
<1> DEFINE c == publication.configuration
           inputs == Per!decisionInputs(c, resource)
           Value(visitor, key) == IF key \in DOMAIN visitor.attributes THEN visitor.attributes[key] ELSE "missing"
           Key(visitor) == [scope |-> scope, revision |-> publication.revision, resource |-> resource,
                            values |-> [key \in inputs |-> Value(visitor, key)]]
<1>0. c \in Configurations
  BY DEF Publication
<1>1. /\ ~\E key \in inputs : ~Per!Shared(c.attributes[key])
      /\ Key(v) = Key(w)
  BY DEF Per!sharedCacheKey
<1>2. [key \in inputs |-> Value(v, key)] = [key \in inputs |-> Value(w, key)]
  <2>1. Key(v).values = Key(w).values
    BY <1>1
  <2> QED BY <2>1
<1>3. ASSUME NEW key \in inputs PROVE Value(v, key) = Value(w, key)
  <2> HIDE DEF inputs, Value
  <2> QED BY <1>2
<1>4. ASSUME NEW id \in DOMAIN c.decisions[resource].rules, NEW condition \in c.audiences[id].conditions
      PROVE  Per!evaluateCondition(c, condition, v) <=> Per!evaluateCondition(c, condition, w)
  <2>1. condition.key \in inputs
    BY DEF Per!decisionInputs, Per!InputsOf
  <2>2. Per!consentAllows(c, condition.key, v) /\ Per!consentAllows(c, condition.key, w)
    BY <1>1, <2>1 DEF Per!Shared, Per!consentAllows
  <2>3. Value(v, condition.key) = Value(w, condition.key)
    BY <1>3, <2>1
  <2>4. /\ condition.key \in DOMAIN v.attributes => v.attributes[condition.key] # "missing"
        /\ condition.key \in DOMAIN w.attributes => w.attributes[condition.key] # "missing"
    BY <1>0, GivenIsNotMissing
  <2> HIDE DEF c, inputs
  <2> QED BY <2>2, <2>3, <2>4 DEF Per!evaluateCondition
<1> QED
  <2> HIDE DEF c
  <2>1. Per!Decide(c, resource, v) = Per!Decide(c, resource, w)
    BY <1>4, SameMatched
  <2> QED BY <2>1 DEF c

\* Nothing is published, nothing kept.
LEMMA TargetingInit == Per!Init => TargetingInv
<1>1. SUFFICES ASSUME Per!Init PROVE TargetingInv
  OBVIOUS
<1>2. PICK c \in Configurations :
        targets = [scope \in Scopes |->
                     [draft |-> [revision |-> 1, configuration |-> c], published |-> None]]
  BY <1>1 DEF Per!Init
<1> DEFINE new == [draft |-> [revision |-> 1, configuration |-> c], published |-> None]
<1>3. new \in Targets /\ new.published = None
  BY DEF Targets, Publication
<1> HIDE DEF new
<1>4. targets = [scope \in Scopes |-> new]
  BY <1>2 DEF new
<1> QED BY <1>1, <1>3, <1>4 DEF Per!Init, TargetingInv, KeptWasDecided

\* Every step of authors, visitors and the edge keeps it.
LEMMA TargetingStep == TargetingInv /\ Per!Next => TargetingInv'
<1>0. SUFFICES ASSUME TargetingInv PROVE Per!Next => TargetingInv'
  OBVIOUS
<1>t. ASSUME NEW scope \in Scopes
      PROVE  /\ targets[scope] \in Targets /\ targets[scope].draft \in Publication
             /\ targets[scope].draft.revision \in Nat
             /\ targets[scope].published # None => targets[scope].published \in Publication
             /\ targets[scope].published # None => targets[scope].published.revision \in Nat
  BY <1>0 DEF TargetingInv, Targets, Publication
<1>k. ASSUME NEW scope \in Scopes, NEW x \in Targets, UNCHANGED kept,
             targets' = [targets EXCEPT ![scope] = x],
             x.published # None => NotRewritten(scope, x.published)',
             \A p \in Publication : WasPublished(scope, p) => WasPublished(scope, p)'
      PROVE  TargetingInv'
  <2>1. targets' \in [Scopes -> Targets]
    BY <1>0, <1>k DEF TargetingInv
  <2>2. ASSUME NEW u \in Scopes PROVE targets'[u] = IF u = scope THEN x ELSE targets[u]
    BY <1>0, <1>k DEF TargetingInv
  <2>3. ASSUME NEW u \in Scopes, targets'[u].published # None
        PROVE  NotRewritten(u, targets[u].published)'
    <3>1. CASE u = scope
      BY <3>1, <1>k, <2>2, <2>3
    <3>2. CASE u # scope
      BY <3>2, <1>0, <2>2, <2>3 DEF TargetingInv, NotRewritten
    <3> QED BY <3>1, <3>2
  <2>4. ASSUME NEW u \in Scopes, NEW p \in Publication, WasPublished(u, p)
        PROVE  WasPublished(u, p)'
    <3>1. CASE u = scope
      BY <3>1, <1>k, <2>4
    <3>2. CASE u # scope
      BY <3>2, <2>2, <2>4 DEF WasPublished, NotRewritten
    <3> QED BY <3>1, <3>2
  <2>5. KeptWasDecided'
    <3>1. SUFFICES ASSUME kept # None
                   PROVE  \E s \in Scopes, p \in Publication, visitor \in Visitors :
                            \E resource \in DOMAIN p.configuration.decisions :
                              KeptFor(s, p, resource, visitor)'
      BY <1>k DEF KeptWasDecided
    <3>2. PICK s \in Scopes, p \in Publication, visitor \in Visitors :
            \E resource \in DOMAIN p.configuration.decisions : KeptFor(s, p, resource, visitor)
      BY <3>1, <1>0 DEF TargetingInv, KeptWasDecided
    <3>3. PICK resource \in DOMAIN p.configuration.decisions : KeptFor(s, p, resource, visitor)
      BY <3>2
    <3>4. KeptFor(s, p, resource, visitor)'
      BY <3>3, <2>4, <1>k DEF KeptFor
    <3> QED BY <3>4
  <2> QED BY <2>1, <2>3, <2>5 DEF TargetingInv
<1>1. ASSUME NEW scope \in Scopes, NEW c \in Configurations, Per!ReplaceDraft(scope, c)
      PROVE  TargetingInv'
  <2>d. PICK d \in Publication : d = [revision |-> targets[scope].draft.revision + 1, configuration |-> c]
    <3> DEFINE n == targets[scope].draft.revision + 1
    <3>1. n \in Nat
      BY <1>t
    <3> HIDE DEF n
    <3>2. [revision |-> n, configuration |-> c] \in Publication
      BY <3>1 DEF Publication
    <3> QED BY <3>2 DEF n
  <2> DEFINE y == [targets[scope] EXCEPT !.draft = d]
  <2>0. PICK x \in Targets : x = y
    BY <1>t DEF Targets
  <2>1. /\ x.published = targets[scope].published
        /\ x.draft.revision = targets[scope].draft.revision + 1
    BY <1>t, <2>0, <2>d DEF Targets
  <2>2. targets' = [targets EXCEPT ![scope] = x] /\ UNCHANGED kept
    BY <1>1, <2>0, <2>d DEF Per!ReplaceDraft
  <2> HIDE DEF y
  <2>3. targets'[scope] = x
    BY <1>0, <2>2 DEF TargetingInv
  <2>4. ASSUME NEW p \in Publication, NotRewritten(scope, p) PROVE NotRewritten(scope, p)'
    BY <1>t, <2>1, <2>3, <2>4 DEF NotRewritten, Publication
  <2>5. \A p \in Publication : WasPublished(scope, p) => WasPublished(scope, p)'
    BY <2>1, <2>3, <2>4 DEF WasPublished
  <2>6. ASSUME x.published # None PROVE NotRewritten(scope, x.published)'
    <3>1. PICK p \in Publication : p = targets[scope].published
      BY <1>t, <2>1, <2>6
    <3>2. NotRewritten(scope, p)
      BY <1>0, <2>1, <2>6, <3>1 DEF TargetingInv
    <3> QED BY <2>1, <2>4, <3>1, <3>2
  <2> QED BY <1>k, <2>1, <2>2, <2>5, <2>6
<1>2. ASSUME NEW scope \in Scopes, Per!Publish(scope) PROVE TargetingInv'
  <2> DEFINE y == [targets[scope] EXCEPT !.published = targets[scope].draft]
  <2>0. PICK x \in Targets : x = y
    BY <1>t DEF Targets
  <2>1. x.published = targets[scope].draft /\ x.draft = targets[scope].draft
    BY <1>t, <2>0 DEF Targets
  <2>2. targets' = [targets EXCEPT ![scope] = x] /\ UNCHANGED kept
    BY <1>2, <2>0 DEF Per!Publish
  <2> HIDE DEF y
  <2>3. targets'[scope] = x
    BY <1>0, <2>2 DEF TargetingInv
  <2>4. x.published # None => NotRewritten(scope, x.published)'
    BY <1>t, <2>1, <2>3 DEF NotRewritten
  <2>5. \A p \in Publication : WasPublished(scope, p) => WasPublished(scope, p)'
    BY <2>1, <2>3 DEF WasPublished, NotRewritten
  <2> QED BY <1>k, <2>1, <2>2, <2>4, <2>5
<1>3. ASSUME NEW scope \in Scopes, NEW visitor \in Visitors,
             NEW resource \in DOMAIN targets[scope].draft.configuration.decisions,
             Per!Keep(scope, resource, visitor)
      PROVE  TargetingInv'
  <2>1. PICK p \in Publication : p = targets[scope].published
    BY <1>3, <1>t DEF Per!Keep
  <2>2. /\ resource \in DOMAIN p.configuration.decisions /\ Per!Accepted(p.configuration, visitor)
        /\ Per!sharedCacheKey(scope, p, resource, visitor) # None
        /\ kept' = [key |-> Per!sharedCacheKey(scope, p, resource, visitor),
                    variant |-> Per!Decide(p.configuration, resource, visitor)]
        /\ UNCHANGED targets /\ targets[scope].published # None
    BY <1>3, <2>1 DEF Per!Keep
  <2>3. WasPublished(scope, p)'
    BY <1>0, <1>t, <2>1, <2>2 DEF TargetingInv, WasPublished, NotRewritten
  <2>4. KeptFor(scope, p, resource, visitor)'
    BY <2>2, <2>3 DEF KeptFor
  <2>5. KeptWasDecided'
    BY <2>2, <2>4 DEF KeptWasDecided
  <2> QED BY <1>0, <2>2, <2>5 DEF TargetingInv, NotRewritten
<1> QED
  BY <1>1, <1>2, <1>3 DEF Per!Next

\* What the shared cache gives is what would be decided.
LEMMA KeptIsOwn == TargetingInv => Per!SharedIsOwn
<1>1. SUFFICES ASSUME TargetingInv, NEW scope \in Scopes, targets[scope].published # None,
                      NEW resource \in DOMAIN targets[scope].published.configuration.decisions,
                      NEW visitor \in Visitors,
                      Per!Accepted(targets[scope].published.configuration, visitor), kept # None,
                      Per!sharedCacheKey(scope, targets[scope].published, resource, visitor) = kept.key
               PROVE  kept.variant = Per!Decide(targets[scope].published.configuration, resource, visitor)
  BY DEF Per!SharedIsOwn, Per!Asked
<1>2. PICK s \in Scopes, p \in Publication, v \in Visitors :
        \E r \in DOMAIN p.configuration.decisions : KeptFor(s, p, r, v)
  BY <1>1 DEF TargetingInv, KeptWasDecided
<1>3. PICK r \in DOMAIN p.configuration.decisions : KeptFor(s, p, r, v)
  BY <1>2
<1>4. PICK q \in Publication : q = targets[scope].published
  BY <1>1 DEF TargetingInv, Targets
<1>5. Per!sharedCacheKey(scope, q, resource, visitor) = Per!sharedCacheKey(s, p, r, v)
      /\ Per!sharedCacheKey(s, p, r, v) # None
  BY <1>1, <1>3, <1>4 DEF KeptFor
<1>6. scope = s /\ q.revision = p.revision /\ resource = r
  BY <1>5 DEF Per!sharedCacheKey
<1>7. p = q
  BY <1>1, <1>3, <1>4, <1>6 DEF KeptFor, WasPublished
<1>8. Per!Decide(q.configuration, resource, visitor) = Per!Decide(q.configuration, resource, v)
  BY <1>1, <1>3, <1>4, <1>5, <1>6, <1>7, KeyDecides DEF KeptFor
<1> QED BY <1>3, <1>4, <1>6, <1>7, <1>8 DEF KeptFor

\* What has no consent is not looked at.
LEMMA ConsentDecides == Per!ConsentBinds
<1> DEFINE Allowed(c, visitor) ==
             LET keys == {key \in DOMAIN visitor.attributes : Per!consentAllows(c, key, visitor)}
             IN  [visitor EXCEPT !.attributes = [key \in keys |-> visitor.attributes[key]]]
<1>1. ASSUME NEW c, NEW resource, NEW visitor \in Visitors
      PROVE  Per!Decide(c, resource, visitor) = Per!Decide(c, resource, Allowed(c, visitor))
  <2> DEFINE keys == {key \in DOMAIN visitor.attributes : Per!consentAllows(c, key, visitor)}
             w == Allowed(c, visitor)
  <2>1. /\ w.granted = visitor.granted /\ w.denied = visitor.denied
        /\ w.privacyControl = visitor.privacyControl
        /\ w.attributes = [key \in keys |-> visitor.attributes[key]]
    BY VisitorsAreRecords
  <2>2. \A key : Per!consentAllows(c, key, w) <=> Per!consentAllows(c, key, visitor)
    BY <2>1 DEF Per!consentAllows
  <2>3. /\ \A key : key \in DOMAIN w.attributes <=>
                      key \in DOMAIN visitor.attributes /\ Per!consentAllows(c, key, visitor)
        /\ \A key \in DOMAIN w.attributes : w.attributes[key] = visitor.attributes[key]
    BY <2>1
  <2> HIDE DEF w
  <2>4. ASSUME NEW condition
        PROVE  Per!evaluateCondition(c, condition, visitor) <=> Per!evaluateCondition(c, condition, w)
    BY <2>2, <2>3 DEF Per!evaluateCondition
  <2>5. Per!Decide(c, resource, visitor) = Per!Decide(c, resource, w)
    BY <2>4, SameMatched
  <2> QED BY <2>5 DEF w
<1> QED BY <1>1 DEF Per!ConsentBinds, Per!Asked

-----------------------------------------------------------------------------
(* The fleet (Fleet): an observation of a member in its present life is of a generation it had, and *)
(* what was observed of its present generation was observed under its present settings.             *)

MemberType == [generation : Nat, adapter : Agents, expects : Items, state : {"active", "paused"}]
FoundType  == [id : Members, generation : Nat, reachable : BOOLEAN, compatible : BOOLEAN, expired : BOOLEAN,
               adapter : Agents, instance : Items \cup {None}, life : Nat]
CheckingType == [step : {"idle", "asked", "found"}, version : Nat, id : Members \cup {None},
                 member : MemberType \cup {None}, found : FoundType \cup {None}]

\* A check that is under way has a member, one that was answered has found something.
CheckTyped(c) ==
  /\ c \in CheckingType
  /\ c.step # "idle" => c.id \in Members /\ c.member \in MemberType
  /\ c.step = "found" => c.found \in FoundType

DocumentTyped(doc) ==
  /\ doc = [version |-> doc.version, members |-> doc.members, observations |-> doc.observations]
  /\ doc.version \in Nat
  /\ doc.members \in [Members -> MemberType \cup {None}]
  /\ doc.observations \in Seq(FoundType)

\* What a check found is what its member expected, or is not.
FoundUnder(o, member) ==
  /\ o.generation = member.generation /\ o.adapter = member.adapter
  /\ o.compatible <=> o.instance = member.expects

\* A check that read the document as it is has the member as it is.
UpToDate(c, doc) ==
  /\ c.version <= doc.version
  /\ c.version = doc.version => doc.members[c.id] = c.member /\ c.member.state = "active"

Pending(c, doc, lived) ==
  /\ c.step # "idle" => UpToDate(c, doc)
  /\ c.step = "found" =>
       c.found.id = c.id /\ FoundUnder(c.found, c.member) /\ c.found.life <= lived[c.id]

\* An observation, of a member that is there in the same life.
Tells(o, member, life) ==
  /\ o.life <= life
  /\ o.life = life /\ member # None =>
       /\ o.generation <= member.generation
       /\ o.generation = member.generation => FoundUnder(o, member) /\ member.state = "active"

Told(doc, lived) ==
  \A i \in DOMAIN doc.observations :
    LET o == doc.observations[i] IN Tells(o, doc.members[o.id], lived[o.id])

FleetInv ==
  /\ DocumentTyped(fleet) /\ lives \in [Members -> Nat]
  /\ check = [op \in Operators |-> check[op]]
  /\ \A op \in Operators : CheckTyped(check[op]) /\ Pending(check[op], fleet, lives)
  /\ Told(fleet, lives)

\* There is nothing to observe at first.
LEMMA FleetInit == Fle!Init => FleetInv
BY DEF Fle!Init, Fle!Idle, FleetInv, DocumentTyped, CheckTyped, CheckingType, Pending, Told

\* Members that are edited, paused, resumed or removed have another generation or none: what was
\* observed of them before is not of the one they have.
LEMMA MemberEdited ==
  ASSUME FleetInv, NEW id \in Members, NEW member \in MemberType \cup {None}, NEW lived \in [Members -> Nat],
         \A other \in Members \ {id} : lived[other] = lives[other],
         lives[id] <= lived[id],
         member # None => \/ lived[id] = lives[id] + 1
                          \/ fleet.members[id] # None /\ member.generation = fleet.members[id].generation + 1,
         Fle!Replace(fleet.version, [fleet.members EXCEPT ![id] = member], fleet.observations),
         check' = check, lives' = lived
  PROVE  FleetInv'
<1> DEFINE after == [fleet.members EXCEPT ![id] = member]
<1>1. fleet' = [version |-> fleet.version + 1, members |-> after, observations |-> fleet.observations]
  BY DEF Fle!Replace
<1>2. after \in [Members -> MemberType \cup {None}]
  BY DEF FleetInv, DocumentTyped
<1>3. DocumentTyped(fleet')
  <2> HIDE DEF after
  <2> QED BY <1>1, <1>2 DEF FleetInv, DocumentTyped
<1>4. ASSUME NEW op \in Operators PROVE Pending(check[op], fleet', lived)
  <2>1. CheckTyped(check[op]) /\ Pending(check[op], fleet, lives)
    BY DEF FleetInv
  <2>2. fleet'.version = fleet.version + 1 /\ fleet.version \in Nat
    BY <1>1 DEF FleetInv, DocumentTyped
  <2>3. check[op].step # "idle" => UpToDate(check[op], fleet')
    <3>1. check[op].version \in Nat
      BY <2>1 DEF CheckTyped, CheckingType
    <3> QED BY <2>1, <2>2, <3>1 DEF Pending, UpToDate
  <2>4. check[op].step = "found" => check[op].found.life <= lived[check[op].id]
    <3> SUFFICES ASSUME check[op].step = "found" PROVE check[op].found.life <= lived[check[op].id]
      OBVIOUS
    <3>1. check[op].id \in Members /\ check[op].found \in FoundType
      BY <2>1 DEF CheckTyped
    <3>2. check[op].found.life <= lives[check[op].id] /\ check[op].found.life \in Nat
      BY <2>1, <3>1 DEF Pending, FoundType
    <3>3. lives[check[op].id] <= lived[check[op].id] /\ lives[check[op].id] \in Nat /\ lived[check[op].id] \in Nat
      BY <3>1 DEF FleetInv
    <3> HIDE DEF after
    <3> QED BY <3>2, <3>3
  <2> QED BY <2>1, <2>3, <2>4 DEF Pending
<1>5. Told(fleet', lived)
  <2>1. fleet'.observations = fleet.observations /\ fleet'.members = after
    BY <1>1
  <2> SUFFICES ASSUME NEW i \in DOMAIN fleet.observations
               PROVE  LET o == fleet.observations[i] IN Tells(o, after[o.id], lived[o.id])
    BY <2>1 DEF Told
  <2> DEFINE o == fleet.observations[i]
  <2>2. o \in FoundType /\ Tells(o, fleet.members[o.id], lives[o.id])
    <3>1. fleet.observations \in Seq(FoundType) /\ Told(fleet, lives)
      BY DEF FleetInv, DocumentTyped
    <3> QED BY <3>1 DEF Told
  <2>3. o.id \in Members /\ o.life \in Nat /\ o.generation \in Nat
    BY <2>2 DEF FoundType
  <2> HIDE DEF o
  <2>4. CASE o.id # id
    <3>1. after[o.id] = fleet.members[o.id] /\ lived[o.id] = lives[o.id]
      BY <2>3, <2>4 DEF FleetInv, DocumentTyped
    <3> QED BY <2>2, <3>1 DEF o
  <2>5. CASE o.id = id
    <3>1. after[id] = member /\ lives[id] \in Nat /\ lived[id] \in Nat
      BY DEF FleetInv, DocumentTyped
    <3>2. fleet.members[id] # None => fleet.members[id].generation \in Nat
      BY DEF FleetInv, DocumentTyped, MemberType
    <3>3. o.life <= lives[id]
          /\ (o.life = lives[id] /\ fleet.members[id] # None => o.generation <= fleet.members[id].generation)
      BY <2>2, <2>5 DEF Tells
    <3> HIDE DEF after
    <3> DEFINE g == member.generation
               h == fleet.members[id].generation
               there == fleet.members[id] # None
               given == member # None
    <3>4. given => lived[id] = lives[id] + 1 \/ (there /\ g = h + 1)
      OBVIOUS
    <3>5. o.life <= lived[id]
      BY <3>1, <3>3, <2>3
    <3>6. o.life = lived[id] /\ given => o.generation <= g /\ o.generation # g
      <4>1. there => h \in Nat
        BY <3>2
      <4>2. there /\ o.life = lives[id] => o.generation <= h
        BY <3>3
      <4>3. o.life <= lives[id] /\ lives[id] <= lived[id]
        BY <3>3
      <4> HIDE DEF g, h, there, given
      <4> QED BY <3>4, <4>1, <4>2, <4>3, <3>1, <2>3
    <3>7. Tells(o, member, lived[id])
      BY <3>5, <3>6 DEF Tells
    <3> QED BY <3>7, <3>1, <2>5 DEF o
  <2> QED BY <2>4, <2>5 DEF o
<1> QED
  <2> HIDE DEF after
  <2> QED BY <1>3, <1>4, <1>5 DEF FleetInv

\* Settings that change, a state that changes, and a member that goes.
LEMMA UpsertStep ==
  ASSUME FleetInv, NEW id \in Members, NEW setting \in Agents, NEW expected \in Items,
         Fle!UpsertMember(id, setting, expected)
  PROVE  FleetInv'
<1> DEFINE existing == fleet.members[id]
           member == [generation |-> Fle!NextGeneration(existing), adapter |-> setting, expects |-> expected,
                      state |-> IF existing = None THEN "active" ELSE existing.state]
           lived == IF existing = None THEN [lives EXCEPT ![id] = @ + 1] ELSE lives
<1>1. Fle!Replace(fleet.version, [fleet.members EXCEPT ![id] = member], fleet.observations)
      /\ lives' = lived /\ check' = check
  BY DEF Fle!UpsertMember
<1>2. existing \in MemberType \cup {None} /\ lives \in [Members -> Nat]
  BY DEF FleetInv, DocumentTyped
<1>3. member \in MemberType
  BY <1>2 DEF Fle!NextGeneration, MemberType
<1>4. existing # None => member.generation = existing.generation + 1
  BY DEF Fle!NextGeneration
<1>5. /\ lived \in [Members -> Nat] /\ lives[id] <= lived[id]
      /\ \A other \in Members \ {id} : lived[other] = lives[other]
      /\ existing = None => lived[id] = lives[id] + 1
  BY <1>2
<1> HIDE DEF existing, member, lived
<1>6. lived[id] = lives[id] + 1 \/ (fleet.members[id] # None /\ member.generation = fleet.members[id].generation + 1)
  BY <1>4, <1>5 DEF existing
<1> QED BY <1>1, <1>3, <1>5, <1>6, MemberEdited

\* A member that is paused or resumed has the next generation.
LEMMA StateStep ==
  ASSUME FleetInv, NEW id \in Members, NEW state \in {"active", "paused"}, Fle!SetMemberState(id, state)
  PROVE  FleetInv'
<1> DEFINE member == [fleet.members[id] EXCEPT !.state = state, !.generation = @ + 1]
<1>1. fleet.members[id] \in MemberType /\ fleet.members[id] # None /\ lives \in [Members -> Nat]
  BY DEF FleetInv, DocumentTyped, Fle!SetMemberState
<1>2. member \in MemberType /\ member.generation = fleet.members[id].generation + 1
  <2> DEFINE old == fleet.members[id]
             next == old.generation + 1
             new == [old EXCEPT !.state = state, !.generation = next]
  <2>1. old \in MemberType /\ next \in Nat /\ member = new
    BY <1>1 DEF MemberType
  <2>2. new \in MemberType /\ new.generation = next
    <3> HIDE DEF old, next
    <3> QED BY <2>1 DEF MemberType
  <2> HIDE DEF new, member
  <2> QED BY <2>1, <2>2
<1>3. [fleet.members EXCEPT ![id].state = state, ![id].generation = @ + 1] = [fleet.members EXCEPT ![id] = member]
  BY <1>1 DEF FleetInv, DocumentTyped, MemberType
<1>4. Fle!Replace(fleet.version, [fleet.members EXCEPT ![id] = member], fleet.observations)
      /\ check' = check /\ lives' = lives
  <2> HIDE DEF member
  <2> QED BY <1>3 DEF Fle!SetMemberState
<1> HIDE DEF member
<1>5. lives[id] <= lives[id]
  BY <1>1
<1> QED BY <1>1, <1>2, <1>4, <1>5, MemberEdited

\* A member that is removed has none.
LEMMA RemoveStep ==
  ASSUME FleetInv, NEW id \in Members, Fle!RemoveMember(id)
  PROVE  FleetInv'
<1>1. lives \in [Members -> Nat] /\ lives[id] <= lives[id]
  BY DEF FleetInv
<1> QED BY <1>1, MemberEdited DEF Fle!RemoveMember

\* A step of one check, the document as it is.
LEMMA CheckMoves ==
  ASSUME FleetInv, NEW op \in Operators, NEW c, check' = [check EXCEPT ![op] = c],
         UNCHANGED <<fleet, lives>>, CheckTyped(c), Pending(c, fleet, lives)
  PROVE  FleetInv'
BY DEF FleetInv

\* A check is dropped.
LEMMA IdleTyped == CheckTyped(Fle!Idle) /\ \A doc, lived : Pending(Fle!Idle, doc, lived)
BY DEF Fle!Idle, CheckTyped, CheckingType, Pending

\* A check begins with the document as it is.
LEMMA CheckingStep ==
  ASSUME FleetInv, NEW id \in Members, NEW op \in Operators, Fle!CheckMember(op, id)
  PROVE  FleetInv'
<1> DEFINE c == [Fle!Idle EXCEPT !.step = "asked", !.version = fleet.version, !.id = id, !.member = fleet.members[id]]
<1>1. check' = [check EXCEPT ![op] = c] /\ UNCHANGED <<fleet, lives>>
  BY DEF Fle!CheckMember
<1>2. fleet.members[id] \in MemberType /\ fleet.version \in Nat /\ fleet.members[id].state = "active"
  BY DEF FleetInv, DocumentTyped, Fle!CheckMember
<1>3. c.step = "asked" /\ c.version = fleet.version /\ c.id = id /\ c.member = fleet.members[id]
  BY DEF Fle!Idle
<1>5. CheckTyped(c)
  <2>1. Fle!Idle \in CheckingType
    BY IdleTyped DEF CheckTyped
  <2>2. c \in CheckingType
    BY <2>1, <1>2 DEF CheckingType
  <2> HIDE DEF c
  <2> QED BY <2>2, <1>2, <1>3 DEF CheckTyped
<1> HIDE DEF c
<1>6. Pending(c, fleet, lives)
  BY <1>2, <1>3 DEF Pending, UpToDate
<1> QED BY <1>1, <1>5, <1>6, CheckMoves

\* A check that is answered found what the member it has in hand expects, or not.
LEMMA ObserveStep ==
  ASSUME FleetInv, NEW op \in Operators, NEW instance \in Items \cup {None}, Fle!Observe(op, instance)
  PROVE  FleetInv'
<1> DEFINE member == check[op].member
           f == [id |-> check[op].id, generation |-> member.generation, reachable |-> instance # None,
                 compatible |-> instance = member.expects, expired |-> FALSE, adapter |-> member.adapter,
                 instance |-> instance, life |-> lives[check[op].id]]
           c == [check[op] EXCEPT !.step = "found", !.found = f]
<1>1. CheckTyped(check[op]) /\ Pending(check[op], fleet, lives) /\ check[op].step = "asked"
  BY DEF FleetInv, Fle!Observe
<1>2. check[op].id \in Members /\ member \in MemberType /\ check[op] \in CheckingType
  BY <1>1 DEF CheckTyped
<1>3. f \in FoundType
  BY <1>2 DEF FoundType, MemberType, FleetInv
<1>4. FoundUnder(f, member) /\ f.id = check[op].id /\ f.life = lives[check[op].id] /\ lives[check[op].id] \in Nat
  BY <1>2 DEF FoundUnder, FleetInv
<1>5. check' = [check EXCEPT ![op] = c] /\ UNCHANGED <<fleet, lives>>
  <2> HIDE DEF f
  <2>1. check' = [check EXCEPT ![op].step = "found", ![op].found = f] /\ UNCHANGED <<fleet, lives>>
    BY DEF Fle!Observe, f
  <2> QED BY <2>1 DEF FleetInv
<1> HIDE DEF f
<1>6. /\ c \in CheckingType /\ c.step = "found" /\ c.found = f
      /\ c.id = check[op].id /\ c.member = member /\ c.version = check[op].version
  BY <1>2, <1>3 DEF CheckingType
<1> HIDE DEF c, member
<1>7. CheckTyped(c)
  BY <1>2, <1>3, <1>6 DEF CheckTyped
<1>8. Pending(c, fleet, lives)
  <2>1. UpToDate(check[op], fleet)
    BY <1>1 DEF Pending
  <2>2. UpToDate(c, fleet)
    BY <2>1, <1>6 DEF UpToDate, member
  <2> QED BY <2>2, <1>4, <1>6 DEF Pending
<1> QED BY <1>5, <1>7, <1>8, CheckMoves

\* A check of a document that changed records nothing.
LEMMA RefuseStep == ASSUME FleetInv, NEW op \in Operators, Fle!Refuse(op) PROVE FleetInv'
BY IdleTyped, CheckMoves DEF Fle!Refuse

\* An observation that expires is as it was otherwise.
LEMMA ExpiredFound ==
  ASSUME NEW o \in FoundType
  PROVE  LET gone == [o EXCEPT !.expired = TRUE] IN
         /\ gone \in FoundType /\ gone.id = o.id /\ gone.life = o.life
         /\ \A member, life : Tells(o, member, life) => Tells(gone, member, life)
         /\ \A member : FoundUnder(o, member) => FoundUnder(gone, member)
<1> DEFINE gone == [o EXCEPT !.expired = TRUE]
<1>1. /\ gone \in FoundType /\ gone.id = o.id /\ gone.life = o.life /\ gone.generation = o.generation
      /\ gone.adapter = o.adapter /\ gone.compatible = o.compatible /\ gone.instance = o.instance
  BY DEF FoundType
<1> HIDE DEF gone
<1>2. \A member : FoundUnder(o, member) => FoundUnder(gone, member)
  BY <1>1 DEF FoundUnder
<1>3. \A member, life : Tells(o, member, life) => Tells(gone, member, life)
  BY <1>1, <1>2 DEF Tells
<1> QED BY <1>1, <1>2, <1>3 DEF gone

\* What a check found may be old before it is recorded.
LEMMA ExpireEarlyStep == ASSUME FleetInv, NEW op \in Operators, Fle!ExpireEarly(op) PROVE FleetInv'
<1> DEFINE gone == [check[op].found EXCEPT !.expired = TRUE]
           c == [check[op] EXCEPT !.found = gone]
<1>1. /\ CheckTyped(check[op]) /\ Pending(check[op], fleet, lives) /\ check[op].step = "found"
      /\ check[op] \in CheckingType /\ check[op].found \in FoundType
  BY DEF FleetInv, Fle!ExpireEarly, CheckTyped
<1>2. /\ gone \in FoundType /\ gone.id = check[op].found.id /\ gone.life = check[op].found.life
      /\ FoundUnder(check[op].found, check[op].member) => FoundUnder(gone, check[op].member)
  BY <1>1, ExpiredFound
<1>3. check' = [check EXCEPT ![op] = c] /\ UNCHANGED <<fleet, lives>>
  BY <1>1 DEF Fle!ExpireEarly, FleetInv, CheckingType, FoundType
<1> HIDE DEF gone
<1>4. /\ c \in CheckingType /\ c.step = "found" /\ c.found = gone
      /\ c.id = check[op].id /\ c.member = check[op].member /\ c.version = check[op].version
  BY <1>1, <1>2 DEF CheckingType
<1> HIDE DEF c
<1>5. CheckTyped(c)
  BY <1>1, <1>2, <1>4 DEF CheckTyped
<1>6. Pending(c, fleet, lives)
  <2>1. UpToDate(c, fleet)
    BY <1>1, <1>4 DEF Pending, UpToDate
  <2> QED BY <2>1, <1>1, <1>2, <1>4 DEF Pending
<1> QED BY <1>3, <1>5, <1>6, CheckMoves

\* An observation that expires is still of its generation.
LEMMA ExpireStep == ASSUME FleetInv, NEW i \in DOMAIN fleet.observations, Fle!Expire(i) PROVE FleetInv'
<1> DEFINE seq == fleet.observations
           gone == [seq[i] EXCEPT !.expired = TRUE]
           later == [seq EXCEPT ![i] = gone]
<1>1. seq \in Seq(FoundType) /\ i \in DOMAIN seq /\ Told(fleet, lives) /\ DocumentTyped(fleet)
  BY DEF FleetInv, DocumentTyped
<1>2. fleet' = [version |-> fleet.version, members |-> fleet.members, observations |-> later]
      /\ UNCHANGED <<check, lives>>
  <2>1. fleet = [version |-> fleet.version, members |-> fleet.members, observations |-> fleet.observations]
    BY <1>1 DEF DocumentTyped
  <2>2. fleet' = [fleet EXCEPT !.observations[i].expired = TRUE]
    BY DEF Fle!Expire
  <2>3. [fleet EXCEPT !.observations[i].expired = TRUE] = [fleet EXCEPT !.observations = later]
    <3>1. [seq EXCEPT ![i].expired = TRUE] = later
      BY <1>1
    <3> QED BY <3>1, <2>1
  <2>4. [fleet EXCEPT !.observations = later] = [version |-> fleet.version, members |-> fleet.members, observations |-> later]
    <3> HIDE DEF later
    <3> QED BY <2>1
  <2> QED BY <2>2, <2>3, <2>4 DEF Fle!Expire
<1>3. seq[i] \in FoundType
  BY <1>1
<1>4. gone \in FoundType
  BY <1>3, ExpiredFound
<1>5. later \in Seq(FoundType) /\ DOMAIN later = DOMAIN seq
  <2> HIDE DEF seq, gone
  <2> QED BY <1>1, <1>4
<1>6. DocumentTyped(fleet')
  <2> HIDE DEF later
  <2> QED BY <1>1, <1>2, <1>5 DEF DocumentTyped
<1>7. Told(fleet', lives)
  <2>1. fleet'.observations = later /\ fleet'.members = fleet.members
    BY <1>2
  <2> SUFFICES ASSUME NEW j \in DOMAIN seq PROVE Tells(later[j], fleet.members[later[j].id], lives[later[j].id])
    BY <2>1, <1>5 DEF Told
  <2>2. Tells(seq[j], fleet.members[seq[j].id], lives[seq[j].id])
    BY <1>1 DEF Told
  <2>3. CASE j # i
    BY <2>2, <2>3
  <2>4. CASE j = i
    <3>1. later[j] = gone
      BY <2>4, <1>1
    <3> HIDE DEF later, seq
    <3> QED BY <2>2, <2>4, <3>1, <1>3, ExpiredFound DEF gone
  <2> QED BY <2>3, <2>4
<1>8. ASSUME NEW o \in Operators PROVE Pending(check[o], fleet', lives)
  <2>1. fleet'.version = fleet.version /\ fleet'.members = fleet.members /\ Pending(check[o], fleet, lives)
    BY <1>2 DEF FleetInv
  <2> QED BY <2>1 DEF Pending, UpToDate
<1> HIDE DEF later
<1> QED BY <1>2, <1>6, <1>7, <1>8 DEF FleetInv

\* What is kept of a list is in it.
LEMMA KeptOfList ==
  ASSUME NEW S, NEW seq \in Seq(S), NEW m \in Nat, m > 0
  PROVE  LET cut == SubSeq(seq, m, Len(seq)) IN
         cut \in Seq(S) /\ \A i \in DOMAIN cut : \E j \in DOMAIN seq : cut[i] = seq[j]
<1> DEFINE cut == SubSeq(seq, m, Len(seq))
<1>1. CASE m <= Len(seq)
  <2>1. cut \in Seq(S) /\ Len(cut) = Len(seq) - m + 1 /\ \A i \in 1..Len(cut) : cut[i] = seq[m + i - 1]
    BY <1>1, SubSeqProperties
  <2>2. ASSUME NEW i \in DOMAIN cut PROVE \E j \in DOMAIN seq : cut[i] = seq[j]
    <3>1. m + i - 1 \in DOMAIN seq /\ cut[i] = seq[m + i - 1]
      BY <2>1, <2>2, <1>1
    <3> QED BY <3>1
  <2> QED BY <2>1, <2>2
<1>2. CASE m > Len(seq)
  BY <1>2
<1> QED BY <1>1, <1>2

\* A check that is recorded has read the document as it is: its member is there as it was.
LEMMA RecordStep == ASSUME FleetInv, NEW op \in Operators, Fle!Record(op) PROVE FleetInv'
<1> DEFINE o == check[op].found
           all == Append(fleet.observations, o)
           from == IF Len(all) > MaxObservations THEN Len(all) - MaxObservations + 1 ELSE 1
           cut == SubSeq(all, from, Len(all))
<1>1. /\ CheckTyped(check[op]) /\ Pending(check[op], fleet, lives) /\ check[op].step = "found"
      /\ o \in FoundType /\ check[op].id \in Members /\ check[op].member \in MemberType
      /\ check[op].version = fleet.version
  BY DEF FleetInv, Fle!Record, Fle!Replace, CheckTyped
<1>2. /\ fleet' = [version |-> fleet.version + 1, members |-> fleet.members, observations |-> cut]
      /\ check' = [check EXCEPT ![op] = Fle!Idle] /\ lives' = lives
  <2>1. /\ Fle!Replace(check[op].version, fleet.members, cut)
        /\ check' = [check EXCEPT ![op] = Fle!Idle] /\ lives' = lives
    BY DEF Fle!Record
  <2> HIDE DEF cut
  <2> QED BY <2>1, <1>1 DEF Fle!Replace
<1>3. /\ DocumentTyped(fleet) /\ Told(fleet, lives) /\ fleet.observations \in Seq(FoundType) /\ MaxObservations \in Nat
      /\ fleet.version \in Nat
  BY BoundsAreNumbers DEF FleetInv, DocumentTyped
<1>4. Tells(o, fleet.members[o.id], lives[o.id])
  <2>1. /\ fleet.members[check[op].id] = check[op].member /\ check[op].member.state = "active"
        /\ o.id = check[op].id /\ FoundUnder(o, check[op].member) /\ o.life <= lives[check[op].id]
    BY <1>1 DEF Pending, UpToDate
  <2>2. o.generation = check[op].member.generation /\ check[op].member.generation \in Nat
    BY <2>1, <1>1 DEF FoundUnder, MemberType
  <2> HIDE DEF o
  <2> QED BY <2>1, <2>2 DEF Tells
<1>5. all \in Seq(FoundType) /\ from \in Nat /\ from > 0
  BY <1>1, <1>3
<1>6. ASSUME NEW j \in DOMAIN all PROVE Tells(all[j], fleet.members[all[j].id], lives[all[j].id])
  <2>1. CASE j = Len(all)
    <3>1. all[j] = o
      BY <2>1, <1>3, <1>1
    <3> HIDE DEF all, o
    <3> QED BY <3>1, <1>4
  <2>2. CASE j # Len(all)
    <3>1. j \in DOMAIN fleet.observations /\ all[j] = fleet.observations[j]
      BY <2>2, <1>3, <1>1, <1>6
    <3> HIDE DEF all, o
    <3> QED BY <3>1, <1>3 DEF Told
  <2> QED BY <2>1, <2>2
<1>7. cut \in Seq(FoundType) /\ \A i \in DOMAIN cut : \E j \in DOMAIN all : cut[i] = all[j]
  <2> HIDE DEF all, from
  <2> QED BY <1>5, KeptOfList
<1> HIDE DEF all, from, cut
<1>8. DocumentTyped(fleet')
  BY <1>2, <1>3, <1>7 DEF DocumentTyped
<1>9. Told(fleet', lives)
  <2>1. fleet'.observations = cut /\ fleet'.members = fleet.members
    BY <1>2
  <2>2. ASSUME NEW i \in DOMAIN cut PROVE Tells(cut[i], fleet.members[cut[i].id], lives[cut[i].id])
    BY <1>6, <1>7, <2>2
  <2> QED BY <2>1, <2>2 DEF Told
<1>10. ASSUME NEW other \in Operators PROVE CheckTyped(check'[other]) /\ Pending(check'[other], fleet', lives)
  <2>1. CASE other = op
    <3>1. check'[other] = Fle!Idle
      BY <2>1, <1>2 DEF FleetInv
    <3> QED BY <3>1, IdleTyped
  <2>2. CASE other # op
    <3>1. check'[other] = check[other] /\ CheckTyped(check[other]) /\ Pending(check[other], fleet, lives)
      BY <2>2, <1>2 DEF FleetInv
    <3>2. check[other].version \in Nat /\ fleet'.version = fleet.version + 1
      BY <3>1, <1>2 DEF CheckTyped, CheckingType
    <3> QED BY <3>1, <3>2, <1>3 DEF Pending, UpToDate
  <2> QED BY <2>1, <2>2
<1> QED
  <2>1. check' = [x \in Operators |-> check'[x]]
    BY <1>2 DEF FleetInv
  <2> QED BY <2>1, <1>2, <1>8, <1>9, <1>10 DEF FleetInv

\* Every step of operators and of the clock.
LEMMA FleetStep == FleetInv /\ Fle!Next => FleetInv'
<1> SUFFICES ASSUME FleetInv, Fle!Next PROVE FleetInv'
  OBVIOUS
<1>1. CASE \E id \in Members, setting \in Agents, expected \in Items : Fle!UpsertMember(id, setting, expected)
  BY <1>1, UpsertStep
<1>2. CASE \E id \in Members, state \in {"active", "paused"} : Fle!SetMemberState(id, state)
  BY <1>2, StateStep
<1>3. CASE \E id \in Members : Fle!RemoveMember(id)
  BY <1>3, RemoveStep
<1>4. CASE \E id \in Members, op \in Operators : Fle!CheckMember(op, id)
  BY <1>4, CheckingStep
<1>5. CASE \E op \in Operators, instance \in Items \cup {None} : Fle!Observe(op, instance)
  BY <1>5, ObserveStep
<1>6. CASE \E op \in Operators : Fle!Record(op)
  BY <1>6, RecordStep
<1>7. CASE \E op \in Operators : Fle!Refuse(op) \/ Fle!ExpireEarly(op)
  BY <1>7, RefuseStep, ExpireEarlyStep
<1>8. CASE \E i \in DOMAIN fleet.observations : Fle!Expire(i)
  BY <1>8, ExpireStep
<1> QED BY <1>1, <1>2, <1>3, <1>4, <1>5, <1>6, <1>7, <1>8 DEF Fle!Next

\* A set of bounded natural numbers has a greatest element.
LEMMA GreatestNatural ==
  ASSUME NEW n \in Nat, NEW T \in SUBSET (0..n), T # {}
  PROVE  \E x \in T : \A y \in T : y <= x
<1> DEFINE F == {(x + 1)..n : x \in T}
<1>1. IsFiniteSet(0..n) /\ F \in SUBSET (SUBSET (0..n)) /\ F # {}
  <2>1. IsFiniteSet(0..n)
    BY FS_Interval
  <2>2. F \in SUBSET (SUBSET (0..n))
    <3>1. ASSUME NEW x \in T PROVE (x + 1)..n \in SUBSET (0..n)
      OBVIOUS
    <3> QED BY <3>1
  <2> QED BY <2>1, <2>2
<1>2. IsWellFoundedOn(StrictSubsetOrdering(0..n), FiniteSubsetsOf(0..n))
  BY <1>1, FS_StrictSubsetOrderingWellFounded
<1>3. F \subseteq FiniteSubsetsOf(0..n)
  BY <1>1, FS_Subset DEF FiniteSubsetsOf
<1>4. PICK m \in F : \A s \in F : <<s, m>> \notin StrictSubsetOrdering(0..n)
  <2> HIDE DEF F
  <2> QED BY <1>1, <1>2, <1>3, WFMin
<1>5. PICK x \in T : m = (x + 1)..n
  BY <1>4
<1>6. ASSUME NEW y \in T, ~(y <= x) PROVE FALSE
  <2>1. (y + 1)..n \in F /\ (y + 1)..n \subseteq (x + 1)..n
    BY <1>6
  <2>2. y \in (x + 1)..n /\ y \notin (y + 1)..n
    BY <1>6
  <2> QED BY <2>1, <2>2, <1>4, <1>5, <1>1 DEF StrictSubsetOrdering
<1> QED BY <1>5, <1>6

\* The latest observation of a member is one of this member, in its generation.
LEMMA LatestIsOf ==
  ASSUME FleetInv, NEW id \in Members, Fle!Latest(id) # 0
  PROVE  /\ Fle!Latest(id) \in DOMAIN fleet.observations
         /\ Fle!IsOf(fleet.observations[Fle!Latest(id)], id)
<1> DEFINE T == {i \in 1..Len(fleet.observations) : Fle!IsOf(fleet.observations[i], id)}
<1>1. Fle!Latest(id) = IF T # {} THEN Fle!Max(T) ELSE 0
  BY DEF Fle!Latest, Fle!SelectLastInSeq
<1>2. T # {} /\ Len(fleet.observations) \in Nat /\ T \in SUBSET (0..Len(fleet.observations))
  BY <1>1 DEF FleetInv, DocumentTyped
<1>3. \E x \in T : \A y \in T : y <= x
  <2> HIDE DEF T
  <2> QED BY <1>2, GreatestNatural
<1>4. \E x \in T : \A y \in T : x >= y
  <2> HIDE DEF T
  <2> QED BY <1>2, <1>3
<1>5. Fle!Max(T) \in T
  <2> HIDE DEF T
  <2> QED BY <1>4 DEF Fle!Max
<1>6. Fle!Latest(id) \in T
  BY <1>1, <1>2, <1>5
<1> QED BY <1>6 DEF FleetInv, DocumentTyped

\* What a member is shown to be is about its present settings.
LEMMA FleetShown == FleetInv => Fle!EvidenceCurrent
<1> SUFFICES ASSUME FleetInv, NEW id \in Members, fleet.members[id] # None, Fle!Latest(id) # 0
             PROVE  LET o == fleet.observations[Fle!Latest(id)] IN
                    /\ o.life = lives[id] /\ Fle!Conditions(o).compatible = "true" =>
                         /\ o.instance = fleet.members[id].expects
                         /\ o.adapter = fleet.members[id].adapter
                         /\ fleet.members[id].state = "active"
                    /\ o.expired => Fle!Conditions(o).compatible = "unknown"
  BY DEF Fle!EvidenceCurrent
<1> DEFINE o == fleet.observations[Fle!Latest(id)]
<1>1. Fle!Latest(id) \in DOMAIN fleet.observations /\ Fle!IsOf(o, id)
  BY LatestIsOf
<1>2. o.id = id /\ o.generation = fleet.members[id].generation
  BY <1>1 DEF Fle!IsOf
<1>3. Tells(o, fleet.members[id], lives[id])
  BY <1>1, <1>2 DEF FleetInv, Told
<1> HIDE DEF o
<1>4. Fle!Conditions(o).compatible = "true" => o.compatible
  BY DEF Fle!Conditions
<1>5. o.expired => Fle!Conditions(o).compatible = "unknown"
  BY DEF Fle!Conditions
<1>6. o.life = lives[id] => FoundUnder(o, fleet.members[id]) /\ fleet.members[id].state = "active"
  BY <1>2, <1>3 DEF Tells
<1> QED BY <1>4, <1>5, <1>6 DEF FoundUnder, o

\* What a check writes is about the member as it is there.
LEMMA FleetInTime == FleetInv /\ [Fle!Next]_members => Fle!EvidenceInTime
<1> SUFFICES ASSUME FleetInv, [Fle!Next]_members, NEW op \in Operators, check[op].step = "found",
                    fleet'.version # fleet.version, check'[op] = Fle!Idle
             PROVE  fleet.members[check[op].id] = check[op].member
  BY DEF Fle!EvidenceInTime
<1>1. check' # check /\ fleet' # fleet
  BY DEF Fle!Idle
<1>2. PICK o \in Operators : Fle!Record(o)
  <2>1. Fle!Next
    BY <1>1 DEF members
  <2>2. ASSUME NEW i \in DOMAIN fleet.observations, Fle!Expire(i) PROVE FALSE
    BY <2>2, <1>1 DEF Fle!Expire
  <2>3. ASSUME NEW id \in Members,
               \/ \E setting \in Agents, expected \in Items : Fle!UpsertMember(id, setting, expected)
               \/ \E state \in {"active", "paused"} : Fle!SetMemberState(id, state)
               \/ Fle!RemoveMember(id)
               \/ \E x \in Operators : Fle!CheckMember(x, id)
        PROVE  FALSE
    BY <2>3, <1>1 DEF Fle!UpsertMember, Fle!SetMemberState, Fle!RemoveMember, Fle!CheckMember
  <2>4. ASSUME NEW x \in Operators,
               (\E instance \in Items \cup {None} : Fle!Observe(x, instance)) \/ Fle!Refuse(x) \/ Fle!ExpireEarly(x)
        PROVE  FALSE
    BY <2>4, <1>1 DEF Fle!Observe, Fle!Refuse, Fle!ExpireEarly
  <2> QED BY <2>1, <2>2, <2>3, <2>4 DEF Fle!Next
<1>3. o = op
  <2>1. check' = [check EXCEPT ![o] = Fle!Idle]
    BY <1>2 DEF Fle!Record
  <2>2. check'[op] # check[op]
    BY DEF Fle!Idle
  <2> QED BY <2>1, <2>2 DEF FleetInv
<1>4. Pending(check[op], fleet, lives) /\ check[op].version = fleet.version
  BY <1>2, <1>3 DEF FleetInv, Fle!Record, Fle!Replace
<1> QED BY <1>4 DEF Pending, UpToDate

\* A fleet that stands still keeps what holds of it.
LEMMA FleetStill == ASSUME FleetInv, UNCHANGED members PROVE FleetInv'
BY DEF members, FleetInv, DocumentTyped, CheckTyped, Pending, UpToDate, FoundUnder, Told, Tells

-----------------------------------------------------------------------------
(* The history of the browser (StudioHistory): what the adapter observed last is where the browser *)
(* is, and while the browser is led back, it is led to what was accepted.                          *)

Spots     == [hash : Agents, index : 0..MaxSlots]
SlotType  == [hash : Agents, index : (0..MaxSlots) \cup {None}]
KnownType == [0..MaxSlots -> Agents \cup {None}]
BrowserType == [slots : Seq(SlotType), at : Nat, going : Seq(Int)]
AdapterType == [accepted : Spots, known : KnownType, compensation : Spots \cup {None}, seen : SlotType]

HistoryTypes ==
  /\ browser \in BrowserType /\ browser.at \in 1..Len(browser.slots)
  /\ adapter \in AdapterType

\* A request is of a browser that nobody leads back, and one that is led back is led to the
\* accepted location; at rest it is there.
Led ==
  /\ pending # "none" => adapter.compensation = None
  /\ adapter.compensation # None /\ ~overtaken => adapter.compensation = adapter.accepted
  /\ pending = "none" /\ adapter.compensation = None /\ ~overtaken =>
       His!Here(browser).hash = adapter.accepted.hash

HistoryInv == HistoryTypes /\ Led /\ adapter.seen = His!Key(browser, adapter)

\* The index that a new epoch begins with.
LEMMA ZeroIsIndex == 0 \in 0..MaxSlots
BY BoundsAreNumbers

\* What holds of a browser and of what the adapter knows of it.
Sits(b, a) == b \in BrowserType /\ b.at \in 1..Len(b.slots) /\ a \in AdapterType
Rests(b, hash, nr) == His!Here(b) = [hash |-> hash, index |-> nr]
Settled(b, a) == Sits(b, a) /\ a.seen = His!Key(b, a) /\ His!Here(b).hash = a.accepted.hash

\* The location of the browser.
LEMMA HereIs ==
  ASSUME NEW b, NEW a, Sits(b, a)
  PROVE  /\ His!Here(b) \in SlotType /\ His!Marker(b, a) \in (0..MaxSlots) \cup {None}
         /\ His!Key(b, a) \in SlotType /\ His!Key(b, a).hash = His!Here(b).hash
<1>1. b.slots \in Seq(SlotType) /\ b.slots[b.at] \in SlotType
  BY ElementOfSeq DEF Sits, BrowserType
<1>2. His!Here(b).index \in (0..MaxSlots) \cup {None} /\ His!Here(b).hash \in Agents
  BY <1>1 DEF His!Here, SlotType
<1>3. His!Marker(b, a) \in (0..MaxSlots) \cup {None}
  BY <1>2 DEF His!Marker
<1> QED BY <1>1, <1>2, <1>3 DEF His!Key, His!Here, SlotType

\* What is accepted at the current slot is seen there.
LEMMA AcceptedIs ==
  ASSUME NEW b, NEW a, Sits(b, a), NEW hash \in Agents, NEW nr \in 0..MaxSlots,
         Rests(b, hash, nr)
  PROVE  /\ Settled(b, His!Accepting(a, hash, nr))
         /\ His!Accepting(a, hash, nr).compensation = a.compensation
<1> DEFINE spot == [hash |-> hash, index |-> nr]
           c == His!Accepting(a, hash, nr)
           known == [a.known EXCEPT ![nr] = hash]
<1>1. spot \in Spots /\ spot \in SlotType /\ spot.hash = hash /\ spot.index = nr
  BY DEF Spots, SlotType
<1>2. a \in AdapterType /\ known \in KnownType /\ known[nr] = hash
  BY DEF Sits, AdapterType, KnownType
<1>3. c = [a EXCEPT !.accepted = spot, !.known = known, !.seen = spot]
  BY <1>2 DEF His!Accepting, AdapterType
<1> HIDE DEF spot, known
<1>4. /\ c \in AdapterType /\ c.accepted = spot /\ c.known = known /\ c.seen = spot
      /\ c.compensation = a.compensation
  <2> HIDE DEF c
  <2> QED BY <1>1, <1>2, <1>3 DEF AdapterType
<1> HIDE DEF c
<1>5. His!Here(b).hash = hash /\ His!Here(b).index = nr
  BY <1>1 DEF spot, Rests
<1>6. His!Marker(b, c) = nr
  BY <1>2, <1>4, <1>5 DEF His!Marker
<1>7. His!Key(b, c) = spot
  BY <1>5, <1>6 DEF His!Key, spot
<1>8. Settled(b, c)
  BY <1>1, <1>4, <1>5, <1>7 DEF Sits, Settled
<1> QED BY <1>4, <1>8 DEF c

\* A new epoch.
LEMMA ForgottenIs ==
  ASSUME NEW b, NEW a, Sits(b, a)
  PROVE  /\ Sits(His!Forgotten(b), His!Fresh(a))
         /\ His!Fresh(a).accepted.hash = a.accepted.hash
         /\ His!Fresh(a).compensation = a.compensation
         /\ Len(His!Forgotten(b).slots) = Len(b.slots) /\ His!Forgotten(b).at = b.at
<1> DEFINE slots == [i \in DOMAIN b.slots |-> [b.slots[i] EXCEPT !.index = None]]
<1>0. b.slots \in Seq(SlotType) /\ DOMAIN b.slots = 1..Len(b.slots) /\ Len(b.slots) \in Nat
  BY LenProperties DEF Sits, BrowserType
<1>1. ASSUME NEW x \in SlotType PROVE [x EXCEPT !.index = None] \in SlotType
  BY DEF SlotType
<1>2. slots \in Seq(SlotType) /\ Len(slots) = Len(b.slots)
  BY <1>0, <1>1, ElementOfSeq
<1> HIDE DEF slots
<1>3. His!Forgotten(b) = [b EXCEPT !.slots = slots]
  BY DEF His!Forgotten, slots
<1>4. /\ His!Forgotten(b) \in BrowserType /\ His!Forgotten(b).slots = slots
      /\ His!Forgotten(b).at = b.at
  BY <1>2, <1>3 DEF Sits, BrowserType
<1> DEFINE none == [i \in 0..MaxSlots |-> None]
           spot == [a.accepted EXCEPT !.index = 0]
<1>5. none \in KnownType
  BY DEF KnownType
<1>6. a.accepted \in Spots /\ a \in AdapterType
  BY DEF Sits, AdapterType
<1>7. spot \in Spots /\ spot.hash = a.accepted.hash
  BY <1>6, ZeroIsIndex DEF Spots
<1>8. His!Fresh(a) = [a EXCEPT !.known = none, !.accepted = spot]
  BY <1>6 DEF His!Fresh, His!NoIndex, His!Indexes, AdapterType
<1> HIDE DEF none, spot
<1>9. /\ His!Fresh(a) \in AdapterType /\ His!Fresh(a).accepted = spot
      /\ His!Fresh(a).compensation = a.compensation
  BY <1>5, <1>6, <1>7, <1>8 DEF AdapterType
<1> QED BY <1>0, <1>2, <1>4, <1>7, <1>9 DEF Sits

\* replaceState at the current slot.
LEMMA ReplacedIs ==
  ASSUME NEW b, NEW a, Sits(b, a), NEW hash \in Agents, NEW nr \in 0..MaxSlots
  PROVE  /\ Sits(His!Replacing(b, hash, nr), a)
         /\ Rests(His!Replacing(b, hash, nr), hash, nr)
<1> DEFINE spot == [hash |-> hash, index |-> nr]
           slots == [b.slots EXCEPT ![b.at] = spot]
<1>0. b.slots \in Seq(SlotType) /\ b.at \in 1..Len(b.slots) /\ spot \in SlotType
  BY DEF Sits, BrowserType, SlotType
<1>1. slots \in Seq(SlotType) /\ Len(slots) = Len(b.slots) /\ slots[b.at] = spot
  BY <1>0, ExceptSeq
<1>2. His!Replacing(b, hash, nr) = [b EXCEPT !.slots = slots]
  BY DEF His!Replacing
<1> HIDE DEF slots, spot
<1>3. LET c == His!Replacing(b, hash, nr) IN c \in BrowserType /\ c.slots = slots /\ c.at = b.at
  BY <1>1, <1>2 DEF Sits, BrowserType
<1> QED BY <1>0, <1>1, <1>3 DEF Sits, His!Here, spot, Rests

\* pushState drops the slots ahead.
LEMMA PushedIs ==
  ASSUME NEW b, NEW a, Sits(b, a), NEW slot \in SlotType
  PROVE  LET c == [b EXCEPT !.slots = Append(SubSeq(@, 1, b.at), slot), !.at = @ + 1]
         IN  Sits(c, a) /\ His!Here(c) = slot
<1> DEFINE front == SubSeq(b.slots, 1, b.at)
           slots == Append(front, slot)
           n == b.at + 1
<1>0. b.slots \in Seq(SlotType) /\ b.at \in 1..Len(b.slots) /\ b.at \in Nat /\ Len(b.slots) \in Nat
  BY LenProperties DEF Sits, BrowserType
<1>1. front \in Seq(SlotType) /\ Len(front) = b.at
  <2>1. \A i \in 1..b.at : b.slots[i] \in SlotType
    BY <1>0, ElementOfSeq
  <2> QED BY <1>0, <2>1, SubSeqProperties
<1> HIDE DEF front
<1>2. slots \in Seq(SlotType) /\ Len(slots) = n /\ slots[n] = slot /\ n \in Nat /\ n \in 1..Len(slots)
  BY <1>0, <1>1
<1> HIDE DEF slots, n
<1> DEFINE c == [b EXCEPT !.slots = slots, !.at = n]
<1>3. c \in BrowserType /\ c.slots = slots /\ c.at = n
  BY <1>2 DEF Sits, BrowserType
<1>4. c = [b EXCEPT !.slots = Append(SubSeq(@, 1, b.at), slot), !.at = @ + 1]
  BY DEF slots, n, front, Sits, BrowserType
<1> HIDE DEF c
<1>5. Sits(c, a) /\ His!Here(c) = slot
  BY <1>2, <1>3 DEF Sits, His!Here
<1> QED BY <1>4, <1>5

\* The browser has one slot, the accepted one.
LEMMA HistoryInit == His!Init => HistoryInv
<1>1. SUFFICES ASSUME NEW hash \in Agents,
          browser = [slots |-> <<[hash |-> hash, index |-> 0]>>, at |-> 1, going |-> <<>>],
          adapter = [accepted |-> [hash |-> hash, index |-> 0], known |-> [His!NoIndex EXCEPT ![0] = hash],
                     compensation |-> None, seen |-> [hash |-> hash, index |-> 0]],
          pending = "none", overtaken = FALSE
        PROVE HistoryInv
  BY DEF His!Init
<1> DEFINE spot == [hash |-> hash, index |-> 0]
           known == [His!NoIndex EXCEPT ![0] = hash]
<1>2. spot \in Spots /\ spot \in SlotType /\ spot.hash = hash /\ spot.index = 0
  BY ZeroIsIndex DEF Spots, SlotType
<1>3. known \in KnownType /\ known[0] = hash
  BY ZeroIsIndex DEF KnownType, His!NoIndex, His!Indexes
<1>4. browser = [slots |-> <<spot>>, at |-> 1, going |-> <<>>]
      /\ adapter = [accepted |-> spot, known |-> known, compensation |-> None, seen |-> spot]
  BY <1>1
<1> HIDE DEF spot, known
<1>5. HistoryTypes
  BY <1>2, <1>3, <1>4 DEF HistoryTypes, BrowserType, AdapterType
<1>6. His!Here(browser) = spot /\ adapter.known = known
  BY <1>4 DEF His!Here
<1>7. His!Marker(browser, adapter) = 0
  BY <1>2, <1>3, <1>6 DEF His!Marker
<1>8. His!Key(browser, adapter) = spot
  BY <1>2, <1>6, <1>7 DEF His!Key, spot
<1> QED BY <1>1, <1>4, <1>5, <1>6, <1>8 DEF HistoryInv, Led

\* A step that ends with an accepted location at the current slot.
LEMMA AcceptedKeeps ==
  ASSUME NEW b, NEW a, Sits(b, a), NEW hash \in Agents, NEW nr \in 0..MaxSlots,
         Rests(b, hash, nr),
         browser' = b, adapter' = His!Accepting(a, hash, nr),
         a.compensation = None \/ (pending' = "none" /\ overtaken')
  PROVE  HistoryInv'
<1> DEFINE c == His!Accepting(a, hash, nr)
<1>1. Settled(b, c) /\ c.compensation = a.compensation
  BY AcceptedIs
<1>2. adapter' = c /\ browser' = b
  OBVIOUS
<1> HIDE DEF c
<1>3. HistoryTypes'
  BY <1>1, <1>2 DEF Settled, Sits, HistoryTypes
<1>4. His!Key(browser, adapter)' = His!Key(b, c) /\ His!Here(browser)' = His!Here(b)
  BY <1>2 DEF His!Key, His!Here, His!Marker
<1>5. Led'
  BY <1>1, <1>2, <1>4 DEF Led, Settled
<1> QED BY <1>1, <1>2, <1>3, <1>4, <1>5 DEF HistoryInv, Settled

\* The slot that Rewrite leaves is the one it was given.
LEMMA RewriteKeeps ==
  ASSUME HistoryInv, NEW hash \in Agents, NEW nr \in 0..MaxSlots, His!Rewrite(adapter, hash, nr),
         adapter.compensation = None
  PROVE  HistoryInv'
<1>1. Sits(browser, adapter)
  BY DEF HistoryInv, HistoryTypes, Sits
<1>2. CASE His!Marker(browser, adapter) = None
  <2> DEFINE f == His!Forgotten(browser)
             a == His!Fresh(adapter)
             b == His!Replacing(f, hash, nr)
  <2>1. Sits(f, a) /\ a.compensation = None
    BY <1>1, ForgottenIs
  <2>2. browser' = b /\ adapter' = His!Accepting(a, hash, nr)
    BY <1>2 DEF His!Rewrite
  <2> HIDE DEF f, a
  <2>3. Sits(b, a) /\ Rests(b, hash, nr)
    BY <2>1, ReplacedIs
  <2> HIDE DEF b
  <2> QED BY <2>1, <2>2, <2>3, AcceptedKeeps
<1>3. CASE His!Marker(browser, adapter) # None
  <2> DEFINE b == His!Replacing(browser, hash, nr)
  <2>1. browser' = b /\ adapter' = His!Accepting(adapter, hash, nr)
    BY <1>3 DEF His!Rewrite
  <2>2. Sits(b, adapter) /\ Rests(b, hash, nr)
    BY <1>1, ReplacedIs
  <2> HIDE DEF b
  <2> QED BY <1>1, <2>1, <2>2, AcceptedKeeps
<1> QED BY <1>2, <1>3

\* So is the one that Push adds.
LEMMA PushKeeps ==
  ASSUME HistoryInv, NEW hash \in Agents, His!Push(hash),
         adapter.compensation = None \/ (pending' = "none" /\ overtaken')
  PROVE  HistoryInv'
<1> DEFINE marker == His!Marker(browser, adapter)
           f == IF marker = None THEN His!Forgotten(browser) ELSE browser
           a == IF marker = None THEN His!Fresh(adapter) ELSE adapter
           nr == IF marker = None THEN 1 ELSE marker + 1
           spot == [hash |-> hash, index |-> nr]
           b == [f EXCEPT !.slots = Append(SubSeq(@, 1, f.at), spot), !.at = @ + 1]
<1>1. Sits(browser, adapter)
  BY DEF HistoryInv, HistoryTypes, Sits
<1>2. marker \in (0..MaxSlots) \cup {None}
  BY <1>1, HereIs
<1>3. Sits(f, a) /\ a.compensation = adapter.compensation
  BY <1>1, ForgottenIs
<1>4. nr <= MaxSlots /\ browser' = b /\ adapter' = His!Accepting(a, hash, nr)
  BY DEF His!Push
<1>5. nr \in 0..MaxSlots
  BY <1>2, <1>4
<1> HIDE DEF marker, f, a, nr
<1>7. spot \in SlotType
  BY <1>5 DEF SlotType
<1>8. Sits(b, a) /\ His!Here(b) = spot
  <2> HIDE DEF spot
  <2> QED BY <1>3, <1>7, PushedIs
<1>9. Rests(b, hash, nr)
  BY <1>8 DEF Rests
<1> HIDE DEF b, spot
<1> QED BY <1>3, <1>4, <1>5, <1>8, <1>9, AcceptedKeeps

\* What the adapter makes of a move, wherever the browser arrives.
LEMMA MovedKeeps ==
  ASSUME HistoryInv, NEW b \in BrowserType, b.at \in 1..Len(b.slots), His!Moved(b)
  PROVE  HistoryInv'
<1> DEFINE key == His!Key(b, adapter)
<1>1. Sits(b, adapter)
  BY DEF HistoryInv, HistoryTypes, Sits
<1>2. key \in SlotType /\ key.hash = His!Here(b).hash
  BY <1>1, HereIs
<1>3. Led /\ adapter.seen = His!Key(browser, adapter) /\ Sits(browser, adapter)
  BY DEF HistoryInv, HistoryTypes, Sits
<1>4. His!Key(browser, adapter).hash = His!Here(browser).hash
  BY <1>3, HereIs
<1>5. browser' = b /\ overtaken' = overtaken
  BY DEF His!Moved
<1>6. His!Here(browser)' = His!Here(b)
  BY <1>5 DEF His!Here
<1>7. CASE key = adapter.seen
  <2>1. adapter' = adapter /\ pending' = pending
    BY <1>7 DEF His!Moved
  <2>2. His!Key(browser, adapter)' = key
    BY <1>5, <2>1 DEF His!Key, His!Here, His!Marker
  <2>3. HistoryTypes'
    BY <1>1, <1>5, <2>1 DEF HistoryTypes, Sits
  <2>4. His!Here(b).hash = His!Here(browser).hash
    BY <1>2, <1>3, <1>4, <1>7
  <2>5. Led'
    BY <1>3, <1>5, <1>6, <2>1, <2>4 DEF Led
  <2> QED BY <1>3, <1>7, <2>1, <2>2, <2>3, <2>5 DEF HistoryInv
<1>8. CASE key # adapter.seen
  <2> DEFINE a == [adapter EXCEPT !.seen = key, !.compensation = None]
  <2>1. adapter' = a /\ pending' = IF His!LeadsBack(b, adapter) THEN pending ELSE "external"
    BY <1>8 DEF His!Moved
  <2> HIDE DEF key
  <2>2. /\ a \in AdapterType /\ a.seen = key /\ a.compensation = None /\ a.known = adapter.known
        /\ a.accepted = adapter.accepted
    BY <1>1, <1>2 DEF Sits, AdapterType
  <2> HIDE DEF a
  <2>3. His!Key(browser, adapter)' = key
    BY <1>5, <2>1, <2>2 DEF His!Key, His!Here, His!Marker, key
  <2>4. HistoryTypes'
    BY <1>5, <2>1, <2>2 DEF HistoryTypes
  <2>5. CASE His!LeadsBack(b, adapter)
    <3>1. adapter.compensation # None /\ key = adapter.compensation
      BY <2>5 DEF His!LeadsBack, key
    <3>2. ~overtaken => key = adapter.accepted
      BY <1>3, <3>1 DEF Led
    <3>3. ~overtaken' => His!Here(browser)'.hash = adapter'.accepted.hash
      BY <1>2, <1>5, <1>6, <2>1, <2>2, <3>2
    <3>4. Led'
      BY <2>1, <2>2, <3>3 DEF Led
    <3> QED BY <2>1, <2>2, <2>3, <2>4, <3>4 DEF HistoryInv
  <2>6. CASE ~His!LeadsBack(b, adapter)
    <3>1. Led'
      BY <2>1, <2>2, <2>6 DEF Led
    <3> QED BY <2>1, <2>2, <2>3, <2>4, <3>1 DEF HistoryInv
  <2> QED BY <2>5, <2>6
<1> QED BY <1>7, <1>8

\* What was refused is undone by a traversal or by the accepted address at the slot.
LEMMA RestoreKeeps ==
  ASSUME HistoryInv, His!Restore, pending # "none", pending' = "none", overtaken' = overtaken
  PROVE  HistoryInv'
<1> DEFINE marker == His!Marker(browser, adapter)
<1>1. Sits(browser, adapter) /\ Led /\ adapter.seen = His!Key(browser, adapter)
  BY DEF HistoryInv, HistoryTypes, Sits
<1>2. marker \in (0..MaxSlots) \cup {None}
  BY <1>1, HereIs
<1>3. adapter.compensation = None
  BY <1>1 DEF Led
<1>4. adapter.accepted \in Spots /\ adapter.accepted.hash \in Agents /\ adapter.accepted.index \in 0..MaxSlots
  BY <1>1 DEF Sits, AdapterType, Spots
<1>5. CASE marker # None /\ marker # adapter.accepted.index
  <2> DEFINE back == adapter.accepted.index - marker
             going == Append(browser.going, back)
             b == [browser EXCEPT !.going = going]
             a == [adapter EXCEPT !.compensation = adapter.accepted]
  <2>1. browser' = b /\ adapter' = a
    BY <1>5 DEF His!Restore
  <2>2. going \in Seq(Int)
    BY <1>1, <1>2, <1>4, <1>5 DEF Sits, BrowserType
  <2> HIDE DEF going, marker
  <2>3. b \in BrowserType /\ b.at = browser.at /\ b.slots = browser.slots
    BY <1>1, <2>2 DEF Sits, BrowserType
  <2>4. /\ a \in AdapterType /\ a.known = adapter.known /\ a.seen = adapter.seen
        /\ a.accepted = adapter.accepted /\ a.compensation = adapter.accepted
    BY <1>1, <1>4 DEF Sits, AdapterType
  <2> HIDE DEF a, b
  <2>5. HistoryTypes'
    BY <1>1, <2>1, <2>3, <2>4 DEF Sits, HistoryTypes
  <2>6. His!Key(browser, adapter)' = His!Key(browser, adapter)
    BY <2>1, <2>3, <2>4 DEF His!Key, His!Here, His!Marker
  <2>7. adapter.accepted # None
    BY <1>4, NoneApart DEF Spots
  <2>8. Led'
    BY <2>1, <2>4, <2>7 DEF Led
  <2> QED BY <1>1, <2>1, <2>4, <2>5, <2>6, <2>8 DEF HistoryInv
<1>6. CASE ~(marker # None /\ marker # adapter.accepted.index)
  <2> DEFINE nr == IF marker = None THEN 0 ELSE marker
  <2>1. His!Rewrite(adapter, adapter.accepted.hash, nr) /\ nr \in 0..MaxSlots
    BY <1>2, <1>6, ZeroIsIndex DEF His!Restore
  <2> HIDE DEF nr
  <2> QED BY <1>3, <1>4, <2>1, RewriteKeeps
<1> QED BY <1>5, <1>6

\* A step that leaves the browser and the adapter alone.
LEMMA StillKeeps ==
  ASSUME HistoryInv, UNCHANGED <<browser, adapter, overtaken>>, Led'
  PROVE  HistoryInv'
BY DEF HistoryInv, HistoryTypes, His!Key, His!Here, His!Marker

\* Every step of the history.
LEMMA HistoryStep == HistoryInv /\ His!Next => HistoryInv'
<1>0. SUFFICES ASSUME HistoryInv, His!Next PROVE HistoryInv'
  OBVIOUS
<1>1. Sits(browser, adapter) /\ browser \in BrowserType /\ adapter.compensation \in Spots \cup {None} /\ Led
  BY <1>0 DEF HistoryInv, HistoryTypes, Sits, AdapterType
<1>2. /\ browser.slots \in Seq(SlotType) /\ browser.at \in 1..Len(browser.slots)
      /\ Len(browser.slots) \in Nat /\ DOMAIN browser.slots = 1..Len(browser.slots)
      /\ browser.going \in Seq(Int)
  BY <1>1, LenProperties DEF Sits, BrowserType
<1>3. His!Marker(browser, adapter) \in (0..MaxSlots) \cup {None}
  BY <1>1, HereIs
<1>4. ASSUME NEW slot \in 1..MaxSlots, His!UserTraverses(slot) PROVE HistoryInv'
  <2> DEFINE b == [browser EXCEPT !.at = slot]
  <2>1. slot \in 1..Len(browser.slots) /\ His!Moved(b)
    BY <1>2, <1>4 DEF His!UserTraverses
  <2>0. browser \in BrowserType /\ slot \in Nat
    BY <1>1, <1>4
  <2>2. b \in BrowserType /\ b.at = slot /\ b.slots = browser.slots
    BY <2>0 DEF BrowserType
  <2> HIDE DEF b
  <2> QED BY <1>0, <2>1, <2>2, MovedKeeps
<1>5. ASSUME NEW hash \in Agents, His!UserTypes(hash) PROVE HistoryInv'
  <2> DEFINE slot == [hash |-> hash, index |-> None]
             b == [browser EXCEPT !.slots = Append(SubSeq(@, 1, browser.at), slot), !.at = @ + 1]
  <2>1. slot \in SlotType
    BY DEF SlotType
  <2>2. His!Moved(b)
    BY <1>5 DEF His!UserTypes
  <2> HIDE DEF slot
  <2>3. Sits(b, adapter)
    BY <1>1, <2>1, PushedIs
  <2> HIDE DEF b
  <2> QED BY <1>0, <2>2, <2>3, MovedKeeps DEF Sits
<1>6. CASE His!BrowserGoes
  <2> DEFINE going == Tail(browser.going)
             rest == [browser EXCEPT !.going = going]
             slot == browser.at + Head(browser.going)
             b == [rest EXCEPT !.at = slot]
  <2>1. browser.going # <<>>
    BY <1>6 DEF His!BrowserGoes
  <2>2. going \in Seq(Int)
    BY <1>2, <2>1
  <2>3. IF slot \in DOMAIN browser.slots THEN His!Moved(b)
        ELSE browser' = rest /\ UNCHANGED <<adapter, pending, overtaken>>
    BY <1>6 DEF His!BrowserGoes
  <2> HIDE DEF going, slot
  <2>4. rest \in BrowserType /\ rest.slots = browser.slots /\ rest.at = browser.at
    BY <1>1, <2>2 DEF BrowserType
  <2>5. CASE slot \in 1..Len(browser.slots)
    <3>1. b \in BrowserType /\ b.slots = browser.slots /\ b.at = slot
      <4> HIDE DEF rest
      <4> QED BY <2>4, <2>5 DEF BrowserType
    <3>2. His!Moved(b)
      BY <1>2, <2>3, <2>5
    <3> HIDE DEF b
    <3> QED BY <1>0, <2>5, <3>1, <3>2, MovedKeeps
  <2>6. CASE slot \notin 1..Len(browser.slots)
    <3>1. browser' = rest /\ UNCHANGED <<adapter, pending, overtaken>>
      BY <1>2, <2>3, <2>6
    <3> HIDE DEF rest
    <3>2. HistoryTypes'
      BY <1>1, <1>2, <2>4, <3>1 DEF HistoryTypes, Sits
    <3>3. /\ His!Here(browser)' = His!Here(browser)
          /\ His!Key(browser, adapter)' = His!Key(browser, adapter)
      BY <2>4, <3>1 DEF His!Key, His!Here, His!Marker
    <3>4. Led'
      BY <1>1, <3>1, <3>3 DEF Led
    <3> QED BY <1>0, <3>1, <3>2, <3>3, <3>4 DEF HistoryInv
  <2> QED BY <2>5, <2>6
<1>7. CASE His!Refuse
  <2>1. pending # "none" /\ pending' = "none" /\ overtaken' = overtaken
    BY <1>7 DEF His!Refuse
  <2>2. CASE pending = "external" \/ His!Here(browser).hash # adapter.accepted.hash
    <3>1. His!Restore
      BY <1>7, <2>2 DEF His!Refuse
    <3> QED BY <1>0, <2>1, <3>1, RestoreKeeps
  <2>3. CASE ~(pending = "external" \/ His!Here(browser).hash # adapter.accepted.hash)
    <3>1. UNCHANGED <<browser, adapter>>
      BY <1>7, <2>3 DEF His!Refuse
    <3>2. Led'
      BY <1>1, <2>1, <2>3, <3>1 DEF Led, His!Here
    <3> QED BY <1>0, <2>1, <3>1, <3>2, StillKeeps
  <2> QED BY <2>2, <2>3
<1>8. CASE His!Navigate
  <2>1. /\ UNCHANGED <<browser, adapter, overtaken>> /\ adapter.compensation = None
        /\ pending' = "internal"
    BY <1>8 DEF His!Navigate
  <2>2. Led'
    BY <2>1 DEF Led
  <2> QED BY <1>0, <2>1, <2>2, StillKeeps
<1>9. ASSUME NEW hash \in Agents, His!Accept(hash) PROVE HistoryInv'
  <2> DEFINE marker == His!Marker(browser, adapter)
             nr == IF marker = None THEN 0 ELSE marker
  <2>1. pending # "none" /\ pending' = "none" /\ overtaken' = overtaken
    BY <1>9 DEF His!Accept
  <2>2. adapter.compensation = None
    BY <1>1, <2>1 DEF Led
  <2>3. CASE pending = "external" /\ His!Rewrite(adapter, hash, nr)
    <3>1. nr \in 0..MaxSlots
      BY <1>3, ZeroIsIndex
    <3> HIDE DEF nr
    <3> QED BY <1>0, <2>2, <2>3, <3>1, RewriteKeeps
  <2>4. CASE His!Push(hash)
    BY <1>0, <2>2, <2>4, PushKeeps
  <2>5. CASE hash = adapter.accepted.hash /\ His!Here(browser).hash # hash /\ His!Restore
    BY <1>0, <2>1, <2>5, RestoreKeeps
  <2>6. CASE hash = adapter.accepted.hash /\ His!Here(browser).hash = hash /\ UNCHANGED <<browser, adapter>>
    <3>1. Led'
      BY <2>1, <2>2, <2>6 DEF Led, His!Here
    <3> QED BY <1>0, <2>1, <2>6, <3>1, StillKeeps
  <2> QED BY <1>9, <2>3, <2>4, <2>5, <2>6 DEF His!Accept
<1>10. ASSUME NEW hash \in Agents, His!PushAccepted(hash) PROVE HistoryInv'
  <2>1. /\ His!Push(hash) /\ pending' = pending
        /\ overtaken' = (overtaken \/ adapter.compensation # None)
    BY <1>10 DEF His!PushAccepted
  <2>2. adapter.compensation = None \/ (pending' = "none" /\ overtaken')
    BY <1>1, <2>1 DEF Led
  <2> QED BY <1>0, <2>1, <2>2, PushKeeps
<1>11. ASSUME NEW hash \in Agents, His!Reset(hash) PROVE HistoryInv'
  <2> DEFINE f == His!Forgotten(browser)
             fr == His!Fresh(adapter)
             a == [fr EXCEPT !.compensation = None]
             b == His!Replacing(f, hash, 0)
  <2>1. browser' = b /\ adapter' = His!Accepting(a, hash, 0)
    BY <1>11 DEF His!Reset
  <2>2. Sits(f, fr)
    BY <1>1, ForgottenIs
  <2> HIDE DEF f, fr
  <2>3. Sits(f, a) /\ a.compensation = None
    BY <2>2 DEF Sits, AdapterType
  <2> HIDE DEF a
  <2>4. Sits(b, a) /\ Rests(b, hash, 0)
    BY <2>3, ReplacedIs, ZeroIsIndex
  <2> HIDE DEF b
  <2> QED BY <2>1, <2>3, <2>4, AcceptedKeeps, ZeroIsIndex
<1> QED BY <1>0, <1>4, <1>5, <1>6, <1>7, <1>8, <1>9, <1>10, <1>11 DEF His!Next

-----------------------------------------------------------------------------
(* The lifetimes of the Studio (StudioSession): whatever is known of the current lifetime is of the *)
(* identity that was confirmed last, and the past ones are over.                                   *)

User       == Agents \X Ses!Who
ClientType == [scope : Agents, nr : Nat]
SessionType == [authority : [who : User, gen : Nat] \cup {None}, verified : ClientType \cup {None}, gen : Nat,
                fingerprint : User \cup {None}, lifetime : Nat]
RenderType == [client : ClientType, lifetime : Nat, known : BOOLEAN, status : Ses!Status]
CheckType  == [client : ClientType, denied : User \cup {None}, got : Ses!Who \cup {"nobody", "failed", None},
               kept : Nat \cup {None}]
SwitchType == [to : ClientType, from : ClientType, gen : Nat, who : Ses!Who,
               got : Ses!Who \cup {"nobody", None}, step : {"verify", "cleanup"}]
CallType   == [client : ClientType, born : Nat, gen : Nat, who : User]

\* A switch that cleans up was verified as somebody.
Around ==
  /\ server \in Ses!Who \cup {"nobody"} /\ wanted \in RenderType /\ shown \in RenderType
  /\ checking \in CheckType \cup {None} /\ switching \in SwitchType \cup {None}
  /\ switching # None /\ switching.step = "cleanup" => switching.got \in Ses!Who

\* A lifetime is over, or is of the identity that was confirmed last.
OfLifetime(n, who) ==
  n <= session.lifetime /\ (n = session.lifetime /\ session.fingerprint # None => who = session.fingerprint)

Owned ==
  /\ session \in SessionType
  /\ session.authority # None =>
       session.fingerprint # None /\ session.authority.who = session.fingerprint

Kept ==
  /\ calls \in SUBSET CallType /\ held \in SUBSET (Nat \X User)
  /\ \A c \in calls : OfLifetime(c.born, c.who)
  /\ \A p \in held : OfLifetime(p[1], p[2])
  /\ Ses!OneIdentityPerLifetime

SessionInv == Around /\ Owned /\ Kept

\* A user is somebody.
LEMMA UserIsSomebody == ASSUME NEW who \in User PROVE who # None
BY NoneApart DEF User, Ses!Who

\* A lifetime goes on under its identity or a later one begins; who acts in it is that identity.
LEMMA LifetimeKeeps ==
  ASSUME SessionInv, Around', Owned',
         \/ session'.lifetime > session.lifetime
         \/ /\ session'.lifetime = session.lifetime
            /\ session'.fingerprint = None \/ session'.fingerprint = session.fingerprint,
         \/ held' = held
         \/ session'.fingerprint \in User /\ held' = held \cup {<<session'.lifetime, session'.fingerprint>>},
         \A c \in calls' : c \in calls \/ (/\ c \in CallType /\ c.born = session'.lifetime
                                          /\ c.who = session'.fingerprint)
  PROVE  SessionInv'
<1>1. /\ session.lifetime \in Nat /\ session'.lifetime \in Nat
      /\ Kept
  BY DEF SessionInv, Owned, SessionType
<1>2. ASSUME NEW n \in Nat, NEW who, OfLifetime(n, who)
      PROVE  OfLifetime(n, who)'
  BY <1>1, <1>2 DEF OfLifetime
<1>3. ASSUME NEW c \in calls' PROVE c \in CallType /\ OfLifetime(c.born, c.who)'
  <2>1. CASE c \in calls
    <3>1. c \in CallType /\ c.born \in Nat /\ OfLifetime(c.born, c.who)
      BY <1>1, <2>1 DEF Kept, CallType
    <3> QED BY <1>2, <3>1
  <2>2. CASE c \in CallType /\ c.born = session'.lifetime /\ c.who = session'.fingerprint
    BY <1>1, <2>2 DEF OfLifetime
  <2> QED BY <1>3, <2>1, <2>2
<1> DEFINE new == <<session'.lifetime, session'.fingerprint>>
<1>4. ASSUME NEW p \in held'
      PROVE  /\ p \in Nat \X User /\ OfLifetime(p[1], p[2])'
             /\ p \in held \/ (session'.fingerprint \in User /\ p[1] = session'.lifetime /\ p[2] = session'.fingerprint)
  <2>1. CASE p \in held
    <3>1. p \in Nat \X User /\ p[1] \in Nat /\ OfLifetime(p[1], p[2])
      BY <1>1, <2>1 DEF Kept
    <3> QED BY <1>2, <2>1, <3>1
  <2>2. CASE session'.fingerprint \in User /\ p = new
    <3>1. p \in Nat \X User /\ p[1] = session'.lifetime /\ p[2] = session'.fingerprint
      BY <1>1, <2>2
    <3> QED BY <1>1, <2>2, <3>1 DEF OfLifetime
  <2> QED BY <1>4, <2>1, <2>2
<1>5. ASSUME NEW p \in held', NEW q \in held', p[1] = q[1] PROVE p[2] = q[2]
  <2>1. CASE p \in held /\ q \in held
    BY <1>1, <1>5, <2>1 DEF Kept, Ses!OneIdentityPerLifetime
  <2>2. CASE p \notin held \/ q \notin held
    <3>1. session'.fingerprint \in User /\ session'.fingerprint # None
      BY <1>4, <2>2, UserIsSomebody
    <3>2. /\ p[1] = session'.lifetime => p[2] = session'.fingerprint
          /\ q[1] = session'.lifetime => q[2] = session'.fingerprint
      BY <1>4, <3>1 DEF OfLifetime
    <3> QED BY <1>4, <1>5, <2>2, <3>2
  <2> QED BY <2>1, <2>2
<1>6. Kept'
  BY <1>3, <1>4, <1>5 DEF Kept, Ses!OneIdentityPerLifetime
<1> QED BY <1>6 DEF SessionInv

\* A step that leaves the references, the calls and who acted alone.
LEMMA AroundKeeps ==
  ASSUME SessionInv, Around', UNCHANGED <<session, calls, held>>
  PROVE  SessionInv'
<1>1. Owned'
  BY DEF SessionInv, Owned
<1> QED BY <1>1, LifetimeKeeps

\* What a check makes of the references.
LEMMA CheckedIs ==
  ASSUME NEW s \in SessionType, NEW client \in ClientType, NEW refuses \in User \cup {None},
         NEW routine \in BOOLEAN, Ses!Checked(s, client, refuses, routine)
  PROVE  /\ session' \in SessionType /\ checking' \in CheckType
         /\ session'.lifetime = s.lifetime /\ session'.fingerprint = s.fingerprint
         /\ session'.authority = s.authority \/ session'.authority = None
<1> DEFINE nr == s.gen + 1
           keeps == routine /\ s.verified = client
           goes == IF keeps /\ s.authority # None THEN s.authority.gen ELSE None
<1>1. nr \in Nat
  BY DEF SessionType
<1>2. goes \in Nat \cup {None}
  BY DEF SessionType
<1>3. checking' = [client |-> client, denied |-> refuses, got |-> None, kept |-> goes]
  BY DEF Ses!Checked
<1>4. \/ session' = [s EXCEPT !.gen = nr]
      \/ session' = [[s EXCEPT !.authority = None] EXCEPT !.gen = nr]
  BY DEF Ses!Checked, Ses!Suspend, SessionType
<1> HIDE DEF nr, goes, keeps
<1>5. checking' \in CheckType
  BY <1>2, <1>3 DEF CheckType
<1> QED BY <1>1, <1>4, <1>5 DEF SessionType

\* The Studio is mounted and checks its access.
LEMMA SessionInit == Ses!Init => SessionInv
<1>1. SUFFICES ASSUME NEW scope \in Agents,
          server = "author",
          session = [authority |-> None, verified |-> None, gen |-> 1, fingerprint |-> None, lifetime |-> 0],
          wanted = [client |-> [scope |-> scope, nr |-> 0], lifetime |-> 0, known |-> FALSE, status |-> "checking"],
          shown = wanted,
          checking = [client |-> [scope |-> scope, nr |-> 0], denied |-> None, got |-> None, kept |-> None],
          switching = None, calls = {}, held = {}
        PROVE SessionInv
  BY DEF Ses!Init
<1> DEFINE client == [scope |-> scope, nr |-> 0]
<1>2. client \in ClientType
  BY DEF ClientType
<1>3. Around
  <2> HIDE DEF client
  <2>1. /\ wanted = [client |-> client, lifetime |-> 0, known |-> FALSE, status |-> "checking"]
        /\ checking = [client |-> client, denied |-> None, got |-> None, kept |-> None]
    BY <1>1 DEF client
  <2> QED BY <1>1, <1>2, <2>1 DEF Around, RenderType, CheckType, Ses!Who, Ses!Status
<1>4. Owned
  BY <1>1 DEF Owned, SessionType
<1>5. Kept
  BY <1>1 DEF Kept, Ses!OneIdentityPerLifetime
<1> QED BY <1>3, <1>4, <1>5 DEF SessionInv

\* Focus of the window, or a retry.
LEMMA RefreshStep == ASSUME NEW routine \in BOOLEAN, SessionInv, Ses!Refresh(routine) PROVE SessionInv'
<1>1. /\ Ses!Checked(session, shown.client, None, routine)
      /\ UNCHANGED <<server, shown, switching, calls, held>>
      /\ wanted' = wanted \/ wanted' = [wanted EXCEPT !.status = "checking"]
  BY DEF Ses!Refresh
<1>2. /\ session \in SessionType /\ shown.client \in ClientType /\ wanted \in RenderType /\ Around /\ Owned
  BY DEF SessionInv, Around, Owned, RenderType
<1>3. /\ session' \in SessionType /\ checking' \in CheckType
      /\ session'.lifetime = session.lifetime /\ session'.fingerprint = session.fingerprint
      /\ session'.authority = session.authority \/ session'.authority = None
  BY <1>1, <1>2, CheckedIs
<1>4. wanted' \in RenderType
  BY <1>1, <1>2 DEF RenderType, Ses!Status
<1>5. Around'
  BY <1>1, <1>2, <1>3, <1>4 DEF Around
<1>6. Owned'
  BY <1>2, <1>3 DEF Owned
<1> QED BY <1>1, <1>3, <1>5, <1>6, LifetimeKeeps

\* The check is confirmed: the lifetime of the same identity goes on, or another begins.
LEMMA ConfirmedStep == SessionInv /\ Ses!Confirmed => SessionInv'
<1> DEFINE identity == <<checking.client.scope, checking.got>>
           lifetime == IF Ses!NewLifetime(identity) THEN session.lifetime + 1 ELSE session.lifetime
           gen == IF identity = session.fingerprint /\ checking.kept # None THEN checking.kept ELSE session.gen
<1>0. SUFFICES ASSUME SessionInv, Ses!Confirmed PROVE SessionInv'
  OBVIOUS
<1>1. Around /\ Owned /\ session \in SessionType /\ wanted \in RenderType
  BY <1>0 DEF SessionInv, Around, Owned
<1>2. checking \in CheckType /\ checking.got \in Ses!Who
  BY <1>0, <1>1 DEF Around, Ses!Confirmed
<1>3. /\ identity \in User /\ lifetime \in Nat /\ gen \in Nat /\ checking.client \in ClientType
  BY <1>1, <1>2 DEF CheckType, ClientType, SessionType, User
<1>4. \/ lifetime > session.lifetime
      \/ lifetime = session.lifetime /\ identity = session.fingerprint
  BY <1>1 DEF Ses!NewLifetime, SessionType
<1>5. checking' = None /\ UNCHANGED <<server, shown, switching, calls>>
  BY <1>0 DEF Ses!Confirmed
<1>6. CASE identity = checking.denied
  <2>1. wanted' = [wanted EXCEPT !.status = "forbidden"] /\ UNCHANGED <<session, held>>
    BY <1>0, <1>6 DEF Ses!Confirmed
  <2>2. wanted' \in RenderType
    BY <1>1, <2>1 DEF RenderType, Ses!Status
  <2>3. Around'
    BY <1>1, <1>5, <2>2 DEF Around
  <2> QED BY <1>0, <1>5, <2>1, <2>3, AroundKeeps
<1>7. CASE identity # checking.denied
  <2>1. /\ session' = [session EXCEPT !.fingerprint = identity, !.lifetime = lifetime,
                          !.verified = checking.client, !.authority = [who |-> identity, gen |-> gen]]
        /\ wanted' = [wanted EXCEPT !.lifetime = lifetime, !.status = "ready", !.known = TRUE]
        /\ held' = held \cup {<<lifetime, identity>>}
    BY <1>0, <1>7 DEF Ses!Confirmed
  <2> HIDE DEF identity, lifetime, gen
  <2>2. /\ session' \in SessionType /\ session'.fingerprint = identity /\ session'.lifetime = lifetime
        /\ session'.authority = [who |-> identity, gen |-> gen]
    BY <1>1, <1>3, <2>1 DEF SessionType
  <2>3. wanted' \in RenderType
    BY <1>1, <1>3, <2>1 DEF RenderType, Ses!Status
  <2>4. Around'
    BY <1>1, <1>5, <2>3 DEF Around
  <2>5. Owned'
    BY <1>3, <2>2, UserIsSomebody DEF Owned
  <2> QED BY <1>0, <1>3, <1>4, <1>5, <2>1, <2>2, <2>4, <2>5, LifetimeKeeps
<1> QED BY <1>6, <1>7

\* The check is refused or fails.
LEMMA UnconfirmedStep == SessionInv /\ Ses!Unconfirmed => SessionInv'
<1>0. SUFFICES ASSUME SessionInv, Ses!Unconfirmed PROVE SessionInv'
  OBVIOUS
<1>1. Around /\ Owned /\ session \in SessionType /\ wanted \in RenderType
  BY <1>0 DEF SessionInv, Around, Owned
<1>2. checking' = None /\ UNCHANGED <<server, shown, switching, calls, held>>
  BY <1>0 DEF Ses!Unconfirmed
<1>3. \/ /\ session' = [[session EXCEPT !.authority = None] EXCEPT !.fingerprint = None]
         /\ wanted' = [wanted EXCEPT !.known = FALSE, !.status = "signed-out"]
      \/ /\ session' = [session EXCEPT !.authority = None]
         /\ wanted' = [wanted EXCEPT !.status = "failed"]
  BY <1>0 DEF Ses!Unconfirmed, Ses!Suspend
<1>4. /\ session' \in SessionType /\ session'.lifetime = session.lifetime /\ session'.authority = None
      /\ session'.fingerprint = None \/ session'.fingerprint = session.fingerprint
  BY <1>1, <1>3 DEF SessionType
<1>5. wanted' \in RenderType
  BY <1>1, <1>3 DEF RenderType, Ses!Status
<1>6. Around'
  BY <1>1, <1>2, <1>5 DEF Around
<1>7. Owned'
  BY <1>4 DEF Owned
<1> QED BY <1>0, <1>2, <1>4, <1>6, <1>7, LifetimeKeeps

\* A feature calls in the lifetime that is rendered.
LEMMA CallStep == SessionInv /\ Ses!Call => SessionInv'
<1>0. SUFFICES ASSUME SessionInv, Ses!Call PROVE SessionInv'
  OBVIOUS
<1>1. /\ Around /\ Owned /\ session \in SessionType /\ shown \in RenderType
  BY <1>0 DEF SessionInv, Around, Owned
<1>2. /\ UNCHANGED <<server, session, wanted, shown, checking, switching, held>>
      /\ session.authority # None /\ shown.lifetime = session.lifetime
      /\ calls' = {[client |-> shown.client, born |-> shown.lifetime, gen |-> session.authority.gen,
                    who |-> session.authority.who]}
  BY <1>0 DEF Ses!Call, Ses!Leased
<1>3. session.authority \in [who : User, gen : Nat] /\ session.authority.who = session.fingerprint
  BY <1>1, <1>2 DEF Owned, SessionType
<1>4. shown.client \in ClientType /\ shown.lifetime \in Nat
  BY <1>1 DEF RenderType
<1>5. Around' /\ Owned'
  BY <1>1, <1>2 DEF Around, Owned
<1>6. ASSUME NEW c \in calls'
      PROVE  c \in CallType /\ c.born = session'.lifetime /\ c.who = session'.fingerprint
  BY <1>2, <1>3, <1>4 DEF CallType
<1> QED BY <1>0, <1>2, <1>5, <1>6, LifetimeKeeps

\* An answer of the lease is received in the name of who asked.
LEMMA CallAnswered == ASSUME NEW c \in calls, SessionInv, Ses!Answered(c) PROVE SessionInv'
<1>1. /\ UNCHANGED <<server, session, wanted, shown, checking, switching>> /\ calls' = calls \ {c}
  BY DEF Ses!Answered
<1>2. Around /\ Owned /\ Kept
  BY DEF SessionInv
<1>3. Around' /\ Owned'
  BY <1>1, <1>2 DEF Around, Owned
<1>4. CASE Ses!SameLease(c)
  <2>1. session.authority # None /\ c.born = session.lifetime
    BY <1>4 DEF Ses!SameLease, Ses!Leased
  <2>2. session.fingerprint # None /\ session.authority.who = session.fingerprint
    BY <1>2, <2>1 DEF Owned
  <2>3. c.who = session.fingerprint
    BY <1>2, <2>1, <2>2 DEF Kept, OfLifetime
  <2>4. held' = held \cup {<<session.lifetime, session.fingerprint>>}
    BY <1>4, <2>1, <2>2, <2>3 DEF Ses!Answered
  <2>5. session.fingerprint \in User
    BY <1>2, <2>2 DEF Owned, SessionType
  <2> QED BY <1>1, <1>3, <2>4, <2>5, LifetimeKeeps
<1>5. CASE ~Ses!SameLease(c)
  <2>1. held' = held
    BY <1>5 DEF Ses!Answered
  <2> QED BY <1>1, <1>3, <2>1, LifetimeKeeps
<1> QED BY <1>4, <1>5

\* An answer of the lease refuses the call: the lifetime is over.
LEMMA DeniedStep ==
  ASSUME NEW c \in calls, NEW out \in BOOLEAN, SessionInv, Ses!Denied(c, out)
  PROVE  SessionInv'
<1> DEFINE nr == session.gen + 1
           later == session.lifetime + 1
           s == [[session EXCEPT !.authority = None] EXCEPT
                   !.gen = nr, !.fingerprint = None, !.lifetime = later]
<1>1. Around /\ Owned /\ Kept /\ session \in SessionType /\ wanted \in RenderType
  BY DEF SessionInv, Around, Owned
<1>2. nr \in Nat /\ later \in Nat /\ later > session.lifetime
  BY <1>1 DEF SessionType
<1>3. s = [Ses!Suspend(session) EXCEPT !.gen = @ + 1, !.fingerprint = None, !.lifetime = @ + 1]
  BY <1>1 DEF Ses!Suspend, SessionType
<1>4. /\ UNCHANGED <<server, shown, switching, held>> /\ calls' = calls \ {c}
      /\ wanted' = [wanted EXCEPT !.lifetime = s.lifetime, !.known = FALSE,
                                  !.status = IF out THEN "signed-out" ELSE "checking"]
      /\ IF out THEN session' = s /\ checking' = None
         ELSE Ses!Checked(s, c.client, session.fingerprint, FALSE)
  BY <1>3 DEF Ses!Denied
<1> HIDE DEF nr, later
<1>5. s \in SessionType /\ s.lifetime = later /\ s.fingerprint = None /\ s.authority = None
  BY <1>1, <1>2 DEF SessionType
<1> HIDE DEF s
<1>6. wanted' \in RenderType
  BY <1>1, <1>2, <1>4, <1>5 DEF RenderType, Ses!Status
<1>7. c.client \in ClientType /\ session.fingerprint \in User \cup {None}
  BY <1>1 DEF Kept, CallType, SessionType
<1>8. /\ session' \in SessionType /\ session'.lifetime = later /\ session'.fingerprint = None
      /\ session'.authority = None /\ checking' \in CheckType \cup {None}
  <2>1. CASE out
    BY <1>4, <1>5, <2>1
  <2>2. CASE ~out
    <3>1. Ses!Checked(s, c.client, session.fingerprint, FALSE)
      BY <1>4, <2>2
    <3> QED BY <1>5, <1>7, <3>1, CheckedIs
  <2> QED BY <2>1, <2>2
<1>9. Around'
  BY <1>1, <1>4, <1>6, <1>8 DEF Around
<1>10. Owned'
  BY <1>8 DEF Owned
<1> QED BY <1>2, <1>4, <1>8, <1>9, <1>10, LifetimeKeeps

\* A switch of the scope begins and is verified.
LEMMA SwitchStep ==
  ASSUME SessionInv,
         \/ \E scope \in Agents : Ses!Switch(scope)
         \/ Ses!ServerVerifies \/ Ses!SwitchVerified \/ Ses!SwitchEnds
  PROVE  SessionInv'
<1>1. Around /\ Owned /\ session \in SessionType /\ shown \in RenderType
  BY DEF SessionInv, Around, Owned
<1>2. UNCHANGED <<server, session, wanted, shown, checking, calls, held>>
  BY DEF Ses!Switch, Ses!ServerVerifies, Ses!SwitchVerified, Ses!SwitchEnds
<1>3. ASSUME NEW scope \in Agents, Ses!Switch(scope)
      PROVE  switching' \in SwitchType /\ switching'.step = "verify"
  <2> DEFINE client == [scope |-> scope, nr |-> shown.client.nr + 1]
  <2>1. shown.client \in ClientType /\ client \in ClientType
    BY <1>1 DEF RenderType, ClientType
  <2>2. session.authority \in [who : User, gen : Nat]
    BY <1>1, <1>3 DEF Ses!Switch, SessionType
  <2>3. session.authority.who[2] \in Ses!Who /\ session.authority.gen \in Nat
    BY <2>2 DEF User
  <2>4. switching' = [to |-> client, from |-> shown.client, gen |-> session.authority.gen,
                      who |-> session.authority.who[2], got |-> None, step |-> "verify"]
    BY <1>3 DEF Ses!Switch
  <2> HIDE DEF client
  <2> QED BY <2>1, <2>3, <2>4 DEF SwitchType
<1>4. CASE Ses!ServerVerifies
  <2>1. /\ switching \in SwitchType /\ switching.got = None /\ server \in Ses!Who \cup {"nobody"}
        /\ switching' = [switching EXCEPT !.got = server]
    BY <1>1, <1>4 DEF Around, Ses!ServerVerifies
  <2>2. switching.step # "cleanup"
    BY <1>1, <1>4, <2>1, NoneApart DEF Around, Ses!ServerVerifies, Ses!Who
  <2>3. switching' \in SwitchType /\ switching'.step # "cleanup"
    BY <2>1, <2>2 DEF SwitchType
  <2>4. Around'
    BY <1>1, <1>2, <2>3 DEF Around
  <2> QED BY <1>2, <2>4, AroundKeeps
<1>5. CASE Ses!SwitchVerified
  <2>1. /\ switching \in SwitchType /\ switching.got \in Ses!Who
        /\ switching' = [switching EXCEPT !.step = "cleanup"]
    BY <1>1, <1>5 DEF Around, Ses!SwitchVerified
  <2>2. switching' \in SwitchType /\ switching'.got \in Ses!Who
    BY <2>1 DEF SwitchType
  <2>3. Around'
    BY <1>1, <1>2, <2>2 DEF Around
  <2> QED BY <1>2, <2>3, AroundKeeps
<1>6. CASE Ses!SwitchEnds
  <2>1. Around'
    BY <1>1, <1>2, <1>6 DEF Around, Ses!SwitchEnds
  <2> QED BY <1>2, <2>1, AroundKeeps
<1>7. ASSUME NEW scope \in Agents, Ses!Switch(scope) PROVE SessionInv'
  <2>1. Around'
    BY <1>1, <1>2, <1>3, <1>7 DEF Around
  <2> QED BY <1>2, <2>1, AroundKeeps
<1> QED BY <1>4, <1>5, <1>6, <1>7

\* The switch is over: a lifetime of the other scope begins.
LEMMA CommitStep == SessionInv /\ Ses!SwitchCommits => SessionInv'
<1> DEFINE identity == <<switching.to.scope, switching.got>>
           lifetime == session.lifetime + 1
           nr == session.gen + 1
<1>0. SUFFICES ASSUME SessionInv, Ses!SwitchCommits PROVE SessionInv'
  OBVIOUS
<1>1. Around /\ Owned /\ session \in SessionType
  BY <1>0 DEF SessionInv, Owned
<1>2. switching \in SwitchType /\ switching.got \in Ses!Who
  BY <1>0, <1>1 DEF Around, Ses!SwitchCommits
<1>3. /\ identity \in User /\ lifetime \in Nat /\ nr \in Nat /\ switching.to \in ClientType
      /\ lifetime > session.lifetime
  BY <1>1, <1>2 DEF SwitchType, ClientType, SessionType, User
<1>4. /\ session' = [gen |-> nr, fingerprint |-> identity, lifetime |-> lifetime, verified |-> switching.to,
                     authority |-> [who |-> identity, gen |-> nr]]
      /\ wanted' = [client |-> switching.to, lifetime |-> lifetime, known |-> TRUE, status |-> "ready"]
      /\ held' = held \cup {<<lifetime, identity>>}
      /\ checking' = None /\ switching' = None /\ UNCHANGED <<server, shown, calls>>
  BY <1>0 DEF Ses!SwitchCommits
<1> HIDE DEF identity, lifetime, nr
<1>5. /\ session' \in SessionType /\ session'.fingerprint = identity /\ session'.lifetime = lifetime
      /\ session'.authority = [who |-> identity, gen |-> nr]
  BY <1>3, <1>4 DEF SessionType
<1>6. wanted' \in RenderType
  BY <1>3, <1>4 DEF RenderType, Ses!Status
<1>7. Around'
  BY <1>1, <1>4, <1>6 DEF Around
<1>8. Owned'
  BY <1>3, <1>5, UserIsSomebody DEF Owned
<1> QED BY <1>0, <1>3, <1>4, <1>5, <1>7, <1>8, LifetimeKeeps

\* Every step of the session.
LEMMA SessionStep == SessionInv /\ Ses!Next => SessionInv'
<1>0. SUFFICES ASSUME SessionInv, Ses!Next PROVE SessionInv'
  OBVIOUS
<1>1. Around /\ wanted \in RenderType /\ shown \in RenderType
  BY <1>0 DEF SessionInv, Around
<1>2. CASE Ses!Focus \/ Ses!Retry
  <2>1. Ses!Refresh(TRUE) \/ Ses!Refresh(FALSE)
    BY <1>2 DEF Ses!Focus, Ses!Retry
  <2> QED BY <1>0, <2>1, RefreshStep
<1>3. CASE Ses!ServerChecks
  <2>1. checking \in CheckType
    BY <1>1, <1>3 DEF Around, Ses!ServerChecks
  <2>2. PICK got \in {server, "failed"} : checking' = [checking EXCEPT !.got = got]
    BY <1>3 DEF Ses!ServerChecks
  <2>3. checking' \in CheckType
    BY <1>1, <2>1, <2>2 DEF CheckType, Around
  <2>4. UNCHANGED <<server, session, wanted, shown, switching, calls, held>>
    BY <1>3 DEF Ses!ServerChecks
  <2>5. Around'
    BY <1>1, <2>3, <2>4 DEF Around
  <2> QED BY <1>0, <2>4, <2>5, AroundKeeps
<1>4. CASE Ses!ChecksAnswer
  BY <1>0, <1>4, ConfirmedStep, UnconfirmedStep DEF Ses!ChecksAnswer
<1>5. CASE Ses!Call
  BY <1>0, <1>5, CallStep
<1>6. ASSUME NEW c \in calls, Ses!Answered(c) PROVE SessionInv'
  BY <1>0, <1>6, CallAnswered
<1>7. ASSUME NEW c \in calls, NEW out \in BOOLEAN, Ses!Denied(c, out) PROVE SessionInv'
  BY <1>0, <1>7, DeniedStep
<1>8. ASSUME NEW scope \in Agents, Ses!Switch(scope) PROVE SessionInv'
  BY <1>0, <1>8, SwitchStep
<1>9. ASSUME NEW who \in Ses!Who \cup {"nobody"}, Ses!ServerChanges(who) PROVE SessionInv'
  <2>1. server' = who /\ UNCHANGED <<session, wanted, shown, checking, switching, calls, held>>
    BY <1>9 DEF Ses!ServerChanges
  <2>2. Around'
    BY <1>1, <2>1 DEF Around
  <2> QED BY <1>0, <2>1, <2>2, AroundKeeps
<1>10. CASE Ses!ServerVerifies \/ Ses!SwitchVerified \/ Ses!SwitchEnds
  BY <1>0, <1>10, SwitchStep
<1>11. CASE Ses!SwitchCommits
  BY <1>0, <1>11, CommitStep
<1>12. CASE Ses!Render
  <2>1. shown' = wanted /\ UNCHANGED <<server, session, wanted, checking, switching, calls, held>>
    BY <1>12 DEF Ses!Render
  <2>2. Around'
    BY <1>1, <2>1 DEF Around
  <2> QED BY <1>0, <2>1, <2>2, AroundKeeps
<1> QED BY <1>0, <1>2, <1>3, <1>4, <1>5, <1>6, <1>7, <1>8, <1>9, <1>10, <1>11, <1>12 DEF Ses!Next

-----------------------------------------------------------------------------
(* The messages of a preview (PreviewBridge): the patches that are on their way, in the queue of   *)
(* the runtime and before it, rise from the draft the page shows to the latest.                    *)

BridgeMessage == [type : {"bootstrap", "handshake", "patch", "ready", "select"}, nr : Int, patch : Nat]
Queued == [msg : BridgeMessage, accepted : BOOLEAN \cup {None}]

IsPatch(m) == m.type = "patch"
NoPatch(s) == \A i \in DOMAIN s : ~IsPatch(s[i])
Rising(s)  == \A i, j \in DOMAIN s : i < j /\ IsPatch(s[i]) /\ IsPatch(s[j]) => s[i].patch < s[j].patch
Below(s, t) == \A i \in DOMAIN s, j \in DOMAIN t : IsPatch(s[i]) /\ IsPatch(t[j]) => s[i].patch < t[j].patch
Within(s, low, high) == \A i \in DOMAIN s : IsPatch(s[i]) => low < s[i].patch /\ s[i].patch <= high
Carries(s, n) == \E i \in DOMAIN s : IsPatch(s[i]) /\ s[i].patch = n

\* What p has comes before what r has; both are later than low and up to high.
Line(p, r, low, high) ==
  Rising(p) /\ Rising(r) /\ Below(p, r) /\ Within(p, low, high) /\ Within(r, low, high)

\* What removing the first of a sequence leaves.
LEMMA FirstRemoved ==
  ASSUME NEW S, NEW s \in Seq(S), s # <<>>
  PROVE  Bri!RemoveAt(s, 1) = Tail(s)
<1>1. Len(s) \in Nat \ {0} /\ SubSeq(s, 1, 0) = <<>>
  BY EmptySeq, LenProperties, SubSeqEmpty
<1>2. Tail(s) \in Seq(S) /\ Tail(s) = SubSeq(s, 2, Len(s))
  BY HeadTailProperties, TailIsSubSeq
<1>3. <<>> \o Tail(s) = Tail(s)
  BY <1>2, ConcatEmptySeq
<1> QED BY <1>1, <1>2, <1>3 DEF Bri!RemoveAt

\* What is left of a sequence without its first.
LEMMA TailIs ==
  ASSUME NEW S, NEW s \in Seq(S), s # <<>>
  PROVE  /\ Tail(s) \in Seq(S) /\ Head(s) \in S /\ Head(s) = s[1] /\ 1 \in DOMAIN s
         /\ DOMAIN Tail(s) \subseteq Nat
         /\ \A i \in DOMAIN Tail(s) : i + 1 \in DOMAIN s /\ Tail(s)[i] = s[i + 1] /\ i >= 1
         /\ \A i \in DOMAIN s : i = 1 \/ (i - 1 \in DOMAIN Tail(s) /\ Tail(s)[i - 1] = s[i])
<1>1. Len(s) \in Nat \ {0} /\ DOMAIN s = 1..Len(s)
  BY EmptySeq, LenProperties
<1>2. Tail(s) \in Seq(S) /\ Head(s) \in S /\ Len(Tail(s)) = Len(s) - 1
      /\ \A i \in 1..Len(Tail(s)) : Tail(s)[i] = s[i + 1]
  BY HeadTailProperties
<1>3. DOMAIN Tail(s) = 1..(Len(s) - 1)
  BY <1>2, LenProperties
<1> QED BY <1>1, <1>2, <1>3

\* A sequence with one more at its end.
LEMMA AppendIs ==
  ASSUME NEW S, NEW s \in Seq(S), NEW m \in S
  PROVE  /\ Append(s, m) \in Seq(S) /\ DOMAIN s \subseteq Nat
         /\ DOMAIN s \subseteq DOMAIN Append(s, m)
         /\ Len(s) + 1 \in DOMAIN Append(s, m) /\ Append(s, m)[Len(s) + 1] = m
         /\ \A i \in DOMAIN s : Append(s, m)[i] = s[i] /\ i < Len(s) + 1
         /\ \A i \in DOMAIN Append(s, m) : i \in DOMAIN s \/ i = Len(s) + 1
OBVIOUS

\* A sequence with one more in front.
LEMMA PrependIs ==
  ASSUME NEW S, NEW s \in Seq(S), NEW m \in S
  PROVE  /\ <<m>> \o s \in Seq(S)
         /\ 1 \in DOMAIN (<<m>> \o s) /\ (<<m>> \o s)[1] = m
         /\ \A i \in DOMAIN s : i + 1 \in DOMAIN (<<m>> \o s) /\ (<<m>> \o s)[i + 1] = s[i]
         /\ \A i \in DOMAIN (<<m>> \o s) : i = 1 \/ (i \in Nat /\ i > 1 /\ i - 1 \in DOMAIN s /\ (<<m>> \o s)[i] = s[i - 1])
OBVIOUS

\* The revision of any message is a number.
LEMMA Patched ==
  ASSUME NEW s \in Seq(BridgeMessage), NEW i \in DOMAIN s
  PROVE  s[i].patch \in Nat /\ i \in Nat
<1>1. i \in 1..Len(s) /\ Len(s) \in Nat
  BY LenProperties
<1>2. s[i] \in BridgeMessage
  BY <1>1, ElementOfSeq
<1> QED BY <1>1, <1>2 DEF BridgeMessage

\* The rest of patches that rise rises.
LEMMA TailRises ==
  ASSUME NEW s \in Seq(BridgeMessage), s # <<>>, Rising(s)
  PROVE  Rising(Tail(s))
<1> DEFINE t == Tail(s)
<1>1. \A i \in DOMAIN t : i \in Nat /\ i + 1 \in DOMAIN s /\ t[i] = s[i + 1]
  BY TailIs
<1> HIDE DEF t
<1>2. SUFFICES ASSUME NEW i \in DOMAIN t, NEW j \in DOMAIN t, i < j, IsPatch(t[i]), IsPatch(t[j])
               PROVE  t[i].patch < t[j].patch
  BY DEF Rising, t
<1>3. i + 1 < j + 1
  BY <1>1, <1>2
<1> QED BY <1>1, <1>2, <1>3 DEF Rising

\* A message is posted: a patch that is later than all of the line, or none.
LEMMA LineGrows ==
  ASSUME NEW p \in Seq(BridgeMessage), NEW r \in Seq(BridgeMessage), NEW low \in Nat, NEW high \in Nat,
         NEW top \in Nat, high <= top, low <= high, Line(p, r, low, high), NEW m \in BridgeMessage,
         IsPatch(m) => high < m.patch /\ m.patch <= top
  PROVE  Line(p, Append(r, m), low, top)
<1> DEFINE a == Append(r, m)
<1>1. ASSUME NEW s \in Seq(BridgeMessage), NEW i \in DOMAIN s PROVE s[i].patch \in Nat /\ i \in Nat
  BY Patched
<1>2. m.patch \in Nat
  BY DEF BridgeMessage
<1>3. a \in Seq(BridgeMessage) /\ \A i \in DOMAIN a : i \in DOMAIN r \/ i = Len(r) + 1
  BY AppendIs
<1>4. a[Len(r) + 1] = m /\ \A i \in DOMAIN r : a[i] = r[i] /\ i < Len(r) + 1
  BY AppendIs
<1> HIDE DEF a
<1>5. Within(a, low, top)
  BY <1>1, <1>2, <1>3, <1>4 DEF Line, Within
<1>6. Within(p, low, top)
  BY <1>1 DEF Line, Within
<1>7. Below(p, a)
  BY SMTT(20), <1>1, <1>2, <1>3, <1>4 DEF Line, Within, Below
<1>8. Rising(a)
  <2>1. SUFFICES ASSUME NEW i \in DOMAIN a, NEW j \in DOMAIN a, i < j, IsPatch(a[i]), IsPatch(a[j])
                 PROVE  a[i].patch < a[j].patch
    BY DEF Rising
  <2>2. i \in DOMAIN r
    BY SMTT(20), <1>1, <1>3, <1>4, <2>1
  <2>3. CASE j \in DOMAIN r
    BY <1>4, <2>1, <2>2, <2>3 DEF Line, Rising
  <2>4. CASE j = Len(r) + 1
    BY <1>1, <1>2, <1>4, <2>1, <2>2, <2>4 DEF Line, Within
  <2> QED BY <1>3, <2>3, <2>4
<1> QED BY <1>5, <1>6, <1>7, <1>8 DEF Line, a

\* The runtime queues what was posted first, or drops it.
LEMMA LineMoves ==
  ASSUME NEW p \in Seq(BridgeMessage), NEW r \in Seq(BridgeMessage), NEW low \in Nat, NEW high \in Nat,
         Line(p, r, low, high), r # <<>>
  PROVE  /\ Line(p, Tail(r), low, high)
         /\ Line(Append(p, Head(r)), Tail(r), low, high)
<1> DEFINE t == Tail(r)
           a == Append(p, Head(r))
<1>1. ASSUME NEW s \in Seq(BridgeMessage), NEW i \in DOMAIN s PROVE s[i].patch \in Nat /\ i \in Nat
  BY Patched
<1>2. /\ t \in Seq(BridgeMessage) /\ Head(r) \in BridgeMessage /\ Head(r) = r[1] /\ 1 \in DOMAIN r
      /\ \A i \in DOMAIN t : i + 1 \in DOMAIN r /\ t[i] = r[i + 1] /\ i >= 1
  BY TailIs
<1>3. /\ a \in Seq(BridgeMessage) /\ \A i \in DOMAIN a : i \in DOMAIN p \/ i = Len(p) + 1
      /\ a[Len(p) + 1] = r[1] /\ \A i \in DOMAIN p : a[i] = p[i] /\ i < Len(p) + 1
  BY <1>2, AppendIs
<1> HIDE DEF t, a
<1>4. Within(t, low, high) /\ Below(p, t)
  BY <1>1, <1>2 DEF Line, Within, Below
<1>5. Within(a, low, high)
  BY <1>2, <1>3 DEF Line, Within
<1>6. Below(a, t)
  <2>1. ASSUME NEW j \in DOMAIN t, IsPatch(r[1]), IsPatch(t[j]) PROVE r[1].patch < t[j].patch
    <3>1. j + 1 \in DOMAIN r /\ t[j] = r[j + 1] /\ j >= 1 /\ j \in Nat
      BY <1>1, <1>2
    <3>2. 1 < j + 1
      BY <3>1
    <3> QED BY <1>2, <2>1, <3>1, <3>2 DEF Line, Rising
  <2> QED BY <1>3, <1>4, <2>1 DEF Below
<1>7. Rising(a)
  <2>1. SUFFICES ASSUME NEW i \in DOMAIN a, NEW j \in DOMAIN a, i < j, IsPatch(a[i]), IsPatch(a[j])
                 PROVE  a[i].patch < a[j].patch
    BY DEF Rising
  <2>2. i \in DOMAIN p
    BY <1>1, <1>3, <2>1
  <2>3. CASE j \in DOMAIN p
    BY <1>3, <2>1, <2>2, <2>3 DEF Line, Rising
  <2>4. CASE j = Len(p) + 1
    BY <1>2, <1>3, <2>1, <2>2, <2>4 DEF Line, Below
  <2> QED BY <1>3, <2>3, <2>4
<1> QED BY <1>4, <1>5, <1>6, <1>7, TailRises DEF Line, t, a

\* The first of the queue is done with: the rest is later, if it was a patch.
LEMMA LineAnswers ==
  ASSUME NEW p \in Seq(BridgeMessage), NEW r \in Seq(BridgeMessage), NEW low \in Nat, NEW high \in Nat,
         Line(p, r, low, high), p # <<>>
  PROVE  /\ Line(Tail(p), r, low, high)
         /\ IsPatch(Head(p)) => /\ low < Head(p).patch /\ Head(p).patch <= high
                                /\ Line(Tail(p), r, Head(p).patch, high)
         /\ \A m \in BridgeMessage : ~IsPatch(m) => Line(<<m>> \o Tail(p), r, low, high)
<1> DEFINE t == Tail(p)
<1>1. ASSUME NEW s \in Seq(BridgeMessage), NEW i \in DOMAIN s PROVE s[i].patch \in Nat /\ i \in Nat
  BY Patched
<1>2. /\ t \in Seq(BridgeMessage) /\ Head(p) \in BridgeMessage /\ Head(p) = p[1] /\ 1 \in DOMAIN p
      /\ \A i \in DOMAIN t : i + 1 \in DOMAIN p /\ t[i] = p[i + 1] /\ i >= 1
  BY TailIs
<1> HIDE DEF t
<1>r. Rising(t)
  BY TailRises DEF Line, t
<1>3. Within(t, low, high) /\ Below(t, r)
  BY <1>1, <1>2 DEF Line, Within, Below
<1>4. ASSUME IsPatch(p[1])
      PROVE  /\ low < p[1].patch /\ p[1].patch <= high
             /\ Within(t, p[1].patch, high) /\ Within(r, p[1].patch, high)
  <2>1. ASSUME NEW j \in DOMAIN t, IsPatch(t[j]) PROVE p[1].patch < t[j].patch
    <3>1. j + 1 \in DOMAIN p /\ t[j] = p[j + 1] /\ j >= 1 /\ j \in Nat
      BY <1>1, <1>2
    <3>2. 1 < j + 1
      BY <3>1
    <3> QED BY <1>2, <1>4, <2>1, <3>1, <3>2 DEF Line, Rising
  <2> QED BY <1>2, <1>3, <1>4, <2>1 DEF Line, Within, Below
<1>5. ASSUME NEW m \in BridgeMessage, ~IsPatch(m) PROVE Line(<<m>> \o t, r, low, high)
  <2> DEFINE a == <<m>> \o t
  <2>1. /\ a \in Seq(BridgeMessage) /\ a[1] = m
        /\ \A i \in DOMAIN a : i = 1 \/ (i \in Nat /\ i > 1 /\ i - 1 \in DOMAIN t /\ a[i] = t[i - 1])
    BY <1>2, PrependIs
  <2> HIDE DEF a
  <2>2. ASSUME NEW i \in DOMAIN a, IsPatch(a[i]) PROVE i \in Nat /\ i - 1 \in DOMAIN t /\ a[i] = t[i - 1]
    BY <1>5, <2>1, <2>2
  <2>3. Within(a, low, high) /\ Below(a, r)
    BY <1>3, <2>2 DEF Within, Below
  <2>4. Rising(a)
    <3>1. SUFFICES ASSUME NEW i \in DOMAIN a, NEW j \in DOMAIN a, i < j, IsPatch(a[i]), IsPatch(a[j])
                   PROVE  a[i].patch < a[j].patch
      BY DEF Rising
    <3>2. i - 1 < j - 1
      BY <2>2, <3>1
    <3> QED BY <1>r, <2>2, <3>1, <3>2 DEF Rising
  <2> QED BY <2>3, <2>4 DEF Line, a
<1> QED BY <1>2, <1>3, <1>r, <1>4, <1>5 DEF Line, t

\* What the line carries it still carries after these steps.
LEMMA CarriesOn ==
  ASSUME NEW n
  PROVE  /\ \A s \in Seq(BridgeMessage), m \in BridgeMessage :
              /\ Carries(s, n) => Carries(Append(s, m), n)
              /\ IsPatch(m) /\ m.patch = n => Carries(Append(s, m), n)
              /\ Carries(s, n) => Carries(<<m>> \o s, n)
         /\ \A s \in Seq(BridgeMessage) :
              Carries(s, n) => Carries(Tail(s), n) \/ (IsPatch(Head(s)) /\ Head(s).patch = n)
<1>1. ASSUME NEW s \in Seq(BridgeMessage), NEW m \in BridgeMessage
      PROVE  /\ Carries(s, n) => Carries(Append(s, m), n)
             /\ IsPatch(m) /\ m.patch = n => Carries(Append(s, m), n)
  BY AppendIs DEF Carries
<1>2. ASSUME NEW s \in Seq(BridgeMessage), NEW m \in BridgeMessage, Carries(s, n)
      PROVE  Carries(<<m>> \o s, n)
  <2>1. PICK i \in DOMAIN s : IsPatch(s[i]) /\ s[i].patch = n
    BY <1>2 DEF Carries
  <2>2. i + 1 \in DOMAIN (<<m>> \o s) /\ (<<m>> \o s)[i + 1] = s[i]
    BY PrependIs
  <2> QED BY <2>1, <2>2 DEF Carries
<1>3. ASSUME NEW s \in Seq(BridgeMessage), Carries(s, n)
      PROVE  Carries(Tail(s), n) \/ (IsPatch(Head(s)) /\ Head(s).patch = n)
  <2>1. PICK i \in DOMAIN s : IsPatch(s[i]) /\ s[i].patch = n
    BY <1>3 DEF Carries
  <2>2. s # <<>>
    BY <2>1
  <2>3. Head(s) = s[1] /\ (i = 1 \/ (i - 1 \in DOMAIN Tail(s) /\ Tail(s)[i - 1] = s[i]))
    BY <2>2, TailIs
  <2> QED BY <2>1, <2>3 DEF Carries
<1> QED BY <1>1, <1>2, <1>3

\* No patch comes into a line without one.
LEMMA NoPatchOn ==
  ASSUME NEW s \in Seq(BridgeMessage), NoPatch(s), NEW m \in BridgeMessage
  PROVE  /\ ~IsPatch(m) => NoPatch(Append(s, m)) /\ NoPatch(<<m>> \o s)
         /\ s # <<>> => NoPatch(Tail(s)) /\ ~IsPatch(Head(s))
<1>1. ~IsPatch(m) => NoPatch(Append(s, m))
  BY AppendIs DEF NoPatch
<1>2. ~IsPatch(m) => NoPatch(<<m>> \o s)
  BY PrependIs DEF NoPatch
<1>3. s # <<>> => NoPatch(Tail(s)) /\ ~IsPatch(Head(s))
  BY TailIs DEF NoPatch
<1> QED BY <1>1, <1>2, <1>3

PostedOf(q) == [i \in DOMAIN q |-> q[i].msg]

\* The messages of the queue change with it.
LEMMA PostedIs ==
  ASSUME NEW q \in Seq(Queued)
  PROVE  /\ PostedOf(q) \in Seq(BridgeMessage)
         /\ \A x \in Queued : /\ PostedOf(Append(q, x)) = Append(PostedOf(q), x.msg)
                              /\ PostedOf(<<x>> \o q) = <<x.msg>> \o PostedOf(q)
         /\ q # <<>> => /\ PostedOf(q) # <<>> /\ Head(PostedOf(q)) = q[1].msg
                        /\ PostedOf(Tail(q)) = Tail(PostedOf(q))
<1>1. DOMAIN q = 1..Len(q) /\ Len(q) \in Nat
  BY LenProperties
<1>2. ASSUME NEW x \in Queued PROVE x.msg \in BridgeMessage
  BY DEF Queued
<1>3. ASSUME NEW i \in DOMAIN q PROVE q[i].msg \in BridgeMessage
  BY <1>1, <1>2, ElementOfSeq
<1>4. PostedOf(q) \in Seq(BridgeMessage) /\ Len(PostedOf(q)) = Len(q)
  BY <1>1, <1>3 DEF PostedOf
<1>5. ASSUME NEW x \in Queued
      PROVE  PostedOf(Append(q, x)) = Append(PostedOf(q), x.msg)
  BY <1>1, <1>2, <1>4 DEF PostedOf
<1>6. ASSUME NEW x \in Queued
      PROVE  PostedOf(<<x>> \o q) = <<x.msg>> \o PostedOf(q)
  BY <1>1, <1>2, <1>4 DEF PostedOf
<1>7. ASSUME q # <<>>
      PROVE  /\ PostedOf(q) # <<>> /\ Head(PostedOf(q)) = q[1].msg
             /\ PostedOf(Tail(q)) = Tail(PostedOf(q))
  <2>1. Len(q) \in Nat \ {0} /\ PostedOf(q) # <<>>
    BY <1>1, <1>4, <1>7, EmptySeq
  <2>2. Head(PostedOf(q)) = q[1].msg
    BY <1>1, <1>4, <2>1, TailIs DEF PostedOf
  <2>3. PostedOf(Tail(q)) = Tail(PostedOf(q))
    BY <1>1, <1>4, <1>7, <2>1 DEF PostedOf
  <2> QED BY <2>1, <2>2, <2>3
<1> QED BY <1>4, <1>5, <1>6, <1>7

ControllerType == [next : Int, highest : Int, ready : BOOLEAN, waiting : Nat, latest : Nat, started : Nat]
RuntimeType    == [token : BOOLEAN, next : Int, shown : Nat, sent : Nat, reloads : Nat, backwards : BOOLEAN]

BridgeTypes ==
  /\ bridge \in [open : BOOLEAN, last : Int]
  /\ controller \in ControllerType /\ runtime \in RuntimeType
  /\ toRuntime \in Seq(BridgeMessage) /\ toController \in Seq(BridgeMessage)
  /\ queue \in Seq(Queued) /\ sends \in SUBSET Queued

Posted == PostedOf(queue)

\* Before the runtime is ready, no patch is sent; since then none waits.
Waits ==
  /\ controller.ready => controller.waiting = 0
  /\ ~controller.ready => runtime.shown = 0 /\ NoPatch(Posted) /\ NoPatch(toRuntime)
  /\ controller.waiting \in {0, controller.latest}

\* The latest draft is shown, waits or is on its way, as long as nothing was missed.
Arrives ==
  missed = "nothing" =>
    \/ controller.latest \in {runtime.shown, controller.waiting}
    \/ Carries(Posted, controller.latest) \/ Carries(toRuntime, controller.latest)

\* A runtime that has not been bootstrapped has not been heard of.
Known ==
  missed = "nothing" /\ ~runtime.token =>
    ~controller.ready /\ queue = <<>> /\ toController = <<>> /\ sends = {}

HeadOnly == \A i \in DOMAIN queue : i # 1 => queue[i].accepted = None

BridgeInv ==
  /\ BridgeTypes /\ HeadOnly /\ Known /\ Waits /\ Arrives
  /\ Line(Posted, toRuntime, runtime.shown, controller.latest)
  /\ runtime.shown <= controller.latest /\ ~runtime.backwards

\* Nothing was posted.
LEMMA BridgeInit == Bri!Init => BridgeInv
<1>1. SUFFICES ASSUME Bri!Init PROVE BridgeInv
  OBVIOUS
<1>2. BridgeTypes
  BY <1>1 DEF Bri!Init, Bri!NewPage, BridgeTypes, ControllerType, RuntimeType
<1>3. Posted = <<>> /\ toRuntime = <<>>
  BY <1>1 DEF Bri!Init, Posted, PostedOf
<1>4. Line(Posted, toRuntime, 0, 0)
  BY <1>3 DEF Line, Rising, Below, Within
<1> QED BY <1>1, <1>2, <1>3, <1>4
  DEF Bri!Init, Bri!NewPage, BridgeInv, HeadOnly, Known, Waits, Arrives, NoPatch

\* The fields of what is sent.
LEMMA MessageIs ==
  ASSUME NEW t \in {"bootstrap", "handshake", "patch", "ready", "select"}, NEW nr \in Int, NEW patch \in Nat
  PROVE  /\ Bri!Msg(t, nr, patch) \in BridgeMessage /\ (IsPatch(Bri!Msg(t, nr, patch)) <=> t = "patch")
         /\ Bri!Msg(t, nr, patch).patch = patch /\ Bri!Msg(t, nr, patch).type = t
         /\ [msg |-> Bri!Msg(t, nr, patch), accepted |-> None] \in Queued
BY DEF Bri!Msg, BridgeMessage, IsPatch, Queued

\* The number that is expected next.
LEMMA SeenIs == ASSUME NEW next \in Int, NEW nr \in Int PROVE Bri!Seen(next, nr) \in Int
BY DEF Bri!Seen

\* What all steps start from.
LEMMA BridgeHas ==
  ASSUME BridgeInv
  PROVE  /\ controller.ready \in BOOLEAN /\ controller.waiting \in Nat /\ controller.latest \in Nat
         /\ controller.next \in Int
         /\ runtime.token \in BOOLEAN /\ runtime.shown \in Nat /\ runtime.next \in Int
         /\ Posted \in Seq(BridgeMessage) /\ toRuntime \in Seq(BridgeMessage)
         /\ toController \in Seq(BridgeMessage) /\ queue \in Seq(Queued)
BY PostedIs DEF BridgeInv, BridgeTypes, ControllerType, RuntimeType, Posted

\* A line without patches is in order.
LEMMA NoPatchLine ==
  ASSUME NEW p, NEW r, NoPatch(p), NoPatch(r), NEW low, NEW high
  PROVE  Line(p, r, low, high)
BY DEF NoPatch, Line, Rising, Below, Within

\* start: a handshake is repeated until the runtime is ready.
LEMMA BootstrapStep == BridgeInv /\ Bri!Bootstrap => BridgeInv'
<1>0. SUFFICES ASSUME BridgeInv, Bri!Bootstrap PROVE BridgeInv'
  OBVIOUS
<1> DEFINE a == Bri!Msg("bootstrap", 0, 0)
           b == Bri!Msg("handshake", 0, 0)
<1>1. a \in BridgeMessage /\ ~IsPatch(a) /\ b \in BridgeMessage /\ ~IsPatch(b)
  BY DEF Bri!Msg, IsPatch, BridgeMessage
<1>2. /\ ~controller.ready /\ toRuntime' = toRuntime \o <<a, b>>
      /\ controller' = [controller EXCEPT !.started = @ + 1]
      /\ UNCHANGED <<bridge, runtime, toController, queue, sends, missed>>
  BY <1>0 DEF Bri!Bootstrap, Bri!Handshake
<1> HIDE DEF a, b
<1>3. toRuntime' = Append(Append(toRuntime, a), b)
  BY SMTT(20), <1>0, <1>1, <1>2, BridgeHas
<1>4. /\ toRuntime' \in Seq(BridgeMessage) /\ NoPatch(toRuntime')
      /\ \A n : Carries(toRuntime, n) => Carries(toRuntime', n)
      /\ Line(Posted, toRuntime', runtime.shown, controller.latest)
  <2>1. NoPatch(toRuntime) /\ runtime.shown <= controller.latest
    BY <1>0, <1>2 DEF BridgeInv, Waits
  <2> DEFINE s == Append(toRuntime, a)
  <2>2. s \in Seq(BridgeMessage) /\ NoPatch(s)
    BY <1>0, <1>1, <2>1, AppendIs, NoPatchOn, BridgeHas
  <2>3. \A n : Carries(toRuntime, n) => Carries(s, n)
    BY <1>0, <1>1, CarriesOn, BridgeHas
  <2> HIDE DEF s
  <2>4. Append(s, b) \in Seq(BridgeMessage) /\ NoPatch(Append(s, b))
    BY <1>1, <2>2, AppendIs, NoPatchOn
  <2>5. \A n : Carries(s, n) => Carries(Append(s, b), n)
    BY <1>1, <2>2, CarriesOn
  <2>6. Line(Posted, Append(s, b), runtime.shown, controller.latest)
    BY <1>0, <1>2, <2>4, NoPatchLine DEF BridgeInv, Waits
  <2> QED BY <1>3, <2>3, <2>4, <2>5, <2>6 DEF s
<1>5. /\ controller' \in ControllerType /\ controller'.ready = controller.ready
      /\ controller'.waiting = controller.waiting /\ controller'.latest = controller.latest
  <2>1. controller \in ControllerType
    BY <1>0 DEF BridgeInv, BridgeTypes
  <2> QED BY <1>2, <2>1 DEF ControllerType
<1>6. Posted' = Posted
  BY <1>2 DEF Posted
<1> QED BY <1>0, <1>2, <1>4, <1>5, <1>6
  DEF BridgeInv, BridgeTypes, HeadOnly, Known, Waits, Arrives

\* The controller posts what waits: the latest draft, which is later than all that was posted.
LEMMA FlushStep ==
  ASSUME BridgeInv, NEW c \in ControllerType, c.ready, c.waiting # 0, c.waiting = c.latest,
         controller.latest <= c.latest,
         controller.latest < c.latest \/ ~controller.ready,
         controller' = Bri!Flushed(c), toRuntime' = Bri!Flush(c),
         UNCHANGED <<bridge, runtime, queue, sends, missed>>,
         toController' \in Seq(BridgeMessage), runtime.token \/ missed # "nothing"
  PROVE  BridgeInv'
<1> DEFINE m == Bri!Msg("patch", c.next, c.waiting)
<1>0. c.next \in Int /\ c.waiting \in Nat /\ c.latest \in Nat /\ c.waiting > 0
  BY DEF ControllerType
<1>1. m \in BridgeMessage /\ IsPatch(m) /\ m.patch = c.latest
  BY <1>0 DEF Bri!Msg, BridgeMessage, IsPatch
<1>2. /\ controller' \in ControllerType /\ controller'.ready /\ controller'.waiting = 0
      /\ controller'.latest = c.latest
  <2> DEFINE n == c.next + 1
  <2>1. n \in Int /\ controller' = [c EXCEPT !.waiting = 0, !.next = n]
    BY <1>0 DEF Bri!Flushed
  <2>2. ASSUME NEW k \in Int
        PROVE  LET d == [c EXCEPT !.waiting = 0, !.next = k]
               IN  d \in ControllerType /\ d.ready = c.ready /\ d.waiting = 0 /\ d.latest = c.latest
    BY DEF ControllerType
  <2> HIDE DEF n
  <2> QED BY <2>1, <2>2
<1>3. toRuntime' = Append(toRuntime, m)
  BY DEF Bri!Flush
<1> HIDE DEF m
<1>4. toRuntime' \in Seq(BridgeMessage) /\ Carries(toRuntime', c.latest)
  <2>1. Append(toRuntime, m) \in Seq(BridgeMessage)
    BY <1>1, BridgeHas, AppendIs
  <2>2. Carries(Append(toRuntime, m), c.latest)
    BY <1>1, BridgeHas, CarriesOn
  <2> QED BY <1>3, <2>1, <2>2
<1>5. Line(Posted, toRuntime', runtime.shown, c.latest)
  <2>1. CASE controller.latest < c.latest
    BY SMTT(20), <1>0, <1>1, <1>3, <2>1, BridgeHas, LineGrows DEF BridgeInv
  <2>2. CASE ~controller.ready
    <3>1. Line(Posted, toRuntime, 0, 0) /\ runtime.shown = 0
      BY <2>2, NoPatchLine DEF BridgeInv, Waits
    <3> QED BY SMTT(20), <1>0, <1>1, <1>3, <3>1, BridgeHas, LineGrows
  <2> QED BY <2>1, <2>2
<1>6. Posted' = Posted
  BY DEF Posted
<1>7. runtime.shown <= c.latest
  BY <1>0, BridgeHas DEF BridgeInv
<1> QED BY <1>0, <1>2, <1>4, <1>5, <1>6, <1>7
  DEF BridgeInv, BridgeTypes, HeadOnly, Known, Waits, Arrives

\* A change of the draft.
LEMMA PatchStep == BridgeInv /\ Bri!Patch => BridgeInv'
<1>0. SUFFICES ASSUME BridgeInv, Bri!Patch PROVE BridgeInv'
  OBVIOUS
<1>h. controller.latest \in Nat /\ controller \in ControllerType /\ runtime.shown \in Nat
  BY <1>0, BridgeHas DEF BridgeInv, BridgeTypes
<1> DEFINE c == [controller EXCEPT !.latest = @ + 1, !.waiting = controller.latest + 1]
<1>1. /\ c \in ControllerType /\ c.latest = controller.latest + 1 /\ c.waiting = c.latest
      /\ c.ready = controller.ready
  <2> DEFINE n == controller.latest + 1
             d == [controller EXCEPT !.latest = n, !.waiting = n]
  <2>1. n \in Nat /\ c = d
    BY <1>h
  <2>2. d \in ControllerType /\ d.latest = n /\ d.waiting = n /\ d.ready = controller.ready
    <3> HIDE DEF n
    <3> QED BY <1>h, <2>1 DEF ControllerType
  <2> HIDE DEF d, c
  <2> QED BY <2>1, <2>2
<1>2. /\ IF c.ready THEN controller' = Bri!Flushed(c) /\ toRuntime' = Bri!Flush(c)
         ELSE controller' = c /\ UNCHANGED toRuntime
      /\ UNCHANGED <<bridge, runtime, toController, queue, sends, missed>>
  BY <1>0 DEF Bri!Patch
<1> HIDE DEF c
<1>3. CASE c.ready
  <2>1. c.waiting # 0 /\ controller.latest < c.latest /\ controller.latest <= c.latest
    BY <1>h, <1>1
  <2>2. runtime.token \/ missed # "nothing"
    BY <1>0, <1>1, <1>3 DEF BridgeInv, Known
  <2>3. toController' \in Seq(BridgeMessage)
    BY <1>0, <1>2, BridgeHas
  <2> QED BY <1>0, <1>1, <1>2, <1>3, <2>1, <2>2, <2>3, FlushStep
<1>4. CASE ~c.ready
  <2>1. controller' = c /\ Posted' = Posted /\ UNCHANGED <<bridge, runtime, toRuntime, toController, queue, sends, missed>>
    BY <1>2, <1>4 DEF Posted
  <2>2. Line(Posted, toRuntime, runtime.shown, c.latest)
    BY <1>0, <1>1, <1>4, NoPatchLine DEF BridgeInv, Waits
  <2>3. runtime.shown <= c.latest
    BY <1>0, <1>h, <1>1 DEF BridgeInv
  <2> QED BY <1>0, <1>1, <1>4, <2>1, <2>2, <2>3
    DEF BridgeInv, BridgeTypes, HeadOnly, Known, Waits, Arrives
<1> QED BY <1>3, <1>4

\* The controller hears of the runtime.
LEMMA ReceiveStep == BridgeInv /\ Bri!ControllerReceives => BridgeInv'
<1>0. SUFFICES ASSUME BridgeInv, Bri!ControllerReceives PROVE BridgeInv'
  OBVIOUS
<1> DEFINE m == Head(toController)
           c == [controller EXCEPT !.highest = m.nr, !.next = Bri!Seen(@, m.nr),
                                   !.ready = @ \/ m.type = "ready"]
<1>h. controller \in ControllerType /\ controller.next \in Int /\ toController \in Seq(BridgeMessage)
  BY <1>0, BridgeHas DEF BridgeInv, BridgeTypes
<1>1. /\ toController # <<>> /\ toController' = Tail(toController)
      /\ \/ UNCHANGED <<controller, toRuntime>>
         \/ m.type = "ready" /\ controller' = Bri!Flushed(c) /\ toRuntime' = Bri!Flush(c)
         \/ m.type # "ready" /\ controller' = c /\ UNCHANGED toRuntime
      /\ UNCHANGED <<bridge, runtime, queue, sends, missed>>
  BY <1>0 DEF Bri!ControllerReceives
<1>2. m \in BridgeMessage /\ toController' \in Seq(BridgeMessage)
  BY <1>h, <1>1, TailIs
<1>3. runtime.token \/ missed # "nothing"
  BY <1>0, <1>1, BridgeHas DEF BridgeInv, Known
<1>4. /\ c \in ControllerType /\ c.waiting = controller.waiting /\ c.latest = controller.latest
      /\ IF m.type = "ready" THEN c.ready ELSE c.ready = controller.ready
  <2>1. m.nr \in Int
    BY <1>2 DEF BridgeMessage
  <2>2. Bri!Seen(controller.next, m.nr) \in Int
    BY <1>h, <2>1, SeenIs
  <2> HIDE DEF m
  <2> QED BY <1>h, <2>1, <2>2 DEF ControllerType
<1>5. ASSUME controller' = c, UNCHANGED toRuntime, c.waiting = 0 \/ c.ready = controller.ready PROVE BridgeInv'
  <2> HIDE DEF c, m
  <2>1. Posted' = Posted /\ controller'.waiting = controller.waiting /\ controller'.latest = controller.latest
    BY <1>1, <1>4, <1>5 DEF Posted
  <2>2. BridgeTypes' /\ HeadOnly' /\ Known'
    BY <1>0, <1>1, <1>2, <1>3, <1>4, <1>5 DEF BridgeInv, BridgeTypes, HeadOnly, Known
  <2>3. Waits' /\ Arrives'
    BY <1>0, <1>1, <1>4, <1>5, <2>1, BridgeHas DEF BridgeInv, Waits, Arrives
  <2> QED BY <1>0, <1>1, <1>4, <1>5, <2>1, <2>2, <2>3 DEF BridgeInv
<1>6. CASE m.type = "ready" /\ controller' = Bri!Flushed(c) /\ toRuntime' = Bri!Flush(c)
  <2> HIDE DEF c, m
  <2>1. CASE c.waiting = 0
    BY <1>5, <1>6, <2>1 DEF Bri!Flushed, Bri!Flush
  <2>2. CASE c.waiting # 0
    <3>1. ~controller.ready /\ c.waiting = c.latest /\ c.ready /\ controller.latest <= c.latest
      BY <1>0, <1>4, <1>6, <2>2, BridgeHas DEF BridgeInv, Waits
    <3> QED BY <1>0, <1>1, <1>2, <1>3, <1>4, <1>6, <2>2, <3>1, FlushStep
  <2> QED BY <2>1, <2>2
<1>7. CASE m.type # "ready" /\ controller' = c /\ UNCHANGED toRuntime
  BY <1>4, <1>5, <1>7, BridgeHas, <1>0
<1>8. CASE UNCHANGED <<controller, toRuntime>>
  <2>1. Posted' = Posted
    BY <1>1 DEF Posted
  <2> QED BY <1>0, <1>1, <1>2, <1>3, <1>8, <2>1 DEF BridgeInv, BridgeTypes, HeadOnly, Known, Waits, Arrives
<1> QED BY <1>1, <1>6, <1>7, <1>8

\* The runtime takes what was posted first into its queue.
LEMMA TakeStep == BridgeInv /\ Bri!RuntimeReceives => BridgeInv'
<1>0. SUFFICES ASSUME BridgeInv, Bri!RuntimeReceives PROVE BridgeInv'
  OBVIOUS
<1> DEFINE m == Head(toRuntime)
           item == [msg |-> m, accepted |-> None]
<1>1. /\ toRuntime # <<>> /\ toRuntime' = Tail(toRuntime)
      /\ \/ /\ m.type = "bootstrap"
            /\ runtime' = [runtime EXCEPT !.token = TRUE] /\ UNCHANGED queue
         \/ /\ m.type # "bootstrap" /\ UNCHANGED runtime
            /\ queue' = IF runtime.token THEN Append(queue, item) ELSE queue
      /\ UNCHANGED <<bridge, controller, toController, sends, missed>>
  BY <1>0 DEF Bri!RuntimeReceives
<1>2. m \in BridgeMessage /\ toRuntime' \in Seq(BridgeMessage)
  BY <1>0, <1>1, BridgeHas, TailIs
<1>h. /\ runtime.shown \in Nat /\ controller.latest \in Nat /\ Posted \in Seq(BridgeMessage)
      /\ toRuntime \in Seq(BridgeMessage) /\ queue \in Seq(Queued) /\ runtime \in RuntimeType
  BY <1>0, BridgeHas DEF BridgeInv, BridgeTypes
<1>3. /\ Line(Posted, toRuntime', runtime.shown, controller.latest)
      /\ Line(Append(Posted, m), toRuntime', runtime.shown, controller.latest)
  BY <1>0, <1>1, <1>h, LineMoves DEF BridgeInv
<1>4. \A n : Carries(toRuntime, n) => Carries(toRuntime', n) \/ (IsPatch(m) /\ m.patch = n)
  BY <1>1, <1>h, CarriesOn
<1>5. NoPatch(toRuntime) => NoPatch(toRuntime') /\ ~IsPatch(m)
  BY <1>1, <1>2, <1>h, NoPatchOn
<1>6. CASE m.type = "bootstrap" /\ runtime' = [runtime EXCEPT !.token = TRUE] /\ UNCHANGED queue
  <2>1. runtime' \in RuntimeType /\ runtime'.shown = runtime.shown /\ runtime'.backwards = runtime.backwards
        /\ runtime'.token
    BY <1>6, <1>h DEF RuntimeType
  <2>2. Posted' = Posted /\ ~IsPatch(m)
    BY <1>6 DEF Posted, IsPatch
  <2> HIDE DEF m
  <2> QED BY <1>0, <1>1, <1>2, <1>3, <1>4, <1>5, <1>6, <2>1, <2>2
    DEF BridgeInv, BridgeTypes, HeadOnly, Known, Waits, Arrives
<1>7. CASE UNCHANGED runtime /\ ~runtime.token /\ UNCHANGED queue
  <2>1. Posted' = Posted
    BY <1>7 DEF Posted
  <2>2. missed = "nothing" => ~IsPatch(m)
    BY <1>0, <1>5, <1>7 DEF BridgeInv, Known, Waits
  <2> HIDE DEF m
  <2> QED BY <1>0, <1>1, <1>2, <1>3, <1>4, <1>5, <1>7, <2>1, <2>2
    DEF BridgeInv, BridgeTypes, HeadOnly, Known, Waits, Arrives
<1>8. CASE UNCHANGED runtime /\ runtime.token /\ queue' = Append(queue, item)
  <2>1. item \in Queued /\ item.msg = m /\ item.accepted = None
    BY <1>2 DEF Queued
  <2> HIDE DEF item, m
  <2>2. queue' \in Seq(Queued) /\ HeadOnly'
    BY <1>0, <1>8, <1>h, <2>1, AppendIs DEF BridgeInv, HeadOnly
  <2>3. Posted' = Append(Posted, m)
    BY <1>8, <1>h, <2>1, PostedIs DEF Posted
  <2>4. \A n : Carries(Posted, n) \/ (IsPatch(m) /\ m.patch = n) => Carries(Posted', n)
    BY <1>2, <1>h, <2>3, CarriesOn
  <2>5. NoPatch(Posted) /\ ~IsPatch(m) => NoPatch(Posted')
    BY <1>2, <1>h, <2>3, NoPatchOn
  <2>6. Line(Posted', toRuntime', runtime.shown, controller.latest)
    BY <1>3, <2>3
  <2>7. BridgeTypes' /\ Known'
    BY <1>0, <1>1, <1>2, <1>8, <2>2 DEF BridgeInv, BridgeTypes, Known
  <2>8. Waits' /\ Arrives'
    BY <1>0, <1>1, <1>4, <1>5, <1>8, <2>4, <2>5 DEF BridgeInv, Waits, Arrives
  <2> QED BY <1>0, <1>1, <1>8, <2>2, <2>6, <2>7, <2>8 DEF BridgeInv
<1> QED BY <1>1, <1>6, <1>7, <1>8, <1>h DEF RuntimeType

\* The first of the queue is submitted.
LEMMA SubmitStep == ASSUME NEW i, BridgeInv, Bri!SubmitIncoming(i) PROVE BridgeInv'
<1>1. /\ i = 1 /\ i \in DOMAIN queue /\ queue' = [queue EXCEPT ![1].accepted = Bri!Fresh(queue[1].msg.nr)]
      /\ bridge' = IF Bri!Fresh(queue[1].msg.nr) THEN [bridge EXCEPT !.last = queue[1].msg.nr] ELSE bridge
      /\ UNCHANGED <<controller, runtime, toRuntime, toController, sends, missed>>
  BY DEF Bri!SubmitIncoming, Bri!InOrder, Bri!Submittable, Bri!Accept
<1>2. queue \in Seq(Queued) /\ queue[1] \in Queued /\ DOMAIN queue = 1..Len(queue)
  BY <1>1, BridgeHas, LenProperties, ElementOfSeq
<1>3. queue[1].msg.nr \in Int /\ bridge \in [open : BOOLEAN, last : Int]
  BY <1>2 DEF Queued, BridgeMessage, BridgeInv, BridgeTypes
<1>4. Bri!Fresh(queue[1].msg.nr) \in BOOLEAN
  BY <1>3 DEF Bri!Fresh
<1>5. PICK f \in BOOLEAN : f = Bri!Fresh(queue[1].msg.nr)
  BY <1>4
<1>6. bridge' \in [open : BOOLEAN, last : Int]
  BY <1>1, <1>3, <1>5
<1>7. PICK x \in Queued : x = [queue[1] EXCEPT !.accepted = f]
  <2>1. [queue[1] EXCEPT !.accepted = f] \in Queued
    BY <1>2 DEF Queued
  <2> QED BY <2>1
<1>8. x.msg = queue[1].msg /\ queue' = [queue EXCEPT ![1] = x]
  BY <1>1, <1>2, <1>5, <1>7 DEF Queued
<1>9. queue' \in Seq(Queued) /\ DOMAIN queue' = DOMAIN queue /\ HeadOnly'
  BY <1>1, <1>2, <1>8, ExceptSeq DEF BridgeInv, HeadOnly
<1>10. Posted' = Posted
  <2>1. \A j \in DOMAIN queue : queue'[j].msg = queue[j].msg
    BY <1>2, <1>8
  <2> QED BY <1>9, <2>1 DEF Posted, PostedOf
<1>11. queue # <<>>
  BY <1>1
<1> QED BY <1>1, <1>6, <1>9, <1>10, <1>11 DEF BridgeInv, BridgeTypes, Known, Waits, Arrives

\* A click in the page is sent, submitted and answered beside the queue.
LEMMA SendStep ==
  ASSUME BridgeInv, Bri!Send \/ \E s \in sends : Bri!SubmitSend(s) \/ Bri!SendAnswered(s)
  PROVE  BridgeInv'
<1>h. /\ runtime \in RuntimeType /\ sends \in SUBSET Queued /\ bridge \in [open : BOOLEAN, last : Int]
      /\ runtime.next \in Int /\ toController \in Seq(BridgeMessage)
  BY BridgeHas DEF BridgeInv, BridgeTypes
<1>k. ASSUME bridge' \in [open : BOOLEAN, last : Int], runtime' \in RuntimeType, runtime'.token = runtime.token,
             runtime'.shown = runtime.shown, runtime'.backwards = runtime.backwards,
             sends' \in SUBSET Queued, toController' \in Seq(BridgeMessage),
             runtime.token \/ sends # {}, missed' = missed \/ missed' # "nothing",
             UNCHANGED <<controller, toRuntime, queue>>
      PROVE  BridgeInv'
  <2>1. Posted' = Posted
    BY <1>k DEF Posted
  <2> QED BY <1>k, <2>1 DEF BridgeInv, BridgeTypes, HeadOnly, Known, Waits, Arrives
<1>1. CASE Bri!Send
  <2> DEFINE x == [msg |-> Bri!Msg("select", runtime.next, 0), accepted |-> None]
             y == [runtime EXCEPT !.next = @ + 1, !.sent = @ + 1]
  <2>1. x \in Queued
    BY <1>h DEF Bri!Msg, BridgeMessage, Queued
  <2>2. y \in RuntimeType /\ y.token = runtime.token /\ y.shown = runtime.shown /\ y.backwards = runtime.backwards
    <3> DEFINE n == runtime.next + 1
               k == runtime.sent + 1
    <3>1. n \in Int /\ k \in Nat
      BY <1>h DEF RuntimeType
    <3>2. y = [runtime EXCEPT !.next = n, !.sent = k]
      OBVIOUS
    <3> HIDE DEF n, k, y
    <3> QED BY <1>h, <3>1, <3>2 DEF RuntimeType
  <2>3. /\ runtime.token /\ runtime' = y /\ sends' = sends \cup {x}
        /\ UNCHANGED <<bridge, controller, toRuntime, toController, queue, missed>>
    BY <1>1 DEF Bri!Send
  <2> HIDE DEF x, y
  <2> QED BY <1>h, <1>k, <2>1, <2>2, <2>3
<1>2. ASSUME NEW s \in sends, Bri!SubmitSend(s) PROVE BridgeInv'
  <2>1. s \in Queued /\ s.msg.nr \in Int
    BY <1>h DEF Queued, BridgeMessage
  <2>2. Bri!Fresh(s.msg.nr) \in BOOLEAN
    BY <1>h, <2>1 DEF Bri!Fresh
  <2>3. PICK f \in BOOLEAN : f = Bri!Fresh(s.msg.nr)
    BY <2>2
  <2> DEFINE x == [s EXCEPT !.accepted = f]
  <2>4. x \in Queued
    BY <2>1 DEF Queued
  <2>5. /\ sends' = (sends \ {s}) \cup {x}
        /\ bridge' = IF f THEN [bridge EXCEPT !.last = s.msg.nr] ELSE bridge
        /\ UNCHANGED <<controller, runtime, toRuntime, toController, queue, missed>>
    BY <1>2, <2>3 DEF Bri!SubmitSend, Bri!Accept
  <2>6. bridge' \in [open : BOOLEAN, last : Int]
    BY <1>h, <2>1, <2>5
  <2> HIDE DEF x
  <2>7. sends' \in SUBSET Queued /\ sends # {}
    BY <1>h, <2>4, <2>5
  <2> QED BY <1>h, <1>k, <2>5, <2>6, <2>7
<1>3. ASSUME NEW s \in sends, Bri!SendAnswered(s) PROVE BridgeInv'
  <2>1. s.msg \in BridgeMessage
    BY <1>h DEF Queued
  <2>2. toController' \in Seq(BridgeMessage)
    BY <1>3, <1>h, <2>1 DEF Bri!SendAnswered
  <2>3. missed' = missed \/ missed' # "nothing"
    BY <1>3 DEF Bri!SendAnswered, Bri!Missing
  <2>4. sends' \in SUBSET Queued /\ sends # {} /\ UNCHANGED <<bridge, controller, runtime, toRuntime, queue>>
    BY <1>3, <1>h DEF Bri!SendAnswered
  <2> QED BY <1>h, <1>k, <2>2, <2>3, <2>4
<1> QED BY <1>1, <1>2, <1>3

\* The page is loaded again, or the session ends.
LEMMA BreakStep == BridgeInv /\ (Bri!Reload \/ Bri!End) => BridgeInv'
<1>1. ASSUME BridgeInv, Bri!Reload PROVE BridgeInv'
  <2>1. runtime \in RuntimeType
    BY <1>1 DEF BridgeInv, BridgeTypes
  <2>2. runtime' \in RuntimeType /\ runtime'.shown = 0 /\ ~runtime'.backwards
    <3> DEFINE n == runtime.reloads + 1
               y == [Bri!NewPage EXCEPT !.reloads = n, !.sent = runtime.sent]
    <3>1. n \in Nat /\ runtime.sent \in Nat
      BY <2>1 DEF RuntimeType
    <3>2. runtime' = y
      BY <1>1 DEF Bri!Reload
    <3>3. Bri!NewPage \in RuntimeType /\ Bri!NewPage.shown = 0 /\ ~Bri!NewPage.backwards
      BY DEF Bri!NewPage, RuntimeType
    <3>4. ASSUME NEW p \in RuntimeType
          PROVE  LET q == [p EXCEPT !.reloads = n, !.sent = runtime.sent]
                 IN  q \in RuntimeType /\ q.shown = p.shown /\ q.backwards = p.backwards
      <4> HIDE DEF n
      <4> QED BY <3>1 DEF RuntimeType
    <3> HIDE DEF n
    <3> QED BY <3>2, <3>3, <3>4
  <2>3. Posted' = <<>> /\ toRuntime' = <<>> /\ queue' = <<>> /\ sends' = {} /\ missed' # "nothing"
        /\ UNCHANGED <<bridge, controller, toController>>
    BY <1>1 DEF Bri!Reload, Posted, PostedOf
  <2>4. Line(Posted', toRuntime', 0, controller.latest) /\ NoPatch(Posted') /\ NoPatch(toRuntime')
    BY <2>3 DEF Line, Rising, Below, Within, NoPatch
  <2>5. 0 <= controller.latest
    BY <1>1, BridgeHas
  <2> QED BY <1>1, <2>2, <2>3, <2>4, <2>5 DEF BridgeInv, BridgeTypes, HeadOnly, Known, Waits, Arrives
<1>2. ASSUME BridgeInv, Bri!End PROVE BridgeInv'
  <2>1. bridge' \in [open : BOOLEAN, last : Int] /\ Posted' = Posted /\ missed' # "nothing"
        /\ UNCHANGED <<controller, runtime, toRuntime, toController, queue, sends>>
    BY <1>2 DEF Bri!End, BridgeInv, BridgeTypes, Posted
  <2> QED BY <1>2, <2>1 DEF BridgeInv, BridgeTypes, HeadOnly, Known, Waits, Arrives
<1> QED BY <1>1, <1>2

\* The answer to what the runtime submitted first.
LEMMA AnsweredStep == ASSUME NEW i, BridgeInv, Bri!IncomingAnswered(i) PROVE BridgeInv'
<1>1. i \in DOMAIN queue /\ i = 1 /\ queue # <<>>
  BY DEF Bri!IncomingAnswered, BridgeInv, HeadOnly
<1> DEFINE m == queue[1].msg
           rest == Tail(queue)
           later == Tail(Posted)
<1>h. /\ runtime \in RuntimeType /\ runtime.next \in Int /\ runtime.shown \in Nat /\ controller.latest \in Nat
      /\ queue \in Seq(Queued) /\ Posted \in Seq(BridgeMessage)
      /\ toController \in Seq(BridgeMessage) /\ toRuntime \in Seq(BridgeMessage)
  BY BridgeHas DEF BridgeInv, BridgeTypes
<1>2. /\ m \in BridgeMessage /\ m.nr \in Int /\ m.patch \in Nat /\ rest \in Seq(Queued)
      /\ \A j \in DOMAIN rest : rest[j].accepted = None
  <2>1. queue[1] \in Queued
    BY <1>1, <1>h, TailIs
  <2>2. /\ rest \in Seq(Queued)
        /\ \A j \in DOMAIN rest : j + 1 \in DOMAIN queue /\ rest[j] = queue[j + 1] /\ j >= 1 /\ j \in Nat
    BY <1>1, <1>h, TailIs
  <2>3. \A j \in DOMAIN rest : j + 1 # 1
    BY <2>2
  <2> QED BY <2>1, <2>2, <2>3 DEF BridgeInv, HeadOnly, Queued, BridgeMessage
<1>3. /\ Posted # <<>> /\ Head(Posted) = m /\ PostedOf(rest) = later /\ later \in Seq(BridgeMessage)
  BY <1>1, <1>h, PostedIs, TailIs DEF Posted
<1>4. Bri!RemoveAt(queue, 1) = rest
  BY <1>1, <1>h, FirstRemoved
<1>5. Line(Posted, toRuntime, runtime.shown, controller.latest) /\ runtime.shown <= controller.latest
  BY DEF BridgeInv
<1>6. /\ Line(later, toRuntime, runtime.shown, controller.latest)
      /\ IsPatch(m) => /\ runtime.shown < m.patch /\ m.patch <= controller.latest
                       /\ Line(later, toRuntime, m.patch, controller.latest)
      /\ \A a \in BridgeMessage : ~IsPatch(a) => Line(<<a>> \o later, toRuntime, runtime.shown, controller.latest)
  BY <1>3, <1>5, <1>h, LineAnswers
<1>7. ASSUME NEW n PROVE Carries(Posted, n) => Carries(later, n) \/ (IsPatch(m) /\ m.patch = n)
  <2>1. \A s \in Seq(BridgeMessage) :
          Carries(s, n) => Carries(Tail(s), n) \/ (IsPatch(Head(s)) /\ Head(s).patch = n)
    BY CarriesOn
  <2> HIDE DEF m
  <2> QED BY <2>1, <1>3, <1>h
<1>8. NoPatch(Posted) => NoPatch(later) /\ ~IsPatch(m)
  BY <1>3, <1>2, <1>h, NoPatchOn
<1>9. runtime.token \/ missed # "nothing"
  BY <1>1, <1>h DEF BridgeInv, Known, RuntimeType
<1>u. UNCHANGED <<bridge, controller, toRuntime, sends>>
  BY DEF Bri!IncomingAnswered
\* What the runtime becomes when the message was accepted.
<1>10. /\ Bri!Applied(m) \in RuntimeType /\ Bri!Applied(m).token = runtime.token
       /\ Bri!Applied(m).shown = IF IsPatch(m) THEN m.patch ELSE runtime.shown
       /\ ~Bri!Applied(m).backwards
  <2> DEFINE next == Bri!Seen(runtime.next, m.nr) + IF m.type = "handshake" THEN 1 ELSE 0
             now == IF m.type = "patch" THEN m.patch ELSE runtime.shown
             back == runtime.backwards \/ (m.type = "patch" /\ m.patch <= runtime.shown)
  <2>0. runtime.next \in Int /\ m.nr \in Int
    BY <1>h, <1>2
  <2>s. Bri!Seen(runtime.next, m.nr) \in Int
    BY <2>0 DEF Bri!Seen
  <2>1. next \in Int
    BY <2>s
  <2>2. now \in Nat
    BY <1>h, <1>2
  <2>3. ~back
    BY <1>h, <1>2, <1>6 DEF IsPatch, BridgeInv
  <2>4. Bri!Applied(m) = [runtime EXCEPT !.next = next, !.shown = now, !.backwards = back]
    BY DEF Bri!Applied
  <2>5. now = IF IsPatch(m) THEN m.patch ELSE runtime.shown
    BY DEF IsPatch
  <2>6. back = FALSE
    BY <2>3
  <2> HIDE DEF next, now, back, m
  <2> QED BY <1>h, <2>1, <2>2, <2>3, <2>4, <2>5, <2>6 DEF RuntimeType
<1>11. CASE queue' = rest /\ missed' # "nothing" /\ UNCHANGED <<runtime, toController>>
  <2>1. Posted' = later
    BY <1>3, <1>11 DEF Posted
  <2> HIDE DEF m, rest, later
  <2>2. HeadOnly'
    BY <1>2, <1>11 DEF HeadOnly
  <2> QED BY <1>2, <1>6, <1>8, <1>11, <1>u, <2>1, <2>2 DEF BridgeInv, BridgeTypes, Known, Waits, Arrives
<1>12. CASE /\ m.type = "handshake" /\ runtime' = Bri!Applied(m) /\ UNCHANGED <<toController, missed>>
            /\ queue' = <<[msg |-> Bri!Msg("ready", Bri!Seen(runtime.next, 0), 0), accepted |-> None]>> \o rest
  <2> DEFINE a == Bri!Msg("ready", Bri!Seen(runtime.next, 0), 0)
             x == [msg |-> a, accepted |-> None]
  <2>0. runtime.next \in Int
    BY <1>h
  <2>1. Bri!Seen(runtime.next, 0) \in Int
    BY <2>0 DEF Bri!Seen
  <2>2. a \in BridgeMessage /\ ~IsPatch(a)
    BY <2>1 DEF Bri!Msg, BridgeMessage, IsPatch
  <2>3. x \in Queued /\ x.msg = a /\ x.accepted = None
    BY <2>2 DEF Queued
  <2>4. ~IsPatch(m)
    BY <1>12 DEF IsPatch
  <2> HIDE DEF m, rest, later, a, x
  <2>5. queue' = <<x>> \o rest
    BY <1>12 DEF x, a
  <2>6. queue' \in Seq(Queued) /\ HeadOnly'
    BY <1>2, <2>3, <2>5, PrependIs DEF HeadOnly
  <2>7. Posted' = <<a>> \o later
    BY <1>2, <1>3, <2>3, <2>5, PostedIs DEF Posted
  <2>8. Line(Posted', toRuntime, runtime.shown, controller.latest)
    BY <1>6, <2>2, <2>7
  <2>9. \A n : Carries(Posted, n) => Carries(Posted', n)
    BY <1>3, <1>7, <2>2, <2>4, <2>7, CarriesOn
  <2>10. NoPatch(Posted) => NoPatch(Posted')
    BY <1>3, <1>8, <2>2, <2>7, NoPatchOn
  <2>11. runtime' \in RuntimeType /\ runtime'.shown = runtime.shown /\ ~runtime'.backwards
         /\ runtime'.token = runtime.token
    BY <1>10, <1>12, <2>4
  <2>12. BridgeTypes' /\ Known'
    BY <1>9, <1>12, <1>u, <2>6, <2>11 DEF BridgeInv, BridgeTypes, Known
  <2>13. Waits' /\ Arrives'
    BY <1>12, <1>u, <2>9, <2>10, <2>11 DEF BridgeInv, Waits, Arrives
  <2> QED BY <1>u, <2>6, <2>8, <2>11, <2>12, <2>13 DEF BridgeInv
<1>13. CASE /\ m.type # "handshake" /\ runtime' = Bri!Applied(m) /\ queue' = rest /\ UNCHANGED missed
            /\ toController' = IF m.type = "ready" THEN Append(toController, m) ELSE toController
  <2>1. Posted' = later
    BY <1>3, <1>13 DEF Posted
  <2>2. toController' \in Seq(BridgeMessage)
    BY <1>2, <1>13, <1>h
  <2> HIDE DEF m, rest, later
  <2>3. HeadOnly'
    BY <1>2, <1>13 DEF HeadOnly
  <2>4. /\ runtime' \in RuntimeType /\ runtime'.token = runtime.token /\ ~runtime'.backwards
        /\ runtime'.shown = IF IsPatch(m) THEN m.patch ELSE runtime.shown
    BY <1>10, <1>13
  <2>5. BridgeTypes' /\ Known'
    BY <1>2, <1>9, <1>13, <1>u, <2>2, <2>4 DEF BridgeInv, BridgeTypes, Known
  <2>6. Line(Posted', toRuntime, runtime'.shown, controller.latest) /\ runtime'.shown <= controller.latest
    BY <1>5, <1>6, <2>1, <2>4
  <2>7. Waits'
    BY <1>8, <1>u, <2>1, <2>4 DEF BridgeInv, Waits
  <2>8. Arrives'
    <3>1. SUFFICES ASSUME missed = "nothing" PROVE Arrives'
      BY <1>13 DEF Arrives
    <3>2. CASE controller.latest = runtime.shown
      <4>1. ~IsPatch(m)
        BY <1>2, <1>6, <1>h, <3>2
      <4> QED BY <1>u, <2>4, <3>2, <4>1 DEF Arrives
    <3>3. CASE controller.latest = controller.waiting
      BY <1>u, <3>3 DEF Arrives
    <3>4. CASE Carries(Posted, controller.latest)
      BY <1>7, <1>u, <2>1, <2>4, <3>4 DEF Arrives
    <3>5. CASE Carries(toRuntime, controller.latest)
      BY <1>u, <3>5 DEF Arrives
    <3> QED BY <3>1, <3>2, <3>3, <3>4, <3>5 DEF BridgeInv, Arrives
  <2> QED BY <1>u, <2>3, <2>4, <2>5, <2>6, <2>7, <2>8 DEF BridgeInv
<1>14. \/ queue' = rest /\ missed' # "nothing" /\ UNCHANGED <<runtime, toController>>
       \/ /\ m.type = "handshake" /\ runtime' = Bri!Applied(m) /\ UNCHANGED <<toController, missed>>
          /\ queue' = <<[msg |-> Bri!Msg("ready", Bri!Seen(runtime.next, 0), 0), accepted |-> None]>> \o rest
       \/ /\ m.type # "handshake" /\ runtime' = Bri!Applied(m) /\ queue' = rest /\ UNCHANGED missed
          /\ toController' = IF m.type = "ready" THEN Append(toController, m) ELSE toController
  BY <1>1, <1>4 DEF Bri!IncomingAnswered, Bri!Missing
<1> QED BY <1>11, <1>12, <1>13, <1>14

\* Every step of the controller, the runtime and the server keeps it.
LEMMA BridgeStep == BridgeInv /\ Bri!Next => BridgeInv'
BY BootstrapStep, PatchStep, ReceiveStep, TakeStep, SendStep, BreakStep, SubmitStep, AnsweredStep
  DEF Bri!Next

\* With nothing under way, nothing carries the latest draft.
LEMMA BridgeSound == BridgeInv => Bri!NeverBackwards /\ Bri!LatestDraftShown
<1>1. SUFFICES ASSUME BridgeInv, Bri!Quiet, controller.ready, missed = "nothing"
               PROVE  runtime.shown = controller.latest
  BY DEF BridgeInv, Bri!NeverBackwards, Bri!LatestDraftShown
<1>2. ~Carries(Posted, controller.latest) /\ ~Carries(toRuntime, controller.latest)
  BY <1>1 DEF Bri!Quiet, Posted, PostedOf, Carries
<1>3. controller.latest \in {runtime.shown, controller.waiting} /\ controller.waiting = 0
  BY <1>1, <1>2 DEF BridgeInv, Arrives, Waits
<1> QED BY <1>1, <1>3, BridgeHas DEF BridgeInv

-----------------------------------------------------------------------------
(* The grants of a preview (PreviewGrants), as long as no two openings overlap.                    *)

OrNone == Agents \cup {None}
PageType  == [gen : Nat, controller : OrNone, popup : OrNone, grant : OrNone, pending : OrNone,
              selected : Items]
StartType == [step : {"idle", "clean", "create", "granted", "undo", "done"}, gen : Nat, popup : OrNone,
              entry : Items \cup {None}, grant : OrNone]
CloseType == [step : {"idle", "wait", "revoke", "done"}, on : OrNone, grant : OrNone]

GrantTypes ==
  /\ grants \in [Agents -> {"none", "live", "revoked"}]
  /\ page \in PageType /\ window \in OrNone
  /\ start \in [Agents -> StartType] /\ closing \in [1..MaxCloses -> CloseType]
  /\ \A s \in Agents : start[s].step = "clean" => start[s].grant \in Agents
  /\ \A c \in 1..MaxCloses : closing[c].step = "revoke" => closing[c].grant \in Agents

OneOpening == \A s, t \in Agents : Gra!Running(s) /\ Gra!Running(t) => s = t

\* The page has no grant but the one that an opening revokes first.
PageGrant ==
  \A s \in Agents :
    /\ start[s].step \in {"create", "granted"} => page.grant = None
    /\ start[s].step = "clean" => page.grant \in {None, start[s].grant}

\* Who has the session of s in hand.
CleanedBy(s) == \E t \in Agents : start[t].step = "clean" /\ start[t].grant = s
RevokedBy(s) == \E c \in 1..MaxCloses : closing[c].step = "revoke" /\ closing[c].grant = s
Waiting      == \E c \in 1..MaxCloses : closing[c].step = "wait"
InHand(s) ==
  \/ s \in unrevoked
  \/ page.grant = s /\ (page.controller = s \/ Waiting)
  \/ start[s].step \in {"granted", "undo"}
  \/ CleanedBy(s) \/ RevokedBy(s)

LiveInHand == \A s \in Agents : grants[s] = "live" => InHand(s)

GrantsKept == GrantTypes /\ OneOpening /\ PageGrant /\ LiveInHand
GrantsInv  == ~overlapped => GrantsKept

\* What happens to the references of the editor.
LEMMA PageIs ==
  ASSUME NEW p \in PageType, NEW s \in OrNone
  PROVE  /\ Gra!Disposed(p) \in PageType /\ Gra!Disposed(p).controller = None
         /\ Gra!Disposed(p).grant = p.grant
         /\ Gra!Released(p, s) \in PageType /\ Gra!Released(p, s).grant = p.grant
         /\ Gra!Released(p, s).controller = p.controller
         /\ Gra!ForgetGrant(p, s) \in PageType
         /\ Gra!ForgetGrant(p, s).grant = IF p.grant = s THEN None ELSE p.grant
         /\ Gra!ForgetGrant(p, s).controller = p.controller
<1>0. None \in OrNone /\ p.gen \in Nat
  BY DEF OrNone, PageType
<1>1. ASSUME NEW n \in Nat
      PROVE  LET q == [p EXCEPT !.gen = n, !.controller = None, !.popup = None]
             IN  q \in PageType /\ q.controller = None /\ q.grant = p.grant
  BY <1>0 DEF PageType
<1>2. LET q == [p EXCEPT !.pending = None]
      IN  q \in PageType /\ q.controller = p.controller /\ q.grant = p.grant
  BY <1>0 DEF PageType
<1>3. LET q == [p EXCEPT !.grant = None]
      IN  q \in PageType /\ q.controller = p.controller /\ q.grant = None
  BY <1>0 DEF PageType
<1>4. p.gen + 1 \in Nat
  BY <1>0
<1> QED BY <1>1, <1>2, <1>3, <1>4 DEF Gra!Disposed, Gra!Released, Gra!ForgetGrant

\* An attempt to open moves on.
LEMMA StartMoves ==
  ASSUME GrantTypes, NEW s \in Agents, NEW r \in StartType, start' = [start EXCEPT ![s] = r],
         r.step = "clean" => r.grant \in Agents
  PROVE  /\ start' \in [Agents -> StartType]
         /\ \A t \in Agents : start'[t] = IF t = s THEN r ELSE start[t]
         /\ \A t \in Agents : start'[t].step = "clean" => start'[t].grant \in Agents
<1>1. start' \in [Agents -> StartType] /\ \A t \in Agents : start'[t] = IF t = s THEN r ELSE start[t]
  BY DEF GrantTypes
<1> QED BY <1>1 DEF GrantTypes

\* A step of an attempt keeps what is in hand, if it ends none but its own.
LEMMA StartKeeps ==
  ASSUME GrantsKept, NEW s \in Agents, NEW r \in StartType, start' = [start EXCEPT ![s] = r],
         UNCHANGED closing,
         Gra!Running(s), r.step # "clean",
         page' \in PageType, window' \in OrNone,
         grants' \in [Agents -> {"none", "live", "revoked"}],
         r.step \in {"create", "granted"} => page'.grant = None,
         \A x \in Agents : grants'[x] = "live" =>
           \/ x \in unrevoked' \/ (x = s /\ r.step \in {"granted", "undo"})
           \/ (page'.grant = x /\ page'.controller = x)
           \/ /\ x = s => start[s].step \notin {"granted", "undo"}
              /\ grants[x] = "live" /\ x \notin unrevoked
              /\ page.grant = x => page'.grant = x /\ page'.controller = page.controller
              /\ start[s].step = "clean" => start[s].grant # x
  PROVE  GrantsKept'
<1>1. /\ start' \in [Agents -> StartType]
      /\ \A t \in Agents : start'[t] = IF t = s THEN r ELSE start[t]
      /\ \A t \in Agents : start'[t].step = "clean" => start'[t].grant \in Agents
  BY StartMoves DEF GrantsKept
<1>2. GrantTypes'
  BY <1>1 DEF GrantsKept, GrantTypes
<1>3. ASSUME NEW t \in Agents, Gra!Running(t)' PROVE t = s
  BY <1>1, <1>3 DEF GrantsKept, OneOpening, Gra!Running
<1>4. OneOpening'
  BY <1>3 DEF OneOpening
<1>5. PageGrant'
  BY <1>1, <1>3 DEF PageGrant, Gra!Running
<1>6. ASSUME NEW x \in Agents, grants'[x] = "live" PROVE InHand(x)'
  <2>1. CASE \/ x \in unrevoked' \/ (x = s /\ r.step \in {"granted", "undo"})
             \/ (page'.grant = x /\ page'.controller = x)
    BY <1>1, <2>1 DEF InHand
  <2>2. CASE /\ x = s => start[s].step \notin {"granted", "undo"}
             /\ grants[x] = "live" /\ x \notin unrevoked
             /\ page.grant = x => page'.grant = x /\ page'.controller = page.controller
             /\ start[s].step = "clean" => start[s].grant # x
    <3>1. InHand(x)
      BY <2>2 DEF GrantsKept, LiveInHand
    <3>2. /\ Waiting' = Waiting /\ RevokedBy(x)' = RevokedBy(x)
          /\ start[x].step \in {"granted", "undo"} => start'[x] = start[x]
      BY <1>1, <2>2 DEF Waiting, RevokedBy
    <3>3. ~CleanedBy(x)
      <4>1. \A t \in Agents : start[t].step = "clean" => t = s
        BY DEF GrantsKept, OneOpening, Gra!Running
      <4> QED BY <2>2, <4>1 DEF CleanedBy
    <3> QED BY <2>2, <3>1, <3>2, <3>3 DEF InHand
  <2> QED BY <1>6, <2>1, <2>2
<1>7. LiveInHand'
  BY <1>6 DEF LiveInHand
<1> QED BY <1>2, <1>4, <1>5, <1>7 DEF GrantsKept

\* The server forgets the session of x, or it is known not to have.
LEMMA RevokedIs ==
  ASSUME GrantTypes, NEW x \in Agents, NEW ok \in BOOLEAN, Gra!Revoked(x, ok)
  PROVE  /\ grants' \in [Agents -> {"none", "live", "revoked"}]
         /\ \A y \in Agents : grants'[y] = "live" =>
              y \in unrevoked' \/ (y # x /\ grants[y] = "live" /\ y \notin unrevoked)
BY DEF GrantTypes, Gra!Revoked

\* An attempt goes to another step.
LEMMA StepIs ==
  ASSUME GrantTypes, NEW s \in Agents,
         NEW step \in {"idle", "clean", "create", "granted", "undo", "done"}
  PROVE  /\ [start[s] EXCEPT !.step = step] \in StartType
         /\ [start[s] EXCEPT !.step = step].step = step
         /\ [start EXCEPT ![s].step = step] = [start EXCEPT ![s] = [start[s] EXCEPT !.step = step]]
<1>1. start[s] \in StartType
  BY DEF GrantTypes
<1> QED BY <1>1 DEF StartType

\* The request for a session that goes out.
LEMMA ProceedIs ==
  ASSUME NEW s \in Agents, NEW p \in PageType, NEW popup \in OrNone, NEW of \in Items \cup {None},
         Gra!Proceed(s, p, popup, of)
  PROVE  /\ page' \in PageType /\ page'.grant = p.grant /\ page'.controller = p.controller
         /\ \E r \in StartType : r.step = "create" /\ start' = [start EXCEPT ![s] = r]
<1>1. p.gen \in Nat /\ None \in OrNone /\ s \in OrNone
  BY DEF PageType, OrNone
<1>2. /\ [p EXCEPT !.popup = popup, !.pending = s] \in PageType
      /\ [p EXCEPT !.popup = popup, !.pending = s].grant = p.grant
      /\ [p EXCEPT !.popup = popup, !.pending = s].controller = p.controller
  BY <1>1 DEF PageType
<1>3. [step |-> "create", gen |-> p.gen, popup |-> popup, entry |-> of, grant |-> None] \in StartType
  BY <1>1 DEF StartType
<1> QED BY <1>2, <1>3 DEF Gra!Proceed

\* A closing, or the revocation it makes, keeps what is in hand.
LEMMA CloseKeeps ==
  ASSUME GrantsKept, NEW c \in 1..MaxCloses, NEW k \in CloseType, closing' = [closing EXCEPT ![c] = k],
         k.step = "revoke" => k.grant \in Agents,
         UNCHANGED start, page' \in PageType, window' \in OrNone,
         grants' \in [Agents -> {"none", "live", "revoked"}],
         page'.grant \in {None, page.grant},
         \A x \in Agents : grants'[x] = "live" =>
           \/ x \in unrevoked' \/ (page'.grant = x /\ page'.controller = x)
           \/ (k.step = "revoke" /\ k.grant = x) \/ (page'.grant = x /\ k.step = "wait")
           \/ /\ grants[x] = "live" /\ x \notin unrevoked
              /\ page.grant = x => /\ page'.grant = x /\ page'.controller = page.controller
                                   /\ closing[c].step # "wait"
              /\ closing[c].step = "revoke" => closing[c].grant # x
  PROVE  GrantsKept'
<1>1. /\ closing' \in [1..MaxCloses -> CloseType] /\ \A d \in 1..MaxCloses : closing'[d] = IF d = c THEN k ELSE closing[d]
  BY DEF GrantsKept, GrantTypes
<1>2. GrantTypes'
  BY <1>1 DEF GrantsKept, GrantTypes
<1>3. OneOpening' /\ PageGrant'
  BY DEF GrantsKept, OneOpening, PageGrant, Gra!Running
<1>4. ASSUME NEW x \in Agents, grants'[x] = "live" PROVE InHand(x)'
  <2>1. CASE \/ x \in unrevoked' \/ (page'.grant = x /\ page'.controller = x)
             \/ (k.step = "revoke" /\ k.grant = x) \/ (page'.grant = x /\ k.step = "wait")
    BY <1>1, <2>1 DEF InHand, RevokedBy, Waiting
  <2>2. CASE /\ grants[x] = "live" /\ x \notin unrevoked
             /\ page.grant = x => /\ page'.grant = x /\ page'.controller = page.controller
                                  /\ closing[c].step # "wait"
             /\ closing[c].step = "revoke" => closing[c].grant # x
    <3>1. InHand(x)
      BY <2>2 DEF GrantsKept, LiveInHand
    <3>2. CleanedBy(x)' = CleanedBy(x)
      BY DEF CleanedBy
    <3>3. RevokedBy(x) => RevokedBy(x)'
      BY <1>1, <2>2 DEF RevokedBy
    <3>4. page.grant = x /\ Waiting => Waiting'
      BY <1>1, <2>2 DEF Waiting
    <3> QED BY <2>2, <3>1, <3>2, <3>3, <3>4 DEF InHand
  <2> QED BY <1>4, <2>1, <2>2
<1> QED BY <1>2, <1>3, <1>4 DEF GrantsKept, LiveInHand

\* Nothing was opened.
LEMMA GrantsInit == Gra!Init => GrantsInv
<1>1. SUFFICES ASSUME Gra!Init PROVE GrantsKept
  BY DEF GrantsInv
<1>2. None \in OrNone /\ Gra!Idle \in StartType /\ Gra!Idle.step = "idle"
  BY DEF OrNone, Gra!Idle, StartType
<1>3. start \in [Agents -> StartType] /\ \A s \in Agents : start[s].step = "idle"
  <2>1. start = [s \in Agents |-> Gra!Idle]
    BY <1>1 DEF Gra!Init
  <2> QED BY <1>2, <2>1
<1>4. closing \in [1..MaxCloses -> CloseType] /\ \A c \in 1..MaxCloses : closing[c].step = "idle"
  BY <1>1, <1>2 DEF Gra!Init, Gra!Closes, CloseType
<1>5. page \in PageType
  BY <1>1, <1>2 DEF Gra!Init, PageType
<1>6. grants \in [Agents -> {"none", "live", "revoked"}] /\ \A s \in Agents : grants[s] = "none"
  BY <1>1 DEF Gra!Init
<1> QED BY <1>1, <1>2, <1>3, <1>4, <1>5, <1>6
  DEF Gra!Init, GrantsKept, GrantTypes, OneOpening, PageGrant, LiveInHand, Gra!Running

\* Popups of one name are one.
LEMMA WindowIs ==
  ASSUME GrantTypes, NEW popup \in OrNone
  PROVE  Gra!Popup(popup) \in OrNone /\ Gra!Shut(window, popup) \in OrNone
BY DEF GrantTypes, Gra!Popup, Gra!Shut, OrNone

\* startExternalPreview.
LEMMA BeginStep == ASSUME NEW s \in Agents, GrantsKept, Gra!Begin(s), ~overlapped' PROVE GrantsKept'
<1> DEFINE popup == IF window = None THEN s ELSE window
<1>1. /\ GrantTypes /\ page \in PageType /\ window \in OrNone /\ popup \in OrNone
      /\ page.selected \in Items /\ page.grant \in OrNone
  BY DEF GrantsKept, GrantTypes, PageType, OrNone
<1>2. /\ start[s].step = "idle" /\ window' = Gra!Popup(popup) /\ page.controller = None
      /\ \A t \in Agents : ~Gra!Running(t)
      /\ \/ page.grant = None /\ Gra!Proceed(s, Gra!Disposed(page), popup, page.selected)
         \/ /\ page.grant # None
            /\ page' = [Gra!Disposed(page) EXCEPT !.pending = s]
            /\ start' = [start EXCEPT ![s] = [step |-> "clean", gen |-> 0, popup |-> popup,
                                              entry |-> page.selected, grant |-> page.grant]]
      /\ UNCHANGED <<grants, closing, unrevoked>>
  BY DEF Gra!Begin
<1>3. window' \in OrNone
  BY <1>1, <1>2, WindowIs
<1> HIDE DEF popup
<1>4. /\ Gra!Disposed(page) \in PageType /\ Gra!Disposed(page).grant = page.grant
      /\ Gra!Disposed(page).controller = None
  BY <1>1, PageIs
<1>5. /\ page' \in PageType /\ page'.grant = page.grant /\ page'.controller = None
      /\ \E r \in StartType :
           /\ start' = [start EXCEPT ![s] = r]
           /\ \/ r.step = "create" /\ page.grant = None
              \/ r.step = "clean" /\ r.grant = page.grant /\ page.grant \in Agents
  <2>1. CASE page.grant = None /\ Gra!Proceed(s, Gra!Disposed(page), popup, page.selected)
    BY <1>1, <1>4, <2>1, ProceedIs
  <2>2. CASE /\ page.grant # None
             /\ page' = [Gra!Disposed(page) EXCEPT !.pending = s]
             /\ start' = [start EXCEPT ![s] = [step |-> "clean", gen |-> 0, popup |-> popup,
                                               entry |-> page.selected, grant |-> page.grant]]
    <3>1. [step |-> "clean", gen |-> 0, popup |-> popup, entry |-> page.selected, grant |-> page.grant]
             \in StartType
      BY <1>1 DEF StartType
    <3>2. ASSUME NEW p \in PageType
          PROVE  LET q == [p EXCEPT !.pending = s]
                 IN  q \in PageType /\ q.grant = p.grant /\ q.controller = p.controller
      BY DEF PageType, OrNone
    <3>3. page.grant \in Agents
      BY <1>1, <2>2 DEF OrNone
    <3> QED BY <1>4, <2>2, <3>1, <3>2, <3>3
  <2> QED BY <1>2, <2>1, <2>2
<1>6. PICK r \in StartType :
        /\ start' = [start EXCEPT ![s] = r]
        /\ \/ r.step = "create" /\ page.grant = None
           \/ r.step = "clean" /\ r.grant = page.grant /\ page.grant \in Agents
  BY <1>5
<1>7. /\ start' \in [Agents -> StartType]
      /\ \A t \in Agents : start'[t] = IF t = s THEN r ELSE start[t]
      /\ \A t \in Agents : start'[t].step = "clean" => start'[t].grant \in Agents
  BY <1>1, <1>6, StartMoves
<1>8. GrantTypes'
  BY <1>1, <1>2, <1>3, <1>5, <1>7 DEF GrantTypes
<1>9. ASSUME NEW t \in Agents, t # s PROVE start'[t].step \in {"idle", "done"}
  BY <1>2, <1>7, <1>9 DEF Gra!Running
<1>10. OneOpening' /\ PageGrant'
  BY <1>5, <1>6, <1>7, <1>9 DEF OneOpening, PageGrant, Gra!Running
<1>11. ASSUME NEW x \in Agents, grants'[x] = "live" PROVE InHand(x)'
  <2>1. InHand(x)
    BY <1>2, <1>11 DEF GrantsKept, LiveInHand
  <2>2. ~CleanedBy(x) /\ start[x].step \notin {"granted", "undo"} /\ page.controller # x
    BY <1>2, NoneApart DEF CleanedBy, Gra!Running
  <2>3. RevokedBy(x)' = RevokedBy(x) /\ Waiting' = Waiting
    BY <1>2 DEF RevokedBy, Waiting
  <2> QED BY <1>2, <1>5, <2>1, <2>2, <2>3 DEF InHand
<1> QED BY <1>8, <1>10, <1>11 DEF GrantsKept, LiveInHand

\* An opening goes on without a change of the references, but what is pending.
LEMMA StartStep ==
  ASSUME NEW s \in Agents, GrantsKept,
         Gra!ServerCreates(s) \/ Gra!CreateFails(s) \/ Gra!Connect(s) \/ Gra!GrantTooLate(s)
  PROVE  GrantsKept'
<1>1. /\ GrantTypes /\ page \in PageType /\ window \in OrNone /\ start[s] \in StartType
      /\ start[s].popup \in OrNone /\ s \in OrNone
      /\ start[s].step \in {"create", "granted"} /\ Gra!Running(s) /\ page.grant = None
      /\ grants \in [Agents -> {"none", "live", "revoked"}]
  BY DEF GrantsKept, GrantTypes, PageGrant, StartType, OrNone, Gra!Running, Gra!ServerCreates,
    Gra!CreateFails, Gra!Connect, Gra!GrantTooLate
<1>2. /\ UNCHANGED <<closing, unrevoked>>
      /\ \A x \in Agents : page.grant # x
  BY <1>1, NoneApart DEF Gra!ServerCreates, Gra!CreateFails, Gra!Connect, Gra!GrantTooLate
<1>3. CASE Gra!ServerCreates(s)
  <2>1. PICK r \in StartType : r.step = "granted" /\ start' = [start EXCEPT ![s] = r]
    BY <1>1, <1>3, StepIs DEF Gra!ServerCreates
  <2>2. grants' = [grants EXCEPT ![s] = "live"] /\ UNCHANGED <<page, window>>
    BY <1>3 DEF Gra!ServerCreates
  <2>3. \A x \in Agents : grants'[x] = "live" => x = s \/ grants[x] = "live"
    BY <1>1, <2>2
  <2>4. grants' \in [Agents -> {"none", "live", "revoked"}]
    BY <1>1, <2>2
  <2> QED BY <1>1, <1>2, <2>1, <2>2, <2>3, <2>4, StartKeeps
<1>4. CASE Gra!CreateFails(s)
  <2>1. PICK r \in StartType : r.step = "done" /\ start' = [start EXCEPT ![s] = r]
    BY <1>1, <1>4, StepIs DEF Gra!CreateFails, Gra!Ended
  <2>2. /\ page' = Gra!Released(page, s) /\ window' = Gra!Shut(window, start[s].popup) /\ UNCHANGED grants
        /\ start[s].step = "create"
    BY <1>4 DEF Gra!CreateFails
  <2>3. page' \in PageType /\ page'.grant = None
    BY <1>1, <2>2, PageIs
  <2>4. window' \in OrNone
    BY <1>1, <2>2, WindowIs
  <2> QED BY <1>1, <1>2, <2>1, <2>2, <2>3, <2>4, StartKeeps
<1>5. CASE Gra!Connect(s)
  <2>1. PICK r \in StartType : r.step = "done" /\ start' = [start EXCEPT ![s] = r]
    BY <1>1, <1>5, StepIs DEF Gra!Connect, Gra!Ended
  <2>2. /\ page' = [Gra!Released(page, s) EXCEPT !.grant = s, !.controller = s, !.popup = start[s].popup]
        /\ UNCHANGED <<grants, window>>
    BY <1>5 DEF Gra!Connect
  <2>3. Gra!Released(page, s) \in PageType
    BY <1>1, PageIs
  <2>4. page' \in PageType /\ page'.grant = s /\ page'.controller = s
    BY <1>1, <2>2, <2>3 DEF PageType
  <2> QED BY <1>1, <1>2, <2>1, <2>2, <2>4, StartKeeps
<1>6. CASE Gra!GrantTooLate(s)
  <2>1. PICK r \in StartType : r.step = "undo" /\ start' = [start EXCEPT ![s] = r]
    BY <1>1, <1>6, StepIs DEF Gra!GrantTooLate
  <2>2. /\ page' = [page EXCEPT !.grant = s] /\ window' = Gra!Shut(window, start[s].popup)
        /\ UNCHANGED grants
    BY <1>6 DEF Gra!GrantTooLate
  <2>3. page' \in PageType
    BY <1>1, <2>2 DEF PageType
  <2>4. window' \in OrNone
    BY <1>1, <2>2, WindowIs
  <2> QED BY <1>1, <1>2, <2>1, <2>2, <2>3, <2>4, StartKeeps
<1> QED BY <1>3, <1>4, <1>5, <1>6

\* An opening revokes: the grant before it, its own too late, or its own for another authority.
LEMMA UndoStep ==
  ASSUME NEW s \in Agents, GrantsKept, Gra!CleansFirst(s) \/ Gra!StartUndone(s) \/ Gra!GrantStale(s)
  PROVE  GrantsKept'
<1>1. /\ GrantTypes /\ page \in PageType /\ window \in OrNone /\ start[s] \in StartType
      /\ start[s].popup \in OrNone /\ s \in OrNone /\ start[s].entry \in Items \cup {None}
      /\ start[s].step \in {"clean", "granted", "undo"} /\ Gra!Running(s) /\ UNCHANGED closing
  BY DEF GrantsKept, GrantTypes, StartType, OrNone, Gra!Running, Gra!CleansFirst, Gra!StartUndone,
    Gra!GrantStale
<1>2. CASE Gra!CleansFirst(s)
  <2>1. start[s].step = "clean" /\ start[s].grant \in Agents /\ page.grant \in {None, start[s].grant}
    BY <1>2 DEF Gra!CleansFirst, GrantsKept, GrantTypes, PageGrant
  <2>2. PICK g \in Agents : g = start[s].grant
    BY <2>1
  <2>3. PICK ok \in BOOLEAN :
          /\ Gra!Revoked(g, ok)
          /\ IF ok THEN /\ Gra!Proceed(s, Gra!ForgetGrant(page, g), start[s].popup, start[s].entry)
                        /\ UNCHANGED window
             ELSE /\ start' = Gra!Ended(s) /\ page' = Gra!Released(page, s)
                  /\ window' = Gra!Shut(window, start[s].popup)
    BY <1>2, <2>2 DEF Gra!CleansFirst
  <2>4. /\ grants' \in [Agents -> {"none", "live", "revoked"}]
        /\ \A y \in Agents : grants'[y] = "live" =>
             y \in unrevoked' \/ (y # g /\ grants[y] = "live" /\ y \notin unrevoked)
    BY <1>1, <2>3, RevokedIs
  <2>5. /\ Gra!ForgetGrant(page, g) \in PageType /\ Gra!ForgetGrant(page, g).grant = None
    BY <1>1, <2>1, <2>2, PageIs DEF OrNone
  <2>6. CASE ok
    <3>1. /\ page' \in PageType /\ page'.grant = None /\ UNCHANGED window
          /\ \E r \in StartType : r.step = "create" /\ start' = [start EXCEPT ![s] = r]
      BY <1>1, <2>3, <2>5, <2>6, ProceedIs
    <3>2. PICK r \in StartType : r.step = "create" /\ start' = [start EXCEPT ![s] = r]
      BY <3>1
    <3>3. ASSUME NEW x \in Agents, grants'[x] = "live"
          PROVE  \/ x \in unrevoked' \/ (x = s /\ r.step \in {"granted", "undo"})
                 \/ (page'.grant = x /\ page'.controller = x)
                 \/ /\ x = s => start[s].step \notin {"granted", "undo"}
                    /\ grants[x] = "live" /\ x \notin unrevoked
                    /\ page.grant = x => page'.grant = x /\ page'.controller = page.controller
                    /\ start[s].step = "clean" => start[s].grant # x
      BY <2>1, <2>2, <2>4, <3>1, <3>3, NoneApart
    <3>4. r.step # "clean" /\ window' \in OrNone
      BY <1>1, <3>1, <3>2
    <3> QED BY <1>1, <2>4, <3>1, <3>2, <3>3, <3>4, StartKeeps
  <2>7. CASE ~ok
    <3>1. PICK r \in StartType : r.step = "done" /\ start' = [start EXCEPT ![s] = r]
      BY <1>1, <2>3, <2>7, StepIs DEF Gra!Ended
    <3>2. page' \in PageType /\ page'.grant = page.grant /\ page'.controller = page.controller
      BY <1>1, <2>3, <2>7, PageIs
    <3>3. window' \in OrNone
      BY <1>1, <2>3, <2>7, WindowIs
    <3> QED BY <1>1, <2>1, <2>2, <2>4, <3>1, <3>2, <3>3, NoneApart, StartKeeps
  <2> QED BY <2>6, <2>7
<1>3. CASE Gra!StartUndone(s)
  <2>1. PICK ok \in BOOLEAN :
          /\ Gra!Revoked(s, ok)
          /\ page' = Gra!Released(IF ok THEN Gra!ForgetGrant(page, s) ELSE page, s)
    BY <1>3 DEF Gra!StartUndone
  <2>2. /\ grants' \in [Agents -> {"none", "live", "revoked"}]
        /\ \A y \in Agents : grants'[y] = "live" =>
             y \in unrevoked' \/ (y # s /\ grants[y] = "live" /\ y \notin unrevoked)
    BY <1>1, <2>1, RevokedIs
  <2>3. PICK r \in StartType : r.step = "done" /\ start' = [start EXCEPT ![s] = r]
    BY <1>1, <1>3, StepIs DEF Gra!StartUndone, Gra!Ended
  <2>4. window' = window /\ start[s].step = "undo"
    BY <1>3 DEF Gra!StartUndone
  <2>5. PICK p \in PageType :
          /\ page' = Gra!Released(p, s) /\ p.controller = page.controller
          /\ page.grant # s => p.grant = page.grant
    BY <1>1, <2>1, PageIs
  <2>6. page' \in PageType /\ page'.controller = page.controller /\ (page.grant # s => page'.grant = page.grant)
    BY <1>1, <2>5, PageIs
  <2>7. ASSUME NEW x \in Agents, grants'[x] = "live"
        PROVE  \/ x \in unrevoked' \/ (x = s /\ r.step \in {"granted", "undo"})
               \/ (page'.grant = x /\ page'.controller = x)
               \/ /\ x = s => start[s].step \notin {"granted", "undo"}
                  /\ grants[x] = "live" /\ x \notin unrevoked
                  /\ page.grant = x => page'.grant = x /\ page'.controller = page.controller
                  /\ start[s].step = "clean" => start[s].grant # x
    BY <2>2, <2>4, <2>6, <2>7
  <2>8. r.step \notin {"clean", "create", "granted"} /\ window' \in OrNone
    BY <1>1, <2>3, <2>4
  <2> QED BY <1>1, <2>2, <2>3, <2>6, <2>7, <2>8, StartKeeps
<1>4. CASE Gra!GrantStale(s)
  <2>1. PICK ok \in BOOLEAN : Gra!Revoked(s, ok)
    BY <1>4 DEF Gra!GrantStale
  <2>2. /\ grants' \in [Agents -> {"none", "live", "revoked"}]
        /\ \A y \in Agents : grants'[y] = "live" =>
             y \in unrevoked' \/ (y # s /\ grants[y] = "live" /\ y \notin unrevoked)
    BY <1>1, <2>1, RevokedIs
  <2>3. PICK r \in StartType : r.step = "done" /\ start' = [start EXCEPT ![s] = r]
    BY <1>1, <1>4, StepIs DEF Gra!GrantStale, Gra!Ended
  <2>4. /\ page' = Gra!Released(page, s) /\ window' = Gra!Shut(window, start[s].popup)
        /\ start[s].step = "granted"
    BY <1>4 DEF Gra!GrantStale
  <2>5. page' \in PageType /\ page'.controller = page.controller /\ page'.grant = page.grant
    BY <1>1, <2>4, PageIs
  <2>6. window' \in OrNone
    BY <1>1, <2>4, WindowIs
  <2> QED BY <1>1, <2>2, <2>3, <2>4, <2>5, <2>6, StartKeeps
<1> QED BY <1>2, <1>3, <1>4

\* cleanupExternalPreview.
LEMMA CleanupStep ==
  ASSUME NEW c \in 1..MaxCloses, NEW p \in PageType, p.grant = page.grant, GrantsKept, Gra!Cleanup(c, p)
  PROVE  GrantsKept'
<1>1. /\ GrantTypes /\ window \in OrNone /\ None \in OrNone /\ p.grant \in OrNone /\ p.pending \in OrNone
      /\ grants \in [Agents -> {"none", "live", "revoked"}]
  BY DEF GrantsKept, GrantTypes, OrNone, PageType
<1>2. /\ closing[c].step = "idle" /\ page' = Gra!Disposed(p) /\ window' = Gra!Popup(window)
      /\ closing' = IF p.pending = None THEN Gra!Revoking(c, p.grant)
                    ELSE [closing EXCEPT ![c] = [step |-> "wait", on |-> p.pending, grant |-> None]]
      /\ UNCHANGED <<grants, start, unrevoked>>
  BY DEF Gra!Cleanup
<1>3. page' \in PageType /\ page'.grant = page.grant /\ window' \in OrNone
  BY <1>1, <1>2, PageIs, WindowIs
<1>4. PICK k \in CloseType :
        /\ closing' = [closing EXCEPT ![c] = k]
        /\ k.step = "revoke" => k.grant \in Agents
        /\ page.grant \in Agents => (k.step = "revoke" /\ k.grant = page.grant) \/ k.step = "wait"
  <2>1. CASE p.pending = None
    <3> DEFINE k == [step |-> IF p.grant = None THEN "done" ELSE "revoke", on |-> None, grant |-> p.grant]
    <3>1. k \in CloseType
      BY <1>1 DEF CloseType
    <3>2. k.step = "revoke" => k.grant \in Agents
      BY <1>1 DEF OrNone
    <3>3. page.grant \in Agents => k.step = "revoke" /\ k.grant = page.grant
      BY NoneApart
    <3>4. closing' = [closing EXCEPT ![c] = k]
      BY <1>2, <2>1 DEF Gra!Revoking
    <3> HIDE DEF k
    <3> QED BY <3>1, <3>2, <3>3, <3>4
  <2>2. CASE p.pending # None
    <3> DEFINE k == [step |-> "wait", on |-> p.pending, grant |-> None]
    <3>1. k \in CloseType /\ k.step = "wait"
      BY <1>1 DEF CloseType
    <3>2. closing' = [closing EXCEPT ![c] = k]
      BY <1>2, <2>2
    <3> HIDE DEF k
    <3> QED BY <3>1, <3>2
  <2> QED BY <2>1, <2>2
<1>5. ASSUME NEW x \in Agents, grants'[x] = "live"
      PROVE  \/ x \in unrevoked' \/ (page'.grant = x /\ page'.controller = x)
             \/ (k.step = "revoke" /\ k.grant = x) \/ (page'.grant = x /\ k.step = "wait")
             \/ /\ grants[x] = "live" /\ x \notin unrevoked
                /\ page.grant = x => /\ page'.grant = x /\ page'.controller = page.controller
                                     /\ closing[c].step # "wait"
                /\ closing[c].step = "revoke" => closing[c].grant # x
  BY <1>2, <1>3, <1>4, <1>5
<1>6. page'.grant \in {None, page.grant} /\ UNCHANGED start /\ grants' \in [Agents -> {"none", "live", "revoked"}]
  BY <1>1, <1>2, <1>3
<1> QED BY ZenonT(30), <1>3, <1>4, <1>5, <1>6, CloseKeeps

\* A closing goes on.
LEMMA CloseStep ==
  ASSUME NEW c \in 1..MaxCloses, GrantsKept, Gra!CloseWaited(c) \/ Gra!CloseRevokes(c)
  PROVE  GrantsKept'
<1>1. /\ GrantTypes /\ window \in OrNone /\ None \in OrNone /\ page \in PageType /\ page.grant \in OrNone
      /\ closing[c] \in CloseType /\ grants \in [Agents -> {"none", "live", "revoked"}]
  BY DEF GrantsKept, GrantTypes, OrNone, PageType
<1>2. CASE Gra!CloseWaited(c)
  <2> DEFINE k == [step |-> IF page.grant = None THEN "done" ELSE "revoke", on |-> None, grant |-> page.grant]
  <2>1. k \in CloseType
    BY <1>1 DEF CloseType
  <2>2. k.step = "revoke" => k.grant \in Agents
    BY <1>1 DEF OrNone
  <2>3. page.grant \in Agents => k.step = "revoke" /\ k.grant = page.grant
    BY NoneApart
  <2>4. /\ closing' = [closing EXCEPT ![c] = k] /\ closing[c].step = "wait"
        /\ UNCHANGED <<grants, page, window, start, unrevoked>>
    BY <1>2 DEF Gra!CloseWaited, Gra!Revoking
  <2>5. PICK j \in CloseType : j = k
    BY <2>1
  <2> HIDE DEF k
  <2> QED BY ZenonT(30), <1>1, <2>2, <2>3, <2>4, <2>5, CloseKeeps
<1>3. CASE Gra!CloseRevokes(c)
  <2>1. closing[c].step = "revoke" /\ closing[c].grant \in Agents
    BY <1>3 DEF Gra!CloseRevokes, GrantsKept, GrantTypes
  <2>2. PICK g \in Agents : g = closing[c].grant
    BY <2>1
  <2>3. PICK ok \in BOOLEAN : Gra!Revoked(g, ok) /\ page' = IF ok THEN Gra!ForgetGrant(page, g) ELSE page
    BY <1>3, <2>2 DEF Gra!CloseRevokes
  <2>4. /\ grants' \in [Agents -> {"none", "live", "revoked"}]
        /\ \A y \in Agents : grants'[y] = "live" =>
             y \in unrevoked' \/ (y # g /\ grants[y] = "live" /\ y \notin unrevoked)
    BY <1>1, <2>3, RevokedIs
  <2>5. /\ page' \in PageType /\ page'.controller = page.controller
        /\ page'.grant \in {None, page.grant} /\ (page.grant # g => page'.grant = page.grant)
    BY <1>1, <2>3, PageIs DEF OrNone
  <2>6. PICK k \in CloseType : k.step = "done" /\ closing' = [closing EXCEPT ![c] = k]
    <3>1. [closing[c] EXCEPT !.step = "done"] \in CloseType /\ [closing[c] EXCEPT !.step = "done"].step = "done"
      BY <1>1 DEF CloseType
    <3> QED BY <1>3, <3>1 DEF Gra!CloseRevokes
  <2>7. UNCHANGED <<window, start>>
    BY <1>3 DEF Gra!CloseRevokes
  <2>8. ASSUME NEW x \in Agents, grants'[x] = "live"
        PROVE  \/ x \in unrevoked' \/ (page'.grant = x /\ page'.controller = x)
               \/ (k.step = "revoke" /\ k.grant = x) \/ (page'.grant = x /\ k.step = "wait")
               \/ /\ grants[x] = "live" /\ x \notin unrevoked
                  /\ page.grant = x => /\ page'.grant = x /\ page'.controller = page.controller
                                       /\ closing[c].step # "wait"
                  /\ closing[c].step = "revoke" => closing[c].grant # x
    BY <2>1, <2>2, <2>4, <2>5, <2>8
  <2>9. UNCHANGED start /\ window' \in OrNone /\ (k.step = "revoke" => k.grant \in Agents)
    BY <1>1, <2>6, <2>7
  <2> QED BY <2>4, <2>5, <2>6, <2>8, <2>9, CloseKeeps
<1> QED BY <1>2, <1>3

\* Every step of the page and of the server keeps it.
LEMMA GrantsStep == GrantsInv /\ Gra!Next => GrantsInv'
<1>1. SUFFICES ASSUME GrantsInv, Gra!Next, ~overlapped' PROVE GrantsKept'
  BY DEF GrantsInv
<1>2. ~overlapped
  BY <1>1 DEF Gra!Next, Gra!Begin, Gra!CleansFirst, Gra!ServerCreates, Gra!CreateFails, Gra!Connect,
    Gra!GrantTooLate, Gra!StartUndone, Gra!GrantStale, Gra!Close, Gra!Select, Gra!Cleanup,
    Gra!CloseWaited, Gra!CloseRevokes, Gra!UserClosesPopup
<1>3. GrantsKept /\ page \in PageType
  BY <1>1, <1>2 DEF GrantsInv, GrantsKept, GrantTypes
<1>4. ASSUME NEW s \in Agents, Gra!Begin(s) PROVE GrantsKept'
  BY <1>1, <1>3, <1>4, BeginStep
<1>5. ASSUME NEW s \in Agents,
             \/ Gra!ServerCreates(s) \/ Gra!CreateFails(s) \/ Gra!Connect(s) \/ Gra!GrantTooLate(s)
      PROVE  GrantsKept'
  BY <1>3, <1>5, StartStep
<1>6. ASSUME NEW s \in Agents, Gra!CleansFirst(s) \/ Gra!StartUndone(s) \/ Gra!GrantStale(s)
      PROVE  GrantsKept'
  BY <1>3, <1>6, UndoStep
<1>7. ASSUME NEW c \in 1..MaxCloses, Gra!Close(c) PROVE GrantsKept'
  BY <1>3, <1>7, CleanupStep DEF Gra!Close
<1>8. ASSUME NEW c \in 1..MaxCloses, NEW e \in Items, Gra!Select(e, c) PROVE GrantsKept'
  <2>1. LET p == [page EXCEPT !.selected = e] IN p \in PageType /\ p.grant = page.grant
    BY <1>3 DEF PageType
  <2> QED BY <1>3, <1>8, <2>1, CleanupStep DEF Gra!Select
<1>9. ASSUME NEW c \in 1..MaxCloses, Gra!CloseWaited(c) \/ Gra!CloseRevokes(c) PROVE GrantsKept'
  BY <1>3, <1>9, CloseStep
<1>10. CASE Gra!UserClosesPopup
  BY <1>3, <1>10 DEF Gra!UserClosesPopup, GrantsKept, GrantTypes, OneOpening, PageGrant, LiveInHand, InHand,
    CleanedBy, RevokedBy, Waiting, Gra!Running, OrNone
<1> QED BY <1>1, <1>4, <1>5, <1>6, <1>7, <1>8, <1>9, <1>10 DEF Gra!Next, Gra!Closes

\* Once nothing is under way, only the page and what could not be revoked have sessions.
LEMMA GrantsSound == GrantsInv => Gra!NoSessionLeftOpen
<1>1. SUFFICES ASSUME GrantsKept, Gra!Settled, NEW s \in Agents, grants[s] = "live"
               PROVE  s \in unrevoked \/ (page.controller = s /\ page.grant = s)
  BY DEF GrantsInv, Gra!NoSessionLeftOpen, Gra!Accounted
<1>2. InHand(s) /\ ~Waiting /\ ~RevokedBy(s) /\ ~CleanedBy(s) /\ start[s].step \notin {"granted", "undo"}
  BY <1>1 DEF GrantsKept, LiveInHand, Gra!Settled, Gra!Running, Gra!Closes, Waiting, RevokedBy, CleanedBy
<1> QED BY <1>2 DEF InHand

Sea == INSTANCE SearchIndex

-----------------------------------------------------------------------------
(* The search index (SearchIndex): a view that the index does not hold as it is stored is one of a  *)
(* job to be done, or the worker has it before it.                                                  *)

Steps     == {"idle", "lexical", "upsert", "semantic", "upsert semantic", "complete"}
ViewLists == {<<>>, <<"draft">>, <<"published">>, <<"draft", "published">>}

Covers(job, v) ==
  IF v = "draft" THEN job.type # "rebuild.published" ELSE job.type \in {"published", "rebuild.published"}

IndexTypes ==
  /\ entry = [draft |-> entry.draft, published |-> entry.published, erased |-> entry.erased]
  /\ entry.draft \in Nat /\ entry.published \in Nat /\ entry.published <= entry.draft
  /\ indexer = [pc |-> indexer.pc, job |-> indexer.job, views |-> indexer.views, rev |-> indexer.rev]
  /\ indexer.pc \in Steps /\ indexer.views \in ViewLists /\ indexer.rev \in Nat
  /\ index \in [lexical : [Sea!Views -> Nat], semantic : [Sea!Views -> Nat]]

\* The views that the worker has still to do are its job's.
Doing ==
  /\ indexer.pc \in {"upsert", "upsert semantic"} => indexer.views # <<>>
  /\ indexer.pc = "complete" => ~semantic
  /\ \A i \in DOMAIN indexer.views : Covers(indexer.job, indexer.views[i])

\* What was read of an entry that still exists is no newer than what is stored.
NotNewer ==
  ~entry.erased =>
    /\ \A v \in Sea!Views : index.lexical[v] <= entry[v] /\ index.semantic[v] <= entry[v]
    /\ indexer.pc \in {"upsert", "upsert semantic"} => indexer.rev <= entry[Head(indexer.views)]

\* A view that the worker will do; what it has read of it is as it is stored.
Before(v, turns) == indexer.pc \in turns /\ \E i \in DOMAIN indexer.views : indexer.views[i] = v

Current(v) ==
  indexer.pc \in {"upsert", "upsert semantic"} /\ Head(indexer.views) = v => indexer.rev = entry[v]

Awaited(v) == \E job \in open : Covers(job, v)

Reaches(v) ==
  ~entry.erased /\ ~Awaited(v) =>
    /\ Current(v)
    /\ index.lexical[v] = entry[v] \/ Before(v, {"lexical", "upsert"})
    /\ semantic =>
         \/ index.semantic[v] = entry[v] \/ Before(v, {"semantic", "upsert semantic"})
         \/ indexer.pc \in {"lexical", "upsert"} /\ Covers(indexer.job, v)

IndexInv == IndexTypes /\ Doing /\ NotNewer /\ \A v \in Sea!Views : Reaches(v)

\* Nothing is stored at first, and nothing indexed.
LEMMA IndexInit == Sea!Init => IndexInv
BY DEF Sea!Init, Sea!Resting, Sea!NoJob, Sea!Views, IndexInv, IndexTypes, Doing, NotNewer, Reaches, Current, Steps, ViewLists

\* The lists of views.
LEMMA ViewsDone ==
  ASSUME NEW views \in ViewLists
  PROVE  /\ \A i \in DOMAIN views : views[i] \in Sea!Views
         /\ views # <<>> =>
              /\ Head(views) \in Sea!Views /\ Tail(views) \in ViewLists
              /\ \A v : (\E i \in DOMAIN views : views[i] = v) <=>
                          v = Head(views) \/ \E i \in DOMAIN Tail(views) : Tail(views)[i] = v
              /\ \A i \in DOMAIN Tail(views) : Tail(views)[i] # Head(views)
<1>1. CASE views = <<>>
  BY <1>1
<1>2. CASE views = <<"draft">>
  BY <1>2 DEF Sea!Views, ViewLists
<1>3. CASE views = <<"published">>
  BY <1>3 DEF Sea!Views, ViewLists
<1>4. CASE views = <<"draft", "published">>
  <2>1. Tail(views) = <<"published">> /\ Head(views) = "draft"
    BY <1>4
  <2>2. DOMAIN views = {1, 2} /\ DOMAIN Tail(views) = {1} /\ views[1] = "draft" /\ views[2] = "published" /\ Tail(views)[1] = "published"
    BY <1>4, <2>1
  <2> QED BY <1>4, <2>1, <2>2 DEF Sea!Views, ViewLists
<1> QED BY <1>1, <1>2, <1>3, <1>4 DEF ViewLists

\* The views of a job.
LEMMA ViewsOfJob ==
  ASSUME NEW job
  PROVE  /\ Sea!ViewsOf(job) \in ViewLists
         /\ \A v \in Sea!Views : Covers(job, v) <=> \E i \in DOMAIN Sea!ViewsOf(job) : Sea!ViewsOf(job)[i] = v
<1>1. CASE job.type = "published"
  <2>1. Sea!ViewsOf(job) = <<"draft", "published">>
    BY <1>1 DEF Sea!ViewsOf
  <2> QED BY <1>1, <2>1 DEF Covers, Sea!Views, ViewLists
<1>2. CASE job.type = "rebuild.published"
  <2>1. Sea!ViewsOf(job) = <<"published">>
    BY <1>2 DEF Sea!ViewsOf
  <2> QED BY <1>2, <2>1 DEF Covers, Sea!Views, ViewLists
<1>3. CASE job.type \notin {"published", "rebuild.published"}
  <2>1. Sea!ViewsOf(job) = <<"draft">>
    BY <1>3 DEF Sea!ViewsOf
  <2> QED BY <1>3, <2>1 DEF Covers, Sea!Views, ViewLists
<1> QED BY <1>1, <1>2, <1>3

\* A write of the entry asks for each view that it changes.
LEMMA EntryStep ==
  ASSUME IndexInv, Sea!SaveDraft \/ Sea!Publish
  PROVE  IndexInv'
<1>1. /\ indexer' = indexer /\ index' = index /\ semantic' = semantic
      /\ ~entry.erased
      /\ \/ /\ entry' = [entry EXCEPT !.draft = @ + 1]
            /\ \E job \in open' : Covers(job, "draft")
         \/ /\ entry' = [entry EXCEPT !.published = entry.draft]
            /\ \E job \in open' : Covers(job, "published") /\ Covers(job, "draft")
      /\ open \subseteq open'
  <2>1. CASE Sea!SaveDraft
    <3>1. /\ [type |-> "draft.updated", rev |-> entry.draft + 1] \in open'
          /\ Covers([type |-> "draft.updated", rev |-> entry.draft + 1], "draft")
      BY <2>1 DEF Sea!SaveDraft, Covers
    <3> QED BY <2>1, <3>1 DEF Sea!SaveDraft
  <2>2. CASE Sea!Publish
    <3>1. /\ [type |-> "published", rev |-> entry.draft] \in open'
          /\ Covers([type |-> "published", rev |-> entry.draft], "draft")
          /\ Covers([type |-> "published", rev |-> entry.draft], "published")
      BY <2>2 DEF Sea!Publish, Covers
    <3> QED BY <2>2, <3>1 DEF Sea!Publish
  <2> QED BY <2>1, <2>2
<1>2. /\ ~entry'.erased
      /\ entry' = [draft |-> entry'.draft, published |-> entry'.published, erased |-> entry'.erased]
      /\ entry'.draft \in Nat /\ entry'.published \in Nat /\ entry'.published <= entry'.draft
      /\ \A v \in Sea!Views : entry[v] \in Nat /\ entry'[v] \in Nat /\ entry[v] <= entry'[v]
      /\ \A v \in Sea!Views : entry'[v] = entry[v] \/ Awaited(v)'
  BY <1>1 DEF IndexInv, IndexTypes, Sea!Views, Awaited
<1>3. IndexTypes' /\ Doing'
  BY <1>1, <1>2 DEF IndexInv, IndexTypes, Doing
<1>4. NotNewer'
  <2>1. indexer.views # <<>> => Head(indexer.views) \in Sea!Views
    BY ViewsDone DEF IndexInv, IndexTypes
  <2>2. /\ \A v \in Sea!Views : index.lexical[v] \in Nat /\ index.semantic[v] \in Nat
        /\ indexer.rev \in Nat
    BY DEF IndexInv, IndexTypes
  <2>3. NotNewer /\ Doing
    BY DEF IndexInv
  <2>4. ASSUME NEW v \in Sea!Views PROVE index'.lexical[v] <= entry'[v] /\ index'.semantic[v] <= entry'[v]
    <3>1. index.lexical[v] <= entry[v] /\ index.semantic[v] <= entry[v]
      BY <1>1, <2>3 DEF NotNewer
    <3>2. entry[v] <= entry'[v] /\ entry[v] \in Nat /\ entry'[v] \in Nat
      BY <1>2
    <3> QED BY <1>1, <2>2, <3>1, <3>2
  <2>5. ASSUME indexer.pc \in {"upsert", "upsert semantic"} PROVE indexer.rev <= entry'[Head(indexer.views)]
    <3>1. Head(indexer.views) \in Sea!Views /\ indexer.rev <= entry[Head(indexer.views)]
      BY <1>1, <2>1, <2>3, <2>5 DEF NotNewer, Doing
    <3> QED BY <1>2, <2>2, <3>1
  <2> QED BY <1>1, <2>4, <2>5 DEF NotNewer
<1>5. ASSUME NEW v \in Sea!Views PROVE Reaches(v)'
  <2>1. CASE Awaited(v)'
    BY <2>1 DEF Reaches
  <2>2. CASE entry'[v] = entry[v] /\ ~Awaited(v)'
    <3>1. ~Awaited(v) /\ Reaches(v)
      BY <1>1, <2>2 DEF Awaited, IndexInv
    <3> QED BY <1>1, <2>2, <3>1 DEF Reaches, Current, Before
  <2> QED BY <1>2, <2>1, <2>2
<1> QED BY <1>3, <1>4, <1>5 DEF IndexInv

\* A view that is to be rebuilt is one more job; of an entry that is gone nothing is claimed.
LEMMA AskedStep ==
  ASSUME IndexInv, Sea!Erase \/ \E v \in Sea!Views : Sea!RequestRebuild(v)
  PROVE  IndexInv'
<1>1. CASE Sea!Erase
  <2>1. /\ UNCHANGED <<open, indexer, index, semantic>>
        /\ entry' = [draft |-> 0, published |-> 0, erased |-> TRUE]
    BY <1>1 DEF Sea!Erase
  <2>2. NotNewer' /\ \A v \in Sea!Views : Reaches(v)'
    BY <2>1 DEF NotNewer, Reaches
  <2>3. IndexTypes'
    BY <2>1 DEF IndexInv, IndexTypes
  <2> QED BY <2>1, <2>2, <2>3 DEF IndexInv, Doing
<1>2. CASE \E v \in Sea!Views : Sea!RequestRebuild(v)
  <2>1. UNCHANGED <<entry, indexer, index, semantic>> /\ open \subseteq open'
    BY <1>2 DEF Sea!RequestRebuild
  <2>2. ASSUME NEW v \in Sea!Views PROVE Reaches(v)'
    BY <2>1, <2>2 DEF IndexInv, Reaches, Current, Before, Awaited
  <2> QED BY <2>1, <2>2 DEF IndexInv, IndexTypes, Doing, NotNewer
<1> QED BY <1>1, <1>2

\* A worker at rest has nothing before it.
LEMMA RestingKeeps ==
  ASSUME IndexInv, UNCHANGED <<entry, index, semantic>>, indexer' = Sea!Resting
  PROVE  IndexTypes' /\ Doing' /\ NotNewer'
<1>1. /\ indexer' = [pc |-> "idle", job |-> Sea!NoJob, views |-> <<>>, rev |-> 0]
      /\ indexer'.pc = "idle" /\ indexer'.views = <<>> /\ indexer'.rev = 0
  BY DEF Sea!Resting
<1>2. IndexTypes'
  <2>1. "idle" \in Steps /\ <<>> \in ViewLists
    BY DEF Steps, ViewLists
  <2>2. IndexTypes
    BY DEF IndexInv
  <2> QED BY <1>1, <2>1, <2>2 DEF IndexTypes
<1>3. Doing'
  <2>1. \A i \in DOMAIN <<>> : FALSE
    OBVIOUS
  <2> QED BY <1>1, <2>1 DEF Doing
<1>4. NotNewer'
  <2>1. NotNewer /\ indexer'.pc \notin {"upsert", "upsert semantic"}
    BY <1>1 DEF IndexInv
  <2> QED BY <2>1 DEF NotNewer
<1> QED BY <1>2, <1>3, <1>4

\* A job that is claimed has its views before it; one that failed is to be done again.
LEMMA JobStep ==
  ASSUME IndexInv, Sea!FailJob \/ \E job \in Sea!Jobs : Sea!Claim(job)
  PROVE  IndexInv'
<1>1. CASE Sea!FailJob
  <2>1. /\ UNCHANGED <<entry, index, semantic>> /\ open' = open \cup {indexer.job}
        /\ indexer' = Sea!Resting
    BY <1>1 DEF Sea!FailJob, Sea!Work
  <2>2. ASSUME NEW v \in Sea!Views PROVE Reaches(v)'
    <3>1. /\ Awaited(v) => Awaited(v)'
          /\ Covers(indexer.job, v) => Awaited(v)'
      BY <2>1 DEF Awaited
    <3>2. Reaches(v) /\ Doing
      BY DEF IndexInv
    <3>3. (\E i \in DOMAIN indexer.views : indexer.views[i] = v) => Covers(indexer.job, v)
      BY <3>2 DEF Doing
    <3>4. indexer'.pc = "idle"
      BY <2>1 DEF Sea!Resting
    <3> QED BY <2>1, <3>1, <3>2, <3>3, <3>4 DEF Reaches, Current, Before
  <2> QED BY <2>1, <2>2, RestingKeeps DEF IndexInv
<1>2. ASSUME NEW job \in Sea!Jobs, Sea!Claim(job) PROVE IndexInv'
  <2>1. /\ UNCHANGED <<entry, index, semantic>> /\ open' = open \ {job} /\ indexer.pc = "idle"
        /\ indexer' = [pc |-> "lexical", job |-> job, views |-> Sea!ViewsOf(job), rev |-> 0]
    BY <1>2 DEF Sea!Claim, Sea!Work, Sea!Resting
  <2>2. ASSUME NEW v \in Sea!Views PROVE Reaches(v)'
    <3>1. Awaited(v) => Awaited(v)' \/ Covers(job, v)
      BY <2>1 DEF Awaited
    <3>2. Covers(job, v) => Before(v, {"lexical", "upsert"})' /\ Covers(indexer'.job, v)
      BY <2>1, ViewsOfJob DEF Before
    <3>3. Reaches(v)
      BY DEF IndexInv
    <3> QED BY <2>1, <3>1, <3>2, <3>3 DEF Reaches, Current, Before
  <2>3. Sea!ViewsOf(job) \in ViewLists /\ \A i \in DOMAIN Sea!ViewsOf(job) : Covers(job, Sea!ViewsOf(job)[i])
    BY ViewsOfJob, ViewsDone
  <2> QED BY <2>1, <2>2, <2>3 DEF IndexInv, IndexTypes, Doing, NotNewer, Steps
<1> QED BY <1>1, <1>2

\* An entry is read as it is stored.
LEMMA ReadStep ==
  ASSUME IndexInv, Sea!ReadEntry
  PROVE  IndexInv'
<1> DEFINE v0 == Head(indexer.views)
<1>1. /\ UNCHANGED <<entry, open, index, semantic>>
      /\ indexer.pc \in {"lexical", "semantic"} /\ indexer.views # <<>>
      /\ indexer' = [pc |-> IF indexer.pc = "lexical" THEN "upsert" ELSE "upsert semantic", job |-> indexer.job,
                     views |-> indexer.views, rev |-> entry[v0]]
  BY DEF Sea!ReadEntry, Sea!Work, Sea!Reload, Sea!Stored, IndexInv, IndexTypes
<1>2. v0 \in Sea!Views /\ entry[v0] \in Nat
  BY <1>1, ViewsDone DEF IndexInv, IndexTypes, Sea!Views
<1>3. ASSUME NEW v \in Sea!Views PROVE Reaches(v)'
  BY <1>1, <1>3 DEF IndexInv, Reaches, Current, Before, Awaited
<1>4. IndexTypes'
  BY <1>1, <1>2 DEF IndexInv, IndexTypes, Steps
<1>5. Doing'
  BY <1>1 DEF IndexInv, Doing
<1>6. NotNewer'
  <2>1. NotNewer
    BY DEF IndexInv
  <2>2. indexer'.rev = entry[v0] /\ indexer'.views = indexer.views
    BY <1>1
  <2>3. entry[v0] <= entry[v0]
    BY <1>2
  <2> QED BY <1>1, <2>1, <2>2, <2>3 DEF NotNewer
<1> QED BY <1>3, <1>4, <1>5, <1>6 DEF IndexInv

\* What was read is indexed, unless there was nothing to read.
LEMMA LexicalStep ==
  ASSUME IndexInv, Sea!Upsert
  PROVE  IndexInv'
<1> DEFINE v0 == Head(indexer.views)
<1>1. /\ UNCHANGED <<entry, open, semantic>> /\ indexer.pc = "upsert"
      /\ index' = IF indexer.rev = 0 /\ ~Sea!IsRebuild(indexer.job) THEN index
                  ELSE [index EXCEPT !.lexical[v0] = indexer.rev]
      /\ indexer' = [pc |-> "lexical", job |-> indexer.job, views |-> Tail(indexer.views), rev |-> 0]
  BY DEF Sea!Upsert, Sea!Work, IndexInv, IndexTypes
<1>2. /\ v0 \in Sea!Views /\ Tail(indexer.views) \in ViewLists /\ indexer.rev \in Nat
      /\ \A v : (\E i \in DOMAIN indexer.views : indexer.views[i] = v) <=>
                  v = v0 \/ \E i \in DOMAIN Tail(indexer.views) : Tail(indexer.views)[i] = v
  BY <1>1, ViewsDone DEF IndexInv, IndexTypes, Doing
<1>3. /\ index' \in [lexical : [Sea!Views -> Nat], semantic : [Sea!Views -> Nat]]
      /\ index'.semantic = index.semantic
      /\ \A v \in Sea!Views \ {v0} : index'.lexical[v] = index.lexical[v]
      /\ index'.lexical[v0] = IF indexer.rev = 0 /\ ~Sea!IsRebuild(indexer.job) THEN index.lexical[v0] ELSE indexer.rev
  BY <1>1, <1>2 DEF IndexInv, IndexTypes
<1>4. ~entry.erased =>
        /\ index'.lexical[v0] <= entry[v0]
        /\ indexer.rev = entry[v0] => index'.lexical[v0] = entry[v0]
  BY <1>1, <1>2, <1>3 DEF IndexInv, IndexTypes, NotNewer
<1>5. ASSUME NEW v \in Sea!Views PROVE Reaches(v)'
  <2>1. Reaches(v)
    BY DEF IndexInv
  <2>2. CASE v = v0
    <3>1. Current(v) => indexer.rev = entry[v0]
      BY <1>1, <2>2 DEF Current
    <3>2. Before(v, {"semantic", "upsert semantic"})' = Before(v, {"semantic", "upsert semantic"})
          /\ Awaited(v)' = Awaited(v) /\ Current(v)'
      BY <1>1 DEF Before, Awaited, Current
    <3> QED BY <1>1, <1>3, <1>4, <2>1, <2>2, <3>1, <3>2 DEF Reaches
  <2>3. CASE v # v0
    BY <1>1, <1>2, <1>3, <2>1, <2>3 DEF Reaches, Current, Before, Awaited
  <2> QED BY <2>2, <2>3
<1>6. NotNewer'
  BY <1>1, <1>3, <1>4 DEF IndexInv, NotNewer
<1>7. Doing'
  <2>1. \A i \in DOMAIN Tail(indexer.views) : Covers(indexer.job, Tail(indexer.views)[i])
    BY <1>2 DEF IndexInv, Doing
  <2> QED BY <1>1, <2>1 DEF Doing
<1> QED BY <1>1, <1>2, <1>3, <1>5, <1>6, <1>7 DEF IndexInv, IndexTypes, Steps

\* The semantic index has its turn after the lexical one, if it is enabled.
LEMMA TurnStep ==
  ASSUME IndexInv, Sea!TurnToSemantic
  PROVE  IndexInv'
<1>1. /\ UNCHANGED <<entry, open, index, semantic>> /\ indexer.pc = "lexical" /\ indexer.views = <<>>
      /\ indexer' = [pc |-> IF semantic THEN "semantic" ELSE "complete", job |-> indexer.job,
                     views |-> Sea!ViewsOf(indexer.job), rev |-> indexer.rev]
  BY DEF Sea!TurnToSemantic, Sea!Work, IndexInv, IndexTypes
<1>2. /\ Sea!ViewsOf(indexer.job) \in ViewLists
      /\ \A i \in DOMAIN Sea!ViewsOf(indexer.job) : Covers(indexer.job, Sea!ViewsOf(indexer.job)[i])
  BY ViewsOfJob, ViewsDone
<1>3. ASSUME NEW v \in Sea!Views PROVE Reaches(v)'
  <2>1. Reaches(v)
    BY DEF IndexInv
  <2>2. Covers(indexer.job, v) => \E i \in DOMAIN Sea!ViewsOf(indexer.job) : Sea!ViewsOf(indexer.job)[i] = v
    BY ViewsOfJob
  <2> QED BY <1>1, <2>1, <2>2 DEF Reaches, Current, Before, Awaited
<1> QED BY <1>1, <1>2, <1>3 DEF IndexInv, IndexTypes, Doing, NotNewer, Steps

\* The semantic index holds what was read.
LEMMA UpsertSemanticStep ==
  ASSUME IndexInv, Sea!UpsertSemantic
  PROVE  IndexInv'
<1> DEFINE v0 == Head(indexer.views)
<1>1. /\ UNCHANGED <<entry, open, semantic>> /\ indexer.pc = "upsert semantic"
      /\ index' = [index EXCEPT !.semantic[v0] = indexer.rev]
      /\ indexer' = [pc |-> "semantic", job |-> indexer.job, views |-> Tail(indexer.views), rev |-> 0]
  BY DEF Sea!UpsertSemantic, Sea!Work, IndexInv, IndexTypes
<1>2. /\ v0 \in Sea!Views /\ Tail(indexer.views) \in ViewLists /\ indexer.rev \in Nat
      /\ \A v : (\E i \in DOMAIN indexer.views : indexer.views[i] = v) <=>
                  v = v0 \/ \E i \in DOMAIN Tail(indexer.views) : Tail(indexer.views)[i] = v
  BY <1>1, ViewsDone DEF IndexInv, IndexTypes, Doing
<1>3. /\ index' \in [lexical : [Sea!Views -> Nat], semantic : [Sea!Views -> Nat]]
      /\ index'.lexical = index.lexical
      /\ \A v \in Sea!Views \ {v0} : index'.semantic[v] = index.semantic[v]
      /\ index'.semantic[v0] = indexer.rev
  BY <1>1, <1>2 DEF IndexInv, IndexTypes
<1>4. ~entry.erased => index'.semantic[v0] <= entry[v0]
  BY <1>1, <1>3 DEF IndexInv, NotNewer
<1>5. ASSUME NEW v \in Sea!Views PROVE Reaches(v)'
  <2>1. Reaches(v)
    BY DEF IndexInv
  <2>2. CASE v = v0
    <3>1. Current(v) => indexer.rev = entry[v0]
      BY <1>1, <2>2 DEF Current
    <3>2. ~Before(v, {"lexical", "upsert"}) /\ Awaited(v)' = Awaited(v) /\ Current(v)'
      BY <1>1 DEF Before, Awaited, Current
    <3> QED BY <1>1, <1>3, <2>1, <2>2, <3>1, <3>2 DEF Reaches
  <2>3. CASE v # v0
    BY <1>1, <1>2, <1>3, <2>1, <2>3 DEF Reaches, Current, Before, Awaited
  <2> QED BY <2>2, <2>3
<1>6. NotNewer'
  BY <1>1, <1>3, <1>4 DEF IndexInv, NotNewer
<1>7. Doing'
  <2>1. \A i \in DOMAIN Tail(indexer.views) : Covers(indexer.job, Tail(indexer.views)[i])
    BY <1>2 DEF IndexInv, Doing
  <2> QED BY <1>1, <2>1 DEF Doing
<1> QED BY <1>1, <1>2, <1>3, <1>5, <1>6, <1>7 DEF IndexInv, IndexTypes, Steps

\* A job that is complete has nothing before it.
LEMMA CompleteStep ==
  ASSUME IndexInv, Sea!CompleteJob
  PROVE  IndexInv'
<1>1. /\ UNCHANGED <<entry, open, index, semantic>> /\ indexer' = Sea!Resting
      /\ indexer.pc = "complete" \/ (indexer.pc = "semantic" /\ indexer.views = <<>>)
  BY DEF Sea!CompleteJob, Sea!Work
<1>2. ASSUME NEW v \in Sea!Views PROVE Reaches(v)'
  <2>1. /\ Reaches(v)
        /\ indexer.pc = "complete" => ~semantic
    BY DEF IndexInv, Doing
  <2>2. Awaited(v)' = Awaited(v) /\ ~Before(v, {"lexical", "upsert"})
    BY <1>1 DEF Awaited, Before
  <2>3. semantic => ~Before(v, {"semantic", "upsert semantic"})
    <3>1. \A i \in DOMAIN <<>> : FALSE
      OBVIOUS
    <3> QED BY <1>1, <2>1, <3>1 DEF Before
  <2>4. indexer'.pc = "idle"
    BY <1>1 DEF Sea!Resting
  <2> QED BY <1>1, <2>1, <2>2, <2>3, <2>4 DEF Reaches, Current
<1> QED BY <1>1, <1>2, RestingKeeps DEF IndexInv

\* No step leaves a view behind.
LEMMA IndexStep == IndexInv /\ Sea!Next => IndexInv'
BY EntryStep, AskedStep, JobStep, ReadStep, LexicalStep, TurnStep, UpsertSemanticStep, CompleteStep DEF Sea!Next

\* An index with no job to be done holds what is stored.
LEMMA IndexFresh == IndexInv => Sea!ReadyMeansFresh
<1> SUFFICES ASSUME IndexInv, Sea!Ready, ~entry.erased, NEW v \in Sea!Views
             PROVE  index.lexical[v] = entry[v] /\ (semantic => index.semantic[v] = entry[v])
  BY DEF Sea!ReadyMeansFresh, Sea!SemanticStale, Sea!Stored
<1> QED BY DEF Sea!Ready, IndexInv, Reaches, Awaited, Before

\* An index that stands still keeps what holds of it.
LEMMA IndexStill == ASSUME IndexInv, UNCHANGED search PROVE IndexInv'
BY DEF search, IndexInv, IndexTypes, Doing, NotNewer, Reaches, Current, Before, Awaited

Rec == INSTANCE Recovery WITH Commands <- Agents, Databases <- {"sqlite", "postgresql"},
         Overlap <- FALSE, Nothing <- None

-----------------------------------------------------------------------------
(* Backup and restore (Recovery), of commands that do not overlap: from its beginning on a backup   *)
(* finds the two paths as it left them itself, and from its verification on a restore finds them   *)
(* as it verified them.                                                                            *)

FileType == [content : Nat, whole : BOOLEAN, by : Agents]

FilesTyped ==
  /\ database \in {"sqlite", "postgresql"} /\ live \in Nat
  /\ archive \in FileType \cup {None} /\ target \in FileType \cup {None}
  /\ running = [c \in Agents |-> running[c]]
  /\ \A c \in Agents : /\ running[c] = [pc |-> running[c].pc, seen |-> running[c].seen]
                       /\ running[c].pc \in {"idle"} \cup Rec!BackupSteps \cup Rec!RestoreSteps

\* One backup and one restore at a time.
OneOf(steps) == \A c, d \in Agents : running[c].pc \in steps /\ running[d].pc \in steps => c = d

\* A manifest that can be read is about the archive, which is whole.
Vouches(file, about) ==
  about \notin {None, Rec!Torn} => file # None /\ file.whole /\ about = Rec!Value(file)

\* A target that was reported is there.
Reported(file, report) == report # None => file # None /\ report.whole /\ Rec!Value(file) = report

BackupKept(r, c, file, about) ==
  r.pc \in Rec!BackupSteps =>
    /\ about \in {None, Rec!Torn}
    /\ r.pc \in {"dump", "dumping", "check", "measure"} => about = None
    /\ r.pc = "dump" => file = None
    /\ r.pc \in {"dumping", "check", "measure", "describe"} => file # None /\ file.by = c
    /\ r.pc \in {"check", "measure", "describe"} => file.whole
    /\ r.pc = "describe" => r.seen = Rec!Value(file)

RestoreKept(r, c, about, file, report, db) ==
  r.pc \in Rec!RestoreSteps =>
    /\ r.pc # "verify" => r.seen = about /\ about \notin {None, Rec!Torn} /\ about.whole
    /\ db = "sqlite" /\ r.pc = "verify" => file = None
    /\ db = "sqlite" => r.pc # "count"
    /\ r.pc = "copy" => file = None
    /\ r.pc = "copying" => file # None /\ file.by = c /\ file.content = r.seen.content
    /\ r.pc = "probe" => file # None /\ Rec!Value(file) = r.seen
    /\ r.pc \in {"copying", "probe"} => report = None

FilesInv ==
  /\ FilesTyped /\ OneOf(Rec!BackupSteps) /\ OneOf(Rec!RestoreSteps)
  /\ Vouches(archive, manifest) /\ Reported(target, restored)
  /\ \A c \in Agents :
       /\ BackupKept(running[c], c, archive, manifest)
       /\ RestoreKept(running[c], c, manifest, target, restored, database)

\* Nothing is there at first, and nobody does anything.
LEMMA FilesInit == Rec!Init => FilesInv
BY DEF Rec!Init, Rec!Idle, FilesInv, FilesTyped, OneOf, BackupKept, RestoreKept, Vouches, Reported,
  Rec!BackupSteps, Rec!RestoreSteps

\* The steps of a command, of which the other kinds of commands have none.
LEMMA OneGoes ==
  ASSUME FilesInv, NEW c \in Agents, NEW new, NEW steps, NEW others,
         \/ steps = Rec!BackupSteps /\ others = Rec!RestoreSteps
         \/ steps = Rec!RestoreSteps /\ others = Rec!BackupSteps,
         running[c].pc \in steps \/ (running[c].pc = "idle" /\ \A d \in Agents : running[d].pc \notin steps),
         new = [pc |-> new.pc, seen |-> new.seen], new.pc \in steps \cup {"idle"},
         running' = [running EXCEPT ![c] = new]
  PROVE  /\ running' = [d \in Agents |-> running'[d]] /\ running'[c] = new
         /\ \A d \in Agents : /\ running'[d] = [pc |-> running'[d].pc, seen |-> running'[d].seen]
                              /\ running'[d].pc \in {"idle"} \cup Rec!BackupSteps \cup Rec!RestoreSteps
         /\ \A d \in Agents \ {c} : running'[d] = running[d] /\ running[d].pc \notin steps
         /\ new.pc \notin others
         /\ OneOf(Rec!BackupSteps)' /\ OneOf(Rec!RestoreSteps)'
<1>1. /\ FilesTyped /\ OneOf(steps) /\ OneOf(others)
      /\ steps \cap others = {} /\ "idle" \notin steps \cup others
      /\ steps \cup others = Rec!BackupSteps \cup Rec!RestoreSteps
  BY DEF FilesInv, Rec!BackupSteps, Rec!RestoreSteps
<1>2. /\ running' = [d \in Agents |-> running'[d]] /\ running'[c] = new
      /\ \A d \in Agents \ {c} : running'[d] = running[d]
  BY <1>1 DEF FilesTyped
<1>3. \A d \in Agents : /\ running'[d] = [pc |-> running'[d].pc, seen |-> running'[d].seen]
                        /\ running'[d].pc \in {"idle"} \cup Rec!BackupSteps \cup Rec!RestoreSteps
  BY <1>1, <1>2 DEF FilesTyped
<1>4. new.pc \notin others /\ running[c].pc \notin others
  BY <1>1
<1>5. \A d \in Agents \ {c} : running[d].pc \notin steps
  BY <1>1 DEF OneOf
<1>6. OneOf(steps)' /\ OneOf(others)'
  BY <1>1, <1>2, <1>4, <1>5 DEF OneOf
<1> QED BY <1>2, <1>3, <1>4, <1>5, <1>6

\* A backup goes on, or ends.
LEMMA BackupGoes ==
  ASSUME FilesInv, NEW c \in Agents, NEW new,
         running[c].pc \in Rec!BackupSteps
           \/ (running[c].pc = "idle" /\ \A d \in Agents : running[d].pc \notin Rec!BackupSteps),
         manifest \in {None, Rec!Torn},
         new = [pc |-> new.pc, seen |-> new.seen], new.pc \in Rec!BackupSteps \cup {"idle"},
         running' = [running EXCEPT ![c] = new],
         UNCHANGED <<database, live, target, restored>>,
         archive' \in FileType \cup {None}, Vouches(archive', manifest'),
         BackupKept(new, c, archive', manifest')
  PROVE  FilesInv'
<1>1. /\ running' = [d \in Agents |-> running'[d]] /\ running'[c] = new
      /\ \A d \in Agents : /\ running'[d] = [pc |-> running'[d].pc, seen |-> running'[d].seen]
                           /\ running'[d].pc \in {"idle"} \cup Rec!BackupSteps \cup Rec!RestoreSteps
      /\ \A d \in Agents \ {c} : running'[d] = running[d] /\ running[d].pc \notin Rec!BackupSteps
      /\ new.pc \notin Rec!RestoreSteps
      /\ OneOf(Rec!BackupSteps)' /\ OneOf(Rec!RestoreSteps)'
  BY OneGoes
<1>2. FilesTyped'
  BY <1>1 DEF FilesInv, FilesTyped
<1>3. ASSUME NEW d \in Agents
      PROVE  /\ BackupKept(running'[d], d, archive', manifest')
             /\ RestoreKept(running'[d], d, manifest', target', restored', database')
  <2>1. CASE d = c
    BY <1>1, <2>1 DEF RestoreKept
  <2>2. CASE d # c
    <3>1. RestoreKept(running[d], d, manifest, target, restored, database)
      BY DEF FilesInv
    <3> QED BY <1>1, <2>2, <3>1 DEF BackupKept, RestoreKept
  <2> QED BY <2>1, <2>2
<1> QED BY <1>1, <1>2, <1>3 DEF FilesInv, Vouches, Reported

\* A restore goes on, or ends.
LEMMA RestoreGoes ==
  ASSUME FilesInv, NEW c \in Agents, NEW new,
         running[c].pc \in Rec!RestoreSteps
           \/ (running[c].pc = "idle" /\ \A d \in Agents : running[d].pc \notin Rec!RestoreSteps),
         new = [pc |-> new.pc, seen |-> new.seen], new.pc \in Rec!RestoreSteps \cup {"idle"},
         running' = [running EXCEPT ![c] = new],
         UNCHANGED <<database, live, archive, manifest>>,
         target' \in FileType \cup {None}, Reported(target', restored'),
         RestoreKept(new, c, manifest, target', restored', database)
  PROVE  FilesInv'
<1>1. /\ running' = [d \in Agents |-> running'[d]] /\ running'[c] = new
      /\ \A d \in Agents : /\ running'[d] = [pc |-> running'[d].pc, seen |-> running'[d].seen]
                           /\ running'[d].pc \in {"idle"} \cup Rec!BackupSteps \cup Rec!RestoreSteps
      /\ \A d \in Agents \ {c} : running'[d] = running[d] /\ running[d].pc \notin Rec!RestoreSteps
      /\ new.pc \notin Rec!BackupSteps
      /\ OneOf(Rec!BackupSteps)' /\ OneOf(Rec!RestoreSteps)'
  BY OneGoes
<1>2. FilesTyped'
  BY <1>1 DEF FilesInv, FilesTyped
<1>3. ASSUME NEW d \in Agents
      PROVE  /\ BackupKept(running'[d], d, archive', manifest')
             /\ RestoreKept(running'[d], d, manifest', target', restored', database')
  <2>1. CASE d = c
    BY <1>1, <2>1 DEF RestoreKept, BackupKept
  <2>2. CASE d # c
    <3>1. BackupKept(running[d], d, archive, manifest)
      BY DEF FilesInv
    <3> QED BY <1>1, <2>2, <3>1 DEF RestoreKept
  <2> QED BY <2>1, <2>2
<1> QED BY <1>1, <1>2, <1>3 DEF FilesInv, Vouches, Reported

\* What a command is in the middle of.
LEMMA Midway ==
  ASSUME FilesInv, NEW c \in Agents
  PROVE  /\ running[c] = [pc |-> running[c].pc, seen |-> running[c].seen]
         /\ running = [d \in Agents |-> running[d]]
         /\ BackupKept(running[c], c, archive, manifest)
         /\ RestoreKept(running[c], c, manifest, target, restored, database)
         /\ archive \in FileType \cup {None} /\ target \in FileType \cup {None} /\ live \in Nat
         /\ Vouches(archive, manifest) /\ Reported(target, restored)
         /\ database \in {"sqlite", "postgresql"}
BY DEF FilesInv, FilesTyped

\* A command that goes on with what it has seen.
LEMMA GoesOn ==
  ASSUME FilesInv, NEW c \in Agents, NEW pc
  PROVE  [running EXCEPT ![c].pc = pc] = [running EXCEPT ![c] = [pc |-> pc, seen |-> running[c].seen]]
<1> DEFINE was == running[c].pc
           seen == running[c].seen
<1>0. running[c] = [pc |-> was, seen |-> seen]
  BY Midway
<1> HIDE DEF was, seen
<1>1. [running[c] EXCEPT !.pc = pc] = [pc |-> pc, seen |-> seen]
  BY <1>0
<1> USE DEF seen
<1> QED BY <1>1, Midway

\* The steps of a backup.
LEMMA BackupStep ==
  ASSUME FilesInv, NEW c \in Agents,
         \/ Rec!BeginBackup(c) \/ Rec!Dump(c) \/ Rec!Dumped(c) \/ Rec!Check(c) \/ Rec!Measure(c)
         \/ Rec!Describe(c) \/ Rec!FailBackup(c) \/ Rec!Clean(c)
  PROVE  FilesInv'
<1> USE DEF Rec!At, Rec!Goes, Rec!Sees
<1> DEFINE r == running[c]
<1> DEFINE Step(new) ==
      /\ new = [pc |-> new.pc, seen |-> new.seen] /\ new.pc \in Rec!BackupSteps \cup {"idle"}
      /\ running' = [running EXCEPT ![c] = new]
      /\ UNCHANGED <<database, live, target, restored>>
      /\ archive' \in FileType \cup {None} /\ Vouches(archive', manifest')
      /\ BackupKept(new, c, archive', manifest')
<1>0. r.pc \in Rec!BackupSteps => manifest \in {None, Rec!Torn}
  BY Midway DEF BackupKept
<1>1. CASE Rec!BeginBackup(c)
  <2>1. Step([pc |-> "dump", seen |-> None])
    BY <1>1, Midway DEF Rec!BeginBackup, Rec!OutputAbsent, BackupKept, Vouches, Rec!BackupSteps
  <2>2. r.pc = "idle" /\ (\A d \in Agents : running[d].pc \notin Rec!BackupSteps) /\ manifest = None
    BY <1>1 DEF Rec!BeginBackup, Rec!Alone, Rec!OutputAbsent
  <2> HIDE DEF Step
  <2>3. \E new : Step(new)
    BY <2>1
  <2> QED BY <2>2, <2>3, BackupGoes DEF Step
<1>2. CASE \/ Rec!Dump(c) \/ Rec!Dumped(c) \/ Rec!Check(c) \/ Rec!Measure(c)
           \/ Rec!Describe(c) \/ Rec!FailBackup(c) \/ Rec!Clean(c)
  <2>1. r.pc \in Rec!BackupSteps
    BY <1>2 DEF Rec!Dump, Rec!Dumped, Rec!Check, Rec!Measure, Rec!Describe, Rec!FailBackup, Rec!Clean, Rec!BackupSteps
  <2>2. ASSUME Rec!Dump(c) PROVE \E new : Step(new)
    <3>1. archive' = [content |-> live, whole |-> FALSE, by |-> c] /\ archive' \in FileType /\ archive' # None
      <4>1. archive' = [content |-> live, whole |-> FALSE, by |-> c]
        BY <2>2 DEF Rec!Dump, Rec!Held
      <4>2. live \in Nat
        BY Midway
      <4>3. archive' \in FileType
        BY <4>1, <4>2 DEF FileType
      <4> QED BY <4>1, <4>3, NoneApart DEF FileType
    <3>2. manifest' = None /\ r.pc = "dump"
      BY <2>2, <2>1, Midway DEF Rec!Dump, BackupKept
    <3>3. running' = [running EXCEPT ![c] = [pc |-> "dumping", seen |-> r.seen]]
      BY <2>2, GoesOn DEF Rec!Dump
    <3>4. BackupKept([pc |-> "dumping", seen |-> r.seen], c, archive', manifest') /\ Vouches(archive', manifest')
      BY <3>1, <3>2 DEF BackupKept, Vouches, Rec!BackupSteps
    <3>5. Step([pc |-> "dumping", seen |-> r.seen])
      BY <2>2, <3>1, <3>3, <3>4 DEF Rec!Dump, Rec!BackupSteps
    <3> QED BY <3>5
  <2>3. ASSUME Rec!Dumped(c) PROVE \E new : Step(new)
    <3>1. archive \in FileType /\ archive.by = c /\ archive # None /\ manifest = None
      BY <2>3, Midway DEF Rec!Dumped, BackupKept, Rec!BackupSteps
    <3>2. archive' = [archive EXCEPT !.whole = TRUE]
      BY <2>3, <3>1 DEF Rec!Dumped
    <3>3. archive' \in FileType /\ archive'.whole /\ archive'.by = c /\ archive' # None
      BY <3>1, <3>2, NoneApart DEF FileType
    <3>4. Step([pc |-> "check", seen |-> r.seen])
      BY <2>3, <3>1, <3>3, GoesOn, Midway DEF Rec!Dumped, BackupKept, Vouches, Rec!BackupSteps
    <3> QED BY <3>4
  <2>4. ASSUME Rec!Check(c) PROVE \E new : Step(new)
    <3>1. Step([pc |-> "measure", seen |-> r.seen])
      BY <2>4, GoesOn, Midway DEF Rec!Check, BackupKept, Vouches, Rec!BackupSteps
    <3> QED BY <3>1
  <2>5. ASSUME Rec!Measure(c) PROVE \E new : Step(new)
    <3>1. Step([pc |-> "describe", seen |-> Rec!Value(archive)])
      BY <2>5, Midway DEF Rec!Measure, BackupKept, Vouches, Rec!BackupSteps
    <3> QED BY <3>1
  <2>6. ASSUME Rec!Describe(c) PROVE \E new : Step(new)
    <3>1. archive # None /\ archive.whole /\ r.seen = Rec!Value(archive) /\ archive.by = c
      BY <2>6, Midway DEF Rec!Describe, BackupKept, Rec!BackupSteps
    <3>2. CASE manifest' = Rec!Torn
      <4>1. Step([pc |-> "describe", seen |-> r.seen])
        BY <2>6, <3>1, <3>2, GoesOn, Midway DEF Rec!Describe, BackupKept, Vouches, Rec!BackupSteps
      <4> QED BY <4>1
    <3>3. CASE manifest' # Rec!Torn
      <4>1. Step([pc |-> "idle", seen |-> None])
        BY <2>6, <3>1, <3>3, Midway DEF Rec!Describe, BackupKept, Vouches, Rec!BackupSteps
      <4> QED BY <4>1
    <3> QED BY <3>2, <3>3
  <2>7. ASSUME Rec!FailBackup(c) PROVE \E new : Step(new)
    <3>1. archive' = None /\ manifest' = manifest /\ manifest \in {None, Rec!Torn}
      BY <1>0, <2>1, <2>7 DEF Rec!FailBackup
    <3>2. ASSUME NEW pc \in {"idle", "cleaning"}, running' = [running EXCEPT ![c] = [pc |-> pc, seen |-> None]]
          PROVE  Step([pc |-> pc, seen |-> None])
      BY <2>7, <3>1, <3>2 DEF Rec!FailBackup, BackupKept, Vouches, Rec!BackupSteps
    <3>3. Step([pc |-> "idle", seen |-> None]) \/ Step([pc |-> "cleaning", seen |-> None])
      BY <2>7, <3>2 DEF Rec!FailBackup
    <3> QED BY <3>3
  <2>8. ASSUME Rec!Clean(c) PROVE \E new : Step(new)
    <3>1. Step([pc |-> "idle", seen |-> None])
      BY <2>8, Midway DEF Rec!Clean, BackupKept, Vouches, Rec!BackupSteps
    <3> QED BY <3>1
  <2> HIDE DEF Step
  <2>9. \E new : Step(new)
    BY <1>2, <2>2, <2>3, <2>4, <2>5, <2>6, <2>7, <2>8
  <2> QED BY <1>0, <2>1, <2>9, BackupGoes DEF Step
<1> QED BY <1>1, <1>2

\* The steps of a restore.
LEMMA RestoreStep ==
  ASSUME FilesInv, NEW c \in Agents,
         \/ Rec!BeginRestore(c) \/ Rec!Verify(c) \/ Rec!Count(c) \/ Rec!Copy(c) \/ Rec!Copied(c)
         \/ Rec!Probe(c) \/ Rec!FailRestore(c)
  PROVE  FilesInv'
<1> USE DEF Rec!At, Rec!Goes, Rec!Sees
<1> DEFINE r == running[c]
<1> DEFINE Step(new) ==
      /\ new = [pc |-> new.pc, seen |-> new.seen] /\ new.pc \in Rec!RestoreSteps \cup {"idle"}
      /\ running' = [running EXCEPT ![c] = new]
      /\ UNCHANGED <<database, live, archive, manifest>>
      /\ target' \in FileType \cup {None} /\ Reported(target', restored')
      /\ RestoreKept(new, c, manifest, target', restored', database)
<1>1. CASE Rec!BeginRestore(c)
  <2>1. Step([pc |-> "verify", seen |-> None])
    BY <1>1, Midway DEF Rec!BeginRestore, Rec!TargetAbsent, RestoreKept, Reported, Rec!RestoreSteps
  <2>2. r.pc = "idle" /\ \A d \in Agents : running[d].pc \notin Rec!RestoreSteps
    BY <1>1 DEF Rec!BeginRestore, Rec!Alone
  <2> HIDE DEF Step
  <2>3. \E new : Step(new)
    BY <2>1
  <2> QED BY <2>2, <2>3, RestoreGoes DEF Step
<1>2. CASE \/ Rec!Verify(c) \/ Rec!Count(c) \/ Rec!Copy(c) \/ Rec!Copied(c)
           \/ Rec!Probe(c) \/ Rec!FailRestore(c)
  <2>1. r.pc \in Rec!RestoreSteps
    BY <1>2 DEF Rec!Verify, Rec!Count, Rec!Copy, Rec!Copied, Rec!Probe, Rec!FailRestore, Rec!RestoreSteps
  <2>2. ASSUME Rec!Verify(c) PROVE \E new : Step(new)
    <3>1. /\ manifest \notin {None, Rec!Torn} /\ manifest.whole
          /\ database = "sqlite" => target = None
          /\ UNCHANGED <<database, live, archive, manifest, target, restored>>
      BY <2>1, <2>2, Midway DEF Rec!Verify, Rec!VouchedFor, Vouches, Rec!Value, RestoreKept
    <3>2. ASSUME NEW pc \in {"copy", "count"}, (database = "sqlite") <=> pc = "copy"
          PROVE  RestoreKept([pc |-> pc, seen |-> manifest], c, manifest, target', restored', database)
      BY <3>1, <3>2 DEF RestoreKept
    <3>3. Step([pc |-> IF database = "sqlite" THEN "copy" ELSE "count", seen |-> manifest])
      BY <2>2, <3>1, <3>2, Midway DEF Rec!Verify, Rec!RestoreSteps
    <3> QED BY <3>3
  <2>3. ASSUME Rec!Count(c) PROVE \E new : Step(new)
    <3>1. Step([pc |-> "copy", seen |-> r.seen])
      BY <2>1, <2>3, GoesOn, Midway DEF Rec!Count, RestoreKept, Rec!RestoreSteps
    <3> QED BY <3>1
  <2>4. ASSUME Rec!Copy(c) PROVE \E new : Step(new)
    <3>1. /\ r.seen = manifest /\ manifest \notin {None, Rec!Torn} /\ archive # None /\ archive \in FileType
          /\ archive.whole /\ manifest = Rec!Value(archive) /\ manifest.whole
          /\ target = None /\ restored = None
      BY <2>1, <2>4, Midway DEF Rec!Copy, RestoreKept, Vouches, Rec!Value, Reported
    <3>2. target' = [content |-> archive.content, whole |-> database = "postgresql" /\ archive.whole, by |-> c]
      BY <2>4 DEF Rec!Copy, Rec!Held
    <3>3. target' \in FileType
      BY <3>1, <3>2 DEF FileType
    <3>4. target' # None
      BY <3>3, NoneApart DEF FileType
    <3>5. CASE database = "sqlite"
      <4>1. running' = [running EXCEPT ![c] = [pc |-> "copying", seen |-> r.seen]]
        BY <2>4, <3>5, GoesOn DEF Rec!Copy
      <4>2. RestoreKept([pc |-> "copying", seen |-> r.seen], c, manifest, target', restored, database)
        BY <2>4, <3>1, <3>2, <3>4, <3>5 DEF Rec!Copy, RestoreKept, Rec!Value, Rec!RestoreSteps
      <4>3. Reported(target', restored') /\ UNCHANGED <<database, live, archive, manifest, restored>>
        BY <2>4, <3>1 DEF Rec!Copy, Reported
      <4>4. Step([pc |-> "copying", seen |-> r.seen])
        BY <3>3, <4>1, <4>2, <4>3 DEF Rec!RestoreSteps
      <4> QED BY <4>4
    <3>6. CASE database # "sqlite"
      <4>1. running' = [running EXCEPT ![c] = [pc |-> "probe", seen |-> r.seen]]
        BY <2>4, <3>6, GoesOn DEF Rec!Copy
      <4>2. RestoreKept([pc |-> "probe", seen |-> r.seen], c, manifest, target', restored, database)
        <5>1. target'.content = archive.content /\ target'.whole = archive.whole
          <6>1. database = "postgresql"
            BY <3>6, Midway
          <6>2. archive.whole \in BOOLEAN
            BY <3>1 DEF FileType
          <6> QED BY <3>1, <3>2, <6>1, <6>2
        <5>2. Rec!Value(target') = r.seen
          BY <3>1, <3>4, <5>1 DEF Rec!Value
        <5> QED BY <3>1, <3>4, <5>2 DEF RestoreKept
      <4>3. Reported(target', restored') /\ UNCHANGED <<database, live, archive, manifest, restored>>
        BY <2>4, <3>1 DEF Rec!Copy, Reported
      <4>4. Step([pc |-> "probe", seen |-> r.seen])
        BY <3>3, <4>1, <4>2, <4>3 DEF Rec!RestoreSteps
      <4> QED BY <4>4
    <3> QED BY <3>5, <3>6
  <2>5. ASSUME Rec!Copied(c) PROVE \E new : Step(new)
    <3>1. /\ r.seen = manifest /\ manifest \notin {None, Rec!Torn} /\ archive # None
          /\ archive.whole /\ manifest = Rec!Value(archive) /\ r.seen.whole
          /\ target # None /\ target \in FileType /\ target.by = c /\ target.content = r.seen.content
          /\ restored = None
      BY <2>1, <2>5, Midway DEF Rec!Copied, RestoreKept, Vouches, Rec!Value
    <3>2. target' = [target EXCEPT !.whole = TRUE]
      BY <2>5, <3>1 DEF Rec!Copied
    <3>3. /\ target' \in FileType /\ target'.whole = TRUE /\ target'.content = r.seen.content
      BY <3>1, <3>2 DEF FileType
    <3>4. target' # None
      BY <3>3, NoneApart DEF FileType
    <3>5. Rec!Value(target') = r.seen
      BY <3>1, <3>3, <3>4 DEF Rec!Value, FileType
    <3>6. Step([pc |-> "probe", seen |-> r.seen])
      BY <2>5, <3>1, <3>3, <3>4, <3>5, GoesOn DEF Rec!Copied, RestoreKept, Reported, Rec!RestoreSteps
    <3> QED BY <3>6
  <2>6. ASSUME Rec!Probe(c) PROVE \E new : Step(new)
    <3>1. Step([pc |-> "idle", seen |-> None])
      BY <2>1, <2>6, Midway DEF Rec!Probe, RestoreKept, Reported, Rec!RestoreSteps
    <3> QED BY <3>1
  <2>7. ASSUME Rec!FailRestore(c) PROVE \E new : Step(new)
    <3>1. target' \in FileType \cup {None} /\ Reported(target', restored')
      BY <2>7, Midway DEF Rec!FailRestore, RestoreKept, Reported, Rec!RestoreSteps
    <3>2. Step([pc |-> "idle", seen |-> None])
      BY <2>7, <3>1 DEF Rec!FailRestore, RestoreKept, Rec!RestoreSteps
    <3> QED BY <3>2
  <2> HIDE DEF Step
  <2>8. \E new : Step(new)
    BY <1>2, <2>2, <2>3, <2>4, <2>5, <2>6, <2>7
  <2> QED BY <2>1, <2>8, RestoreGoes DEF Step
<1> QED BY <1>1, <1>2

\* What is killed leaves what it made.
LEMMA KillStep == ASSUME FilesInv, NEW c \in Agents, Rec!Kill(c) PROVE FilesInv'
<1> DEFINE new == [pc |-> "idle", seen |-> None]
<1>1. /\ running' = [running EXCEPT ![c] = new]
      /\ UNCHANGED <<database, live, archive, manifest, target, restored>>
      /\ running[c].pc \in Rec!BackupSteps \cup Rec!RestoreSteps
  BY DEF Rec!Kill, Rec!At, Rec!Sees, FilesInv, FilesTyped
<1>2. /\ new = [pc |-> new.pc, seen |-> new.seen] /\ new.pc = "idle"
      /\ \A file, about : BackupKept(new, c, file, about)
      /\ \A about, file, report, db : RestoreKept(new, c, about, file, report, db)
  BY DEF BackupKept, RestoreKept, Rec!BackupSteps, Rec!RestoreSteps
<1> HIDE DEF new
<1>3. CASE running[c].pc \in Rec!BackupSteps
  <2>1. manifest \in {None, Rec!Torn}
    BY <1>3, Midway DEF BackupKept
  <2> QED BY <1>1, <1>2, <1>3, <2>1, Midway, BackupGoes
<1>4. CASE running[c].pc \in Rec!RestoreSteps
  BY <1>1, <1>2, <1>4, Midway, RestoreGoes
<1> QED BY <1>1, <1>3, <1>4

\* A database that is written to, and what is removed while no command runs.
LEMMA OperatorStep == ASSUME FilesInv, Rec!Write \/ Rec!Discard PROVE FilesInv'
<1>1. CASE Rec!Write
  BY <1>1 DEF Rec!Write, FilesInv, FilesTyped, OneOf
<1>2. CASE Rec!Discard
  <2>1. /\ UNCHANGED <<database, live, running, restored>> /\ \A c \in Agents : running[c].pc = "idle"
        /\ \/ archive' = None /\ manifest' = None /\ UNCHANGED target
           \/ target' = None /\ restored = None /\ UNCHANGED <<archive, manifest>>
    BY <1>2 DEF Rec!Discard, Rec!At
  <2>2. ASSUME NEW c \in Agents
        PROVE  /\ BackupKept(running'[c], c, archive', manifest')
               /\ RestoreKept(running'[c], c, manifest', target', restored', database')
    BY <2>1, <2>2 DEF BackupKept, RestoreKept, Rec!BackupSteps, Rec!RestoreSteps
  <2>3. FilesTyped' /\ OneOf(Rec!BackupSteps)' /\ OneOf(Rec!RestoreSteps)'
    BY <2>1 DEF FilesInv, FilesTyped, OneOf
  <2>4. Vouches(archive', manifest') /\ Reported(target', restored')
    BY <2>1, Midway DEF FilesInv, Vouches, Reported
  <2> QED BY <2>2, <2>3, <2>4 DEF FilesInv
<1> QED BY <1>1, <1>2

\* No step leaves the files otherwise.
LEMMA FilesStep == FilesInv /\ Rec!Next => FilesInv'
BY BackupStep, RestoreStep, KillStep, OperatorStep DEF Rec!Next

\* What a manifest vouches for is whole, and so is what was reported.
LEMMA FilesSound == FilesInv => Rec!RecoverySound
BY DEF FilesInv, Vouches, Reported, Rec!RecoverySound, Rec!VouchedFor

\* Files that stand still keep what holds of them.
LEMMA FilesStill == ASSUME FilesInv, UNCHANGED backups PROVE FilesInv'
BY DEF backups, FilesInv, FilesTyped, OneOf

Pgs == INSTANCE PostgresStore WITH Entry <- Stored, Rev <- Revisions, Sessions <- Agents, MaxAudit <- MaxRows

-----------------------------------------------------------------------------
(* Transactions (PostgresStore): what a transaction has written so far follows from its request,   *)
(* from how far it is and from the tables, of which no other writes what it has locked.            *)

PointerType == Revisions \cup {None}
AskedType   == [Stored -> PointerType \cup {"unchecked"}]
Kinds       == {"create", "update", "publish", "publishMany", "delete"}
LogType     == Seq(Pgs!Store!AuditEntry)

TablesType ==
  [home : [Stored -> {"scope", None}], draft : [Stored -> PointerType], published : [Stored -> PointerType],
   rev : [Revisions -> Pgs!Store!RevRow], audit : [Stored -> LogType], outbox : [Stored -> Seq(Pgs!Store!OutboxEvent)]]

RowType == [home : {"scope", None}, draft : PointerType, published : PointerType]

OwnType ==
  [row : [Stored -> RowType \cup {None}], rev : [Revisions -> Pgs!Store!RevRow],
   audit : [Stored -> LogType], outbox : [Stored -> Seq(Pgs!Store!OutboxEvent)]]

StepType == {"idle", "row", "lock", "wait", "number", "insert", "point", "tail", "record", "remove", "commit"}

TransactionType ==
  [step : StepType, kind : Kinds \cup {None}, members : Seq(Stored), todo : Seq(Stored), rev : PointerType,
   target : AskedType, expectedDraft : AskedType, expectedPublished : AskedType,
   pinned : PointerType, seq : Nat, tail : LogType, own : OwnType]

\* A list without repetitions.
Distinct(list) == \A i, j \in DOMAIN list : list[i] = list[j] => i = j
Listed(list) == {list[i] : i \in DOMAIN list}

Drafting(t) == t.kind \in {"create", "update"}
Changing(t) == t.step \in {"point", "tail", "record", "commit"}
Finished(t) == IF Changing(t) /\ t.kind # "delete" THEN Listed(t.members) \ Listed(t.todo) ELSE {}
Pointed(t)  == IF t.step \in {"tail", "record"} THEN Finished(t) \cup {Head(t.todo)} ELSE Finished(t)

\* What a transaction locked: as far as it is, or all its members.
Holds(t) ==
  IF t.step \in {"idle", "row"} THEN {}
  ELSE IF t.step \in {"lock", "wait"} THEN Listed(t.members) \ Listed(t.todo)
  ELSE Listed(t.members)

\* The revision that an event of the transaction is about, and the event.
About(t, e) == IF Drafting(t) THEN t.rev ELSE t.target[e]

EventOf(log, t, e) ==
  LET n == Len(log)
      previous == IF n = 0 THEN <<>> ELSE log[n].hash
      fields == [seq |-> IF n = 0 THEN 1 ELSE log[n].seq + 1, action |-> Pgs!Names[t.kind], rev |-> About(t, e)]
  IN  [seq |-> fields.seq, action |-> fields.action, rev |-> fields.rev, prev |-> previous,
       hash |-> Pgs!Store!EventHash("scope", e, fields, previous)]

\* The writes of a transaction that is as far as t, with the tables tb.
RowBy(tb, t, e) ==
  IF t.kind = "delete" /\ t.step = "commit" /\ e \in Listed(t.members)
  THEN [home |-> None, draft |-> None, published |-> None]
  ELSE IF e \in Pointed(t)
  THEN [home      |-> "scope",
        draft     |-> IF Drafting(t) THEN t.rev ELSE tb.draft[e],
        published |-> IF t.kind = "create" THEN None
                      ELSE IF t.kind = "update" THEN tb.published[e] ELSE t.target[e]]
  ELSE IF t.kind = "create" /\ t.step \in {"insert", "point"} /\ e \in Listed(t.members)
  THEN [home |-> "scope", draft |-> None, published |-> None]
  ELSE None

RevBy(t, r) ==
  IF Drafting(t) /\ Changing(t) /\ r = t.rev
  THEN [entry |-> t.members[1], seq |-> t.seq + 1,
        base |-> IF t.kind = "create" THEN None ELSE t.expectedDraft[t.members[1]]]
  ELSE Pgs!NoRow

AuditBy(tb, t, e) == IF e \in Finished(t) THEN <<EventOf(tb.audit[e], t, e)>> ELSE <<>>
OutboxBy(t, e) ==
  IF e \in Finished(t) THEN <<[action |-> Pgs!Names[t.kind], rev |-> About(t, e)]>> ELSE <<>>

OwnBy(tb, t) ==
  [row |-> [e \in Stored |-> RowBy(tb, t, e)], rev |-> [r \in Revisions |-> RevBy(t, r)],
   audit |-> [e \in Stored |-> AuditBy(tb, t, e)], outbox |-> [e \in Stored |-> OutboxBy(t, e)]]

\* What a request is: one entry, or several that are published at once.
Asked(t) ==
  /\ t.kind \in Kinds /\ t.members # <<>> /\ Distinct(t.members)
  /\ t.kind # "publishMany" => Len(t.members) = 1
  /\ Drafting(t) <=> t.rev # None
  /\ t.kind \in {"update", "publish"} => t.expectedDraft[t.members[1]] \in PointerType
  /\ t.kind = "publish" => t.target = t.expectedDraft
  /\ t.kind \in {"publish", "publishMany"} => \A e \in Listed(t.members) : t.target[e] \in Revisions

\* How far it is.
Underway(t) ==
  /\ Distinct(t.todo) /\ Listed(t.todo) \subseteq Listed(t.members)
  /\ t.step # "commit" => t.todo # <<>>
  /\ t.step \in {"row", "number", "insert", "remove"} => t.todo = t.members
  /\ t.step = "commit" /\ t.kind # "delete" => t.todo = <<>>
  /\ t.step = "row" => t.kind = "create"
  /\ t.step \in {"lock", "wait"} => t.kind # "create"
  /\ t.step = "number" => t.kind = "update"
  /\ t.step = "insert" => Drafting(t)
  /\ t.step = "remove" => t.kind = "delete"
  /\ t.step \in {"point", "tail", "record"} => t.kind # "delete"

\* What it found when it locked an entry, and nobody changes until it ends.
FoundLocked(tb, t, e) ==
  IF t.kind = "create" THEN tb.home[e] = None
  ELSE /\ tb.home[e] = "scope"
       /\ t.kind # "delete" => /\ t.expectedDraft[e] \in {"unchecked", tb.draft[e]}
                               /\ t.expectedPublished[e] \in {"unchecked", tb.published[e]}
       /\ t.kind = "publishMany" => tb.rev[t.target[e]].entry = e

LastEvent(log) == IF log = <<>> THEN <<>> ELSE <<log[Len(log)]>>

\* What it read of an entry that it has locked.
ReadLocked(tb, t) ==
  /\ t.kind = "create" => t.seq = 0
  /\ t.kind = "update" /\ (t.step = "insert" \/ Changing(t)) => t.seq = tb.rev[tb.draft[t.members[1]]].seq
  /\ t.step = "record" => t.tail = LastEvent(tb.audit[Head(t.todo)])

\* The parts that the locks protect, and what a transaction is of itself.
Protected(tb, t) ==
  /\ \A e \in Holds(t) : FoundLocked(tb, t, e)
  /\ ReadLocked(tb, t)
  /\ t.own = OwnBy(tb, t)

Itself(t) == t.step # "idle" => Asked(t) /\ Underway(t)

\* A live entry has a draft, which is its latest revision, and one that is gone has none.
TablesSound(tb) ==
  \A e \in Stored :
    IF tb.home[e] = None THEN \A r \in Revisions : tb.rev[r].entry # e
    ELSE /\ tb.draft[e] \in Revisions /\ tb.rev[tb.draft[e]].entry = e
         /\ \A r \in Revisions : tb.rev[r].entry = e => tb.rev[r].seq <= tb.rev[tb.draft[e]].seq

\* A revision that a transaction makes is new, to the tables and to the others.
Minting ==
  /\ minted \in [Revisions -> Pgs!Store!RevRow]
  /\ \A r \in Revisions : minted[r] = Pgs!NoRow => tables.rev[r] = Pgs!NoRow
  /\ \A s \in Agents : tx[s].rev # None =>
       minted[tx[s].rev] = Pgs!NoRow /\ \A other \in Agents \ {s} : tx[other].rev # tx[s].rev

StatementsInv ==
  /\ tables \in TablesType /\ TablesSound(tables)
  /\ lock \in [Stored -> Agents \cup {None}]
  /\ tx \in [Agents -> TransactionType]
  /\ Minting
  /\ \A s \in Agents :
       /\ tx[s].step = "idle" => tx[s] = Pgs!Idle
       /\ Itself(tx[s]) /\ Protected(tables, tx[s])
       /\ \A e \in Holds(tx[s]) : lock[e] = s

\* A transaction that has written nothing sees what is committed.
LEMMA NothingWritten ==
  ASSUME tables \in TablesType PROVE Pgs!Written(Pgs!Unwritten) = tables
<1> DEFINE own == Pgs!Unwritten
<1>1. /\ own.row = [e \in Stored |-> None] /\ own.rev = [r \in Revisions |-> Pgs!NoRow]
      /\ own.audit = [e \in Stored |-> <<>>] /\ own.outbox = [e \in Stored |-> <<>>]
  BY DEF Pgs!Unwritten
<1> HIDE DEF own
<1>2. \A e \in Stored : Pgs!EntryRow(own, e) = [home |-> tables.home[e], draft |-> tables.draft[e], published |-> tables.published[e]]
  BY <1>1 DEF Pgs!EntryRow
<1>3. Pgs!Deleted(own) = {}
  BY <1>1 DEF Pgs!Deleted
<1>4. [e \in Stored |-> Pgs!EntryRow(own, e).home] = tables.home
  BY <1>2 DEF TablesType
<1>5. [e \in Stored |-> Pgs!EntryRow(own, e).draft] = tables.draft
  BY <1>2 DEF TablesType
<1>6. [e \in Stored |-> Pgs!EntryRow(own, e).published] = tables.published
  BY <1>2 DEF TablesType
<1>7. [r \in Revisions |-> IF own.rev[r] # Pgs!NoRow THEN own.rev[r]
                           ELSE IF tables.rev[r].entry \in Pgs!Deleted(own) THEN Pgs!NoRow ELSE tables.rev[r]] = tables.rev
  BY <1>1, <1>3 DEF TablesType
<1>8. [e \in Stored |-> IF e \in Pgs!Deleted(own) THEN <<>> ELSE tables.audit[e] \o own.audit[e]] = tables.audit
  <2>1. \A e \in Stored : tables.audit[e] \o own.audit[e] = tables.audit[e]
    BY <1>1 DEF TablesType, LogType
  <2> QED BY <2>1, <1>3 DEF TablesType
<1>9. [e \in Stored |-> IF e \in Pgs!Deleted(own) THEN <<>> ELSE tables.outbox[e] \o own.outbox[e]] = tables.outbox
  <2>1. \A e \in Stored : tables.outbox[e] \o own.outbox[e] = tables.outbox[e]
    BY <1>1 DEF TablesType
  <2> QED BY <2>1, <1>3 DEF TablesType
<1>10. tables = [home |-> tables.home, draft |-> tables.draft, published |-> tables.published,
                 rev |-> tables.rev, audit |-> tables.audit, outbox |-> tables.outbox]
  BY DEF TablesType
<1> QED
  BY <1>4, <1>5, <1>6, <1>7, <1>8, <1>9, <1>10 DEF Pgs!Written, own

\* What is left of a list without repetitions, after its first.
LEMMA ListStep ==
  ASSUME NEW list \in Seq(Stored), Distinct(list), list # <<>>
  PROVE  /\ Head(list) \in Listed(list) /\ Head(list) \in Stored
         /\ Tail(list) \in Seq(Stored) /\ Distinct(Tail(list))
         /\ Listed(Tail(list)) = Listed(list) \ {Head(list)}
         /\ Len(list) > 1 <=> Tail(list) # <<>>
<1> DEFINE rest == Tail(list)
<1>1. /\ Len(list) \in Nat /\ Len(list) > 0 /\ Head(list) = list[1] /\ rest \in Seq(Stored) /\ Len(rest) = Len(list) - 1
      /\ DOMAIN list = 1..Len(list) /\ DOMAIN rest = 1..(Len(list) - 1)
      /\ \A i \in DOMAIN rest : rest[i] = list[i + 1] /\ i + 1 \in DOMAIN list
  OBVIOUS
<1> HIDE DEF rest
<1>2. 1 \in DOMAIN list
  BY <1>1
<1>3. Distinct(rest)
  BY <1>1 DEF Distinct
<1>4. ASSUME NEW e \in Listed(rest) PROVE e \in Listed(list) /\ e # Head(list)
  <2>1. PICK i \in DOMAIN rest : e = rest[i]
    BY DEF Listed
  <2>2. e = list[i + 1] /\ i + 1 \in DOMAIN list /\ i + 1 # 1
    BY <2>1, <1>1
  <2> QED BY <2>2, <1>1, <1>2 DEF Listed, Distinct
<1>5. ASSUME NEW e \in Listed(list), e # Head(list) PROVE e \in Listed(rest)
  <2>1. PICK i \in DOMAIN list : e = list[i]
    BY DEF Listed
  <2>2. i - 1 \in DOMAIN rest /\ rest[i - 1] = e
    BY <2>1, <1>1, <1>5
  <2> QED BY <2>2 DEF Listed
<1>6. Head(list) \in Listed(list) /\ Head(list) \in Stored
  BY <1>1, <1>2 DEF Listed
<1>7. Len(list) > 1 <=> rest # <<>>
  BY <1>1
<1> QED BY <1>1, <1>3, <1>4, <1>5, <1>6, <1>7 DEF rest

\* Two states of the tables in which an entry is the same.
Same(tb, tc, e) ==
  /\ tb.home[e] = tc.home[e] /\ tb.draft[e] = tc.draft[e] /\ tb.published[e] = tc.published[e]
  /\ tb.audit[e] = tc.audit[e]
  /\ \A r \in Revisions : tb.rev[r].entry = e => tc.rev[r] = tb.rev[r]

\* The locked entries of a transaction.
LEMMA HeldAre ==
  ASSUME NEW t \in TransactionType, Itself(t), t.step # "idle"
  PROVE  /\ t.members \in Seq(Stored) /\ t.members # <<>> /\ t.members[1] \in Listed(t.members)
         /\ Listed(t.members) \subseteq Stored /\ Holds(t) \subseteq Listed(t.members)
         /\ Changing(t) => Holds(t) = Listed(t.members)
         /\ Finished(t) \subseteq Holds(t) /\ Pointed(t) \subseteq Holds(t)
         /\ t.step = "record" => Head(t.todo) \in Holds(t)
         /\ t.step \notin {"row", "lock", "wait"} => Holds(t) = Listed(t.members)
<1>1. t.members \in Seq(Stored) /\ t.todo \in Seq(Stored) /\ t.members # <<>>
  BY DEF TransactionType, Itself, Asked
<1>2. 1 \in DOMAIN t.members /\ t.members[1] \in Listed(t.members)
  <2>1. 1 \in DOMAIN t.members
    BY <1>1
  <2> QED BY <2>1 DEF Listed
<1>3. Listed(t.members) \subseteq Stored
  BY <1>1 DEF Listed
<1>4. t.step \in {"tail", "record"} => Head(t.todo) \in Listed(t.members)
  <2>1. t.step \in {"tail", "record"} => Distinct(t.todo) /\ t.todo # <<>> /\ Listed(t.todo) \subseteq Listed(t.members)
    BY DEF Itself, Underway
  <2> QED BY <2>1, <1>1, ListStep
<1>5. Holds(t) \subseteq Listed(t.members) /\ (t.step \notin {"row", "lock", "wait"} => Holds(t) = Listed(t.members))
      /\ (Changing(t) => Holds(t) = Listed(t.members))
  BY DEF Holds, Changing
<1>6. Finished(t) \subseteq Holds(t)
  BY <1>5 DEF Finished
<1>7. Pointed(t) \subseteq Holds(t)
  BY <1>4, <1>5, <1>6 DEF Pointed
<1> QED BY <1>1, <1>2, <1>3, <1>4, <1>5, <1>6, <1>7

\* What a transaction has locked, and nobody else changes, protects all that it relies on.
LEMMA ProtectedStays ==
  ASSUME NEW t \in TransactionType, Itself(t), NEW tb \in TablesType, NEW tc \in TablesType, TablesSound(tb),
         \A e \in Holds(t) : Same(tb, tc, e), Protected(tb, t)
  PROVE  Protected(tc, t)
<1>1. CASE t.step = "idle"
  <2>1. Holds(t) = {} /\ ~Changing(t) /\ Finished(t) = {} /\ Pointed(t) = {}
    BY <1>1 DEF Holds, Changing, Finished, Pointed
  <2>2. OwnBy(tb, t) = OwnBy(tc, t)
    BY <2>1, <1>1 DEF OwnBy, RowBy, AuditBy
  <2>3. ReadLocked(tc, t)
    BY <1>1, <2>1 DEF Protected, ReadLocked
  <2> QED BY <2>1, <2>2, <2>3 DEF Protected
<1>2. CASE t.step # "idle"
  <2>1. /\ t.members[1] \in Listed(t.members) /\ Holds(t) \subseteq Stored
        /\ Finished(t) \subseteq Holds(t) /\ Pointed(t) \subseteq Holds(t)
        /\ (t.step \notin {"row", "lock", "wait"} => Holds(t) = Listed(t.members))
        /\ t.step = "record" => Head(t.todo) \in Holds(t)
    BY <1>2, HeldAre
  <2>2. ASSUME NEW e \in Holds(t) PROVE FoundLocked(tc, t, e)
    <3>1. FoundLocked(tb, t, e) /\ Same(tb, tc, e)
      BY DEF Protected
    <3>2. t.kind = "publishMany" => t.target[e] \in Revisions
      BY <2>1, <1>2, HeldAre DEF Itself, Asked
    <3> QED BY <3>1, <3>2 DEF FoundLocked, Same
  <2>3. ReadLocked(tc, t)
    <3>1. ReadLocked(tb, t)
      BY DEF Protected
    <3>2. t.step = "record" => tb.audit[Head(t.todo)] = tc.audit[Head(t.todo)]
      BY <2>1 DEF Same
    <3>3. ASSUME t.kind = "update", t.step = "insert" \/ Changing(t)
          PROVE  tb.rev[tb.draft[t.members[1]]].seq = tc.rev[tc.draft[t.members[1]]].seq
      <4> DEFINE e == t.members[1]
      <4>1. e \in Holds(t) /\ e \in Stored
        BY <2>1, <3>3 DEF Changing
      <4>2. Same(tb, tc, e) /\ FoundLocked(tb, t, e)
        BY <4>1 DEF Protected
      <4> HIDE DEF e
      <4>3. tb.home[e] # None
        BY <4>2, <3>3, RowsApart DEF FoundLocked
      <4>4. tb.draft[e] \in Revisions /\ tb.rev[tb.draft[e]].entry = e
        BY <4>1, <4>3 DEF TablesSound
      <4> QED BY <4>2, <4>4 DEF Same, e
    <3> QED BY <3>1, <3>2, <3>3 DEF ReadLocked
  <2>4. OwnBy(tb, t) = OwnBy(tc, t)
    <3>1. \A e \in Stored : RowBy(tb, t, e) = RowBy(tc, t, e)
      BY <2>1 DEF RowBy, Same
    <3>2. \A e \in Stored : AuditBy(tb, t, e) = AuditBy(tc, t, e)
      BY <2>1 DEF AuditBy, Same
    <3> QED BY <3>1, <3>2 DEF OwnBy
  <2> QED BY <2>2, <2>3, <2>4 DEF Protected
<1> QED BY <1>1, <1>2

\* A step of one transaction that changes no table: the others keep their locks and revisions.
LEMMA TransactionMoves ==
  ASSUME StatementsInv, NEW s \in Agents, NEW t \in TransactionType,
         tx' = [tx EXCEPT ![s] = t], tables' = tables, minted' = minted,
         lock' \in [Stored -> Agents \cup {None}],
         \A e \in Stored : lock[e] \in Agents \ {s} => lock'[e] = lock[e],
         t.rev # None => minted[t.rev] = Pgs!NoRow /\ \A other \in Agents \ {s} : tx[other].rev # t.rev,
         t.step = "idle" => t = Pgs!Idle, Itself(t), Protected(tables, t), \A e \in Holds(t) : lock'[e] = s
  PROVE  StatementsInv'
<1>1. tx' \in [Agents -> TransactionType] /\ tx'[s] = t /\ \A other \in Agents \ {s} : tx'[other] = tx[other]
  BY DEF StatementsInv
<1>2. Minting'
  BY <1>1 DEF StatementsInv, Minting
<1>3. ASSUME NEW other \in Agents \ {s}, NEW e \in Holds(tx[other]) PROVE lock'[e] = other
  <2>1. tx[other].step # "idle"
    BY DEF Holds
  <2>2. e \in Stored
    BY <2>1, HeldAre DEF StatementsInv
  <2> QED BY <2>2 DEF StatementsInv
<1> QED
  <2>1. ASSUME NEW other \in Agents
        PROVE  /\ tx'[other].step = "idle" => tx'[other] = Pgs!Idle
               /\ Itself(tx'[other]) /\ Protected(tables, tx'[other])
               /\ \A e \in Holds(tx'[other]) : lock'[e] = other
    <3>1. CASE other = s
      BY <3>1, <1>1
    <3>2. CASE other # s
      BY <3>2, <1>1, <1>3 DEF StatementsInv
    <3> QED BY <3>1, <3>2
  <2> QED BY <2>1, <1>1, <1>2 DEF StatementsInv

\* A connection without a transaction has written and locked nothing.
LEMMA IdleIs ==
  /\ Pgs!Idle \in TransactionType /\ Pgs!Idle.step = "idle" /\ Pgs!Idle.rev = None
  /\ Pgs!Unwritten \in OwnType /\ Pgs!NoRow \in Pgs!Store!RevRow
  /\ \A tb : Protected(tb, Pgs!Idle)
<1>1. Pgs!NoRow \in Pgs!Store!RevRow
  BY DEF Pgs!NoRow, Pgs!Store!RevRow
<1>2. Pgs!Unwritten \in OwnType
  BY <1>1 DEF Pgs!Unwritten, OwnType, LogType
<1>3. Pgs!Idle \in TransactionType
  BY <1>2 DEF Pgs!Idle, TransactionType, StepType, PointerType, AskedType, LogType, Kinds
<1>4. /\ Pgs!Idle.step = "idle" /\ Pgs!Idle.rev = None /\ Pgs!Idle.own = Pgs!Unwritten /\ Pgs!Idle.kind = None
  BY DEF Pgs!Idle
<1>5. ASSUME NEW tb PROVE Protected(tb, Pgs!Idle)
  <2> DEFINE t == Pgs!Idle
  <2>1. t.step = "idle" /\ t.own = Pgs!Unwritten /\ t.kind = None
    BY <1>4
  <2> HIDE DEF t
  <2>2. Holds(t) = {} /\ ~Changing(t) /\ Finished(t) = {} /\ Pointed(t) = {} /\ ~Drafting(t)
      BY <2>1, RowsApart DEF Holds, Changing, Finished, Pointed, Drafting
  <2>3. OwnBy(tb, t) = Pgs!Unwritten
    BY <2>1, <2>2 DEF OwnBy, RowBy, RevBy, AuditBy, OutboxBy, Pgs!Unwritten
  <2>4. ReadLocked(tb, t)
    BY <2>1, <2>2, RowsApart DEF ReadLocked
  <2> QED BY <2>1, <2>2, <2>3, <2>4 DEF Protected, t
<1> QED BY <1>1, <1>2, <1>3, <1>4, <1>5

\* Nothing is stored at first.
LEMMA StatementsInit == Pgs!Init => StatementsInv
<1> SUFFICES ASSUME Pgs!Init PROVE StatementsInv
  OBVIOUS
<1>1. tables = Pgs!EmptyTables /\ minted = [r \in Revisions |-> Pgs!NoRow]
      /\ lock = [e \in Stored |-> None] /\ tx = [s \in Agents |-> Pgs!Idle]
  BY DEF Pgs!Init
<1>2. tables \in TablesType
  BY <1>1, IdleIs DEF Pgs!EmptyTables, TablesType, PointerType, LogType
<1>3. TablesSound(tables)
  <2>1. \A e \in Stored : tables.home[e] = None /\ \A r \in Revisions : tables.rev[r] = Pgs!NoRow
    BY <1>1 DEF Pgs!EmptyTables
  <2>2. \A e \in Stored : Pgs!NoRow.entry # e
    BY RowsApart DEF Pgs!NoRow
  <2> QED BY <2>1, <2>2 DEF TablesSound
<1>4. Minting
  BY <1>1, IdleIs DEF Minting, Pgs!EmptyTables
<1>5. \A s \in Agents : tx[s] = Pgs!Idle
  BY <1>1
<1>6. lock \in [Stored -> Agents \cup {None}] /\ tx \in [Agents -> TransactionType]
  BY <1>1, IdleIs
<1>7. Itself(Pgs!Idle) /\ Holds(Pgs!Idle) = {}
  BY IdleIs DEF Itself, Holds
<1> QED BY <1>2, <1>3, <1>4, <1>5, <1>6, <1>7, IdleIs DEF StatementsInv

\* A transaction that is undone releases its locks.
LEMMA RollbackStep ==
  ASSUME StatementsInv, NEW s \in Agents, Pgs!Rollback(s) PROVE StatementsInv'
<1>1. tx' = [tx EXCEPT ![s] = Pgs!Idle] /\ lock' = Pgs!Released(s) /\ tables' = tables /\ minted' = minted
  BY DEF Pgs!Rollback, Pgs!Goes, Pgs!Keeps
<1>2. lock' \in [Stored -> Agents \cup {None}]
      /\ \A e \in Stored : lock[e] \in Agents \ {s} => lock'[e] = lock[e]
  BY <1>1 DEF Pgs!Released, StatementsInv
<1>3. Itself(Pgs!Idle) /\ Holds(Pgs!Idle) = {}
  BY IdleIs DEF Itself, Holds
<1> QED BY <1>1, <1>2, <1>3, IdleIs, TransactionMoves

\* A transaction that begins has written and locked nothing.
LEMMA Begins ==
  ASSUME StatementsInv, NEW s \in Agents, NEW kind \in Kinds, NEW list \in Seq(Stored), NEW request \in TransactionType,
         request.own = Pgs!Unwritten, request.seq = 0, request.pinned = None, request.tail = <<>>,
         Pgs!Requested(s, kind, list, request), UNCHANGED <<tables, minted, lock>>,
         list # <<>>, Distinct(list), kind # "publishMany" => Len(list) = 1,
         request.rev # None <=> kind \in {"create", "update"},
         request.rev # None => minted[request.rev] = Pgs!NoRow /\ \A other \in Agents : tx[other].rev # request.rev,
         kind \in {"update", "publish"} => request.expectedDraft[list[1]] \in PointerType,
         kind = "publish" => request.target = request.expectedDraft,
         kind \in {"publish", "publishMany"} => \A e \in Listed(list) : request.target[e] \in Revisions
  PROVE  StatementsInv'
<1> DEFINE first == IF kind = "create" THEN "row" ELSE "lock"
           t == [request EXCEPT !.kind = kind, !.members = list, !.todo = list, !.step = first]
<1>1. tx' = [tx EXCEPT ![s] = t]
  BY DEF Pgs!Requested, Pgs!Goes
<1>2. first \in StepType
  BY DEF StepType
<1>3. /\ t \in TransactionType /\ t.step = first /\ t.kind = kind /\ t.members = list /\ t.todo = list
      /\ t.rev = request.rev /\ t.target = request.target /\ t.expectedDraft = request.expectedDraft
      /\ t.seq = request.seq /\ t.own = request.own
  <2> HIDE DEF first
  <2> QED BY <1>2 DEF TransactionType
<1> HIDE DEF t
<1>4. Asked(t) /\ Underway(t)
  BY <1>3 DEF Asked, Underway, Drafting
<1>5. Holds(t) = {} /\ ~Changing(t) /\ Finished(t) = {} /\ Pointed(t) = {}
  BY <1>3 DEF Holds, Changing, Finished, Pointed
<1>6. Protected(tables, t)
  <2>1. OwnBy(tables, t) = Pgs!Unwritten
    BY <1>3, <1>5 DEF OwnBy, RowBy, RevBy, AuditBy, OutboxBy, Pgs!Unwritten
  <2>2. ReadLocked(tables, t)
    BY <1>3, <1>5 DEF ReadLocked
  <2> QED BY <1>3, <1>5, <2>1, <2>2 DEF Protected
<1>7. lock' \in [Stored -> Agents \cup {None}] /\ lock' = lock
  BY DEF StatementsInv
<1>8. t.step # "idle"
  BY <1>3
<1>9. Itself(t)
  BY <1>4 DEF Itself
<1> QED BY <1>1, <1>3, <1>5, <1>6, <1>7, <1>8, <1>9, TransactionMoves

\* A list of one entry, and one of two.
LEMMA OneEntry ==
  ASSUME NEW e \in Stored
  PROVE  /\ <<e>> \in Seq(Stored) /\ <<e>> # <<>> /\ Distinct(<<e>>) /\ Len(<<e>>) = 1 /\ <<e>>[1] = e
         /\ Listed(<<e>>) = {e}
BY DEF Distinct, Listed

\* The members of a release of two entries.
LEMMA TwoEntries ==
  ASSUME NEW d \in Stored, NEW e \in Stored, d # e
  PROVE  /\ <<d, e>> \in Seq(Stored) /\ <<d, e>> # <<>> /\ Distinct(<<d, e>>)
         /\ Listed(<<d, e>>) = {d, e}
BY DEF Distinct, Listed

\* A connection that requests has asked for nothing yet.
LEMMA IdleAsks ==
  /\ Pgs!Idle.own = Pgs!Unwritten /\ Pgs!Idle.seq = 0 /\ Pgs!Idle.pinned = None /\ Pgs!Idle.tail = <<>>
  /\ Pgs!Idle.rev = None
BY DEF Pgs!Idle

\* What a client loaded of the tables.
LEMMA LoadedIs ==
  ASSUME StatementsInv
  PROVE  /\ tables.draft \in AskedType /\ tables.published \in AskedType
         /\ [e \in Stored |-> Pgs!Unchecked] \in AskedType
         /\ \A e \in Stored : tables.draft[e] \in PointerType
         /\ \A e \in Pgs!Present : e \in Stored /\ tables.draft[e] \in Revisions
         /\ \A r \in Pgs!Unused : r \in Revisions /\ minted[r] = Pgs!NoRow /\ \A s \in Agents : tx[s].rev # r
<1>1. tables \in TablesType /\ TablesSound(tables)
  BY DEF StatementsInv
<1>2. tables.draft \in [Stored -> PointerType] /\ tables.published \in [Stored -> PointerType]
  BY <1>1 DEF TablesType
<1>3. \A e \in Pgs!Present : e \in Stored /\ tables.draft[e] \in Revisions
  BY <1>1 DEF Pgs!Present, TablesSound
<1> QED BY <1>2, <1>3 DEF AskedType, Pgs!Unchecked, Pgs!Unused

\* A transaction creates an entry that is not there.
LEMMA CreateRequest ==
  ASSUME StatementsInv, NEW s \in Agents, NEW e \in Stored, Pgs!Unused # {}, UNCHANGED <<tables, minted, lock>>,
         Pgs!Requested(s, "create", <<e>>, [Pgs!Idle EXCEPT !.rev = CHOOSE r \in Pgs!Unused : TRUE])
  PROVE  StatementsInv'
<1> DEFINE r == CHOOSE x \in Pgs!Unused : TRUE
           q == [Pgs!Idle EXCEPT !.rev = r]
<1>1. r \in Pgs!Unused
  OBVIOUS
<1> HIDE DEF r
<1>2. r \in Revisions /\ r # None /\ r \in PointerType
  BY <1>1, LoadedIs, RowsApart DEF PointerType
<1>3. q \in TransactionType /\ q.rev = r /\ q.own = Pgs!Unwritten /\ q.seq = 0 /\ q.pinned = None /\ q.tail = <<>>
  BY <1>2, IdleIs, IdleAsks DEF TransactionType
<1>4. Pgs!Requested(s, "create", <<e>>, q)
  BY DEF r
<1> HIDE DEF q
<1>5. "create" \in Kinds
  BY DEF Kinds
<1>6. \A other \in Agents : tx[other].rev # q.rev
  BY <1>1, <1>3, LoadedIs
<1>7. minted[q.rev] = Pgs!NoRow
  BY <1>1, <1>3, LoadedIs
<1> QED BY <1>2, <1>3, <1>4, <1>5, <1>6, <1>7, OneEntry, Begins

\* A transaction deletes an entry.
LEMMA DeleteRequest ==
  ASSUME StatementsInv, NEW s \in Agents, NEW e \in Stored, UNCHANGED <<tables, minted, lock>>,
         Pgs!Requested(s, "delete", <<e>>, Pgs!Idle)
  PROVE  StatementsInv'
<1>1. "delete" \in Kinds
  BY DEF Kinds
<1> QED BY <1>1, IdleIs, IdleAsks, OneEntry, Begins

\* A transaction updates the draft that its request names.
LEMMA UpdateRequest ==
  ASSUME StatementsInv, NEW s \in Agents, NEW e \in Stored, Pgs!Unused # {}, UNCHANGED <<tables, minted, lock>>,
         Pgs!Requested(s, "update", <<e>>,
           [Pgs!Idle EXCEPT !.rev = CHOOSE r \in Pgs!Unused : TRUE, !.expectedDraft = tables.draft,
                            !.expectedPublished = [x \in Stored |-> Pgs!Unchecked]])
  PROVE  StatementsInv'
<1> DEFINE r == CHOOSE x \in Pgs!Unused : TRUE
           any == [x \in Stored |-> Pgs!Unchecked]
           q == [Pgs!Idle EXCEPT !.rev = r, !.expectedDraft = tables.draft, !.expectedPublished = any]
<1>1. r \in Pgs!Unused
  OBVIOUS
<1> HIDE DEF r
<1>2. r \in Revisions /\ r # None /\ r \in PointerType
  BY <1>1, LoadedIs, RowsApart DEF PointerType
<1>3. any \in AskedType /\ tables.draft \in AskedType
  BY LoadedIs
<1>4. /\ q \in TransactionType /\ q.rev = r /\ q.own = Pgs!Unwritten /\ q.seq = 0 /\ q.pinned = None
      /\ q.tail = <<>> /\ q.expectedDraft = tables.draft
  <2> HIDE DEF any
  <2> QED BY <1>2, <1>3, IdleIs, IdleAsks DEF TransactionType
<1>5. Pgs!Requested(s, "update", <<e>>, q)
  BY DEF r
<1> HIDE DEF q
<1>6. "update" \in Kinds
  BY DEF Kinds
<1>7. minted[q.rev] = Pgs!NoRow /\ \A other \in Agents : tx[other].rev # q.rev
  BY <1>1, <1>4, LoadedIs
<1>8. q.expectedDraft[<<e>>[1]] \in PointerType
  BY <1>4, LoadedIs, OneEntry
<1> QED BY <1>2, <1>4, <1>5, <1>6, <1>7, <1>8, OneEntry, Begins

\* A transaction publishes the draft that its request names.
LEMMA PublishRequest ==
  ASSUME StatementsInv, NEW s \in Agents, NEW e \in Pgs!Present, UNCHANGED <<tables, minted, lock>>,
         Pgs!Requested(s, "publish", <<e>>,
           [Pgs!Idle EXCEPT !.target = tables.draft, !.expectedDraft = tables.draft,
                            !.expectedPublished = [x \in Stored |-> Pgs!Unchecked]])
  PROVE  StatementsInv'
<1> DEFINE any == [x \in Stored |-> Pgs!Unchecked]
           q == [Pgs!Idle EXCEPT !.target = tables.draft, !.expectedDraft = tables.draft, !.expectedPublished = any]
<1>1. any \in AskedType /\ tables.draft \in AskedType
  BY LoadedIs
<1>2. /\ q \in TransactionType /\ q.rev = None /\ q.own = Pgs!Unwritten /\ q.seq = 0 /\ q.pinned = None
      /\ q.tail = <<>> /\ q.expectedDraft = tables.draft /\ q.target = tables.draft
  <2> HIDE DEF any
  <2> QED BY <1>1, IdleIs, IdleAsks DEF TransactionType
<1>3. Pgs!Requested(s, "publish", <<e>>, q)
  OBVIOUS
<1> HIDE DEF q
<1>4. "publish" \in Kinds
  BY DEF Kinds
<1>5. e \in Stored /\ tables.draft[e] \in Revisions
  BY LoadedIs
<1>6. q.expectedDraft[<<e>>[1]] \in PointerType
  BY <1>2, <1>5, LoadedIs, OneEntry
<1>7. \A x \in Listed(<<e>>) : q.target[x] \in Revisions
  BY <1>2, <1>5, OneEntry
<1>8. q.target = q.expectedDraft
  BY <1>2
<1>9. <<e>> \in Seq(Stored) /\ <<e>> # <<>> /\ Distinct(<<e>>) /\ Len(<<e>>) = 1
  BY <1>5, OneEntry
<1> QED
  <2> DEFINE list == <<e>>
  <2>1. list[1] = <<e>>[1]
    OBVIOUS
  <2> HIDE DEF list
  <2> QED BY <1>2, <1>3, <1>4, <1>6, <1>7, <1>8, <1>9, Begins DEF list

\* The members of a release are entries, each once.
LEMMA OrderedMembers ==
  ASSUME NEW es \in SUBSET Stored, NEW list \in Pgs!Orders(es)
  PROVE  list \in Seq(Stored) /\ list # <<>> /\ Distinct(list) /\ Listed(list) \subseteq es
<1>1. CASE \E e \in es : list = <<e>>
  BY <1>1, OneEntry
<1>2. CASE \E p \in es \X es : p[1] # p[2] /\ list = p
  <2>1. PICK d \in es, e \in es : d # e /\ list = <<d, e>>
    BY <1>2
  <2> QED BY <2>1, TwoEntries
<1> QED BY <1>1, <1>2 DEF Pgs!Orders

\* A transaction publishes the drafts of a release.
LEMMA ReleaseRequest ==
  ASSUME StatementsInv, NEW s \in Agents, NEW list \in Pgs!Orders(Pgs!Present), UNCHANGED <<tables, minted, lock>>,
         Pgs!Requested(s, "publishMany", list,
           [Pgs!Idle EXCEPT !.target = tables.draft, !.expectedDraft = tables.draft,
                            !.expectedPublished = tables.published])
  PROVE  StatementsInv'
<1> DEFINE q == [Pgs!Idle EXCEPT !.target = tables.draft, !.expectedDraft = tables.draft,
                                 !.expectedPublished = tables.published]
<1>1. tables.published \in AskedType /\ tables.draft \in AskedType
  BY LoadedIs
<1>2. /\ q \in TransactionType /\ q.rev = None /\ q.own = Pgs!Unwritten /\ q.seq = 0 /\ q.pinned = None
      /\ q.tail = <<>> /\ q.target = tables.draft
  BY <1>1, IdleIs, IdleAsks DEF TransactionType
<1>3. Pgs!Requested(s, "publishMany", list, q)
  OBVIOUS
<1> HIDE DEF q
<1>4. "publishMany" \in Kinds
  BY DEF Kinds
<1>5. list \in Seq(Stored) /\ list # <<>> /\ Distinct(list) /\ Listed(list) \subseteq Pgs!Present
  <2>1. Pgs!Present \in SUBSET Stored
    BY DEF Pgs!Present
  <2> QED BY <2>1, OrderedMembers
<1>6. \A x \in Listed(list) : q.target[x] \in Revisions
  BY <1>2, <1>5, LoadedIs
<1> QED BY <1>2, <1>3, <1>4, <1>5, <1>6, Begins

\* A transaction publishes again what a release had replaced.
LEMMA RollbackRequest ==
  ASSUME StatementsInv, NEW s \in Agents, NEW list \in Pgs!Orders(Pgs!Present),
         NEW earlier \in [Stored -> Revisions \cup {None}], UNCHANGED <<tables, minted, lock>>,
         \A e \in Stored : IF e \in Pgs!ToSet(list) THEN earlier[e] \in Pgs!Earlier(e) ELSE earlier[e] = None,
         Pgs!Requested(s, "publishMany", list,
           [Pgs!Idle EXCEPT !.target = earlier, !.expectedPublished = tables.published,
                            !.expectedDraft = [e \in Stored |-> Pgs!Unchecked]])
  PROVE  StatementsInv'
<1> DEFINE any == [x \in Stored |-> Pgs!Unchecked]
           q == [Pgs!Idle EXCEPT !.target = earlier, !.expectedPublished = tables.published, !.expectedDraft = any]
<1>1. tables.published \in AskedType /\ earlier \in AskedType /\ any \in AskedType
  BY LoadedIs DEF AskedType, PointerType
<1>2. /\ q \in TransactionType /\ q.rev = None /\ q.own = Pgs!Unwritten /\ q.seq = 0 /\ q.pinned = None
      /\ q.tail = <<>> /\ q.target = earlier
  <2> HIDE DEF any
  <2> QED BY <1>1, IdleIs, IdleAsks DEF TransactionType
<1>3. Pgs!Requested(s, "publishMany", list, q)
  OBVIOUS
<1> HIDE DEF q
<1>4. "publishMany" \in Kinds
  BY DEF Kinds
<1>5. list \in Seq(Stored) /\ list # <<>> /\ Distinct(list) /\ Listed(list) \subseteq Stored
  <2>1. Pgs!Present \in SUBSET Stored
    BY DEF Pgs!Present
  <2> QED BY <2>1, OrderedMembers
<1>6. \A x \in Listed(list) : q.target[x] \in Revisions
  BY <1>2, <1>5 DEF Listed, Pgs!ToSet, Pgs!Earlier
<1> QED BY <1>2, <1>3, <1>4, <1>5, <1>6, Begins

\* A request begins a transaction that has locked and written nothing.
LEMMA RequestStep ==
  ASSUME StatementsInv, NEW s \in Agents, NEW es \in SUBSET Stored, NEW rows, Pgs!Request(s, es, rows)
  PROVE  StatementsInv'
<1>1. UNCHANGED <<tables, minted, lock>>
  BY DEF Pgs!Request
<1>2. \A list \in Pgs!Orders(es \cap Pgs!Present) : list \in Pgs!Orders(Pgs!Present)
  BY DEF Pgs!Orders
<1>3. Pgs!Present \subseteq Stored
  BY DEF Pgs!Present
<1> QED
  BY <1>1, <1>2, <1>3, CreateRequest, DeleteRequest, UpdateRequest, PublishRequest, ReleaseRequest, RollbackRequest
     DEF Pgs!Request

\* The same request, in another state of its transaction.
SameRequest(n, t) ==
  /\ n.kind = t.kind /\ n.members = t.members /\ n.rev = t.rev /\ n.target = t.target
  /\ n.expectedDraft = t.expectedDraft /\ n.expectedPublished = t.expectedPublished

\* A statement of a transaction that goes on.
LEMMA Continues ==
  ASSUME StatementsInv, NEW s \in Agents, NEW n \in TransactionType, SameRequest(n, tx[s]), tx[s].step # "idle",
         n.step # "idle", tx' = [tx EXCEPT ![s] = n], tables' = tables, minted' = minted,
         NEW e \in Stored, lock[e] \in {None, s}, lock' \in {lock, [lock EXCEPT ![e] = s]},
         Underway(n), ReadLocked(tables, n), n.own = OwnBy(tables, n),
         \A x \in Holds(n) : lock'[x] = s /\ FoundLocked(tables, tx[s], x)
  PROVE  StatementsInv'
<1>1. Asked(tx[s])
  BY DEF StatementsInv, Itself
<1>2. Asked(n)
  BY <1>1 DEF Asked, SameRequest, Drafting
<1>3. Itself(n)
  BY <1>2 DEF Itself
<1>4. ASSUME NEW x \in Holds(n) PROVE FoundLocked(tables, n, x)
  BY <1>4 DEF FoundLocked, SameRequest
<1>5. Protected(tables, n)
  BY <1>4 DEF Protected
<1>6. lock' \in [Stored -> Agents \cup {None}]
      /\ \A x \in Stored : lock[x] \in Agents \ {s} => lock'[x] = lock[x]
  BY NoneApart DEF StatementsInv
<1>7. n.rev # None => minted[n.rev] = Pgs!NoRow /\ \A other \in Agents \ {s} : tx[other].rev # n.rev
  BY DEF SameRequest, StatementsInv, Minting
<1>8. \A x \in Holds(n) : lock'[x] = s
  OBVIOUS
<1> QED BY <1>3, <1>5, <1>6, <1>7, <1>8, TransactionMoves

\* What is known of a transaction that is under way.
LEMMA UnderwayIs ==
  ASSUME StatementsInv, NEW s \in Agents, tx[s].step # "idle"
  PROVE  /\ tx[s] \in TransactionType /\ Asked(tx[s]) /\ Underway(tx[s]) /\ Protected(tables, tx[s])
         /\ tx[s].members \in Seq(Stored) /\ tx[s].todo \in Seq(Stored) /\ tx[s].kind \in Kinds
         /\ tables \in TablesType /\ TablesSound(tables)
         /\ \A e \in Holds(tx[s]) : lock[e] = s /\ FoundLocked(tables, tx[s], e)
         /\ tx[s].own = OwnBy(tables, tx[s])
BY DEF StatementsInv, Itself, Asked, Protected, TransactionType

\* Before its first write it sees what is committed.
LEMMA NothingYet ==
  ASSUME NEW t \in TransactionType, NEW tb, t.step \in {"row", "lock", "wait", "number", "remove"},
         t.step = "remove" => t.kind = "delete"
  PROVE  OwnBy(tb, t) = Pgs!Unwritten
<1>1. ~Changing(t) /\ Finished(t) = {} /\ Pointed(t) = {}
  BY DEF Changing, Finished, Pointed
<1> QED BY <1>1 DEF OwnBy, RowBy, RevBy, AuditBy, OutboxBy, Pgs!Unwritten

\* A transaction that has written nothing sees the tables as they are.
LEMMA SeesTables ==
  ASSUME StatementsInv, NEW s \in Agents, tx[s].step \in {"row", "lock", "wait", "number", "remove"}
  PROVE  Pgs!View(s) = tables /\ tx[s].own = Pgs!Unwritten
<1>1. /\ tx[s] \in TransactionType /\ tx[s].own = OwnBy(tables, tx[s]) /\ tables \in TablesType
      /\ tx[s].step = "remove" => tx[s].kind = "delete"
  BY UnderwayIs DEF Underway
<1>2. tx[s].own = Pgs!Unwritten
  BY <1>1, NothingYet
<1> QED BY <1>1, <1>2, NothingWritten DEF Pgs!View

\* A lock that was got; or the request is refused.
LEMMA ReturnedStep ==
  ASSUME StatementsInv, NEW s \in Agents, NEW e, e = Pgs!Member(s), tx[s].step \in {"lock", "wait"},
         tables.home[e] # None, lock[e] \in {None, s}, Pgs!Returned(s, e)
  PROVE  StatementsInv'
<1> DEFINE t == tx[s]
<1>1. /\ t \in TransactionType /\ Asked(t) /\ Underway(t) /\ Protected(tables, t) /\ t.todo \in Seq(Stored)
      /\ t.members \in Seq(Stored) /\ t.kind \in Kinds /\ t.own = Pgs!Unwritten /\ Pgs!View(s) = tables
      /\ tables \in TablesType /\ t.kind # "create"
      /\ \A x \in Holds(t) : lock[x] = s /\ FoundLocked(tables, t, x)
  BY UnderwayIs, SeesTables DEF Underway
<1>2. /\ Distinct(t.todo) /\ t.todo # <<>> /\ Listed(t.todo) \subseteq Listed(t.members) /\ e = Head(t.todo)
  BY <1>1 DEF Underway, Pgs!Member
<1>3. /\ e \in Listed(t.todo) /\ e \in Stored /\ Tail(t.todo) \in Seq(Stored) /\ Distinct(Tail(t.todo))
      /\ Listed(Tail(t.todo)) = Listed(t.todo) \ {e} /\ (Len(t.todo) > 1 <=> Tail(t.todo) # <<>>)
  BY <1>1, <1>2, ListStep
<1>4. CASE Pgs!Rollback(s)
  BY <1>4, RollbackStep
<1>5. CASE ~Pgs!Rollback(s)
  <2>1. t.kind = "delete" \/ (Pgs!Expected(s, e) /\ Pgs!HasTarget(s, e))
    BY <1>5 DEF Pgs!Returned
  <2>2. lock' = [lock EXCEPT ![e] = s] /\ tables' = tables /\ minted' = minted
    BY <1>5, <2>1 DEF Pgs!Returned, Pgs!Locked, Pgs!Keeps
  <2>3. FoundLocked(tables, t, e)
    <3>1. tables.home[e] = "scope"
      BY <1>1, <1>3 DEF TablesType
    <3> QED BY <3>1, <2>1, <1>1 DEF FoundLocked, Pgs!Expected, Pgs!HasTarget, Pgs!Unchecked
  <2>4. Holds(t) = Listed(t.members) \ Listed(t.todo)
    BY DEF Holds
  <2>5. \A x \in Holds(t) \cup {e} : lock'[x] = s /\ FoundLocked(tables, t, x)
    <3>1. Holds(t) \subseteq Stored
      BY <2>4, <1>1 DEF Listed
    <3> QED BY <1>1, <1>3, <2>2, <2>3, <3>1 DEF StatementsInv
  <2>6. CASE Len(t.todo) > 1
    <3> DEFINE n == [t EXCEPT !.todo = Tail(@), !.step = "lock", !.pinned = None]
    <3>1. tx' = [tx EXCEPT ![s] = n]
      BY <1>5, <2>1, <2>6 DEF Pgs!Returned, Pgs!Goes
    <3>2. /\ n \in TransactionType /\ SameRequest(n, t) /\ n.todo = Tail(t.todo) /\ n.step = "lock"
          /\ n.own = t.own /\ n.seq = t.seq
      BY <1>1, <1>3 DEF TransactionType, StepType, PointerType, SameRequest
    <3> HIDE DEF n, t
    <3>3. Underway(n)
      BY <1>1, <1>2, <1>3, <2>6, <3>2 DEF Underway, SameRequest
    <3>4. ReadLocked(tables, n)
      BY <1>1, <3>2 DEF ReadLocked, SameRequest, Changing
    <3>5. n.own = OwnBy(tables, n)
      BY <1>1, <3>2, NothingYet
    <3>6. Holds(n) \subseteq Holds(t) \cup {e}
      BY <3>2, <1>3, <2>4 DEF Holds, SameRequest
    <3> QED BY <1>3, <2>2, <2>5, <3>1, <3>2, <3>3, <3>4, <3>5, <3>6, Continues DEF t
  <2>7. CASE ~(Len(t.todo) > 1)
    <3> DEFINE after == Pgs!AfterLocks[t.kind]
               n == [t EXCEPT !.todo = t.members, !.pinned = None, !.step = after]
    <3>1. tx' = [tx EXCEPT ![s] = n]
      BY <1>5, <2>1, <2>7 DEF Pgs!Returned, Pgs!Goes
    <3>2. /\ after \in {"number", "point", "remove"}
          /\ after = "number" <=> t.kind = "update"
          /\ after = "remove" <=> t.kind = "delete"
      BY <1>1 DEF Pgs!AfterLocks, Kinds
    <3> HIDE DEF after
    <3>3. /\ n \in TransactionType /\ SameRequest(n, t) /\ n.todo = t.members /\ n.step = after
          /\ n.own = t.own /\ n.seq = t.seq
      BY <1>1, <3>2 DEF TransactionType, StepType, PointerType, SameRequest
    <3> HIDE DEF n, t
    <3>4. Underway(n)
      BY <1>1, <3>2, <3>3 DEF Underway, SameRequest, Asked
    <3>5. ReadLocked(tables, n)
      BY <1>1, <3>2, <3>3 DEF ReadLocked, SameRequest, Changing
    <3>6. Finished(n) = {} /\ Pointed(n) = {}
      BY <3>2, <3>3 DEF Finished, Pointed, SameRequest
    <3>7. OwnBy(tables, n) = Pgs!Unwritten
      <4>1. ~Drafting(n) \/ ~Changing(n)
        BY <1>1, <3>2, <3>3 DEF Drafting, Changing, SameRequest
      <4>2. n.kind # "create" /\ n.step # "commit"
        BY <1>1, <3>2, <3>3 DEF SameRequest
      <4> QED BY <3>6, <4>1, <4>2 DEF OwnBy, RowBy, RevBy, AuditBy, OutboxBy, Pgs!Unwritten
    <3>8. Holds(n) \subseteq Holds(t) \cup {e}
      <4>1. Listed(Tail(t.todo)) = {}
        BY <1>3, <2>7 DEF Listed
      <4>2. Listed(t.todo) = {e}
        BY <4>1, <1>3
      <4> QED BY <3>2, <3>3, <4>2, <2>4 DEF Holds, SameRequest
    <3> QED BY <1>1, <1>3, <2>2, <2>5, <3>1, <3>2, <3>3, <3>4, <3>5, <3>7, <3>8, Continues DEF t
  <2> QED BY <2>6, <2>7
<1> QED BY <1>4, <1>5

\* An entry that is free is locked as it was read; another is waited for.
LEMMA LockStep == ASSUME StatementsInv, NEW s \in Agents, Pgs!Lock(s) PROVE StatementsInv'
<1> DEFINE t == tx[s]
           e == Pgs!Member(s)
<1>1. t.step = "lock"
  BY DEF Pgs!Lock
<1>2. CASE tables.home[e] = None
  BY <1>2, RollbackStep DEF Pgs!Lock
<1>3. CASE tables.home[e] # None /\ lock[e] \in {None, s}
  BY <1>1, <1>3, ReturnedStep DEF Pgs!Lock
<1>4. CASE tables.home[e] # None /\ lock[e] \notin {None, s}
  <2> DEFINE n == [t EXCEPT !.step = "wait", !.pinned = tables.draft[e]]
  <2>1. tx' = [tx EXCEPT ![s] = n] /\ tables' = tables /\ minted' = minted /\ lock' = lock
    BY <1>4 DEF Pgs!Lock, Pgs!Goes
  <2>2. /\ t \in TransactionType /\ Asked(t) /\ Underway(t) /\ Protected(tables, t) /\ t.todo \in Seq(Stored)
        /\ tables \in TablesType /\ t.own = Pgs!Unwritten
        /\ \A x \in Holds(t) : lock[x] = s
    BY <1>1, UnderwayIs, SeesTables
  <2>3. e \in Stored
    BY <1>1, <2>2, ListStep DEF Underway, Pgs!Member
  <2>4. tables.draft[e] \in PointerType
    BY <2>2, <2>3 DEF TablesType
  <2>5. /\ n \in TransactionType /\ SameRequest(n, t) /\ n.todo = t.todo /\ n.step = "wait"
        /\ n.own = t.own /\ n.seq = t.seq
    <3> HIDE DEF e
    <3> QED BY <2>2, <2>4 DEF TransactionType, StepType, SameRequest
  <2> HIDE DEF n
  <2>6. Holds(n) = Holds(t) /\ Asked(n) /\ Underway(n)
    BY <2>2, <2>5, <1>1 DEF Holds, Asked, Underway, SameRequest, Drafting
  <2>7. Protected(tables, n)
    <3>1. OwnBy(tables, n) = Pgs!Unwritten
      BY <2>5, NothingYet
    <3>2. \A x \in Holds(n) : FoundLocked(tables, n, x)
      BY <2>2, <2>5, <2>6 DEF Protected, FoundLocked, SameRequest
    <3>3. ReadLocked(tables, n)
      BY <2>2, <2>5, <1>1 DEF Protected, ReadLocked, SameRequest, Changing
    <3> QED BY <2>2, <2>5, <3>1, <3>2, <3>3 DEF Protected
  <2>8. n.rev # None => minted[n.rev] = Pgs!NoRow /\ \A other \in Agents \ {s} : tx[other].rev # n.rev
    BY <2>5 DEF SameRequest, StatementsInv, Minting
  <2>9. lock' \in [Stored -> Agents \cup {None}]
    BY <2>1 DEF StatementsInv
  <2> QED BY <2>1, <2>2, <2>5, <2>6, <2>7, <2>8, <2>9, TransactionMoves DEF Itself
<1> QED BY <1>2, <1>3, <1>4

\* An entry that was waited for is read again.
LEMMA ResumeStep == ASSUME StatementsInv, NEW s \in Agents, Pgs!Resume(s) PROVE StatementsInv'
<1>1. CASE Pgs!Found(s, Pgs!Member(s))
  BY <1>1, ReturnedStep DEF Pgs!Resume, Pgs!Found
<1>2. CASE ~Pgs!Found(s, Pgs!Member(s))
  BY <1>2, RollbackStep DEF Pgs!Resume
<1> QED BY <1>1, <1>2

\* A request about one entry.
LEMMA Alone ==
  ASSUME NEW list \in Seq(Stored), Len(list) = 1
  PROVE  Listed(list) = {list[1]} /\ Head(list) = list[1] /\ list[1] \in Stored /\ Tail(list) = <<>>
<1>1. DOMAIN list = {1} /\ Head(list) = list[1] /\ list[1] \in Stored
  OBVIOUS
<1>2. Tail(list) \in Seq(Stored) /\ Len(Tail(list)) = 0
  OBVIOUS
<1>3. Tail(list) = <<>>
  <2> DEFINE rest == Tail(list)
  <2>1. rest \in Seq(Stored) /\ Len(rest) = 0
    BY <1>2
  <2> HIDE DEF rest
  <2>2. rest = <<>>
    BY <2>1, EmptySeq
  <2> QED BY <2>2 DEF rest
<1> QED BY <1>1, <1>3 DEF Listed

\* What a transaction has written, after it wrote one more row of an entry.
LEMMA RowWritten ==
  ASSUME NEW tb, NEW t, NEW n, NEW e \in Stored, NEW row,
         row = RowBy(tb, n, e), \A x \in Stored \ {e} : RowBy(tb, n, x) = RowBy(tb, t, x),
         \A r \in Revisions : RevBy(n, r) = RevBy(t, r),
         \A x \in Stored : AuditBy(tb, n, x) = AuditBy(tb, t, x) /\ OutboxBy(n, x) = OutboxBy(t, x)
  PROVE  [OwnBy(tb, t) EXCEPT !.row[e] = row] = OwnBy(tb, n)
<1> DEFINE rows == [x \in Stored |-> RowBy(tb, t, x)]
           later == [x \in Stored |-> RowBy(tb, n, x)]
           revs == [r \in Revisions |-> RevBy(t, r)]
           logs == [x \in Stored |-> AuditBy(tb, t, x)]
           outs == [x \in Stored |-> OutboxBy(t, x)]
<1>1. [rows EXCEPT ![e] = row] = later
  OBVIOUS
<1>2. OwnBy(tb, t) = [row |-> rows, rev |-> revs, audit |-> logs, outbox |-> outs]
  BY DEF OwnBy
<1>3. OwnBy(tb, n) = [row |-> later, rev |-> revs, audit |-> logs, outbox |-> outs]
  BY DEF OwnBy
<1> HIDE DEF rows, later, revs, logs, outs
<1>4. [OwnBy(tb, t) EXCEPT !.row[e] = row] = [row |-> [rows EXCEPT ![e] = row], rev |-> revs, audit |-> logs, outbox |-> outs]
  BY <1>2
<1> QED BY <1>1, <1>3, <1>4

\* The row of a new entry is locked as it is inserted.
LEMMA RowStep == ASSUME StatementsInv, NEW s \in Agents, Pgs!Row(s) PROVE StatementsInv'
<1> DEFINE t == tx[s]
           e == Pgs!Member(s)
           row == [home |-> Pgs!Scope, draft |-> None, published |-> None]
<1>1. /\ t.step = "row" /\ t \in TransactionType /\ Asked(t) /\ Underway(t) /\ t.members \in Seq(Stored)
      /\ t.own = OwnBy(tables, t) /\ t.own \in OwnType /\ Protected(tables, t) /\ lock[e] = None
  BY UnderwayIs DEF Pgs!Row, TransactionType
<1>2. t.kind = "create" /\ t.todo = t.members /\ Len(t.members) = 1
  BY <1>1 DEF Underway, Asked
<1>3. e \in Stored /\ Listed(t.members) = {e} /\ e = t.members[1]
  BY <1>1, <1>2, Alone DEF Pgs!Member
<1>4. CASE tables.home[e] # None
  BY <1>4, RollbackStep DEF Pgs!Row
<1>5. CASE tables.home[e] = None
  <2> DEFINE w == [t.own EXCEPT !.row[e] = row]
             n == [t EXCEPT !.step = "insert", !.own = w]
  <2>1. tx' = [tx EXCEPT ![s] = n] /\ lock' = [lock EXCEPT ![e] = s] /\ tables' = tables /\ minted' = minted
    BY <1>5 DEF Pgs!Row, Pgs!Goes, Pgs!Keeps
  <2>2. row \in RowType
    BY DEF RowType, PointerType, Pgs!Scope
  <2>3. w \in OwnType
    <3> HIDE DEF row, e
    <3> QED BY <1>1, <2>2 DEF OwnType
  <2>4. /\ n \in TransactionType /\ SameRequest(n, t) /\ n.step = "insert" /\ n.todo = t.todo /\ n.seq = t.seq
        /\ n.own = w
    <3> HIDE DEF w
    <3> QED BY <1>1, <2>3 DEF TransactionType, StepType, SameRequest
  <2> HIDE DEF n
  <2>5. Underway(n)
    BY <1>1, <1>2, <2>4 DEF Underway, SameRequest, Drafting
  <2>6. ReadLocked(tables, n)
    BY <1>1, <1>2, <2>4 DEF Protected, ReadLocked, SameRequest, Changing
  <2>7. n.own = OwnBy(tables, n)
    <3>1. ~Changing(n) /\ Finished(n) = {} /\ Pointed(n) = {} /\ ~Changing(t) /\ Finished(t) = {} /\ Pointed(t) = {}
      BY <1>1, <2>4 DEF Changing, Finished, Pointed
    <3>2. row = RowBy(tables, n, e) /\ \A x \in Stored \ {e} : RowBy(tables, n, x) = RowBy(tables, t, x)
      BY <1>1, <1>2, <1>3, <2>4, <3>1 DEF RowBy, SameRequest, Pgs!Scope
    <3>3. /\ \A r \in Revisions : RevBy(n, r) = RevBy(t, r)
          /\ \A x \in Stored : AuditBy(tables, n, x) = AuditBy(tables, t, x) /\ OutboxBy(n, x) = OutboxBy(t, x)
      BY <3>1 DEF RevBy, AuditBy, OutboxBy
    <3> HIDE DEF row, e, t, n
    <3>4. [OwnBy(tables, t) EXCEPT !.row[e] = row] = OwnBy(tables, n)
      BY <1>3, <3>2, <3>3, RowWritten
    <3>5. w = [OwnBy(tables, t) EXCEPT !.row[e] = row]
      BY <1>1
    <3> QED BY <2>4, <3>4, <3>5
  <2>8. \A x \in Holds(n) : lock'[x] = s /\ FoundLocked(tables, t, x)
    BY <1>2, <1>3, <1>5, <2>1, <2>4 DEF Holds, SameRequest, FoundLocked, StatementsInv
  <2> QED BY <1>1, <1>3, <2>1, <2>4, <2>5, <2>6, <2>7, <2>8, Continues
<1> QED BY <1>4, <1>5

\* The number of a revision follows that of the draft, which is the latest.
LEMMA NumberStep == ASSUME StatementsInv, NEW s \in Agents, Pgs!Number(s) PROVE StatementsInv'
<1> DEFINE t == tx[s]
           e == Pgs!Member(s)
           seqs == {tables.rev[r].seq : r \in {x \in Revisions : tables.rev[x].entry = e}}
           top == CHOOSE m \in seqs \cup {0} : \A k \in seqs : k <= m
           n == [t EXCEPT !.step = "insert", !.seq = top]
<1>1. /\ t.step = "number" /\ t \in TransactionType /\ Asked(t) /\ Underway(t) /\ t.members \in Seq(Stored)
      /\ t.own = OwnBy(tables, t) /\ Protected(tables, t) /\ Pgs!View(s) = tables /\ t.own = Pgs!Unwritten
      /\ tables \in TablesType /\ TablesSound(tables)
      /\ \A x \in Holds(t) : lock[x] = s /\ FoundLocked(tables, t, x)
  BY UnderwayIs, SeesTables DEF Pgs!Number
<1>2. t.kind = "update" /\ t.todo = t.members /\ Len(t.members) = 1
  BY <1>1 DEF Underway, Asked
<1>3. e \in Stored /\ Listed(t.members) = {e} /\ e = t.members[1]
  BY <1>1, <1>2, Alone DEF Pgs!Member
<1>4. Holds(t) = {e} /\ lock[e] = s /\ FoundLocked(tables, t, e)
  BY <1>1, <1>3 DEF Holds
<1>5. top = tables.rev[tables.draft[e]].seq /\ top \in Nat
  <2> DEFINE d == tables.draft[e]
  <2>1. d \in Revisions /\ tables.rev[d].entry = e /\ \A r \in Revisions : tables.rev[r].entry = e => tables.rev[r].seq <= tables.rev[d].seq
    <3>1. tables.home[e] = "scope" /\ "scope" # None
      BY <1>2, <1>4, RowsApart DEF FoundLocked
    <3>2. TablesSound(tables)
      BY <1>1
    <3> QED BY <1>3, <3>1, <3>2 DEF TablesSound
  <2>2. \A r \in Revisions : tables.rev[r].seq \in Nat
    BY <1>1 DEF TablesType, Pgs!Store!RevRow
  <2> HIDE DEF d
  <2>3. tables.rev[d].seq \in seqs /\ seqs \subseteq Nat /\ \A k \in seqs : k <= tables.rev[d].seq
    BY <2>1, <2>2
  <2> HIDE DEF seqs
  <2>4. top \in seqs \cup {0} /\ \A k \in seqs : k <= top
    BY <2>3
  <2> HIDE DEF top
  <2>5. top \in Nat /\ tables.rev[d].seq <= top /\ tables.rev[d].seq \in Nat
    <3>1. tables.rev[d].seq \in Nat
      BY <2>3
    <3>2. top \in Nat
      BY <2>3, <2>4
    <3>3. tables.rev[d].seq <= top
      BY <2>3, <2>4
    <3> QED BY <3>1, <3>2, <3>3
  <2>6. top \in seqs => top <= tables.rev[d].seq
    BY <2>3
  <2> QED BY <2>4, <2>5, <2>6 DEF d
<1>6. tx' = [tx EXCEPT ![s] = n] /\ UNCHANGED <<tables, minted, lock>>
  BY <1>1 DEF Pgs!Number, Pgs!Goes
<1> HIDE DEF top
<1>7. /\ n \in TransactionType /\ SameRequest(n, t) /\ n.step = "insert" /\ n.todo = t.todo /\ n.seq = top
      /\ n.own = t.own
  BY <1>1, <1>5 DEF TransactionType, StepType, SameRequest
<1> HIDE DEF n
<1>8. Underway(n)
  BY <1>1, <1>2, <1>7 DEF Underway, SameRequest, Drafting
<1>9. ReadLocked(tables, n)
  BY <1>2, <1>3, <1>5, <1>7 DEF ReadLocked, SameRequest
<1>10. n.own = OwnBy(tables, n)
  <2>1. ~Changing(n) /\ Finished(n) = {} /\ Pointed(n) = {} /\ n.kind = "update"
    BY <1>2, <1>7 DEF Changing, Finished, Pointed, SameRequest
  <2> QED BY <2>1, <1>1, <1>7 DEF OwnBy, RowBy, RevBy, AuditBy, OutboxBy, Pgs!Unwritten
<1>11. \A x \in Holds(n) : lock'[x] = s /\ FoundLocked(tables, t, x)
  BY <1>3, <1>4, <1>6, <1>7 DEF Holds, SameRequest
<1> QED BY <1>1, <1>3, <1>4, <1>6, <1>7, <1>8, <1>9, <1>10, <1>11, Continues

\* A revision is inserted after the latest one of its entry.
LEMMA InsertStep == ASSUME StatementsInv, NEW s \in Agents, Pgs!Insert(s) PROVE StatementsInv'
<1> DEFINE t == tx[s]
           e == Pgs!Member(s)
           base == IF t.kind = "create" THEN None ELSE t.expectedDraft[e]
           next == t.seq + 1
           new == [entry |-> e, seq |-> next, base |-> base]
           w == [t.own EXCEPT !.rev[t.rev] = new]
           n == [t EXCEPT !.step = "point", !.own = w]
<1>1. /\ t.step = "insert" /\ t \in TransactionType /\ Asked(t) /\ Underway(t) /\ t.members \in Seq(Stored)
      /\ t.own = OwnBy(tables, t) /\ t.own \in OwnType /\ Protected(tables, t)
      /\ \A x \in Holds(t) : lock[x] = s /\ FoundLocked(tables, t, x)
  BY UnderwayIs DEF Pgs!Insert, TransactionType
<1>2. /\ t.kind \in {"create", "update"} /\ t.todo = t.members /\ Len(t.members) = 1 /\ t.rev # None /\ t.rev \in Revisions
      /\ Drafting(t)
  BY <1>1 DEF Underway, Asked, Drafting, TransactionType, PointerType
<1>3. e \in Stored /\ Listed(t.members) = {e} /\ e = t.members[1]
  BY <1>1, <1>2, Alone DEF Pgs!Member
<1>4. Holds(t) = {e} /\ lock[e] = s /\ FoundLocked(tables, t, e)
  BY <1>1, <1>3 DEF Holds
<1>5. CASE Pgs!Rollback(s)
  BY <1>5, RollbackStep
<1>6. CASE ~Pgs!Rollback(s)
  <2>1. tx' = [tx EXCEPT ![s] = n] /\ UNCHANGED <<tables, minted, lock>>
    BY <1>6 DEF Pgs!Insert, Pgs!Goes
  <2>2. new \in Pgs!Store!RevRow
    <3>1. base \in PointerType /\ next \in Nat
      BY <1>1, <1>2, <1>3 DEF Asked, PointerType, TransactionType
    <3> HIDE DEF base, next
    <3> QED BY <1>3, <3>1 DEF Pgs!Store!RevRow, PointerType
  <2>3. w \in OwnType
    <3> HIDE DEF new, e
    <3> QED BY <1>1, <1>2, <2>2 DEF OwnType
  <2>4. /\ n \in TransactionType /\ SameRequest(n, t) /\ n.step = "point" /\ n.todo = t.todo /\ n.seq = t.seq
        /\ n.own = w
    <3> HIDE DEF w
    <3> QED BY <1>1, <2>3 DEF TransactionType, StepType, SameRequest
  <2>5. Underway(n)
    <3> HIDE DEF n
    <3> QED BY <1>1, <1>2, <2>4 DEF Underway, SameRequest
  <2>6. ReadLocked(tables, n)
    <3> HIDE DEF n
    <3> QED BY <1>1, <1>2, <2>4 DEF Protected, ReadLocked, SameRequest
  <2>7. n.own = OwnBy(tables, n)
    <3> HIDE DEF n
    <3>1. /\ Changing(n) /\ Finished(n) = {} /\ Pointed(n) = {} /\ ~Changing(t) /\ Finished(t) = {} /\ Pointed(t) = {}
          /\ Drafting(n)
      BY <1>1, <1>2, <2>4 DEF Changing, Finished, Pointed, Drafting, SameRequest
    <3>2. \A x \in Stored : RowBy(tables, n, x) = RowBy(tables, t, x)
      BY <1>1, <1>2, <2>4, <3>1 DEF RowBy, SameRequest
    <3>3. \A x \in Stored : AuditBy(tables, n, x) = AuditBy(tables, t, x) /\ OutboxBy(n, x) = OutboxBy(t, x)
      BY <3>1 DEF AuditBy, OutboxBy
    <3>4. RevBy(n, t.rev) = new
      BY <1>3, <2>4, <3>1 DEF RevBy, SameRequest
    <3>5. \A r \in Revisions \ {t.rev} : RevBy(n, r) = RevBy(t, r)
      BY <2>4, <3>1 DEF RevBy, SameRequest
    <3> DEFINE revs == [r \in Revisions |-> RevBy(t, r)]
               later == [r \in Revisions |-> RevBy(n, r)]
               rows == [x \in Stored |-> RowBy(tables, t, x)]
               logs == [x \in Stored |-> AuditBy(tables, t, x)]
               outs == [x \in Stored |-> OutboxBy(t, x)]
    <3> HIDE DEF new
    <3>6. [revs EXCEPT ![t.rev] = new] = later
      BY <3>4, <3>5
    <3>7. OwnBy(tables, t) = [row |-> rows, rev |-> revs, audit |-> logs, outbox |-> outs]
      BY DEF OwnBy
    <3>8. OwnBy(tables, n) = [row |-> rows, rev |-> later, audit |-> logs, outbox |-> outs]
      BY <3>2, <3>3 DEF OwnBy
    <3> HIDE DEF revs, later, rows, logs, outs
    <3>9. w = [row |-> rows, rev |-> [revs EXCEPT ![t.rev] = new], audit |-> logs, outbox |-> outs]
      BY <3>7, <1>1
    <3> HIDE DEF w
    <3> QED BY <2>4, <3>6, <3>8, <3>9
  <2>8. \A x \in Holds(n) : lock'[x] = s /\ FoundLocked(tables, t, x)
    <3> HIDE DEF n
    <3> QED BY <1>3, <1>4, <2>1, <2>4 DEF Holds, SameRequest
  <2> HIDE DEF n
  <2> QED BY <1>1, <1>3, <1>4, <2>1, <2>4, <2>5, <2>6, <2>7, <2>8, Continues
<1> QED BY <1>5, <1>6

\* What is known of a transaction that writes: about the entry that is next.
WritingAbout(s, t, e) ==
  /\ t \in TransactionType /\ Asked(t) /\ Underway(t) /\ Protected(tables, t) /\ t.kind \in Kinds \ {"delete"}
  /\ t.own = OwnBy(tables, t) /\ t.own \in OwnType /\ tables \in TablesType
  /\ e = Head(t.todo) /\ e \in Listed(t.todo) /\ e \in Stored /\ e \in Listed(t.members)
  /\ Holds(t) = Listed(t.members) /\ lock[e] = s /\ FoundLocked(tables, t, e)
  /\ \A x \in Holds(t) : lock[x] = s /\ FoundLocked(tables, t, x)
  /\ Changing(t) /\ Finished(t) = Listed(t.members) \ Listed(t.todo)
  /\ Tail(t.todo) \in Seq(Stored) /\ Distinct(Tail(t.todo)) /\ Listed(Tail(t.todo)) = Listed(t.todo) \ {e}
  /\ Len(t.todo) > 1 <=> Tail(t.todo) # <<>>
  /\ t.kind # "publishMany" => Listed(t.members) = {e}
  /\ Drafting(t) => t.rev \in Revisions
  /\ ~Drafting(t) => t.target[e] \in Revisions

\* That is so while it points, reads the tail and records.
LEMMA WritingIs ==
  ASSUME StatementsInv, NEW s \in Agents, tx[s].step \in {"point", "tail", "record"}
  PROVE  WritingAbout(s, tx[s], Pgs!Member(s))
<1> DEFINE t == tx[s]
           e == Pgs!Member(s)
<1>0. t.step \in {"point", "tail", "record"}
  OBVIOUS
<1>1. /\ t \in TransactionType /\ Asked(t) /\ Underway(t) /\ Protected(tables, t) /\ t.kind \in Kinds \ {"delete"}
      /\ t.own = OwnBy(tables, t) /\ t.own \in OwnType /\ tables \in TablesType
      /\ t.members \in Seq(Stored) /\ t.todo \in Seq(Stored)
      /\ \A x \in Holds(t) : lock[x] = s /\ FoundLocked(tables, t, x)
  BY UnderwayIs DEF Underway, TransactionType
<1>2. e = Head(t.todo) /\ t.todo # <<>> /\ Distinct(t.todo) /\ Listed(t.todo) \subseteq Listed(t.members)
  BY <1>1 DEF Underway, Pgs!Member
<1>3. /\ e \in Listed(t.todo) /\ e \in Stored /\ Tail(t.todo) \in Seq(Stored) /\ Distinct(Tail(t.todo))
      /\ Listed(Tail(t.todo)) = Listed(t.todo) \ {e} /\ (Len(t.todo) > 1 <=> Tail(t.todo) # <<>>)
  BY <1>1, <1>2, ListStep
<1>4. Holds(t) = Listed(t.members) /\ Changing(t) /\ Finished(t) = Listed(t.members) \ Listed(t.todo)
  BY <1>1 DEF Holds, Changing, Finished
<1>5. lock[e] = s /\ FoundLocked(tables, t, e)
  BY <1>1, <1>2, <1>3, <1>4
<1>6. t.kind # "publishMany" => Listed(t.members) = {e}
  <2>1. t.kind # "publishMany" => Listed(t.members) = {t.members[1]}
    BY <1>1, Alone DEF Asked
  <2> QED BY <2>1, <1>2, <1>3
<1>7. Drafting(t) => t.rev \in Revisions
  BY <1>1 DEF Asked, TransactionType, PointerType
<1>8. ~Drafting(t) => t.target[e] \in Revisions
  BY <1>1, <1>2, <1>3 DEF Asked, Drafting, Kinds
<1> QED BY <1>1, <1>2, <1>3, <1>4, <1>5, <1>6, <1>7, <1>8 DEF WritingAbout

\* A pointer is set.
LEMMA PointStep == ASSUME StatementsInv, NEW s \in Agents, Pgs!Point(s) PROVE StatementsInv'
<1> DEFINE t == tx[s]
           e == Pgs!Member(s)
<1>1. t.step = "point"
  BY DEF Pgs!Point
<1>2. /\ t \in TransactionType /\ Asked(t) /\ Underway(t) /\ Protected(tables, t) /\ t.kind \in Kinds \ {"delete"}
      /\ t.own = OwnBy(tables, t) /\ t.own \in OwnType /\ tables \in TablesType
      /\ e = Head(t.todo) /\ e \in Listed(t.todo) /\ e \in Stored /\ e \in Listed(t.members)
      /\ Holds(t) = Listed(t.members) /\ lock[e] = s /\ FoundLocked(tables, t, e)
      /\ \A x \in Holds(t) : lock[x] = s /\ FoundLocked(tables, t, x)
      /\ Changing(t) /\ Finished(t) = Listed(t.members) \ Listed(t.todo)
      /\ t.kind # "publishMany" => Listed(t.members) = {e}
      /\ Drafting(t) => t.rev \in Revisions
      /\ ~Drafting(t) => t.target[e] \in Revisions
  <2>1. WritingAbout(s, t, e)
    BY <1>1, WritingIs
  <2> HIDE DEF t, e
  <2> QED BY <2>1 DEF WritingAbout
<1> DEFINE drafts == t.kind \in {"create", "update"}
           view == Pgs!View(s)
           row == [home |-> view.home[e], draft |-> IF drafts THEN t.rev ELSE view.draft[e],
                   published |-> IF drafts THEN view.published[e] ELSE t.target[e]]
           w == [t.own EXCEPT !.row[e] = row]
           n == [t EXCEPT !.step = "tail", !.own = w]
<1>3. tx' = [tx EXCEPT ![s] = n] /\ lock' = [lock EXCEPT ![e] = s] /\ tables' = tables /\ minted' = minted
  BY DEF Pgs!Point, Pgs!Goes, Pgs!Keeps
<1>4. t.own.row[e] = RowBy(tables, t, e)
  BY <1>2 DEF OwnBy
<1>5. e \notin Pointed(t)
  BY <1>1, <1>2 DEF Pointed
<1>6. t.kind = "create" => t.own.row[e] = [home |-> "scope", draft |-> None, published |-> None]
  BY <1>1, <1>2, <1>4, <1>5 DEF RowBy
<1>7. t.kind # "create" => t.own.row[e] = None
  BY <1>1, <1>2, <1>4, <1>5 DEF RowBy
<1>8. view.home[e] = Pgs!EntryRow(t.own, e).home /\ view.draft[e] = Pgs!EntryRow(t.own, e).draft
      /\ view.published[e] = Pgs!EntryRow(t.own, e).published
  BY <1>2 DEF Pgs!View, Pgs!Written
<1>9. [home |-> "scope", draft |-> None, published |-> None] # None
  BY RowsApart
<1>10. t.kind = "create" => view.home[e] = "scope" /\ view.published[e] = None
  BY <1>6, <1>8, <1>9 DEF Pgs!EntryRow
<1>11. t.kind # "create" => view.home[e] = tables.home[e] /\ view.draft[e] = tables.draft[e]
                            /\ view.published[e] = tables.published[e]
  BY <1>7, <1>8 DEF Pgs!EntryRow
<1>12. t.kind # "create" => tables.home[e] = "scope"
  BY <1>2 DEF FoundLocked
<1>13. row = [home |-> "scope", draft |-> IF Drafting(t) THEN t.rev ELSE tables.draft[e],
              published |-> IF t.kind = "create" THEN None
                            ELSE IF t.kind = "update" THEN tables.published[e] ELSE t.target[e]]
  <2> HIDE DEF view
  <2> QED BY <1>10, <1>11, <1>12 DEF Drafting
<1>14. row \in RowType
  <2>1. tables.draft[e] \in PointerType /\ tables.published[e] \in PointerType
    BY <1>2 DEF TablesType
  <2>2. t.kind \notin {"create", "update"} => t.target[e] \in PointerType
    BY <1>2 DEF Drafting, PointerType
  <2>3. t.kind \in {"create", "update"} => t.rev \in PointerType
    BY <1>2 DEF Drafting, PointerType
  <2>4. None \in PointerType
    BY DEF PointerType
  <2> HIDE DEF row, e, t
  <2> QED BY <1>13, <2>1, <2>2, <2>3, <2>4 DEF RowType, Drafting
<1>15. w \in OwnType
  <2> HIDE DEF row, e
  <2> QED BY <1>2, <1>14 DEF OwnType
<1>16. /\ n \in TransactionType /\ SameRequest(n, t) /\ n.step = "tail" /\ n.todo = t.todo /\ n.seq = t.seq
       /\ n.own = w
  <2> HIDE DEF w
  <2> QED BY <1>2, <1>15 DEF TransactionType, StepType, SameRequest
<1> HIDE DEF n
<1>17. Underway(n)
  BY <1>1, <1>2, <1>16 DEF Underway, SameRequest
<1>18. ReadLocked(tables, n)
  BY <1>2, <1>16 DEF Protected, ReadLocked, SameRequest, Changing
<1>19. n.own = OwnBy(tables, n)
  <2>1. Changing(n) /\ Finished(n) = Finished(t) /\ Pointed(n) = Finished(t) \cup {e} /\ Pointed(t) = Finished(t)
    BY <1>1, <1>2, <1>16 DEF Changing, Finished, Pointed, SameRequest
  <2>2. row = RowBy(tables, n, e)
    <3> HIDE DEF row
    <3> QED BY <1>13, <1>16, <1>2, <2>1 DEF RowBy, SameRequest, Drafting
  <2>3. \A x \in Stored \ {e} : RowBy(tables, n, x) = RowBy(tables, t, x)
    BY <1>1, <1>2, <1>16, <2>1 DEF RowBy, SameRequest, Drafting
  <2>4. /\ \A r \in Revisions : RevBy(n, r) = RevBy(t, r)
        /\ \A x \in Stored : AuditBy(tables, n, x) = AuditBy(tables, t, x) /\ OutboxBy(n, x) = OutboxBy(t, x)
    BY <1>2, <1>16, <2>1 DEF RevBy, AuditBy, OutboxBy, SameRequest, Drafting, EventOf, About
  <2> HIDE DEF row, e, t
  <2>5. [OwnBy(tables, t) EXCEPT !.row[e] = row] = OwnBy(tables, n)
    BY SMTT(20), <1>2, <2>2, <2>3, <2>4, RowWritten
  <2>6. w = [OwnBy(tables, t) EXCEPT !.row[e] = row]
    BY <1>2
  <2> QED BY <1>16, <2>5, <2>6
<1>20. \A x \in Holds(n) : lock'[x] = s /\ FoundLocked(tables, t, x)
  <2>1. Holds(n) = Holds(t)
    BY <1>1, <1>16 DEF Holds, SameRequest
  <2>2. lock' = lock
    BY <1>2, <1>3 DEF StatementsInv
  <2> QED BY <1>2, <2>1, <2>2
<1> HIDE DEF w
<1> QED BY <1>1, <1>2, <1>3, <1>16, <1>17, <1>18, <1>19, <1>20, Continues

\* The last event of the entry is read.
LEMMA ReadTailStep == ASSUME StatementsInv, NEW s \in Agents, Pgs!ReadTail(s) PROVE StatementsInv'
<1> DEFINE t == tx[s]
           e == Pgs!Member(s)
           log == Pgs!View(s).audit[e]
           last == IF log = <<>> THEN <<>> ELSE <<log[Len(log)]>>
           n == [t EXCEPT !.step = "record", !.tail = last]
<1>1. t.step = "tail"
  BY DEF Pgs!ReadTail
<1>2. /\ t \in TransactionType /\ Asked(t) /\ Underway(t) /\ Protected(tables, t) /\ t.kind \in Kinds \ {"delete"}
      /\ t.own = OwnBy(tables, t) /\ t.own \in OwnType /\ tables \in TablesType
      /\ e = Head(t.todo) /\ e \in Listed(t.todo) /\ e \in Stored /\ e \in Listed(t.members)
      /\ lock[e] = s
      /\ \A x \in Holds(t) : lock[x] = s /\ FoundLocked(tables, t, x)
      /\ Changing(t) /\ Finished(t) = Listed(t.members) \ Listed(t.todo)
  <2>1. WritingAbout(s, t, e)
    BY <1>1, WritingIs
  <2> HIDE DEF t, e
  <2> QED BY <2>1 DEF WritingAbout
<1>3. tx' = [tx EXCEPT ![s] = n] /\ UNCHANGED <<tables, minted, lock>>
  BY DEF Pgs!ReadTail, Pgs!Goes
<1>4. t.own.row[e] = RowBy(tables, t, e) /\ t.own.audit[e] = AuditBy(tables, t, e)
  BY <1>2 DEF OwnBy
<1>5. t.own.row[e].home = "scope"
  BY <1>1, <1>2, <1>4 DEF RowBy, Pointed
<1>6. e \notin Pgs!Deleted(t.own)
  BY <1>5, RowsApart DEF Pgs!Deleted
<1>7. t.own.audit[e] = <<>>
  BY <1>2, <1>4 DEF AuditBy
<1>8. tables.audit[e] \in LogType
  BY <1>2 DEF TablesType
<1>9. log = tables.audit[e]
  <2>1. log = tables.audit[e] \o t.own.audit[e]
    BY <1>2, <1>6 DEF Pgs!View, Pgs!Written
  <2> QED BY <2>1, <1>7, <1>8 DEF LogType
<1>10. last = LastEvent(tables.audit[e]) /\ last \in LogType
  BY <1>8, <1>9 DEF LastEvent, LogType
<1> HIDE DEF last
<1>11. /\ n \in TransactionType /\ SameRequest(n, t) /\ n.step = "record" /\ n.todo = t.todo /\ n.seq = t.seq
       /\ n.own = t.own /\ n.tail = last
  BY <1>2, <1>10 DEF TransactionType, StepType, SameRequest
<1> HIDE DEF n
<1>12. Underway(n)
  BY <1>1, <1>2, <1>11 DEF Underway, SameRequest
<1>13. ReadLocked(tables, n)
  BY <1>2, <1>10, <1>11 DEF Protected, ReadLocked, SameRequest, Changing
<1>14. n.own = OwnBy(tables, n)
  <2>1. Changing(n) /\ Finished(n) = Finished(t) /\ Pointed(n) = Pointed(t)
    BY <1>1, <1>2, <1>11 DEF Changing, Finished, Pointed, SameRequest
  <2>2. \A x \in Stored : RowBy(tables, n, x) = RowBy(tables, t, x)
    BY <1>1, <1>11, <2>1 DEF RowBy, SameRequest, Drafting
  <2>3. /\ \A r \in Revisions : RevBy(n, r) = RevBy(t, r)
        /\ \A x \in Stored : AuditBy(tables, n, x) = AuditBy(tables, t, x) /\ OutboxBy(n, x) = OutboxBy(t, x)
    BY <1>2, <1>11, <2>1 DEF RevBy, AuditBy, OutboxBy, SameRequest, Drafting, EventOf, About
  <2>4. OwnBy(tables, n) = OwnBy(tables, t)
    BY <2>2, <2>3 DEF OwnBy
  <2> QED BY <1>2, <1>11, <2>4
<1>15. \A x \in Holds(n) : lock'[x] = s /\ FoundLocked(tables, t, x)
  BY <1>1, <1>2, <1>3, <1>11 DEF Holds, SameRequest
<1> HIDE DEF log
<1> QED BY <1>1, <1>2, <1>3, <1>11, <1>12, <1>13, <1>14, <1>15, Continues

\* The event that a transaction records is the one its request is due, and has its type.
LEMMA EventIs ==
  ASSUME NEW s \in Agents, NEW t, t = tx[s], NEW e \in Stored, NEW log \in LogType, t.tail = LastEvent(log)
  PROVE  Pgs!Event(s, e) = EventOf(log, t, e)
<1>1. Len(log) \in Nat /\ (Len(log) = 0 <=> log = <<>>)
  <2>1. log \in Seq(Pgs!Store!AuditEntry)
    BY DEF LogType
  <2> HIDE DEF LogType
  <2> QED BY <2>1, EmptySeq
<1>2. CASE log = <<>>
  <2>1. t.tail = <<>> /\ Len(log) = 0
    BY <1>1, <1>2 DEF LastEvent
  <2> QED BY <2>1 DEF Pgs!Event, EventOf, About, Drafting, Pgs!Scope
<1>3. CASE log # <<>>
  <2>1. t.tail = <<log[Len(log)]>> /\ t.tail # <<>> /\ t.tail[1] = log[Len(log)] /\ Len(log) # 0
    BY <1>1, <1>3 DEF LastEvent
  <2> QED BY <2>1 DEF Pgs!Event, EventOf, About, Drafting, Pgs!Scope
<1> QED BY <1>2, <1>3

\* The event is of the audit log, and has an outbox event.
LEMMA EventType ==
  ASSUME NEW t \in TransactionType, NEW e \in Stored, NEW log \in LogType, t.kind \in Kinds \ {"delete"},
         About(t, e) \in Revisions
  PROVE  /\ EventOf(log, t, e) \in Pgs!Store!AuditEntry
         /\ [action |-> Pgs!Names[t.kind], rev |-> About(t, e)] \in Pgs!Store!OutboxEvent
         /\ EventOf(log, t, e).action = Pgs!Names[t.kind] /\ EventOf(log, t, e).rev = About(t, e)
<1> DEFINE n == Len(log)
           previous == IF n = 0 THEN <<>> ELSE log[n].hash
           seq == IF n = 0 THEN 1 ELSE log[n].seq + 1
           name == Pgs!Names[t.kind]
           about == About(t, e)
           fields == [seq |-> seq, action |-> name, rev |-> about]
           link == <<"scope", e, fields>>
           hash == Append(previous, link)
<1>1. name \in Pgs!Store!Action
  BY DEF Pgs!Names, Pgs!Store!Action, Kinds
<1>2. n = 0 \/ log[n] \in Pgs!Store!AuditEntry
  BY DEF LogType
<1>3. previous \in Pgs!Store!Digest /\ seq \in Nat
  <2>1. n = 0 \/ (log[n].hash \in Pgs!Store!Digest /\ log[n].seq \in Nat)
    BY <1>2 DEF Pgs!Store!AuditEntry
  <2>2. <<>> \in Pgs!Store!Digest
    BY DEF Pgs!Store!Digest
  <2> QED BY <2>1, <2>2
<1>4. EventOf(log, t, e) = [seq |-> seq, action |-> name, rev |-> about, prev |-> previous, hash |-> hash]
  BY DEF EventOf, Pgs!Store!EventHash
<1> HIDE DEF n, previous, seq, name, about
<1>5. fields \in Pgs!Store!Event
  BY <1>1, <1>3 DEF Pgs!Store!Event, about
<1> HIDE DEF fields
<1>6. link \in {"scope"} \X Stored \X Pgs!Store!Event
  BY <1>5
<1> HIDE DEF link
<1>7. hash \in Pgs!Store!Digest
  BY <1>3, <1>6 DEF Pgs!Store!Digest, Pgs!Scope
<1> HIDE DEF hash
<1>8. about \in Revisions
  BY DEF about
<1>9. EventOf(log, t, e) \in Pgs!Store!AuditEntry
  BY <1>1, <1>3, <1>4, <1>7, <1>8 DEF Pgs!Store!AuditEntry
<1>10. [action |-> name, rev |-> about] \in Pgs!Store!OutboxEvent
  BY <1>1, <1>8 DEF Pgs!Store!OutboxEvent
<1> QED BY <1>4, <1>9, <1>10 DEF name, about

\* What a transaction has written, after it recorded an event of one more entry.
Recorded(own, e, log, out) == [own EXCEPT !.audit[e] = log, !.outbox[e] = out]

\* The events of one entry are all that the writes gain when it is recorded.
LEMMA EventWritten ==
  ASSUME NEW tb, NEW t, NEW n, NEW e \in Stored,
         \A x \in Stored \ {e} : AuditBy(tb, n, x) = AuditBy(tb, t, x) /\ OutboxBy(n, x) = OutboxBy(t, x),
         \A r \in Revisions : RevBy(n, r) = RevBy(t, r),
         \A x \in Stored : RowBy(tb, n, x) = RowBy(tb, t, x)
  PROVE  Recorded(OwnBy(tb, t), e, AuditBy(tb, n, e), OutboxBy(n, e)) = OwnBy(tb, n)
<1> DEFINE log == AuditBy(tb, n, e)
           out == OutboxBy(n, e)
           rows == [x \in Stored |-> RowBy(tb, t, x)]
           revs == [r \in Revisions |-> RevBy(t, r)]
           logs == [x \in Stored |-> AuditBy(tb, t, x)]
           outs == [x \in Stored |-> OutboxBy(t, x)]
           logs2 == [x \in Stored |-> AuditBy(tb, n, x)]
           outs2 == [x \in Stored |-> OutboxBy(n, x)]
<1>1. [logs EXCEPT ![e] = log] = logs2 /\ [outs EXCEPT ![e] = out] = outs2
  OBVIOUS
<1>2. OwnBy(tb, t) = [row |-> rows, rev |-> revs, audit |-> logs, outbox |-> outs]
  BY DEF OwnBy
<1>3. OwnBy(tb, n) = [row |-> rows, rev |-> revs, audit |-> logs2, outbox |-> outs2]
  BY DEF OwnBy
<1> HIDE DEF rows, revs, logs, outs, logs2, outs2, log, out
<1> DEFINE mid == [row |-> rows, rev |-> revs, audit |-> logs2, outbox |-> outs]
<1>4. [OwnBy(tb, t) EXCEPT !.audit[e] = log] = mid
  BY <1>1, <1>2
<1>5. [mid EXCEPT !.outbox[e] = out] = [row |-> rows, rev |-> revs, audit |-> logs2, outbox |-> outs2]
  BY <1>1
<1> HIDE DEF mid
<1>6. [OwnBy(tb, t) EXCEPT !.audit[e] = log, !.outbox[e] = out] = [[OwnBy(tb, t) EXCEPT !.audit[e] = log] EXCEPT !.outbox[e] = out]
  OBVIOUS
<1> QED BY <1>3, <1>4, <1>5, <1>6 DEF Recorded, log, out

\* The event of the entry is recorded, and the next entry begins or the transaction ends.
LEMMA EventStep == ASSUME StatementsInv, NEW s \in Agents, Pgs!Record(s) PROVE StatementsInv'
<1> DEFINE t == tx[s]
           e == Pgs!Member(s)
<1>1. t.step = "record"
  BY DEF Pgs!Record
<1>2. /\ t \in TransactionType /\ Asked(t) /\ Underway(t) /\ Protected(tables, t) /\ t.kind \in Kinds \ {"delete"}
      /\ t.own = OwnBy(tables, t) /\ t.own \in OwnType /\ tables \in TablesType
      /\ e = Head(t.todo) /\ e \in Listed(t.todo) /\ e \in Stored /\ e \in Listed(t.members)
      /\ Holds(t) = Listed(t.members) /\ lock[e] = s /\ FoundLocked(tables, t, e)
      /\ \A x \in Holds(t) : lock[x] = s /\ FoundLocked(tables, t, x)
      /\ Changing(t) /\ Finished(t) = Listed(t.members) \ Listed(t.todo)
      /\ Tail(t.todo) \in Seq(Stored) /\ Distinct(Tail(t.todo)) /\ Listed(Tail(t.todo)) = Listed(t.todo) \ {e}
      /\ Len(t.todo) > 1 <=> Tail(t.todo) # <<>>
      /\ t.kind # "publishMany" => Listed(t.members) = {e}
      /\ Drafting(t) => t.rev \in Revisions
      /\ ~Drafting(t) => t.target[e] \in Revisions
  <2>1. WritingAbout(s, t, e)
    BY <1>1, WritingIs
  <2> HIDE DEF t, e
  <2> QED BY <2>1 DEF WritingAbout
<1>3. CASE Pgs!Rollback(s)
  BY <1>3, RollbackStep
<1>4. CASE ~Pgs!Rollback(s)
  <2> DEFINE event == Pgs!Event(s, e)
             log == <<event>>
             out == <<[action |-> event.action, rev |-> event.rev]>>
             rest == Tail(t.todo)
             next == IF Len(t.todo) > 1 THEN "point" ELSE "commit"
             w == [t.own EXCEPT !.audit[e] = log, !.outbox[e] = out]
             n == [t EXCEPT !.own = w, !.tail = <<>>, !.todo = rest, !.step = next]
  <2>1. lock' = lock /\ tables' = tables /\ minted' = minted
    BY <1>4 DEF Pgs!Record
  <2>2. tx' = [tx EXCEPT ![s] = [t EXCEPT !.own.audit[e] = log, !.own.outbox[e] = out, !.tail = <<>>,
                                          !.todo = Tail(@), !.step = next]]
    BY <1>4 DEF Pgs!Record, Pgs!Goes
  <2>3. tables.audit[e] \in LogType /\ t.tail = LastEvent(tables.audit[e]) /\ About(t, e) \in Revisions
    BY <1>1, <1>2 DEF TablesType, Protected, ReadLocked, About
  <2>4. event = EventOf(tables.audit[e], t, e)
    BY <1>2, <2>3, EventIs
  <2>5. log = <<EventOf(tables.audit[e], t, e)>> /\ out = <<[action |-> Pgs!Names[t.kind], rev |-> About(t, e)]>>
    BY <1>2, <2>3, <2>4, EventType
  <2>6. log \in LogType /\ out \in Seq(Pgs!Store!OutboxEvent)
    BY <1>2, <2>3, <2>4, <2>5, EventType DEF LogType
  <2> HIDE DEF event, log, out
  <2>7. w \in OwnType
    <3> HIDE DEF e, t
    <3> QED BY <1>2, <2>6 DEF OwnType
  <2>8. next \in StepType /\ <<>> \in LogType
    BY DEF StepType, LogType
  <2>9. tx' = [tx EXCEPT ![s] = n]
    <3> HIDE DEF e, next
    <3>1. [t EXCEPT !.own.audit[e] = log, !.own.outbox[e] = out, !.tail = <<>>, !.todo = Tail(@), !.step = next] = n
      <4> HIDE DEF t
      <4> DEFINE a == [t EXCEPT !.own.audit[e] = log, !.own.outbox[e] = out]
                 b == [t EXCEPT !.own = [t.own EXCEPT !.audit[e] = log, !.outbox[e] = out]]
      <4>1. a = b
        OBVIOUS
      <4> HIDE DEF a, b
      <4>2. [a EXCEPT !.tail = <<>>, !.todo = rest, !.step = next] = [b EXCEPT !.tail = <<>>, !.todo = rest, !.step = next]
        BY <4>1
      <4> HIDE DEF rest
      <4>3. [t EXCEPT !.own.audit[e] = log, !.own.outbox[e] = out, !.tail = <<>>, !.todo = rest, !.step = next] =
              [a EXCEPT !.tail = <<>>, !.todo = rest, !.step = next]
        BY DEF a
      <4>4. n = [b EXCEPT !.tail = <<>>, !.todo = rest, !.step = next]
        BY DEF b
      <4> HIDE DEF n
      <4>5. [t EXCEPT !.own.audit[e] = log, !.own.outbox[e] = out, !.tail = <<>>, !.todo = rest, !.step = next] = n
        BY <4>2, <4>3, <4>4
      <4> QED BY <4>5 DEF rest
    <3> HIDE DEF n
    <3> QED BY <2>2, <3>1
  <2> HIDE DEF next, w
  <2>10. /\ n \in TransactionType /\ SameRequest(n, t) /\ n.step = next /\ n.todo = rest /\ n.seq = t.seq
         /\ n.own = w
    <3> HIDE DEF rest, t
    <3>1. rest \in Seq(Stored)
      BY <1>2 DEF rest
    <3> QED BY <1>2, <2>7, <2>8, <3>1 DEF TransactionType, SameRequest
  <2> HIDE DEF n
  <2>11. /\ next \in {"point", "commit"} /\ (next = "point" <=> rest # <<>>)
    BY <1>2 DEF next
  <2>12. Underway(n)
    <3> HIDE DEF t, e, rest
    <3>1. Distinct(rest) /\ Listed(rest) \subseteq Listed(t.members)
      BY <1>2 DEF Underway, rest
    <3> QED BY <1>2, <2>10, <2>11, <3>1 DEF Underway, SameRequest
  <2>13. ReadLocked(tables, n)
    BY <1>2, <2>10, <2>11 DEF Protected, ReadLocked, SameRequest, Changing
  <2>14. /\ Changing(n) /\ Finished(n) = Finished(t) \cup {e} /\ Pointed(n) = Finished(n)
         /\ Pointed(t) = Finished(t) \cup {e} /\ e \notin Finished(t)
    <3>1. Changing(n) /\ n.kind # "delete" /\ Listed(n.todo) = Listed(t.todo) \ {e} /\ n.members = t.members
      BY <1>2, <2>10, <2>11 DEF Changing, SameRequest
    <3>2. n.step \notin {"tail", "record"}
      BY <2>10, <2>11
    <3>3. Finished(n) = Finished(t) \cup {e}
      BY <3>1, <1>2 DEF Finished
    <3>4. Pointed(n) = Finished(n)
      BY <3>2 DEF Pointed
    <3>5. Pointed(t) = Finished(t) \cup {e}
      BY <1>1, <1>2 DEF Pointed
    <3>6. e \notin Finished(t)
      BY <1>2
    <3> QED BY <3>1, <3>3, <3>4, <3>5, <3>6
  <2>15. n.own = OwnBy(tables, n)
    <3>1. \A x \in Stored : RowBy(tables, n, x) = RowBy(tables, t, x)
      <4>1. n.kind = t.kind /\ t.kind # "delete" /\ n.rev = t.rev /\ n.target = t.target /\ n.members = t.members
        BY <1>2, <2>10 DEF SameRequest
      <4>2. t.kind = "create" => e \in Pointed(n) /\ Listed(t.members) = {e}
        BY <1>2, <2>14
      <4> QED BY <1>1, <4>1, <4>2, <2>14 DEF RowBy, Drafting
    <3>2. \A r \in Revisions : RevBy(n, r) = RevBy(t, r)
      BY <1>2, <2>10, <2>14 DEF RevBy, SameRequest, Drafting
    <3>3. \A x \in Stored : EventOf(tables.audit[x], n, x) = EventOf(tables.audit[x], t, x) /\ About(n, x) = About(t, x)
                            /\ n.kind = t.kind
      BY <2>10 DEF EventOf, About, Drafting, SameRequest
    <3>4. \A x \in Stored \ {e} : AuditBy(tables, n, x) = AuditBy(tables, t, x) /\ OutboxBy(n, x) = OutboxBy(t, x)
      BY <2>14, <3>3 DEF AuditBy, OutboxBy
    <3>5. log = AuditBy(tables, n, e) /\ out = OutboxBy(n, e)
      BY <1>2, <2>5, <2>14, <3>3 DEF AuditBy, OutboxBy
    <3> HIDE DEF e, t
    <3>6. [OwnBy(tables, t) EXCEPT !.audit[e] = log, !.outbox[e] = out] = OwnBy(tables, n)
      <4>1. e \in Stored
        BY <1>2
      <4>2. Recorded(OwnBy(tables, t), e, AuditBy(tables, n, e), OutboxBy(n, e)) = OwnBy(tables, n)
        BY <4>1, <3>1, <3>2, <3>4, EventWritten
      <4>3. Recorded(OwnBy(tables, t), e, log, out) = OwnBy(tables, n)
        BY <4>2, <3>5
      <4> QED BY <4>3 DEF Recorded
    <3>7. w = [OwnBy(tables, t) EXCEPT !.audit[e] = log, !.outbox[e] = out]
      BY <1>2 DEF w
    <3> QED BY <2>10, <3>6, <3>7
  <2>16. \A x \in Holds(n) : lock'[x] = s /\ FoundLocked(tables, t, x)
    BY <1>2, <2>1, <2>10, <2>11 DEF Holds, SameRequest
  <2> QED BY <1>1, <1>2, <2>1, <2>9, <2>10, <2>11, <2>12, <2>13, <2>15, <2>16, Continues
<1> QED BY <1>3, <1>4

\* The entry is deleted, with what hangs on it.
LEMMA DeleteStep == ASSUME StatementsInv, NEW s \in Agents, Pgs!Delete(s) PROVE StatementsInv'
<1> DEFINE t == tx[s]
           e == Pgs!Member(s)
<1>1. /\ t.step = "remove" /\ t \in TransactionType /\ Asked(t) /\ Underway(t) /\ Protected(tables, t)
      /\ t.own = OwnBy(tables, t) /\ t.own \in OwnType /\ t.members \in Seq(Stored)
      /\ \A x \in Holds(t) : lock[x] = s /\ FoundLocked(tables, t, x)
  BY UnderwayIs DEF Pgs!Delete, TransactionType
<1>2. t.kind = "delete" /\ t.todo = t.members /\ Len(t.members) = 1
  BY <1>1 DEF Underway, Asked
<1>3. e \in Stored /\ Listed(t.members) = {e} /\ e = t.members[1]
  BY <1>1, <1>2, Alone DEF Pgs!Member
<1>4. Holds(t) = {e} /\ lock[e] = s
  BY <1>1, <1>3 DEF Holds
<1> DEFINE row == [home |-> None, draft |-> None, published |-> None]
           w == [t.own EXCEPT !.row[e] = row]
           n == [t EXCEPT !.step = "commit", !.own = w]
<1>5. tx' = [tx EXCEPT ![s] = n] /\ UNCHANGED <<tables, minted, lock>>
  BY DEF Pgs!Delete, Pgs!Goes
<1>6. row \in RowType
  BY DEF RowType, PointerType
<1>7. w \in OwnType
  <2> HIDE DEF row, e
  <2> QED BY <1>1, <1>6 DEF OwnType
<1>8. /\ n \in TransactionType /\ SameRequest(n, t) /\ n.step = "commit" /\ n.todo = t.todo /\ n.own = w
  <2> HIDE DEF w
  <2> QED BY <1>1, <1>7 DEF TransactionType, StepType, SameRequest
<1> HIDE DEF n
<1>9. Underway(n)
  BY <1>1, <1>2, <1>8 DEF Underway, SameRequest
<1>10. ReadLocked(tables, n)
  BY <1>2, <1>8 DEF ReadLocked, SameRequest
<1>11. n.own = OwnBy(tables, n)
  <2>1. Finished(n) = {} /\ Pointed(n) = {} /\ Finished(t) = {} /\ Pointed(t) = {} /\ ~Drafting(n) /\ ~Drafting(t)
    BY <1>1, <1>2, <1>8 DEF Finished, Pointed, Drafting, SameRequest
  <2>2. row = RowBy(tables, n, e)
    BY <1>2, <1>3, <1>8 DEF RowBy, SameRequest
  <2>3. \A x \in Stored \ {e} : RowBy(tables, n, x) = RowBy(tables, t, x)
    BY <1>1, <1>2, <1>3, <1>8, <2>1 DEF RowBy, SameRequest
  <2>4. /\ \A r \in Revisions : RevBy(n, r) = RevBy(t, r)
        /\ \A x \in Stored : AuditBy(tables, n, x) = AuditBy(tables, t, x) /\ OutboxBy(n, x) = OutboxBy(t, x)
    BY <2>1 DEF RevBy, AuditBy, OutboxBy
  <2> HIDE DEF row, e, t
  <2>5. [OwnBy(tables, t) EXCEPT !.row[e] = row] = OwnBy(tables, n)
    BY <1>3, <2>2, <2>3, <2>4, RowWritten
  <2>6. w = [OwnBy(tables, t) EXCEPT !.row[e] = row]
    BY <1>1
  <2> QED BY <1>8, <2>5, <2>6
<1>12. \A x \in Holds(n) : lock'[x] = s /\ FoundLocked(tables, t, x)
  BY <1>1, <1>3, <1>4, <1>5, <1>8 DEF Holds, SameRequest
<1> HIDE DEF w
<1> QED BY <1>1, <1>3, <1>4, <1>5, <1>8, <1>9, <1>10, <1>11, <1>12, Continues

\* What a commit makes of the tables tb: the members of the request change, as it asks, and nothing else.
CommittedAs(tb, t, w) ==
  /\ \A e \in Stored \ Listed(t.members) :
       /\ w.home[e] = tb.home[e] /\ w.draft[e] = tb.draft[e] /\ w.published[e] = tb.published[e]
       /\ w.audit[e] = tb.audit[e] /\ w.outbox[e] = tb.outbox[e]
  /\ t.kind = "delete" => \A e \in Listed(t.members) :
       w.home[e] = None /\ w.draft[e] = None /\ w.published[e] = None /\ w.audit[e] = <<>> /\ w.outbox[e] = <<>>
  /\ t.kind # "delete" => \A e \in Listed(t.members) :
       /\ w.home[e] = "scope"
       /\ w.draft[e] = IF Drafting(t) THEN t.rev ELSE tb.draft[e]
       /\ w.published[e] = IF t.kind = "create" THEN None
                           ELSE IF t.kind = "update" THEN tb.published[e] ELSE t.target[e]
       /\ w.audit[e] = Append(tb.audit[e], EventOf(tb.audit[e], t, e))
       /\ w.outbox[e] = Append(tb.outbox[e], [action |-> Pgs!Names[t.kind], rev |-> About(t, e)])
  /\ \A r \in Revisions :
       w.rev[r] = IF Drafting(t) /\ r = t.rev
                  THEN [entry |-> t.members[1], seq |-> t.seq + 1,
                        base |-> IF t.kind = "create" THEN None ELSE t.expectedDraft[t.members[1]]]
                  ELSE IF t.kind = "delete" /\ tb.rev[r].entry \in Listed(t.members) THEN Pgs!NoRow ELSE tb.rev[r]

\* What is known of a transaction that commits.
CommittingAbout(s, t) ==
  /\ t \in TransactionType /\ Asked(t) /\ t.kind \in Kinds /\ tables \in TablesType /\ TablesSound(tables)
  /\ t.own = OwnBy(tables, t) /\ ReadLocked(tables, t)
  /\ Listed(t.members) \subseteq Stored /\ t.members[1] \in Listed(t.members)
  /\ \A e \in Listed(t.members) : lock[e] = s /\ FoundLocked(tables, t, e)
  /\ Finished(t) = IF t.kind = "delete" THEN {} ELSE Listed(t.members)
  /\ t.kind # "publishMany" => Listed(t.members) = {t.members[1]}
  /\ Drafting(t) => t.rev \in Revisions /\ tables.rev[t.rev] = Pgs!NoRow /\ minted[t.rev] = Pgs!NoRow
  /\ ~Drafting(t) /\ t.kind # "delete" => \A e \in Listed(t.members) : t.target[e] \in Revisions

\* That is so when it commits.
LEMMA CommittingIs ==
  ASSUME StatementsInv, NEW s \in Agents, tx[s].step = "commit"
  PROVE  CommittingAbout(s, tx[s])
<1> DEFINE t == tx[s]
<1>0. t.step = "commit"
  OBVIOUS
<1>1. /\ t \in TransactionType /\ Asked(t) /\ Underway(t) /\ t.kind \in Kinds /\ tables \in TablesType /\ TablesSound(tables)
      /\ t.own = OwnBy(tables, t) /\ ReadLocked(tables, t) /\ t.members \in Seq(Stored)
      /\ \A x \in Holds(t) : lock[x] = s /\ FoundLocked(tables, t, x)
  BY UnderwayIs DEF Protected
<1>2. Holds(t) = Listed(t.members)
  BY DEF Holds
<1>3. Listed(t.members) \subseteq Stored /\ t.members[1] \in Listed(t.members)
  BY <1>1, HeldAre DEF Itself
<1>4. Finished(t) = IF t.kind = "delete" THEN {} ELSE Listed(t.members)
  <2>1. t.kind # "delete" => Listed(t.todo) = {}
    BY <1>1 DEF Underway, Listed
  <2> QED BY <2>1 DEF Finished, Changing
<1>5. t.kind # "publishMany" => Listed(t.members) = {t.members[1]}
  BY <1>1, Alone DEF Asked
<1>6. Drafting(t) => t.rev \in Revisions /\ tables.rev[t.rev] = Pgs!NoRow /\ minted[t.rev] = Pgs!NoRow
  <2>1. Drafting(t) => t.rev # None /\ t.rev \in Revisions
    BY <1>1 DEF Asked, TransactionType, PointerType
  <2>2. t.rev # None => minted[t.rev] = Pgs!NoRow
    BY DEF StatementsInv, Minting
  <2> QED BY <2>1, <2>2 DEF StatementsInv, Minting
<1>7. ~Drafting(t) /\ t.kind # "delete" => \A e \in Listed(t.members) : t.target[e] \in Revisions
  BY <1>1 DEF Asked, Drafting, Kinds
<1> QED BY <1>1, <1>2, <1>3, <1>4, <1>5, <1>6, <1>7 DEF CommittingAbout

\* It commits what it was asked, on the tables as it found them.
LEMMA CommitIs ==
  ASSUME StatementsInv, NEW s \in Agents, tx[s].step = "commit"
  PROVE  CommittedAs(tables, tx[s], Pgs!View(s))
<1> DEFINE t == tx[s]
           own == t.own
           M == Listed(t.members)
<1>1. /\ t.step = "commit" /\ t.kind \in Kinds /\ tables \in TablesType /\ own = OwnBy(tables, t) /\ M \subseteq Stored
      /\ Finished(t) = IF t.kind = "delete" THEN {} ELSE M
      /\ t.members[1] \in M /\ t.own \in OwnType
  BY CommittingIs DEF CommittingAbout, TransactionType
<1> HIDE DEF own, t
<1>2. Pointed(t) = Finished(t) /\ Changing(t)
  BY <1>1 DEF Pointed, Changing
<1>3. \A e \in Stored \ M : own.row[e] = None /\ own.audit[e] = <<>> /\ own.outbox[e] = <<>>
  BY <1>1, <1>2 DEF OwnBy, RowBy, AuditBy, OutboxBy
<1>4. t.kind = "delete" => \A e \in M : own.row[e] = [home |-> None, draft |-> None, published |-> None]
  BY <1>1 DEF OwnBy, RowBy
<1>5. t.kind # "delete" => \A e \in M :
        /\ own.row[e] = [home |-> "scope", draft |-> IF Drafting(t) THEN t.rev ELSE tables.draft[e],
                         published |-> IF t.kind = "create" THEN None
                                       ELSE IF t.kind = "update" THEN tables.published[e] ELSE t.target[e]]
        /\ own.audit[e] = <<EventOf(tables.audit[e], t, e)>>
        /\ own.outbox[e] = <<[action |-> Pgs!Names[t.kind], rev |-> About(t, e)]>>
  BY <1>1, <1>2 DEF OwnBy, RowBy, AuditBy, OutboxBy
<1>6. \A r \in Revisions : own.rev[r] = RevBy(t, r)
  BY <1>1 DEF OwnBy
<1>8. Pgs!Deleted(own) = IF t.kind = "delete" THEN M ELSE {}
  <2>1. [home |-> None, draft |-> None, published |-> None] # None
    BY RowsApart DEF PointerType
  <2>2. CASE t.kind = "delete"
    BY <1>1, <1>3, <1>4, <2>1, <2>2 DEF Pgs!Deleted
  <2>3. CASE t.kind # "delete"
    <3>1. ASSUME NEW e \in M PROVE own.row[e].home = "scope"
      <4> DEFINE drafted == IF Drafting(t) THEN t.rev ELSE tables.draft[e]
                 public == IF t.kind = "create" THEN None
                           ELSE IF t.kind = "update" THEN tables.published[e] ELSE t.target[e]
      <4>1. own.row[e] = [home |-> "scope", draft |-> drafted, published |-> public]
        BY <1>5, <2>3
      <4> HIDE DEF drafted, public
      <4> QED BY <4>1
    <3> QED BY <1>1, <1>3, <3>1, <2>3, RowsApart DEF Pgs!Deleted
  <2> QED BY <2>2, <2>3
<1> DEFINE w == Pgs!Written(own)
<1>9. /\ \A e \in Stored : w.home[e] = Pgs!EntryRow(own, e).home /\ w.draft[e] = Pgs!EntryRow(own, e).draft
                           /\ w.published[e] = Pgs!EntryRow(own, e).published
      /\ \A e \in Stored : w.audit[e] = IF e \in Pgs!Deleted(own) THEN <<>> ELSE tables.audit[e] \o own.audit[e]
      /\ \A e \in Stored : w.outbox[e] = IF e \in Pgs!Deleted(own) THEN <<>> ELSE tables.outbox[e] \o own.outbox[e]
      /\ \A r \in Revisions : w.rev[r] = IF own.rev[r] # Pgs!NoRow THEN own.rev[r]
                                         ELSE IF tables.rev[r].entry \in Pgs!Deleted(own) THEN Pgs!NoRow ELSE tables.rev[r]
  BY DEF Pgs!Written
<1> HIDE DEF w
<1>10. \A e \in Stored : tables.audit[e] \in LogType /\ tables.outbox[e] \in Seq(Pgs!Store!OutboxEvent)
  BY <1>1 DEF TablesType
<1>11. ASSUME NEW e \in Stored \ M
       PROVE  /\ w.home[e] = tables.home[e] /\ w.draft[e] = tables.draft[e] /\ w.published[e] = tables.published[e]
              /\ w.audit[e] = tables.audit[e] /\ w.outbox[e] = tables.outbox[e]
  <2>1. tables.audit[e] \o <<>> = tables.audit[e] /\ tables.outbox[e] \o <<>> = tables.outbox[e]
    BY <1>10 DEF LogType
  <2> QED BY <1>3, <1>8, <1>9, <2>1 DEF Pgs!EntryRow
<1>12. ASSUME NEW e \in M, t.kind = "delete"
       PROVE  w.home[e] = None /\ w.draft[e] = None /\ w.published[e] = None /\ w.audit[e] = <<>> /\ w.outbox[e] = <<>>
  <2>1. [home |-> None, draft |-> None, published |-> None] # None
    BY RowsApart DEF PointerType
  <2> QED BY <1>1, <1>4, <1>8, <1>9, <1>12, <2>1 DEF Pgs!EntryRow
<1>13. ASSUME NEW e \in M, t.kind # "delete"
       PROVE  /\ w.home[e] = "scope"
              /\ w.draft[e] = IF Drafting(t) THEN t.rev ELSE tables.draft[e]
              /\ w.published[e] = IF t.kind = "create" THEN None
                                  ELSE IF t.kind = "update" THEN tables.published[e] ELSE t.target[e]
              /\ w.audit[e] = Append(tables.audit[e], EventOf(tables.audit[e], t, e))
              /\ w.outbox[e] = Append(tables.outbox[e], [action |-> Pgs!Names[t.kind], rev |-> About(t, e)])
  <2> DEFINE drafted == IF Drafting(t) THEN t.rev ELSE tables.draft[e]
             public == IF t.kind = "create" THEN None
                       ELSE IF t.kind = "update" THEN tables.published[e] ELSE t.target[e]
             event == EventOf(tables.audit[e], t, e)
             out == [action |-> Pgs!Names[t.kind], rev |-> About(t, e)]
  <2>1. CommittingAbout(s, t)
    BY <1>1, CommittingIs DEF t
  <2>2. drafted \in PointerType /\ public \in PointerType
    BY <2>1, <1>1, <1>13 DEF CommittingAbout, PointerType, TablesType, Drafting, Kinds
  <2>3. own.row[e] = [home |-> "scope", draft |-> drafted, published |-> public]
        /\ own.audit[e] = <<event>> /\ own.outbox[e] = <<out>>
    BY <1>5, <1>13
  <2> HIDE DEF drafted, public, event, out
  <2>4. own.row[e] \in RowType
    BY <2>2, <2>3 DEF RowType
  <2>5. own.row[e] # None
    BY <2>4, RowsApart DEF RowType, PointerType
  <2>6. w.home[e] = "scope" /\ w.draft[e] = drafted /\ w.published[e] = public
    BY <1>1, <1>9, <2>3, <2>5 DEF Pgs!EntryRow
  <2>7. e \notin Pgs!Deleted(own) /\ e \in Stored
    BY <1>1, <1>8, <1>13
  <2>8. w.audit[e] = tables.audit[e] \o <<event>> /\ w.outbox[e] = tables.outbox[e] \o <<out>>
    BY <1>9, <2>3, <2>7
  <2>9. tables.audit[e] \o <<event>> = Append(tables.audit[e], event)
        /\ tables.outbox[e] \o <<out>> = Append(tables.outbox[e], out)
    BY SMTT(20), <1>10, <2>7 DEF LogType
  <2> QED BY <2>6, <2>8, <2>9 DEF drafted, public, event, out
<1>14. ASSUME NEW r \in Revisions
       PROVE  w.rev[r] = IF Drafting(t) /\ r = t.rev
                  THEN [entry |-> t.members[1], seq |-> t.seq + 1,
                        base |-> IF t.kind = "create" THEN None ELSE t.expectedDraft[t.members[1]]]
                  ELSE IF t.kind = "delete" /\ tables.rev[r].entry \in M THEN Pgs!NoRow ELSE tables.rev[r]
  <2>1. CASE Drafting(t) /\ r = t.rev
    <3> DEFINE new == [entry |-> t.members[1], seq |-> t.seq + 1,
                       base |-> IF t.kind = "create" THEN None ELSE t.expectedDraft[t.members[1]]]
    <3>1. own.rev[r] = new
      BY <1>2, <1>6, <2>1 DEF RevBy
    <3>2. new.entry # None
      BY <1>1, RowsApart
    <3>3. Pgs!NoRow.entry = None
      BY DEF Pgs!NoRow
    <3> HIDE DEF new
    <3>4. w.rev[r] = new
      BY <3>1, <3>2, <3>3, <1>9
    <3> QED BY <3>4, <2>1 DEF new
  <2>2. CASE ~(Drafting(t) /\ r = t.rev)
    <3>1. own.rev[r] = Pgs!NoRow
      BY <1>6, <2>2 DEF RevBy
    <3> QED BY <3>1, <1>8, <1>9, <2>2
  <2> QED BY <2>1, <2>2
<1> QED BY <1>11, <1>12, <1>13, <1>14 DEF CommittedAs, Pgs!View, w, own, t

\* What a transaction leaves is tables again.
LEMMA CommittedType ==
  ASSUME StatementsInv, NEW s \in Agents, tx[s].step = "commit" PROVE Pgs!View(s) \in TablesType
<1> DEFINE t == tx[s]
           w == Pgs!View(s)
           M == Listed(t.members)
<1>1. CommittingAbout(s, t) /\ CommittedAs(tables, t, w)
  BY CommittingIs, CommitIs
<1>2. w = [home |-> [e \in Stored |-> w.home[e]], draft |-> [e \in Stored |-> w.draft[e]],
           published |-> [e \in Stored |-> w.published[e]], rev |-> [r \in Revisions |-> w.rev[r]],
           audit |-> [e \in Stored |-> w.audit[e]], outbox |-> [e \in Stored |-> w.outbox[e]]]
  BY DEF Pgs!View, Pgs!Written
<1> HIDE DEF t, w
<1>3. /\ t \in TransactionType /\ t.kind \in Kinds /\ M \subseteq Stored /\ t.members[1] \in M
      /\ tables.home \in [Stored -> {"scope", None}] /\ tables.draft \in [Stored -> PointerType]
      /\ tables.published \in [Stored -> PointerType] /\ tables.rev \in [Revisions -> Pgs!Store!RevRow]
      /\ tables.audit \in [Stored -> LogType] /\ tables.outbox \in [Stored -> Seq(Pgs!Store!OutboxEvent)]
  BY <1>1 DEF CommittingAbout, TablesType
<1>4. ASSUME NEW e \in Stored \ M
      PROVE  /\ w.home[e] \in {"scope", None} /\ w.draft[e] \in PointerType /\ w.published[e] \in PointerType
             /\ w.audit[e] \in LogType /\ w.outbox[e] \in Seq(Pgs!Store!OutboxEvent)
  BY <1>1, <1>3 DEF CommittedAs
<1>5. ASSUME NEW e \in M, t.kind = "delete"
      PROVE  /\ w.home[e] \in {"scope", None} /\ w.draft[e] \in PointerType /\ w.published[e] \in PointerType
             /\ w.audit[e] \in LogType /\ w.outbox[e] \in Seq(Pgs!Store!OutboxEvent)
  <2>1. w.home[e] = None /\ w.draft[e] = None /\ w.published[e] = None /\ w.audit[e] = <<>> /\ w.outbox[e] = <<>>
    BY <1>1, <1>5 DEF CommittedAs
  <2>2. None \in PointerType /\ <<>> \in LogType /\ <<>> \in Seq(Pgs!Store!OutboxEvent)
    BY DEF PointerType, LogType
  <2> QED BY <2>1, <2>2
<1>6. ASSUME NEW e \in M, t.kind # "delete"
      PROVE  /\ w.home[e] \in {"scope", None} /\ w.draft[e] \in PointerType /\ w.published[e] \in PointerType
             /\ w.audit[e] \in LogType /\ w.outbox[e] \in Seq(Pgs!Store!OutboxEvent)
  <2> DEFINE event == EventOf(tables.audit[e], t, e)
             out == [action |-> Pgs!Names[t.kind], rev |-> About(t, e)]
  <2>1. About(t, e) \in Revisions
    BY <1>1, <1>6 DEF CommittingAbout, About
  <2>2. e \in Stored /\ tables.audit[e] \in LogType /\ tables.outbox[e] \in Seq(Pgs!Store!OutboxEvent)
    BY <1>3, <1>6
  <2>3. event \in Pgs!Store!AuditEntry /\ out \in Pgs!Store!OutboxEvent
    BY <1>3, <1>6, <2>1, <2>2, EventType
  <2>4. w.audit[e] = Append(tables.audit[e], event) /\ w.outbox[e] = Append(tables.outbox[e], out)
    BY <1>1, <1>6 DEF CommittedAs
  <2> HIDE DEF event, out
  <2>5. w.audit[e] \in LogType /\ w.outbox[e] \in Seq(Pgs!Store!OutboxEvent)
    BY <2>2, <2>3, <2>4 DEF LogType
  <2>6. w.home[e] = "scope"
    BY <1>1, <1>6 DEF CommittedAs
  <2>7. w.draft[e] \in PointerType
    BY <1>1, <1>3, <1>6, <2>2 DEF CommittedAs, CommittingAbout, PointerType
  <2>8. w.published[e] \in PointerType
    <3>1. t.kind \notin {"create", "update"} => t.target[e] \in PointerType
      BY <1>1, <1>6 DEF CommittingAbout, Drafting, PointerType
    <3>2. tables.published[e] \in PointerType /\ None \in PointerType
      BY <1>3, <2>2 DEF PointerType
    <3> QED BY <1>1, <1>6, <3>1, <3>2 DEF CommittedAs
  <2> QED BY <2>5, <2>6, <2>7, <2>8
<1>7. ASSUME NEW r \in Revisions PROVE w.rev[r] \in Pgs!Store!RevRow
  <2>1. CASE Drafting(t) /\ r = t.rev
    <3> DEFINE base == IF t.kind = "create" THEN None ELSE t.expectedDraft[t.members[1]]
    <3>1. base \in PointerType
      BY <1>1, <2>1 DEF CommittingAbout, Asked, Drafting, PointerType
    <3>2. w.rev[r] = [entry |-> t.members[1], seq |-> t.seq + 1, base |-> base]
      BY <1>1, <2>1 DEF CommittedAs
    <3> HIDE DEF base
    <3>3. t.seq + 1 \in Nat
      BY <1>3 DEF TransactionType
    <3> QED BY <1>3, <3>1, <3>2, <3>3 DEF Pgs!Store!RevRow, PointerType
  <2>2. CASE ~(Drafting(t) /\ r = t.rev)
    <3>1. w.rev[r] \in {Pgs!NoRow, tables.rev[r]}
      BY <1>1, <2>2 DEF CommittedAs
    <3>2. tables.rev[r] \in Pgs!Store!RevRow
      BY <1>3
    <3> QED BY <3>1, <3>2, IdleIs
  <2> QED BY <2>1, <2>2
<1>8. /\ [e \in Stored |-> w.home[e]] \in [Stored -> {"scope", None}]
      /\ [e \in Stored |-> w.draft[e]] \in [Stored -> PointerType]
      /\ [e \in Stored |-> w.published[e]] \in [Stored -> PointerType]
      /\ [r \in Revisions |-> w.rev[r]] \in [Revisions -> Pgs!Store!RevRow]
      /\ [e \in Stored |-> w.audit[e]] \in [Stored -> LogType]
      /\ [e \in Stored |-> w.outbox[e]] \in [Stored -> Seq(Pgs!Store!OutboxEvent)]
  BY <1>4, <1>5, <1>6, <1>7
<1>9. w \in TablesType
  BY <1>2, <1>8 DEF TablesType
<1> QED BY <1>9 DEF w

\* And each entry that is left has a draft, which is its latest revision.
LEMMA CommittedSound ==
  ASSUME StatementsInv, NEW s \in Agents, tx[s].step = "commit" PROVE TablesSound(Pgs!View(s))
<1> DEFINE t == tx[s]
           w == Pgs!View(s)
           M == Listed(t.members)
<1>1. CommittingAbout(s, t) /\ CommittedAs(tables, t, w) /\ w \in TablesType
  BY CommittingIs, CommitIs, CommittedType
<1> HIDE DEF t, w
<1>2. /\ t \in TransactionType /\ t.kind \in Kinds /\ M \subseteq Stored /\ t.members[1] \in M
      /\ TablesSound(tables) /\ tables \in TablesType
      /\ Drafting(t) => t.rev \in Revisions /\ tables.rev[t.rev] = Pgs!NoRow
      /\ Drafting(t) => M = {t.members[1]}
  BY <1>1 DEF CommittingAbout, Drafting
<1>3. Pgs!NoRow.entry = None /\ None \notin Stored
  BY RowsApart DEF Pgs!NoRow
<1>4. ASSUME NEW r \in Revisions, NEW e \in Stored, w.rev[r].entry = e
      PROVE  (Drafting(t) /\ r = t.rev /\ e \in M) \/ (w.rev[r] = tables.rev[r] /\ (t.kind = "delete" => e \notin M)
                                                          /\ ~(Drafting(t) /\ r = t.rev))
  <2>1. CASE Drafting(t) /\ r = t.rev
    <3>1. w.rev[r].entry = t.members[1]
      BY <1>1, <2>1 DEF CommittedAs
    <3> QED BY <3>1, <2>1, <1>2, <1>4
  <2>2. CASE ~(Drafting(t) /\ r = t.rev)
    <3>1. w.rev[r] = IF t.kind = "delete" /\ tables.rev[r].entry \in M THEN Pgs!NoRow ELSE tables.rev[r]
      BY <1>1, <2>2 DEF CommittedAs
    <3> QED BY <3>1, <2>2, <1>3, <1>4
  <2> QED BY <2>1, <2>2
<1>5. ASSUME NEW r \in Revisions, NEW e \in Stored, tables.rev[r].entry = e, t.kind = "delete" => e \notin M
      PROVE  w.rev[r] = tables.rev[r]
  <2>1. ~(Drafting(t) /\ r = t.rev)
    BY <1>2, <1>3, <1>5
  <2> QED BY <2>1, <1>1, <1>5 DEF CommittedAs
<1>6. ASSUME NEW e \in Stored
      PROVE  IF w.home[e] = None THEN \A r \in Revisions : w.rev[r].entry # e
             ELSE /\ w.draft[e] \in Revisions /\ w.rev[w.draft[e]].entry = e
                  /\ \A r \in Revisions : w.rev[r].entry = e => w.rev[r].seq <= w.rev[w.draft[e]].seq
  <2>1. CASE e \notin M
    <3>1. w.home[e] = tables.home[e] /\ w.draft[e] = tables.draft[e]
      BY <1>1, <2>1 DEF CommittedAs
    <3>2. \A r \in Revisions : w.rev[r].entry = e => w.rev[r] = tables.rev[r]
      BY <1>4, <2>1
    <3>3. \A r \in Revisions : tables.rev[r].entry = e => w.rev[r] = tables.rev[r]
      BY <1>5, <2>1
    <3>4. IF tables.home[e] = None THEN \A r \in Revisions : tables.rev[r].entry # e
          ELSE /\ tables.draft[e] \in Revisions /\ tables.rev[tables.draft[e]].entry = e
               /\ \A r \in Revisions : tables.rev[r].entry = e => tables.rev[r].seq <= tables.rev[tables.draft[e]].seq
      BY <1>2 DEF TablesSound
    <3> QED BY <3>1, <3>2, <3>3, <3>4
  <2>2. CASE e \in M /\ t.kind = "delete"
    <3>1. w.home[e] = None
      BY <1>1, <2>2 DEF CommittedAs
    <3>2. \A r \in Revisions : w.rev[r].entry # e
      BY <1>4, <2>2 DEF Drafting
    <3> QED BY <3>1, <3>2
  <2>3. CASE e \in M /\ t.kind # "delete"
    <3>1. w.home[e] # None /\ w.draft[e] = IF Drafting(t) THEN t.rev ELSE tables.draft[e]
      BY <1>1, <2>3, RowsApart DEF CommittedAs
    <3>2. FoundLocked(tables, t, e) /\ ReadLocked(tables, t) /\ t.step = "commit"
      BY <1>1, <2>3 DEF CommittingAbout, t
    <3>3. CASE ~Drafting(t)
      <4>1. tables.home[e] # None
        BY <3>2, <3>3, RowsApart DEF FoundLocked, Drafting
      <4>2. /\ tables.draft[e] \in Revisions /\ tables.rev[tables.draft[e]].entry = e
            /\ \A r \in Revisions : tables.rev[r].entry = e => tables.rev[r].seq <= tables.rev[tables.draft[e]].seq
        BY <1>2, <4>1 DEF TablesSound
      <4>3. \A r \in Revisions : w.rev[r].entry = e => w.rev[r] = tables.rev[r]
        BY <1>4, <3>3
      <4>4. \A r \in Revisions : tables.rev[r].entry = e => w.rev[r] = tables.rev[r]
        BY <1>5, <2>3
      <4> QED BY <3>1, <3>3, <4>2, <4>3, <4>4
    <3>4. CASE Drafting(t)
      <4>1. e = t.members[1]
        BY <1>2, <2>3, <3>4
      <4>2. w.draft[e] = t.rev /\ w.rev[t.rev].entry = e /\ w.rev[t.rev].seq = t.seq + 1 /\ t.rev \in Revisions
        BY <1>1, <1>2, <3>1, <3>4, <4>1 DEF CommittedAs
      <4>3. t.seq \in Nat /\ \A r \in Revisions : tables.rev[r].seq \in Nat
        BY <1>2 DEF TransactionType, TablesType, Pgs!Store!RevRow
      <4>4. \A r \in Revisions : tables.rev[r].entry = e => tables.rev[r].seq <= t.seq
        <5>1. CASE t.kind = "create"
          BY <5>1, <1>2, <3>2 DEF FoundLocked, TablesSound
        <5>2. CASE t.kind = "update"
          <6>1. tables.home[e] # None /\ t.seq = tables.rev[tables.draft[e]].seq
            BY <5>2, <3>2, <4>1, RowsApart DEF FoundLocked, ReadLocked, Changing
          <6> QED BY <6>1, <1>2 DEF TablesSound
        <5> QED BY <5>1, <5>2, <3>4 DEF Drafting
      <4>5. ASSUME NEW r \in Revisions, w.rev[r].entry = e PROVE w.rev[r].seq <= t.seq + 1
        <5>1. CASE r = t.rev
          BY <5>1, <4>2, <4>3
        <5>2. CASE r # t.rev
          <6>1. w.rev[r] = tables.rev[r]
            BY <5>2, <4>5, <1>4
          <6> QED BY <6>1, <4>3, <4>4, <4>5
        <5> QED BY <5>1, <5>2
      <4> QED BY <3>1, <4>2, <4>5
    <3> QED BY <3>3, <3>4
  <2> QED BY <2>1, <2>2, <2>3
<1>7. TablesSound(w)
  BY <1>6 DEF TablesSound
<1> QED BY <1>7 DEF w

\* A commit: what others have locked stays as it was, and its revision is theirs no more.
LEMMA TransactionStep == ASSUME StatementsInv, NEW s \in Agents, Pgs!Commit(s) PROVE StatementsInv'
<1> DEFINE t == tx[s]
           M == Listed(t.members)
<1>1. /\ t.step = "commit" /\ tables' = Pgs!View(s)
      /\ minted' = [r \in Revisions |-> IF minted[r] = Pgs!NoRow THEN t.own.rev[r] ELSE minted[r]]
      /\ tx' = [tx EXCEPT ![s] = Pgs!Idle] /\ lock' = Pgs!Released(s)
  BY DEF Pgs!Commit, Pgs!Goes
<1>2. CommittingAbout(s, t) /\ CommittedAs(tables, t, tables') /\ tables' \in TablesType /\ TablesSound(tables')
  BY <1>1, CommittingIs, CommitIs, CommittedType, CommittedSound
<1>3. tx' \in [Agents -> TransactionType] /\ tx'[s] = Pgs!Idle /\ \A other \in Agents \ {s} : tx'[other] = tx[other]
  BY <1>1, IdleIs DEF StatementsInv
<1>4. lock' \in [Stored -> Agents \cup {None}] /\ \A e \in Stored : lock[e] # s => lock'[e] = lock[e]
  BY <1>1 DEF StatementsInv, Pgs!Released
<1>5. /\ t \in TransactionType /\ M \subseteq Stored /\ t.members[1] \in M /\ tables \in TablesType /\ TablesSound(tables)
      /\ t.own = OwnBy(tables, t) /\ \A e \in M : lock[e] = s
      /\ Drafting(t) => t.rev \in Revisions /\ tables.rev[t.rev] = Pgs!NoRow /\ t.rev # None
  BY <1>2, RowsApart DEF CommittingAbout
<1>6. \A r \in Revisions : t.own.rev[r] = RevBy(t, r)
  BY <1>5 DEF OwnBy
<1>7. \A r \in Revisions : ~(Drafting(t) /\ r = t.rev) => t.own.rev[r] = Pgs!NoRow
  BY <1>6 DEF RevBy
<1>8. Minting'
  <2>1. minted \in [Revisions -> Pgs!Store!RevRow] /\ \A r \in Revisions : t.own.rev[r] \in Pgs!Store!RevRow
    BY <1>5 DEF StatementsInv, Minting, TransactionType, OwnType
  <2>2. minted' \in [Revisions -> Pgs!Store!RevRow]
    BY <1>1, <2>1
  <2>3. ASSUME NEW r \in Revisions, minted'[r] = Pgs!NoRow PROVE tables'.rev[r] = Pgs!NoRow
    <3>1. minted[r] = Pgs!NoRow /\ t.own.rev[r] = Pgs!NoRow
      BY <1>1, <2>3
    <3>2. tables.rev[r] = Pgs!NoRow
      BY <3>1 DEF StatementsInv, Minting
    <3>3. ~(Drafting(t) /\ r = t.rev)
      <4>1. SUFFICES ASSUME Drafting(t), r = t.rev PROVE FALSE
        OBVIOUS
      <4>2. t.own.rev[r].entry = t.members[1]
        BY <1>1, <1>6, <4>1 DEF RevBy, Changing
      <4>3. Pgs!NoRow.entry = None
        BY DEF Pgs!NoRow
      <4> QED BY <3>1, <4>2, <4>3, <1>5, RowsApart
    <3> QED BY <1>2, <3>2, <3>3 DEF CommittedAs
  <2>4. ASSUME NEW x \in Agents, tx'[x].rev # None
        PROVE  minted'[tx'[x].rev] = Pgs!NoRow /\ \A other \in Agents \ {x} : tx'[other].rev # tx'[x].rev
    <3>1. x # s
      BY <1>3, <2>4, IdleIs
    <3>2. tx'[x] = tx[x] /\ tx[x].rev # None
      BY <1>3, <2>4, <3>1
    <3>3. minted[tx[x].rev] = Pgs!NoRow /\ \A other \in Agents \ {x} : tx[other].rev # tx[x].rev
      BY <3>2 DEF StatementsInv, Minting
    <3>4. tx[x].rev \in Revisions
      BY <3>2 DEF StatementsInv, TransactionType, PointerType
    <3>5. t.rev # tx[x].rev
      BY <3>1, <3>3
    <3>6. minted'[tx[x].rev] = Pgs!NoRow
      BY <1>1, <1>7, <3>3, <3>4, <3>5
    <3> QED BY <1>3, <3>2, <3>3, <3>6, IdleIs
  <2> QED BY <2>2, <2>3, <2>4 DEF Minting
<1>9. ASSUME NEW x \in Agents \ {s}
      PROVE  /\ tx[x].step = "idle" => tx[x] = Pgs!Idle
             /\ Itself(tx[x]) /\ Protected(tables', tx[x])
             /\ \A e \in Holds(tx[x]) : lock'[e] = x
  <2>1. tx[x] \in TransactionType /\ Itself(tx[x]) /\ Protected(tables, tx[x]) /\ \A e \in Holds(tx[x]) : lock[e] = x
    BY DEF StatementsInv
  <2>2. \A e \in Holds(tx[x]) : e \in Stored \ M
    <3>1. tx[x].step = "idle" => Holds(tx[x]) = {}
      BY DEF Holds
    <3>2. tx[x].step # "idle" => Holds(tx[x]) \subseteq Stored
      BY <2>1, HeldAre
    <3> QED BY <3>1, <3>2, <2>1, <1>5
  <2>3. ASSUME NEW e \in Holds(tx[x]) PROVE Same(tables, tables', e)
    <3>1. e \in Stored \ M
      BY <2>2
    <3>2. ASSUME NEW r \in Revisions, tables.rev[r].entry = e PROVE tables'.rev[r] = tables.rev[r]
      <4>1. Pgs!NoRow.entry = None
        BY DEF Pgs!NoRow
      <4>2. ~(Drafting(t) /\ r = t.rev)
        BY <1>5, <3>1, <3>2, <4>1, RowsApart
      <4> QED BY <1>2, <3>1, <3>2, <4>2 DEF CommittedAs
    <3> QED BY <1>2, <3>1, <3>2 DEF CommittedAs, Same
  <2>4. Protected(tables', tx[x])
    BY <1>2, <1>5, <2>1, <2>3, ProtectedStays
  <2>5. \A e \in Holds(tx[x]) : lock'[e] = x
    BY <1>4, <2>1, <2>2
  <2> QED BY <2>1, <2>4, <2>5 DEF StatementsInv
<1>10. Itself(Pgs!Idle) /\ Holds(Pgs!Idle) = {} /\ Protected(tables', Pgs!Idle)
  BY IdleIs DEF Itself, Holds
<1>11. ASSUME NEW x \in Agents
       PROVE  /\ tx'[x].step = "idle" => tx'[x] = Pgs!Idle
              /\ Itself(tx'[x]) /\ Protected(tables', tx'[x])
              /\ \A e \in Holds(tx'[x]) : lock'[e] = x
  <2>1. CASE x = s
    BY <2>1, <1>3, <1>10
  <2>2. CASE x # s
    BY <2>2, <1>3, <1>9
  <2> QED BY <2>1, <2>2
<1> QED BY <1>2, <1>3, <1>4, <1>8, <1>11 DEF StatementsInv

\* The transactions on some of the entries keep all this.
LEMMA StatementsStep ==
  ASSUME StatementsInv, NEW es \in SUBSET Stored, NEW rows, [Pgs!Working(es, rows)]_statements PROVE StatementsInv'
<1>1. CASE Pgs!Working(es, rows)
  <2>1. PICK s \in Agents :
          \/ Pgs!Request(s, es, rows) \/ Pgs!Lock(s) \/ Pgs!Resume(s) \/ Pgs!Row(s) \/ Pgs!Number(s) \/ Pgs!Insert(s)
          \/ Pgs!Point(s) \/ Pgs!ReadTail(s) \/ Pgs!Record(s) \/ Pgs!Delete(s) \/ Pgs!Commit(s) \/ Pgs!Fail(s)
    BY <1>1 DEF Pgs!Working
  <2>2. CASE Pgs!Request(s, es, rows)
    BY <2>2, RequestStep
  <2>3. CASE Pgs!Fail(s)
    BY <2>3, RollbackStep DEF Pgs!Fail
  <2> QED BY <2>1, <2>2, <2>3, LockStep, ResumeStep, RowStep, NumberStep, InsertStep, PointStep, ReadTailStep,
             EventStep, DeleteStep, TransactionStep
<1>2. CASE UNCHANGED statements
  BY <1>2 DEF statements, StatementsInv, Minting
<1> QED BY <1>1, <1>2

\* Only a commit changes a table.
LEMMA OthersKeep ==
  ASSUME NEW es, NEW rows, Pgs!Working(es, rows), tables' # tables PROVE \E s \in Agents : Pgs!Commit(s)
<1>1. PICK s \in Agents :
        \/ Pgs!Request(s, es, rows) \/ Pgs!Lock(s) \/ Pgs!Resume(s) \/ Pgs!Row(s) \/ Pgs!Number(s) \/ Pgs!Insert(s)
        \/ Pgs!Point(s) \/ Pgs!ReadTail(s) \/ Pgs!Record(s) \/ Pgs!Delete(s) \/ Pgs!Commit(s) \/ Pgs!Fail(s)
  BY DEF Pgs!Working
<1>2. Pgs!Rollback(s) => tables' = tables
  BY DEF Pgs!Rollback, Pgs!Keeps
<1>3. \A e : Pgs!Returned(s, e) => tables' = tables
  BY <1>2 DEF Pgs!Returned, Pgs!Keeps
<1>4. CASE Pgs!Request(s, es, rows)
  BY <1>4 DEF Pgs!Request
<1>5. CASE Pgs!Lock(s) \/ Pgs!Resume(s)
  BY <1>2, <1>3, <1>5 DEF Pgs!Lock, Pgs!Resume
<1>6. CASE Pgs!Row(s) \/ Pgs!Number(s) \/ Pgs!Insert(s)
  BY <1>2, <1>6 DEF Pgs!Row, Pgs!Number, Pgs!Insert, Pgs!Keeps
<1>7. CASE Pgs!Point(s) \/ Pgs!ReadTail(s) \/ Pgs!Record(s)
  BY <1>2, <1>7 DEF Pgs!Point, Pgs!ReadTail, Pgs!Record, Pgs!Keeps
<1>8. CASE Pgs!Delete(s) \/ Pgs!Fail(s)
  BY <1>2, <1>8 DEF Pgs!Delete, Pgs!Fail, Pgs!Keeps
<1> QED BY <1>1, <1>4, <1>5, <1>6, <1>7, <1>8

\* PostgresStore has no exports, and no operation of it overtakes one.
LEMMA NothingOvertaken ==
  ASSUME NEW es, NEW how
  PROVE  Pgs!Store!Overtaken(es, how)
BY DEF Pgs!Store!Overtaken, Pgs!Store!Unread

\* What the commit of one request makes of the tables is the operation of the store: for each kind of request.
LEMMA CommitApplies ==
  ASSUME StatementsInv, NEW s \in Agents, Pgs!Commit(s) PROVE Pgs!Applied(tx[s])
<1> DEFINE t == tx[s]
           M == Listed(t.members)
           e == t.members[1]
<1>1. /\ t.step = "commit" /\ tables' = Pgs!View(s)
      /\ minted' = [r \in Revisions |-> IF minted[r] = Pgs!NoRow THEN t.own.rev[r] ELSE minted[r]]
      /\ \A x \in Stored : t.own.audit[x] # <<>> => Len(tables.audit[x]) < Pgs!MaxLog
  BY DEF Pgs!Commit
<1>2. CommittingAbout(s, t) /\ CommittedAs(tables, t, tables') /\ tables' \in TablesType
  BY <1>1, CommittingIs, CommitIs, CommittedType
<1> HIDE DEF t
<1>3. /\ t \in TransactionType /\ Asked(t) /\ t.kind \in Kinds /\ tables \in TablesType /\ TablesSound(tables)
      /\ t.own = OwnBy(tables, t) /\ ReadLocked(tables, t) /\ M \subseteq Stored /\ e \in M /\ e \in Stored
      /\ \A x \in M : FoundLocked(tables, t, x)
      /\ t.kind # "publishMany" => M = {e}
  BY <1>2 DEF CommittingAbout
<1>4. /\ tables.home \in [Stored -> {"scope", None}] /\ tables.draft \in [Stored -> PointerType]
      /\ tables.published \in [Stored -> PointerType] /\ tables.rev \in [Revisions -> Pgs!Store!RevRow]
      /\ tables.audit \in [Stored -> LogType] /\ tables.outbox \in [Stored -> Seq(Pgs!Store!OutboxEvent)]
  BY <1>3 DEF TablesType
<1>5. /\ tables'.home \in [Stored -> {"scope", None}] /\ tables'.draft \in [Stored -> PointerType]
      /\ tables'.published \in [Stored -> PointerType] /\ tables'.rev \in [Revisions -> Pgs!Store!RevRow]
      /\ tables'.audit \in [Stored -> LogType] /\ tables'.outbox \in [Stored -> Seq(Pgs!Store!OutboxEvent)]
  BY <1>2 DEF TablesType
<1>6. \A r \in Revisions : t.own.rev[r] = RevBy(t, r)
  BY <1>3 DEF OwnBy
<1>7. minted \in [Revisions -> Pgs!Store!RevRow]
  BY DEF StatementsInv, Minting
<1>8. t.kind # "delete" => \A x \in M : Len(tables.audit[x]) < Pgs!MaxLog
  <2>1. SUFFICES ASSUME t.kind # "delete", NEW x \in M PROVE t.own.audit[x] # <<>>
    BY <1>1, <1>3
  <2>2. x \in Finished(t) /\ x \in Stored
    BY <1>2, <1>3, <2>1 DEF CommittingAbout
  <2>3. t.own.audit[x] = <<EventOf(tables.audit[x], t, x)>>
    BY <1>3, <2>2 DEF OwnBy, AuditBy
  <2> QED BY <2>3
<1>9. \A x \in Stored : Pgs!Store!Audited("scope", x, Pgs!Names[t.kind], About(t, x)) =
                        Append(tables.audit[x], EventOf(tables.audit[x], t, x))
  BY DEF Pgs!Store!Audited, Pgs!Store!AuditRow, EventOf
<1>10. \A x \in Stored : Pgs!Store!Emitted(x, Pgs!Names[t.kind], About(t, x)) =
                         Append(tables.outbox[x], [action |-> Pgs!Names[t.kind], rev |-> About(t, x)])
  BY DEF Pgs!Store!Emitted
<1>11. /\ t.kind = "create" => Pgs!Names[t.kind] = "created"
       /\ t.kind = "update" => Pgs!Names[t.kind] = "updated"
       /\ t.kind \in {"publish", "publishMany"} => Pgs!Names[t.kind] = "published"
  BY DEF Pgs!Names
<1>12. \A x \in Stored \ M :
         /\ tables'.home[x] = tables.home[x] /\ tables'.draft[x] = tables.draft[x] /\ tables'.published[x] = tables.published[x]
         /\ tables'.audit[x] = tables.audit[x] /\ tables'.outbox[x] = tables.outbox[x]
  BY <1>2 DEF CommittedAs
<1>13. CASE Drafting(t)
  <2> DEFINE base == IF t.kind = "create" THEN None ELSE t.expectedDraft[e]
             new == [entry |-> e, seq |-> t.seq + 1, base |-> base]
  <2>1. t.rev \in Revisions /\ minted[t.rev] = Pgs!NoRow /\ M = {e} /\ t.kind # "delete" /\ About(t, e) = t.rev
    BY <1>2, <1>3, <1>13 DEF CommittingAbout, Drafting, About
  <2>2. tables'.rev = [tables.rev EXCEPT ![t.rev] = new]
    <3>1. tables'.rev[t.rev] = new
      BY <1>2, <1>13, <2>1 DEF CommittedAs
    <3>2. \A r \in Revisions \ {t.rev} : tables'.rev[r] = tables.rev[r]
      BY <1>2, <2>1 DEF CommittedAs
    <3> HIDE DEF new
    <3> QED BY <1>4, <1>5, <2>1, <3>1, <3>2
  <2>3. minted' = [minted EXCEPT ![t.rev] = IF @ = Pgs!NoRow THEN tables'.rev[t.rev] ELSE @]
    <3>1. t.own.rev[t.rev] = new /\ tables'.rev[t.rev] = new
      BY <1>1, <1>2, <1>6, <1>13, <2>1 DEF RevBy, Changing, CommittedAs
    <3>2. \A r \in Revisions \ {t.rev} : t.own.rev[r] = Pgs!NoRow
      BY <1>6 DEF RevBy
    <3> HIDE DEF new
    <3> QED BY <1>1, <1>7, <2>1, <3>1, <3>2
  <2>4. tables'.draft = [tables.draft EXCEPT ![e] = t.rev]
    <3>1. tables'.draft[e] = t.rev
      BY <1>2, <1>3, <1>13, <2>1 DEF CommittedAs
    <3> QED BY <1>4, <1>5, <1>12, <2>1, <3>1
  <2>5. tables'.audit = [tables.audit EXCEPT ![e] = Pgs!Store!Audited("scope", e, Pgs!Names[t.kind], t.rev)]
    <3>1. tables'.audit[e] = Pgs!Store!Audited("scope", e, Pgs!Names[t.kind], t.rev)
      <4>1. tables'.audit[e] = Append(tables.audit[e], EventOf(tables.audit[e], t, e))
        BY <1>2, <1>3, <2>1 DEF CommittedAs
      <4>2. Pgs!Store!Audited("scope", e, Pgs!Names[t.kind], About(t, e)) = Append(tables.audit[e], EventOf(tables.audit[e], t, e))
        BY <1>3, <1>9
      <4> QED BY <2>1, <4>1, <4>2
    <3> QED BY <1>4, <1>5, <1>12, <2>1, <3>1
  <2>6. tables'.outbox = [tables.outbox EXCEPT ![e] = Pgs!Store!Emitted(e, Pgs!Names[t.kind], t.rev)]
    <3>1. tables'.outbox[e] = Pgs!Store!Emitted(e, Pgs!Names[t.kind], t.rev)
      <4>1. tables'.outbox[e] = Append(tables.outbox[e], [action |-> Pgs!Names[t.kind], rev |-> About(t, e)])
        BY <1>2, <1>3, <2>1 DEF CommittedAs
      <4>2. Pgs!Store!Emitted(e, Pgs!Names[t.kind], About(t, e)) =
              Append(tables.outbox[e], [action |-> Pgs!Names[t.kind], rev |-> About(t, e)])
        BY <1>3, <1>10
      <4> QED BY <2>1, <4>1, <4>2
    <3> QED BY <1>4, <1>5, <1>12, <2>1, <3>1
  <2>7. Pgs!Store!Fresh(t.rev)
    BY <2>1 DEF Pgs!Store!Fresh, Pgs!Store!NoRow, Pgs!NoRow
  <2>8. tables'.rev[t.rev] = new
    BY <1>4, <2>1, <2>2
  <2>9. CASE t.kind = "create"
    <3>1. tables.home[e] = None /\ t.seq = 0
      BY <1>3, <2>9 DEF FoundLocked, ReadLocked
    <3>2. tables'.home = [tables.home EXCEPT ![e] = "scope"]
      <4>1. tables'.home[e] = "scope"
        BY <1>2, <1>3, <2>1 DEF CommittedAs
      <4> QED BY <1>4, <1>5, <1>12, <2>1, <4>1
    <3>3. tables'.published = [tables.published EXCEPT ![e] = None]
      <4>1. tables'.published[e] = None
        BY <1>2, <1>3, <2>1, <2>9 DEF CommittedAs
      <4> QED BY <1>4, <1>5, <1>12, <2>1, <4>1
    <3>4. new = [entry |-> e, seq |-> 1, base |-> Pgs!Store!FirstBase]
      BY <2>9, <3>1 DEF Pgs!Store!FirstBase
    <3> HIDE DEF new
    <3>5. Pgs!Store!Create("scope", e, t.rev)
      BY <1>11, <2>2, <2>3, <2>4, <2>5, <2>6, <2>7, <2>9, <3>1, <3>2, <3>3, <3>4,
         NothingOvertaken DEF Pgs!Store!Create, Pgs!Store!exportVars, Pgs!Store!NoRow, Pgs!NoRow
    <3> QED BY <2>9, <3>5 DEF Pgs!Applied, Pgs!Scope, t
  <2>10. CASE t.kind = "update"
    <3> DEFINE top == tables.draft[e]
    <3>1. /\ tables.home[e] = "scope" /\ t.expectedDraft[e] \in {"unchecked", tables.draft[e]}
          /\ t.seq = tables.rev[tables.draft[e]].seq
      BY <1>1, <1>3, <2>10 DEF FoundLocked, ReadLocked, Changing
    <3>2. t.expectedDraft[e] = tables.draft[e]
      BY <1>3, <2>10, <3>1, RowsApart DEF Asked, PointerType
    <3>3. top \in Pgs!Store!Revs(e) /\ \A x \in Pgs!Store!Revs(e) : tables.rev[x].seq <= tables.rev[top].seq
      BY <1>3, <3>1, RowsApart DEF TablesSound, Pgs!Store!Revs
    <3>4. tables'.home = tables.home
      <4>1. tables'.home[e] = "scope"
        BY <1>2, <1>3, <2>1 DEF CommittedAs
      <4>2. \A x \in Stored : tables'.home[x] = tables.home[x]
        BY <1>12, <2>1, <3>1, <4>1
      <4> QED BY <1>4, <1>5, <4>2
    <3>5. tables'.published = tables.published
      <4>1. tables'.published[e] = tables.published[e]
        BY <1>2, <1>3, <2>1, <2>10 DEF CommittedAs
      <4>2. \A x \in Stored : tables'.published[x] = tables.published[x]
        BY <1>12, <2>1, <4>1
      <4> QED BY <1>4, <1>5, <4>2
    <3>6. new = [entry |-> e, seq |-> tables.rev[top].seq + 1, base |-> t.expectedDraft[e]]
      BY <2>10, <3>1
    <3>7. Len(tables.audit[e]) < Pgs!MaxLog
      BY <1>3, <1>8, <2>1
    <3> HIDE DEF new, top
    <3>8. \E r \in Pgs!Store!Revs(e) :
            /\ \A x \in Pgs!Store!Revs(e) : tables.rev[x].seq <= tables.rev[r].seq
            /\ tables'.rev = [tables.rev EXCEPT ![t.rev] = [entry |-> e, seq |-> tables.rev[r].seq + 1,
                                                            base |-> t.expectedDraft[e]]]
      BY <2>2, <3>3, <3>6
    <3>9. Pgs!Store!UpdateDraft("scope", e, t.expectedDraft[e], t.rev)
      BY <1>11, <2>3, <2>4, <2>5, <2>6, <2>7, <2>10, <3>1, <3>2, <3>4, <3>5, <3>7, <3>8,
         NothingOvertaken DEF Pgs!Store!UpdateDraft, Pgs!Store!DraftIs, Pgs!Store!exportVars, Pgs!Store!NoRow, Pgs!NoRow
    <3> QED BY <2>10, <3>9 DEF Pgs!Applied, Pgs!Scope, t
  <2> QED BY <2>9, <2>10, <1>13 DEF Drafting
<1>14. ASSUME ~Drafting(t)
       PROVE  minted' = minted /\ (t.kind # "delete" => tables'.rev = tables.rev)
  <2>1. \A r \in Revisions : t.own.rev[r] = Pgs!NoRow
    BY <1>6, <1>14 DEF RevBy
  <2>2. minted' = minted
    BY <1>1, <1>7, <2>1
  <2>3. t.kind # "delete" => \A r \in Revisions : tables'.rev[r] = tables.rev[r]
    BY <1>2, <1>14 DEF CommittedAs
  <2> QED BY <1>4, <1>5, <2>2, <2>3
<1>15. CASE t.kind \in {"publish", "publishMany"}
  <2>1. ~Drafting(t) /\ t.kind # "delete" /\ t.kind \notin {"create", "update"}
    BY <1>15 DEF Drafting
  <2>2. minted' = minted /\ tables'.rev = tables.rev
    BY <1>14, <2>1
  <2>3. \A x \in M : /\ tables.home[x] = "scope" /\ t.expectedDraft[x] \in {"unchecked", tables.draft[x]}
                     /\ t.expectedPublished[x] \in {"unchecked", tables.published[x]} /\ t.target[x] \in Revisions
                     /\ Len(tables.audit[x]) < Pgs!MaxLog /\ About(t, x) = t.target[x]
    BY <1>2, <1>3, <1>8, <2>1 DEF FoundLocked, About, CommittingAbout
  <2>4. ASSUME NEW x \in M
        PROVE  /\ tables'.home[x] = "scope" /\ tables'.draft[x] = tables.draft[x] /\ tables'.published[x] = t.target[x]
               /\ tables'.audit[x] = Pgs!Store!Audited("scope", x, "published", t.target[x])
               /\ tables'.outbox[x] = Pgs!Store!Emitted(x, "published", t.target[x])
    <3>1. /\ tables'.home[x] = "scope" /\ tables'.draft[x] = tables.draft[x] /\ tables'.published[x] = t.target[x]
          /\ tables'.audit[x] = Append(tables.audit[x], EventOf(tables.audit[x], t, x))
          /\ tables'.outbox[x] = Append(tables.outbox[x], [action |-> Pgs!Names[t.kind], rev |-> About(t, x)])
      BY <1>2, <1>14, <2>1, <2>4 DEF CommittedAs
    <3>2. /\ Pgs!Store!Audited("scope", x, Pgs!Names[t.kind], About(t, x)) = Append(tables.audit[x], EventOf(tables.audit[x], t, x))
          /\ Pgs!Store!Emitted(x, Pgs!Names[t.kind], About(t, x)) =
               Append(tables.outbox[x], [action |-> Pgs!Names[t.kind], rev |-> About(t, x)])
      BY <1>3, <1>9, <1>10, <2>4
    <3>3. Pgs!Names[t.kind] = "published" /\ About(t, x) = t.target[x]
      BY <1>11, <1>15, <2>3, <2>4
    <3> QED BY <3>1, <3>2, <3>3
  <2>5. tables'.home = tables.home /\ tables'.draft = tables.draft
    <3>1. \A x \in Stored : tables'.home[x] = tables.home[x]
      BY <1>12, <2>3, <2>4
    <3>2. \A x \in Stored : tables'.draft[x] = tables.draft[x]
      BY <1>12, <2>4
    <3>3. tables'.home = tables.home
      BY <1>4, <1>5, <3>1
    <3>4. tables'.draft = tables.draft
      BY <1>4, <1>5, <3>2
    <3> QED BY <3>3, <3>4
  <2>6. CASE t.kind = "publish"
    <3>1. t.expectedDraft[e] = tables.draft[e] /\ t.target[e] = t.expectedDraft[e] /\ M = {e}
      BY <1>3, <2>3, <2>6, RowsApart DEF Asked, PointerType
    <3>2. tables'.published = [tables.published EXCEPT ![e] = t.expectedDraft[e]]
      BY ZenonT(30), <1>3, <1>4, <1>5, <1>12, <2>4, <3>1
    <3>3. tables'.audit = [tables.audit EXCEPT ![e] = Pgs!Store!Audited("scope", e, "published", t.expectedDraft[e])]
      BY ZenonT(30), <1>3, <1>4, <1>5, <1>12, <2>4, <3>1
    <3>4. tables'.outbox = [tables.outbox EXCEPT ![e] = Pgs!Store!Emitted(e, "published", t.expectedDraft[e])]
      BY ZenonT(30), <1>3, <1>4, <1>5, <1>12, <2>4, <3>1
    <3>5. tables.home[e] = "scope" /\ Len(tables.audit[e]) < Pgs!MaxLog
      BY <1>3, <2>3
    <3>6. Pgs!Store!Publish("scope", e, t.expectedDraft[e])
      BY <2>2, <2>5, <3>1, <3>2, <3>3, <3>4, <3>5, NothingOvertaken
         DEF Pgs!Store!Publish, Pgs!Store!DraftIs, Pgs!Store!exportVars
    <3> QED BY <2>6, <3>6 DEF Pgs!Applied, Pgs!Scope, t
  <2>7. CASE t.kind = "publishMany"
    <3>1. M = Pgs!ToSet(t.members)
      BY DEF Listed, Pgs!ToSet
    <3>2. tables'.published = [x \in Stored |-> IF x \in M THEN t.target[x] ELSE tables.published[x]]
      BY <1>5, <1>12, <2>4
    <3>3. tables'.audit = [x \in Stored |-> IF x \in M THEN Pgs!Store!Audited("scope", x, "published", t.target[x])
                                            ELSE tables.audit[x]]
      BY <1>5, <1>12, <2>4
    <3>4. tables'.outbox = [x \in Stored |-> IF x \in M THEN Pgs!Store!Emitted(x, "published", t.target[x])
                                             ELSE tables.outbox[x]]
      BY <1>5, <1>12, <2>4
    <3>5. \A x \in M : Pgs!Store!IsTarget(x, t.target[x])
      BY <1>3, <2>3, <2>7 DEF Pgs!Store!IsTarget, Pgs!Store!Revs, FoundLocked
    <3> HIDE DEF M
    <3>6. Pgs!Store!PublishMany("scope", M, t.target, t.expectedDraft, t.expectedPublished)
      BY <2>2, <2>3, <2>5, <3>2, <3>3, <3>4, <3>5, NothingOvertaken
         DEF Pgs!Store!PublishMany, Pgs!Store!exportVars, Pgs!Unchecked
    <3> QED BY <2>7, <3>1, <3>6 DEF Pgs!Applied, Pgs!Scope, t
  <2> QED BY <1>15, <2>6, <2>7
<1>16. CASE t.kind = "delete"
  <2>1. ~Drafting(t) /\ M = {e} /\ tables.home[e] = "scope"
    BY <1>3, <1>16 DEF Drafting, FoundLocked
  <2>2. minted' = minted
    BY <1>14, <2>1
  <2>3. tables'.home[e] = None /\ tables'.draft[e] = None /\ tables'.published[e] = None /\ tables'.audit[e] = <<>>
        /\ tables'.outbox[e] = <<>>
    BY <1>2, <1>3, <1>16 DEF CommittedAs
  <2>4. /\ tables'.home = [tables.home EXCEPT ![e] = None] /\ tables'.draft = [tables.draft EXCEPT ![e] = None]
        /\ tables'.published = [tables.published EXCEPT ![e] = None] /\ tables'.audit = [tables.audit EXCEPT ![e] = <<>>]
        /\ tables'.outbox = [tables.outbox EXCEPT ![e] = Pgs!Store!OutboxPurged(e)]
    <3>1. tables'.home = [tables.home EXCEPT ![e] = None]
      BY <1>4, <1>5, <1>12, <2>1, <2>3
    <3>2. tables'.draft = [tables.draft EXCEPT ![e] = None]
      BY <1>4, <1>5, <1>12, <2>1, <2>3
    <3>3. tables'.published = [tables.published EXCEPT ![e] = None]
      BY <1>4, <1>5, <1>12, <2>1, <2>3
    <3>4. tables'.audit = [tables.audit EXCEPT ![e] = <<>>]
      BY <1>4, <1>5, <1>12, <2>1, <2>3
    <3>5. tables'.outbox = [tables.outbox EXCEPT ![e] = <<>>]
      BY <1>4, <1>5, <1>12, <2>1, <2>3
    <3> QED BY <3>1, <3>2, <3>3, <3>4, <3>5 DEF Pgs!Store!OutboxPurged
  <2>5. tables'.rev = [r \in Revisions |-> IF r \in Pgs!Store!Revs(e) THEN Pgs!Store!NoRow ELSE tables.rev[r]]
    <3>1. \A r \in Revisions : tables'.rev[r] = IF tables.rev[r].entry = e THEN Pgs!NoRow ELSE tables.rev[r]
      BY <1>2, <1>16, <2>1 DEF CommittedAs
    <3> QED BY <1>5, <3>1 DEF Pgs!Store!Revs, Pgs!Store!NoRow, Pgs!NoRow
  <2>6. Pgs!Store!DeleteEntry("scope", e)
    BY <2>1, <2>2, <2>4, <2>5, NothingOvertaken DEF Pgs!Store!DeleteEntry, Pgs!Store!exportVars
  <2> QED BY <1>16, <2>6 DEF Pgs!Applied, Pgs!Scope, t
<1> QED BY <1>3, <1>13, <1>15, <1>16 DEF Kinds, Drafting

\* What is committed changes by whole operations of the store.
LEMMA StatementsAtomic ==
  ASSUME StatementsInv, NEW es, NEW rows, [Pgs!Working(es, rows)]_statements PROVE Pgs!AtomicStep
<1>1. CASE tables' = tables
  BY <1>1 DEF Pgs!AtomicStep
<1>2. CASE tables' # tables
  <2>1. PICK s \in Agents : Pgs!Commit(s)
    BY <1>2, OthersKeep DEF statements
  <2> QED BY <2>1, CommitApplies DEF Pgs!AtomicStep, Pgs!Commit
<1> QED BY <1>1, <1>2

=============================================================================
