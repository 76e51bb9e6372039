--------------------------- MODULE StudioEditor ---------------------------
(***************************************************************************)
(* The editor of the Studio: which entry is selected, the draft that is    *)
(* edited, and the operations that read, save, publish or replace it while *)
(* other clients save the same entries.  Content is the set of the edits   *)
(* it contains, so that what is lost can be told.                          *)
(***************************************************************************)
EXTENDS Naturals

CONSTANTS
  Entries,
  MaxEdits,         \* bound on the edits, those of other clients included
  MaxTasks,         \* bound on the operations of this editor
  None

VARIABLES
  drafts,           \* of the server: the draft revision of each entry, its contents
  editor,           \* selected entry and revision, draft, dirty
  reading,          \* the read of an entry under way, superseded by the next
  task,             \* the write under way; it makes the editor inert
  edits, tasks,     \* counts for the bounds
  lost,             \* history: how edits were dropped that nobody agreed to
  slipped           \* history: a proposal was copied while a write was under way

evars == <<drafts, editor, reading, task, edits, tasks, lost, slipped>>

Contents == SUBSET (1..MaxEdits)
\* A write that failed on its way back was made all the same.
Revision == 1..(MaxEdits + MaxTasks + 1)
Saved(entry) == drafts[entry].contents[drafts[entry].rev]

\* A revision is never changed; `contents` keeps those there have been.
Written(s, contents) ==
  [s EXCEPT !.rev = @ + 1, !.contents = [@ EXCEPT ![s.rev + 1] = contents]]

Inert == task # None \/ reading # None
Unsaved == editor.draft \ drafts[editor.entry].contents[editor.rev]

-----------------------------------------------------------------------------
\* changeDraft behind the inert tree, and the copy of an approved proposal,
\* which asks only that its target is the selected revision.
Change ==
  /\ edits < MaxEdits /\ edits' = edits + 1
  /\ editor' = [editor EXCEPT !.draft = @ \cup {edits + 1}, !.dirty = TRUE]
  /\ UNCHANGED <<drafts, reading, task, tasks, lost>>

Type == ~Inert /\ Change /\ UNCHANGED slipped

CopyProposal == Change /\ slipped' = (slipped \/ Inert)

\* selectEntry supersedes the read before it.  `asked` is what the user agreed
\* to give up.
Read(entry, asked) == reading' = [entry |-> entry, asked |-> asked, got |-> None]

\* confirmEntryChange
Confirmed(entry) == entry # editor.entry /\ editor.dirty

\* Mutant: the selection is replaced without a question.
NeverAsked(entry) == {}
Asked(entry) == IF Confirmed(entry) THEN Unsaved ELSE {}

\* transitionRef: not while a write is under way; of reads the last one counts.
Navigate(entry) ==
  /\ task = None /\ entry # editor.entry
  /\ Read(entry, Asked(entry))
  /\ UNCHANGED <<drafts, editor, task, edits, tasks, lost, slipped>>

ServerReads ==
  /\ reading # None /\ reading.got = None
  /\ reading' = [reading EXCEPT !.got = drafts[reading.entry].rev]
  /\ UNCHANGED <<drafts, editor, task, edits, tasks, lost, slipped>>

Opened(entry, rev) ==
  [entry |-> entry, rev |-> rev, draft |-> drafts[entry].contents[rev], dirty |-> FALSE]

ReadArrives ==
  /\ reading # None /\ reading.got # None
  /\ editor' = Opened(reading.entry, reading.got)
  /\ lost' = IF Unsaved \subseteq reading.asked THEN lost
             ELSE lost \cup {IF task = None THEN "navigation" ELSE task.kind}
  /\ reading' = None /\ task' = None
  /\ UNCHANGED <<drafts, edits, tasks, slipped>>

\* It failed, or the navigation was aborted: the editor is as it was.
ReadFails ==
  /\ reading # None /\ reading' = None /\ task' = None
  /\ UNCHANGED <<drafts, editor, edits, tasks, lost, slipped>>

-----------------------------------------------------------------------------
\* trackEntryMutation with busyRef: one write at a time, none beside a read.
Begin(kind, step) ==
  /\ ~Inert /\ tasks < MaxTasks /\ tasks' = tasks + 1
  /\ task' = [kind |-> kind, step |-> step, entry |-> editor.entry, rev |-> editor.rev,
              sent |-> editor.draft]

Save == editor.dirty /\ Begin("save", "save") /\ UNCHANGED <<drafts, editor, reading, edits, lost, slipped>>

\* A draft with changes is saved first.
Publish ==
  /\ Begin("publish", IF editor.dirty THEN "save" ELSE "publish")
  /\ UNCHANGED <<drafts, editor, reading, edits, lost, slipped>>

\* The server compares the revision.
ServerSaves ==
  /\ task # None /\ task.step = "save"
  /\ IF task.rev = drafts[task.entry].rev
     THEN /\ drafts' = [drafts EXCEPT ![task.entry] = Written(@, task.sent)]
          /\ task' = [task EXCEPT !.step = "saved", !.rev = @ + 1]
     ELSE UNCHANGED drafts /\ task' = None
  /\ UNCHANGED <<editor, reading, edits, tasks, lost, slipped>>

\* The selection has the new revision before the history is read again.
SaveAnswered ==
  /\ task # None /\ task.step = "saved"
  /\ editor' = [editor EXCEPT !.rev = task.rev]
  /\ task' = [task EXCEPT !.step = "history"]
  /\ UNCHANGED <<drafts, reading, edits, tasks, lost, slipped>>

SaveEnds ==
  /\ task # None /\ task.step = "history"
  /\ editor' = [editor EXCEPT !.dirty = FALSE]
  /\ task' = IF task.kind = "publish" THEN [task EXCEPT !.step = "publish"] ELSE None
  /\ UNCHANGED <<drafts, reading, edits, tasks, lost, slipped>>

\* publish answers with the entry, which has the draft revision it compared.
Published ==
  /\ task # None /\ task.step = "publish"
  /\ task' = None
  /\ UNCHANGED <<drafts, editor, reading, edits, tasks, lost, slipped>>

\* Any request may fail; what the server has done stays.
TaskFails ==
  /\ task # None /\ reading = None
  /\ task' = None
  /\ UNCHANGED <<drafts, editor, reading, edits, tasks, lost, slipped>>

\* createEntry asks first and opens what it created.
Create(entry) ==
  /\ Begin("create", "run") /\ entry # editor.entry
  /\ Read(entry, Unsaved)
  /\ UNCHANGED <<drafts, editor, edits, lost, slipped>>

\* migrateEntryComponent refuses the selected entry while it has changes, asks for
\* another, writes its draft and opens it.
Migrate(entry) ==
  /\ Begin("migrate", "run") /\ edits < MaxEdits /\ edits' = edits + 1
  /\ entry = editor.entry => ~editor.dirty
  /\ drafts' = [drafts EXCEPT ![entry] = Written(@, Saved(entry) \cup {edits + 1})]
  /\ Read(entry, Asked(entry))
  /\ UNCHANGED <<editor, lost, slipped>>

\* executeRelease, rollbackRelease, executeKnowledgePlan and executeMigrationPlan
\* open the selected entry again when they are done; a plan has written its draft.
RunAndReload(writes) ==
  /\ Begin("reload", "run")
  /\ IF writes THEN /\ edits < MaxEdits /\ edits' = edits + 1
                    /\ drafts' = [drafts EXCEPT ![editor.entry] =
                                    Written(@, Saved(editor.entry) \cup {edits + 1})]
     ELSE UNCHANGED <<drafts, edits>>
  /\ Read(editor.entry, {})
  /\ UNCHANGED <<editor, lost, slipped>>

\* Somebody else saves.
OtherSaves(entry) ==
  /\ edits < MaxEdits /\ edits' = edits + 1
  /\ drafts' = [drafts EXCEPT ![entry] = Written(@, Saved(entry) \cup {edits + 1})]
  /\ UNCHANGED <<editor, reading, task, tasks, lost, slipped>>

-----------------------------------------------------------------------------
Init ==
  /\ drafts = [e \in Entries |-> [rev |-> 1, contents |-> [r \in Revision |-> {}]]]
  /\ \E entry \in Entries : editor = Opened(entry, 1)
  /\ reading = None /\ task = None
  /\ edits = 0 /\ tasks = 0
  /\ lost = {} /\ slipped = FALSE

Next ==
  \/ Type \/ CopyProposal \/ ServerReads \/ ReadArrives \/ ReadFails
  \/ Save \/ Publish \/ ServerSaves \/ SaveAnswered \/ SaveEnds \/ Published \/ TaskFails
  \/ \E writes \in BOOLEAN : RunAndReload(writes)
  \/ \E entry \in Entries : Navigate(entry) \/ Create(entry) \/ Migrate(entry) \/ OtherSaves(entry)

-----------------------------------------------------------------------------
TypeOK ==
  /\ drafts \in [Entries -> [rev : Revision, contents : [Revision -> Contents]]]
  /\ editor \in [entry : Entries, rev : Revision, draft : Contents, dirty : BOOLEAN]
  /\ reading = None \/ reading.entry \in Entries
  /\ task = None \/ task.sent \in Contents
  /\ lost \subseteq {"navigation", "create", "migrate", "reload"}

\* What one editor saves contains all that others saved before, whatever late
\* answers replaced the selection under the draft.
NothingTakenBack ==
  \A e \in Entries : \A r \in 1..(drafts[e].rev - 1) :
    drafts[e].contents[r] \subseteq drafts[e].contents[r + 1]

\* An editor at rest that shows no unsaved changes has none; a proposal that is
\* copied during a write is cleared with what was sent.
CleanMeansSaved == ~Inert /\ ~editor.dirty /\ ~slipped => Unsaved = {}

\* Opening another entry drops only what the user agreed to drop.
OpeningAsks == ~slipped => lost \subseteq {"reload"}

EditsSafe == NothingTakenBack /\ CleanMeansSaved /\ OpeningAsks

\* docs/composition-editor.md:9 says that changes take part in the guard of
\* unsaved changes; operations that reload the selected entry do not ask.
EditsGuarded == slipped \/ lost = {}
=============================================================================
