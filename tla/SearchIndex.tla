---------------------------- MODULE SearchIndex ----------------------------
(***************************************************************************)
(* The lexical and the semantic index of one entry.  Each committed write  *)
(* leaves an outbox event that becomes a search.index job; a worker loads  *)
(* the entry, hands it to the one adapter, then loads it again for the     *)
(* other.  Failed jobs are retried later, so out of order, and end up dead.*)
(*                                                                         *)
(* One worker: the adapters are handed no version to compare, so of two    *)
(* workers the one that read first may write last.                         *)
(***************************************************************************)
EXTENDS Naturals, Sequences

CONSTANTS MaxEntryRev     \* bound on the revisions of the entry

Views == {"draft", "published"}
Revs  == 0..MaxEntryRev
Jobs  == [type : {"draft.updated", "published", "rebuild.draft", "rebuild.published"}, rev : Revs]

VARIABLES
  entry,      \* the stored entry: per view the revision, 0 for none; erased or not
  open,       \* the jobs to be done: as an event of the outbox still, waiting, or dead
  indexer,    \* the worker: its job, the views to go, what it has read
  index,      \* what the adapters hold, per view
  semantic    \* whether the semantic policy is enabled; it stays as it is

xvars == <<entry, open, indexer, index, semantic>>

NoJob == [type |-> "rebuild.draft", rev |-> 0]
Resting == [pc |-> "idle", job |-> NoJob, views |-> <<>>, rev |-> 0]

Init ==
  /\ entry = [draft |-> 0, published |-> 0, erased |-> FALSE]
  /\ open = {}
  /\ indexer = Resting
  /\ index = [lexical |-> [v \in Views |-> 0], semantic |-> [v \in Views |-> 0]]
  /\ semantic \in BOOLEAN

Stored(v) == entry[v]
IsRebuild(job) == job.type \in {"rebuild.draft", "rebuild.published"}

-----------------------------------------------------------------------------
\* create, updateDraft and publish of the content service
SaveDraft ==
  /\ ~entry.erased /\ entry.draft < MaxEntryRev
  /\ entry' = [entry EXCEPT !.draft = @ + 1]
  /\ open' = open \cup {[type |-> "draft.updated", rev |-> entry.draft + 1]}
  /\ UNCHANGED <<indexer, index, semantic>>

Publish ==
  /\ ~entry.erased /\ entry.draft # entry.published
  /\ entry' = [entry EXCEPT !.published = entry.draft]
  /\ open' = open \cup {[type |-> "published", rev |-> entry.draft]}
  /\ UNCHANGED <<indexer, index, semantic>>

\* The erasure asks for its rebuild before it deletes the entry.
Rebuild(v) == [type |-> IF v = "draft" THEN "rebuild.draft" ELSE "rebuild.published", rev |-> 0]

RequestRebuild(v) ==
  /\ \A job \in open : ~IsRebuild(job)      \* a bound: one at a time
  /\ open' = open \cup {Rebuild(v)}
  /\ UNCHANGED <<entry, indexer, index, semantic>>

Erase ==
  /\ ~entry.erased /\ entry.draft # 0
  /\ entry' = [draft |-> 0, published |-> 0, erased |-> TRUE]
  /\ UNCHANGED <<open, indexer, index, semantic>>

-----------------------------------------------------------------------------
ViewsOf(job) == CASE job.type = "published"         -> <<"draft", "published">>
                  [] job.type = "rebuild.published" -> <<"published">>
                  [] OTHER                          -> <<"draft">>

Work(next) == indexer' = next /\ UNCHANGED <<entry, semantic>>

Claim(job) ==
  /\ indexer.pc = "idle" /\ job \in open
  /\ open' = open \ {job}
  /\ Work([Resting EXCEPT !.pc = "lexical", !.job = job, !.views = ViewsOf(job)])
  /\ UNCHANGED index

RevisionOfEvent(job, v) == IF IsRebuild(job) THEN Stored(v) ELSE job.rev   \* Mutant

\* The entry as it is now, not the revision of the event.
Reload(job, v) == Stored(v)

ReadEntry ==
  /\ indexer.pc \in {"lexical", "semantic"} /\ indexer.views # <<>>
  /\ Work([indexer EXCEPT !.pc = IF @ = "lexical" THEN "upsert" ELSE "upsert semantic",
                          !.rev = Reload(indexer.job, Head(indexer.views))])
  /\ UNCHANGED <<open, index>>

\* An entry that is gone is skipped, unless the index is rebuilt.
Upsert ==
  LET v == Head(indexer.views)
  IN  /\ indexer.pc = "upsert"
      /\ index' = IF indexer.rev = 0 /\ ~IsRebuild(indexer.job) THEN index
                  ELSE [index EXCEPT !.lexical[v] = indexer.rev]
      /\ Work([indexer EXCEPT !.pc = "lexical", !.views = Tail(@), !.rev = 0])
      /\ UNCHANGED open

\* processSearchJob of the authoring service looks at the policy first.
TurnToSemantic ==
  /\ indexer.pc = "lexical" /\ indexer.views = <<>>
  /\ Work([indexer EXCEPT !.pc = IF semantic THEN "semantic" ELSE "complete",
                          !.views = ViewsOf(indexer.job)])
  /\ UNCHANGED <<open, index>>

UpsertSemantic ==
  /\ indexer.pc = "upsert semantic"
  /\ index' = [index EXCEPT !.semantic[Head(indexer.views)] = indexer.rev]
  /\ Work([indexer EXCEPT !.pc = "semantic", !.views = Tail(@), !.rev = 0])
  /\ UNCHANGED open

CompleteJob ==
  /\ indexer.pc = "complete" \/ (indexer.pc = "semantic" /\ indexer.views = <<>>)
  /\ Work(Resting)
  /\ UNCHANGED <<open, index>>

\* An adapter fails, or the worker dies and the lease expires: the job waits
\* for another attempt or, if it was at its last, to be replayed.
FailJob ==
  /\ indexer.pc # "idle"
  /\ open' = open \cup {indexer.job}
  /\ Work(Resting)
  /\ UNCHANGED index

Next ==
  \/ SaveDraft \/ Publish \/ Erase
  \/ \E v \in Views : RequestRebuild(v)
  \/ \E job \in Jobs : Claim(job)
  \/ FailJob \/ ReadEntry \/ Upsert \/ TurnToSemantic \/ UpsertSemantic \/ CompleteJob

-----------------------------------------------------------------------------
\* status: nothing pending, nothing dead, and no event unexpanded, which it does not see
Ready == open = {} /\ indexer.pc = "idle"

\* semanticSearch of a hit on the entry: another revision than the stored one
\* fails the whole query.
SemanticStale(v) == index.semantic[v] # 0 /\ index.semantic[v] # Stored(v)

TypeOK ==
  /\ entry \in [draft : Revs, published : Revs, erased : BOOLEAN]
  /\ open \subseteq Jobs
  /\ indexer.job \in Jobs /\ indexer.rev \in Revs
  /\ index \in [lexical : [Views -> Revs], semantic : [Views -> Revs]]

\* An index that reports itself ready, with the events expanded, holds the
\* stored revision of each view of an entry that exists, whatever failed on
\* the way and in whichever order the jobs were done; and the semantic index
\* does as well, if it is enabled.
ReadyMeansFresh ==
  Ready /\ ~entry.erased =>
    \A v \in Views : /\ index.lexical[v] = Stored(v)
                     /\ semantic => index.semantic[v] = Stored(v) /\ ~SemanticStale(v)
=============================================================================
