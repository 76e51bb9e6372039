----------------------------- MODULE Experiments -----------------------------
(***************************************************************************)
(* Targeting and the experiments on it, in one versioned document of a     *)
(* scope: each operation names the version it was shown and replaces the   *)
(* document, so it is atomic.                                              *)
(***************************************************************************)
EXTENDS Naturals

CONSTANTS Trials, Placements,
          MaxTargeting     \* bound on the revisions of the targeting draft

TState   == {"none", "draft", "running", "paused", "completed", "cancelled", "promoted"}
Evidence == {"passed", "failed", "insufficient"}

VARIABLES
  targeting,    \* revisions of the targeting: draft, published (0 for none)
  trials,       \* the experiments
  owed          \* trials paused by a failed guardrail that have no passing snapshot since

evars == <<targeting, trials, owed>>

Trial == [state : TState, place : Placements, pinned : 0..MaxTargeting,
          last : Evidence \cup {"none"}, proven : BOOLEAN]

NewTrial(place) == [state |-> "draft", place |-> place, pinned |-> 0, last |-> "none",
                    proven |-> FALSE]

Init ==
  /\ targeting = [draft |-> 1, published |-> 0]
  /\ \E place \in Placements : trials = [t \in Trials |-> [NewTrial(place) EXCEPT !.state = "none"]]
  /\ owed = {}

-----------------------------------------------------------------------------
\* The personalization service
ReplaceDraft ==
  /\ targeting.draft < MaxTargeting
  /\ targeting' = [targeting EXCEPT !.draft = @ + 1]
  /\ UNCHANGED <<trials, owed>>

Publish ==
  /\ targeting' = [targeting EXCEPT !.published = targeting.draft]
  /\ UNCHANGED <<trials, owed>>

-----------------------------------------------------------------------------
SaveDraft(t, place) ==
  /\ trials[t].state \in {"none", "draft"}
  /\ trials' = [trials EXCEPT ![t] = NewTrial(place)]
  /\ UNCHANGED <<targeting, owed>>

\* A placement may have one active experiment, which a paused one still is.
Active(t)   == trials[t].state \in {"running", "paused"}
Runs(t)     == trials[t].state = "running"     \* Mutant: a paused one does not count.
OverlapsRunning(t) == \E other \in Trials \ {t} : Runs(other) /\ trials[other].place = trials[t].place
Overlaps(t) == \E other \in Trials \ {t} : Active(other) /\ trials[other].place = trials[t].place

Start(t) ==
  /\ trials[t].state = "draft" /\ targeting.published # 0 /\ ~Overlaps(t)
  /\ trials' = [trials EXCEPT ![t].state = "running", ![t].pinned = targeting.published]
  /\ UNCHANGED <<targeting, owed>>

Pause(t) ==
  /\ trials[t].state = "running"
  /\ trials' = [trials EXCEPT ![t].state = "paused"]
  /\ UNCHANGED <<targeting, owed>>

Resume(t) ==
  /\ trials[t].state = "paused"
  /\ targeting.published = trials[t].pinned /\ trials[t].last # "failed"
  /\ trials' = [trials EXCEPT ![t].state = "running"]
  /\ UNCHANGED <<targeting, owed>>

Complete(t) ==
  /\ Active(t)
  /\ trials' = [trials EXCEPT ![t].state = "completed"]
  /\ UNCHANGED <<targeting, owed>>

Cancel(t) ==
  /\ trials[t].state \in {"draft", "running", "paused"}
  /\ trials' = [trials EXCEPT ![t].state = "cancelled"]
  /\ UNCHANGED <<targeting, owed>>

\* The guardrails are evaluated over what is recorded; a failure pauses.  Of the
\* snapshots that are kept, it matters whether one has passed.
RecordMetrics(t, verdict) ==
  LET fails == verdict = "failed" /\ trials[t].state = "running"
  IN  /\ trials[t].state \in {"running", "paused", "completed"}
      /\ trials' = [trials EXCEPT ![t].proven = @ \/ verdict = "passed", ![t].last = verdict,
                                  ![t].state = IF fails THEN "paused" ELSE @]
      /\ owed' = IF fails THEN owed \cup {t} ELSE IF verdict = "passed" THEN owed \ {t} ELSE owed
      /\ UNCHANGED targeting

\* The comparison with the control may refuse as well.
Promote(t) ==
  /\ trials[t].state = "completed" /\ trials[t].proven
  /\ targeting.published = trials[t].pinned
  /\ targeting.draft < MaxTargeting
  /\ targeting' = [targeting EXCEPT !.draft = @ + 1]
  /\ trials' = [trials EXCEPT ![t].state = "promoted", ![t].last = "passed"]
  /\ UNCHANGED owed

\* allocate: the experiment takes part only under the targeting it was started on.
Allocates(t) == trials[t].state = "running" /\ targeting.published = trials[t].pinned

Next ==
  \/ ReplaceDraft \/ Publish
  \/ \E t \in Trials : \/ Start(t) \/ Pause(t) \/ Resume(t) \/ Complete(t) \/ Cancel(t) \/ Promote(t)
                       \/ \E p \in Placements : SaveDraft(t, p)
                       \/ \E v \in Evidence : RecordMetrics(t, v)

-----------------------------------------------------------------------------
TypeOK ==
  /\ targeting \in [draft : 1..MaxTargeting, published : 0..MaxTargeting]
  /\ trials \in [Trials -> Trial]
  /\ owed \subseteq Trials

\* A visitor of a placement is in one experiment at most, however experiments
\* and targeting were edited, paused, resumed and published in between; a
\* published draft never runs behind, and a promotion has its evidence.
OneTrialPerPlacement ==
  /\ \A t, other \in Trials : Active(t) /\ Active(other) /\ trials[t].place = trials[other].place
                                => t = other
  /\ \A t \in Trials : Allocates(t) => 0 < trials[t].pinned /\ trials[t].pinned <= targeting.draft
  /\ \A t \in Trials : trials[t].state = "promoted" => trials[t].pinned < targeting.draft

\* docs/experiments.md:75 says that a passing later snapshot is required
\* before an experiment that a guardrail paused is resumed.
ResumesUnproven == \E t \in owed : trials[t].state = "paused" /\ trials'[t].state = "running"
GuardrailHolds == [][~ResumesUnproven]_evars
=============================================================================
