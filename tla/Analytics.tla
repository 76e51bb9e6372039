----------------------------- MODULE Analytics -----------------------------
(***************************************************************************)
(* Analytics counts events in one document per scope.  An event becomes a  *)
(* job, which the queue delivers at least once: workers die in it, overrun *)
(* their lease and replay it.  The document keeps receipts of what it      *)
(* counted, the newest only, and the job hands the event on to an adapter. *)
(***************************************************************************)
EXTENDS Naturals, FiniteSets

CONSTANTS
  Events,           \* the identifiers of the events
  Workers,
  MaxTime,          \* bound on the times at which events occur
  MaxReceipts,      \* maximumIdempotencyReceipts
  MaxReplays,       \* bound on the replays of jobs
  MaxWrites,        \* bound on the writes of the document
  None

VARIABLES
  doc,              \* the document: its writes, the count of each event, receipts
  occurredAt,       \* when each event occurred; 0 before it is accepted
  jobs,             \* the processing and the delivery job of each event
  worker,           \* what each worker is doing
  provider          \* the events that the adapter was given

nvars == <<doc, occurredAt, jobs, worker, provider>>

Resting == [pc |-> "idle", event |-> None, current |-> FALSE]

Init ==
  /\ doc = [writes |-> 0, counts |-> [e \in Events |-> 0], receipts |-> {}, truncated |-> FALSE]
  /\ occurredAt = [e \in Events |-> 0]
  /\ jobs = [process |-> {}, deliver |-> {}, replays |-> 0]
  /\ worker = [k \in Workers |-> Resting]
  /\ provider = {}

\* ingest and enqueueLifecycle: the id of the event is the key of its job, and
\* an event that arrives again finds it there.
Enqueue(e, time) ==
  /\ occurredAt[e] = 0
  /\ occurredAt' = [occurredAt EXCEPT ![e] = time]
  /\ jobs' = [jobs EXCEPT !.process = @ \cup {e}]
  /\ UNCHANGED <<doc, worker, provider>>

\* A worker that overran its lease may be at the same job.
Claim(k, e) ==
  /\ worker[k].pc = "idle" /\ e \in jobs.process
  /\ worker' = [worker EXCEPT ![k].pc = "read", ![k].event = e]
  /\ UNCHANGED <<doc, occurredAt, jobs, provider>>

CountedAnyway(e) == FALSE     \* Mutant: the receipts are not looked at.
Counted(e) == e \in doc.receipts

ReadDocument(k) ==
  /\ worker[k].pc = "read"
  /\ worker' = [worker EXCEPT ![k].pc = IF Counted(worker[k].event) THEN "fan out" ELSE "save",
                              ![k].current = TRUE]
  /\ UNCHANGED <<doc, occurredAt, jobs, provider>>

\* boundedNewest: those that occurred last.  The one that is added is cut off
\* like any other if it occurred before them.
Newest(receipts) ==
  IF Cardinality(receipts) <= MaxReceipts THEN {receipts}
  ELSE {kept \in SUBSET receipts :
          /\ Cardinality(kept) = MaxReceipts
          /\ \A e \in kept, f \in receipts \ kept : occurredAt[f] <= occurredAt[e]}

\* #aggregate saves if the document is as it was read, and reads again if it is
\* not; after the fifth time the job fails, as does any that throws.
SaveDocument(k) ==
  LET e == worker[k].event
      receipts == doc.receipts \cup {e}
  IN  /\ worker[k].pc = "save" /\ worker[k].current /\ doc.writes < MaxWrites
      /\ \E kept \in Newest(receipts) :
           doc' = [writes |-> doc.writes + 1, counts |-> [doc.counts EXCEPT ![e] = @ + 1],
                   receipts |-> kept, truncated |-> doc.truncated \/ kept # receipts]
      /\ worker' = [other \in Workers |-> IF other = k THEN [worker[k] EXCEPT !.pc = "fan out"]
                                          ELSE [worker[other] EXCEPT !.current = FALSE]]
      /\ UNCHANGED <<occurredAt, jobs, provider>>

SaveConflicts(k) ==
  /\ worker[k].pc = "save" /\ ~worker[k].current
  /\ worker' = [worker EXCEPT ![k].pc = "read"]
  /\ UNCHANGED <<doc, occurredAt, jobs, provider>>

\* The key of the delivery job is the adapter and the event.
FanOut(k) ==
  /\ worker[k].pc = "fan out"
  /\ jobs' = [jobs EXCEPT !.deliver = @ \cup {worker[k].event}]
  /\ worker' = [worker EXCEPT ![k].pc = "complete"]
  /\ UNCHANGED <<doc, occurredAt, provider>>

Complete(k) ==
  /\ worker[k].pc = "complete"
  /\ jobs' = [jobs EXCEPT !.process = @ \ {worker[k].event}]
  /\ worker' = [worker EXCEPT ![k] = Resting]
  /\ UNCHANGED <<doc, occurredAt, provider>>

\* The job stays due, whether its worker died or reported an error.
Abandon(k) ==
  /\ worker[k].pc # "idle"
  /\ worker' = [worker EXCEPT ![k] = Resting]
  /\ UNCHANGED <<doc, occurredAt, jobs, provider>>

ReplayJob(e) ==
  /\ occurredAt[e] # 0 /\ e \notin jobs.process /\ jobs.replays < MaxReplays
  /\ jobs' = [jobs EXCEPT !.process = @ \cup {e}, !.replays = @ + 1]
  /\ UNCHANGED <<doc, occurredAt, worker, provider>>

Deliver(e) ==
  /\ e \in jobs.deliver \ provider
  /\ provider' = provider \cup {e}
  /\ UNCHANGED <<doc, occurredAt, jobs, worker>>

Next ==
  \/ \E e \in Events : ReplayJob(e) \/ Deliver(e) \/ \E time \in 1..MaxTime : Enqueue(e, time)
  \/ \E k \in Workers :
       \/ ReadDocument(k) \/ SaveDocument(k) \/ SaveConflicts(k) \/ FanOut(k) \/ Complete(k) \/ Abandon(k)
       \/ \E e \in Events : Claim(k, e)

-----------------------------------------------------------------------------
TypeOK ==
  /\ doc.counts \in [Events -> Nat] /\ doc.receipts \subseteq Events
  /\ occurredAt \in [Events -> 0..MaxTime]
  /\ jobs.process \cup jobs.deliver \cup provider \subseteq Events
  /\ \A k \in Workers : worker[k].event \in Events \cup {None}

\* docs/adr/0019-bounded-content-analytics.md:30: the receipts keep replays from
\* counting twice, as long as none was cut off.  What is no longer to be
\* processed was counted, and the adapter is given nothing that was not.
CountedOnce ==
  /\ ~doc.truncated => \A e \in Events : doc.counts[e] <= 1
  /\ Cardinality(doc.receipts) <= MaxReceipts
  /\ \A e \in Events : occurredAt[e] # 0 /\ e \notin jobs.process => doc.counts[e] >= 1
  /\ \A e \in jobs.deliver : doc.counts[e] >= 1
=============================================================================
