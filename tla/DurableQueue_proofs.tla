------------------------- MODULE DurableQueue_proofs -------------------------
(***************************************************************************)
(* Proofs about DurableQueue, for every set of workers, events, entries,   *)
(* destinations and subscriptions, and every limit and budget.             *)
(***************************************************************************)
EXTENDS DurableQueue, FiniteSetTheorems, TLAPS

Id == Event \cup Job

(***************************************************************************)
(* Type correctness.                                                       *)
(***************************************************************************)

LEMMA RowTypes ==
    /\ NoRow \in Row /\ NewRow \in Row
    /\ \A r \in Row : /\ \A w \in Worker : Claimed(r, w) \in Row
                      /\ Succeeded(r) \in Row
                      /\ \A dead \in BOOLEAN : Retried(r, dead) \in Row
                      /\ [r EXCEPT !.ready = TRUE] \in Row
                      /\ [r EXCEPT !.expired = TRUE] \in Row
<1>1. NoRow \in Row /\ NewRow \in Row
  BY DEF Row, NoRow, NewRow, FirstAttempts
<1> SUFFICES ASSUME NEW r \in Row
             PROVE  /\ \A w \in Worker : Claimed(r, w) \in Row
                    /\ Succeeded(r) \in Row
                    /\ \A dead \in BOOLEAN : Retried(r, dead) \in Row
                    /\ [r EXCEPT !.ready = TRUE] \in Row
                    /\ [r EXCEPT !.expired = TRUE] \in Row
  BY <1>1
<1>2. \A w \in Worker : Claimed(r, w) \in Row
  <2> SUFFICES ASSUME NEW w \in Worker PROVE Claimed(r, w) \in Row
    OBVIOUS
  <2>1. Name[w] \in Owner \cup {None}
    BY QueueAssumption
  <2>2. r.attempts + 1 \in Nat
    BY DEF Row
  <2> QED BY <2>1, <2>2 DEF Row, Claimed
<1>3. Succeeded(r) \in Row
  BY DEF Row, Succeeded
<1>4. \A dead \in BOOLEAN : Retried(r, dead) \in Row
  BY DEF Row, Retried
<1>5. [r EXCEPT !.ready = TRUE] \in Row /\ [r EXCEPT !.expired = TRUE] \in Row
  BY DEF Row
<1> QED BY <1>2, <1>3, <1>4, <1>5

LEMMA WorkerTypes ==
    ASSUME NEW s \in WorkerState
    PROVE  /\ Down \in WorkerState /\ IdleWorker \in WorkerState
           /\ \A x \in {"down", "idle"} \cup EventStep \cup JobStep :
                 [s EXCEPT !.step = x] \in WorkerState
           /\ \A d \in SUBSET Dest : [s EXCEPT !.todo = d] \in WorkerState
BY DEF WorkerState, Down, IdleWorker, EventStep, JobStep

LEMMA JobKey ==
    ASSUME NEW e \in Event, NEW d \in Dest
    PROVE  <<e, d, 0>> \in Job
BY BudgetAssumption DEF Job, Copy

LEMMA ClaimBatchType ==
    ASSUME TypeOK, NEW w \in Worker, NEW next \in {"events", "jobs"}, 
           NEW ids \in SUBSET Id,
           next = "events" => ids \subseteq Event, next = "jobs" => ids \subseteq Job,
           ClaimBatch(w, ids, next),
           UNCHANGED <<subscribed, history, spent>>
    PROVE  TypeOK'
<1>1. PICK taken \in SUBSET ids :
        /\ row' = [i \in DOMAIN row |-> IF i \in taken THEN Claimed(row[i], w)
                                        ELSE row[i]]
        /\ worker' = [worker EXCEPT ![w] =
              [step |-> next, current |-> None, todo |-> {},
               batch |-> {ClaimOf(i, row[i].attempts + 1) : i \in taken}]]
  BY DEF ClaimBatch
<1>2. row' \in [Id -> Row]
  BY <1>1, RowTypes DEF TypeOK, Id
<1>3. {ClaimOf(i, row[i].attempts + 1) : i \in taken} \in SUBSET Claim
  BY DEF TypeOK, Row, ClaimOf, Claim, Id
<1>4. worker' \in [Worker -> WorkerState]
  BY <1>1, <1>3 DEF TypeOK, WorkerState, EventStep, JobStep
<1>5. \A v \in Worker : WorkerOK(v)'
  <2>1. ASSUME NEW v \in Worker, v # w PROVE WorkerOK(v)'
    BY <1>1, <2>1 DEF TypeOK, WorkerOK, Step, Batch, Current
  <2>2. WorkerOK(w)'
    BY <1>1 DEF TypeOK, WorkerOK, Step, Batch, Current, ClaimOf, EventStep, JobStep, BusyStep
  <2> QED BY <2>1, <2>2
<1> QED BY <1>2, <1>4, <1>5 DEF TypeOK, Id, history

\* What a worker does to itself leaves the others as they are.
LEMMA OthersOK ==
    ASSUME TypeOK, NEW w \in Worker, NEW s \in WorkerState,
           worker' = [worker EXCEPT ![w] = s],
           WorkerOK(w)'
    PROVE  worker' \in [Worker -> WorkerState] /\ \A v \in Worker : WorkerOK(v)'
BY DEF TypeOK, WorkerOK, Step, Batch, Current

LEMMA RescheduleType ==
    ASSUME TypeOK, NEW w \in Worker, NEW next,
           \/ Step(w) = "retry" /\ next = "events"
           \/ Step(w) = "fail" /\ next = "jobs",
           Reschedule(w, next)
    PROVE  TypeOK'
<1> DEFINE c == Current(w)
           dead == Exhausted(c.attempts, MaxAttempts(c.id))
           s == [worker[w] EXCEPT !.step = next, !.current = None,
                                  !.batch = LeftAfterFailure(@, c)]
<1>1. worker[w] \in WorkerState /\ c \in Batch(w) /\ c \in Claim /\ dead \in BOOLEAN
  BY DEF TypeOK, WorkerOK, BusyStep, WorkerState, Current, Batch, Exhausted
<1>2. s \in WorkerState /\ Down \in WorkerState
  BY <1>1, WorkerTypes DEF WorkerState, LeftAfterFailure, EventStep, JobStep
<1> HIDE DEF dead
<1>3. CASE HasLease(w, c.id)
  <2>1. row' = [row EXCEPT ![c.id] = Retried(@, dead)]
        /\ worker' = [worker EXCEPT ![w] = s] /\ UNCHANGED <<subscribed, history, spent>>
    BY <1>3 DEF Reschedule, dead, TypeOK
  <2>2. row' \in [Event \cup Job -> Row]
    BY <2>1, <1>1, RowTypes DEF TypeOK
  <2>3. WorkerOK(w)'
    BY <2>1, <1>1 DEF TypeOK, WorkerOK, Step, Batch, Current, EventStep, JobStep,
       BusyStep, LeftAfterFailure
  <2> QED BY <2>1, <2>2, <2>3, <1>2, OthersOK DEF TypeOK, history
<1>4. CASE ~HasLease(w, c.id)
  <2>1. row' = row
        /\ worker' = [worker EXCEPT ![w] = Down] /\ UNCHANGED <<subscribed, history, spent>>
    BY <1>4 DEF Reschedule
  <2>2. WorkerOK(w)'
    BY <2>1 DEF TypeOK, WorkerOK, Step, Batch, Current, EventStep, JobStep, BusyStep, Down
  <2> QED BY <2>1, <2>2, <1>2, OthersOK DEF TypeOK, history
<1> QED BY <1>3, <1>4

\* The steps of drain, in the order of a pass.
LEMMA DrainType ==
    ASSUME TypeOK, NEW w \in Worker, Drain(w)
    PROVE  TypeOK'
<1> DEFINE c == Current(w)
<1>0. worker[w] \in WorkerState /\ Down \in WorkerState /\ IdleWorker \in WorkerState
  BY WorkerTypes DEF TypeOK
<1>1. CASE ClaimEvents(w)
  BY <1>1, ClaimBatchType DEF ClaimEvents, Id
<1>2. CASE StartExpand(w)
  <2>1. PICK x \in Batch(w) :
          worker' = [worker EXCEPT ![w].step = "fixed", ![w].current = x, ![w].todo = Fixed]
    BY <1>2 DEF StartExpand
  <2> DEFINE s == [worker[w] EXCEPT !.step = "fixed", !.current = x, !.todo = Fixed]
  <2>2. worker' = [worker EXCEPT ![w] = s]
    BY <2>1 DEF TypeOK
  <2>3. s \in WorkerState
    BY <1>0 DEF WorkerState, Batch, EventStep, Dest
  <2>4. WorkerOK(w)'
    BY <2>2, <1>2 DEF TypeOK, StartExpand, WorkerOK, Step, Batch, Current, EventStep,
       JobStep, BusyStep
  <2> QED BY <1>2, <2>2, <2>3, <2>4, OthersOK DEF StartExpand, TypeOK, history
<1>3. CASE Enqueue(w)
  <2>1. PICK d \in worker[w].todo :
          /\ row' = [row EXCEPT ![<<c.id, d, 0>>] =
                        IF Present(<<c.id, d, 0>>) THEN @ ELSE NewRow]
          /\ worker' = [worker EXCEPT ![w].todo = @ \ {d}]
    BY <1>3 DEF Enqueue
  <2> DEFINE s == [worker[w] EXCEPT !.todo = @ \ {d}]
  <2>2. worker' = [worker EXCEPT ![w] = s]
    BY <2>1 DEF TypeOK
  <2>3. s \in WorkerState
    BY <1>0 DEF WorkerState
  <2>4. WorkerOK(w)'
    BY <2>2, <1>3 DEF TypeOK, Enqueue, WorkerOK, Step, Batch, Current, EventStep,
       JobStep, BusyStep
  <2>5. row' \in [Event \cup Job -> Row]
    BY <2>1, RowTypes DEF TypeOK
  <2> QED BY <1>3, <2>2, <2>3, <2>4, <2>5, OthersOK DEF Enqueue, TypeOK, history
<1>4. CASE ReadSubscriptions(w)
  <2> DEFINE s == [worker[w] EXCEPT !.step = "hooks", !.todo = subscribed]
  <2>2. worker' = [worker EXCEPT ![w] = s]
    BY <1>4 DEF ReadSubscriptions, TypeOK
  <2>3. s \in WorkerState
    BY <1>0 DEF WorkerState, TypeOK, Dest, EventStep
  <2>4. WorkerOK(w)'
    BY <2>2, <1>4 DEF TypeOK, ReadSubscriptions, WorkerOK, Step, Batch, Current,
       EventStep, JobStep, BusyStep
  <2> QED BY <1>4, <2>2, <2>3, <2>4, OthersOK DEF ReadSubscriptions, TypeOK, history
<1>5. CASE ExpandFails(w)
  <2> DEFINE s == [worker[w] EXCEPT !.step = "retry", !.todo = {}]
  <2>2. worker' = [worker EXCEPT ![w] = s]
    BY <1>5 DEF ExpandFails, TypeOK, AfterExpandError
  <2>3. s \in WorkerState
    BY <1>0 DEF WorkerState, EventStep
  <2>4. WorkerOK(w)'
    BY <2>2, <1>5 DEF TypeOK, ExpandFails, WorkerOK, Step, Batch, Current,
       EventStep, JobStep, BusyStep
  <2> QED BY <1>5, <2>2, <2>3, <2>4, OthersOK DEF ExpandFails, TypeOK, history
<1>6. CASE CompleteEvent(w) \/ AckJob(w)
  <2>1. PICK next, error :
          /\ \/ Step(w) = "hooks" /\ next = "events" /\ error = "retry"
             \/ Step(w) = "ack" /\ next = "jobs" /\ error = "fail"
          /\ UNCHANGED <<subscribed, history, spent>>
          /\ \/ /\ row' = [row EXCEPT ![c.id] = Succeeded(@)]
                /\ worker' = [worker EXCEPT ![w].step = next, ![w].current = None,
                                            ![w].batch = @ \ {c}]
             \/ row' = row /\ worker' = [worker EXCEPT ![w].step = error]
    BY <1>6 DEF CompleteEvent, AckJob
  <2> DEFINE s == [worker[w] EXCEPT !.step = next, !.current = None, !.batch = @ \ {c}]
             t == [worker[w] EXCEPT !.step = error]
  <2>2. c \in Batch(w) /\ c.id \in Event \cup Job
    BY <2>1, <1>0 DEF TypeOK, WorkerOK, BusyStep, WorkerState, Claim, Batch
  <2>3. s \in WorkerState /\ t \in WorkerState
    BY <2>1, <1>0 DEF WorkerState, EventStep, JobStep
  <2>4. worker' = [worker EXCEPT ![w] = s] \/ worker' = [worker EXCEPT ![w] = t]
    BY <2>1 DEF TypeOK
  <2>5. row' \in [Event \cup Job -> Row]
    <3>1. row[c.id] \in Row
      BY <2>2 DEF TypeOK
    <3> QED BY <2>1, <3>1, RowTypes DEF TypeOK
  <2>6. WorkerOK(w)'
    <3>1. worker'[w] = s \/ worker'[w] = t
      BY <2>4 DEF TypeOK
    <3>2. /\ s.step = next /\ s.current = None /\ s.batch = Batch(w) \ {c}
          /\ t.step = error /\ t.current = c /\ t.batch = Batch(w)
      BY <1>0 DEF WorkerState, Batch, Current
    <3> HIDE DEF s, t
    <3> QED BY <3>1, <3>2, <2>1, <2>2 DEF TypeOK, WorkerOK, Step, Batch, Current,
            EventStep, JobStep, BusyStep
  <2> QED BY <2>1, <2>3, <2>4, <2>5, <2>6, OthersOK DEF TypeOK, history
<1>7. CASE RetryEvent(w)
  BY <1>7, RescheduleType DEF RetryEvent
<1>8. CASE ClaimJobs(w)
  BY <1>8, ClaimBatchType DEF ClaimJobs, Id
<1>9. CASE RunJob(w)
  <2>1. PICK x \in Batch(w), o \in Outcome :
          /\ delivered' = [delivered EXCEPT ![x.id] = @ + o[1]]
          /\ worker' = [worker EXCEPT ![w].step = o[2], ![w].current = x]
    BY <1>9 DEF RunJob
  <2> DEFINE s == [worker[w] EXCEPT !.step = o[2], !.current = x]
  <2>2. worker' = [worker EXCEPT ![w] = s]
    BY <2>1 DEF TypeOK
  <2>6. o[1] \in Nat /\ o[2] \in {"ack", "fail"}
    BY DEF Outcome
  <2>7. x.id \in Job
    BY <1>9 DEF RunJob, TypeOK, WorkerOK, JobStep
  <2>3. s \in WorkerState
    BY <1>0, <2>6 DEF WorkerState, Batch, JobStep
  <2>4. WorkerOK(w)'
    BY <2>2, <2>6, <1>9 DEF TypeOK, RunJob, WorkerOK, Step, Batch, Current, EventStep,
       JobStep, BusyStep
  <2>5. delivered' \in [Job -> Nat]
    BY <2>1, <2>6, <2>7 DEF TypeOK
  <2> QED BY <1>9, <2>2, <2>3, <2>4, <2>5, OthersOK DEF RunJob, TypeOK
<1>10. CASE FailJob(w)
  BY <1>10, RescheduleType DEF FailJob
<1>11. CASE DrainEnds(w)
  <2>1. WorkerOK(w)'
    BY <1>11 DEF DrainEnds, TypeOK, WorkerOK, Step, Batch, Current, IdleWorker, Down,
       EventStep, JobStep, BusyStep
  <2> QED BY <2>1, <1>0, <1>11, OthersOK DEF DrainEnds, TypeOK, history
<1> QED BY <1>1, <1>2, <1>3, <1>4, <1>5, <1>6, <1>7, <1>8, <1>9, <1>10, <1>11 DEF Drain

LEMMA TypeStep ==
    ASSUME TypeOK, [Next]_vars
    PROVE  TypeOK'
<1>1. ASSUME NEW w \in Worker, Drain(w) PROVE TypeOK'
  BY <1>1, DrainType
<1>2. ASSUME NEW w \in Worker, Crash(w) \/ Restart(w) PROVE TypeOK'
  <2> PICK s \in {Down, IdleWorker} : worker' = [worker EXCEPT ![w] = s]
    BY <1>2 DEF Crash, Restart
  <2>1. worker[w] \in WorkerState /\ s \in WorkerState
    BY WorkerTypes DEF TypeOK
  <2>2. WorkerOK(w)'
    BY DEF TypeOK, WorkerOK, Step, Batch, Current, IdleWorker, Down, EventStep,
       JobStep, BusyStep
  <2>3. spent' \in [crashes : Nat, slips : Nat, toggles : Nat]
    BY <1>2 DEF Crash, Restart, TypeOK
  <2> QED BY <2>1, <2>2, <2>3, <1>2, OthersOK DEF Crash, Restart, TypeOK, history
<1>3. ASSUME NEW i \in Event \cup Job, Due(i) \/ Expire(i) \/ Slip(i) PROVE TypeOK'
  <2>1. row' \in [Event \cup Job -> Row]
    <3>2. row[i] \in Row
      BY DEF TypeOK
    <3>1. \/ row' = [row EXCEPT ![i] = [row[i] EXCEPT !.ready = TRUE]]
          \/ row' = [row EXCEPT ![i] = [row[i] EXCEPT !.expired = TRUE]]
      BY <1>3 DEF Due, Expire, Slip, TypeOK
    <3> QED BY <3>1, <3>2, RowTypes DEF TypeOK
  <2>2. spent' \in [crashes : Nat, slips : Nat, toggles : Nat]
    BY <1>3 DEF Due, Expire, Slip, TypeOK
  <2>3. UNCHANGED <<subscribed, worker, history>>
    BY <1>3 DEF Due, Expire, Slip
  <2> QED BY <2>1, <2>2, <2>3 DEF TypeOK, WorkerOK, Step, Batch, Current, history
<1>4. ASSUME NEW e \in Event, Emit(e) PROVE TypeOK'
  <2>1. row' \in [Event \cup Job -> Row]
    BY <1>4, RowTypes DEF Emit, TypeOK
  <2> QED BY <2>1, <1>4 DEF Emit, TypeOK, WorkerOK, Step, Batch, Current
<1>5. ASSUME NEW x \in Entry, DeleteEntry(x) \/ ReplaceEntry(x) PROVE TypeOK'
  <2>0. PICK ids : Remove(x, ids, "deleted") \/ Remove(x, ids, "replaced")
    BY <1>5 DEF DeleteEntry, ReplaceEntry
  <2>1. row' \in [Event \cup Job -> Row]
    BY <2>0, RowTypes DEF Remove, TypeOK
  <2> QED BY <2>0, <2>1 DEF Remove, TypeOK, WorkerOK, Step, Batch, Current
<1>6. ASSUME NEW e \in Event, NEW d \in Dest, NEW a \in Copy, NEW b \in Copy,
             Replay(e, d, a, b)
      PROVE  TypeOK'
  <2>1. row' \in [Event \cup Job -> Row]
    BY <1>6, RowTypes DEF Replay, TypeOK
  <2> QED BY <2>1, <1>6 DEF Replay, TypeOK, WorkerOK, Step, Batch, Current, history
<1>7. ASSUME NEW x \in Sub, SetSubscription(x) PROVE TypeOK'
  <2>1. subscribed' \in SUBSET Sub
    BY <1>7 DEF SetSubscription, TypeOK
  <2>2. spent' \in [crashes : Nat, slips : Nat, toggles : Nat]
    BY <1>7 DEF SetSubscription, TypeOK
  <2>3. steady' \in [Event -> SUBSET Sub]
    BY <1>7 DEF SetSubscription, TypeOK
  <2> QED BY <2>1, <2>2, <2>3, <1>7 DEF SetSubscription, TypeOK, WorkerOK, Step, Batch, Current
<1>8. CASE UNCHANGED vars
  BY <1>8 DEF vars, history, TypeOK, WorkerOK, Step, Batch, Current
<1> QED BY <1>1, <1>2, <1>3, <1>4, <1>5, <1>6, <1>7, <1>8 DEF Next

LEMMA TypeInit ==
    ASSUME Init
    PROVE  TypeOK
<1>1. IdleWorker \in WorkerState
  BY DEF IdleWorker, Down, WorkerState, EventStep, JobStep
<1>2. \A w \in Worker : WorkerOK(w)
  BY DEF Init, WorkerOK, Step, Batch, Current, IdleWorker, Down, EventStep, JobStep,
     BusyStep
<1> QED BY <1>1, <1>2, RowTypes DEF Init, TypeOK

\* Every variable keeps its type, and what a worker holds fits its step.
THEOREM TypeCorrect == Spec => []TypeOK
<1>1. Init => TypeOK
  BY TypeInit
<1>2. TypeOK /\ [Next]_vars => TypeOK'
  BY TypeStep
<1> QED BY <1>1, <1>2, PTL DEF Spec

(***************************************************************************)
(* What a step can do to one row, and to one worker's batch.               *)
(***************************************************************************)

\* A claim of w takes row i: w had nothing, and now has this attempt.
TakenBy(w, i) ==
    /\ Claimable(i) /\ Batch(w) = {}
    /\ row'[i] = Claimed(row[i], w)

\* w, holding the lease, decides row i.
SucceededBy(w, i) ==
    /\ HasLease(w, i) /\ i = Current(w).id /\ Current(w) \in Batch(w)
    /\ Step(w) = IF i \in Event THEN "hooks" ELSE "ack"
    /\ i \in Event => worker[w].todo = {}
    /\ row'[i] = Succeeded(row[i])

RetriedBy(w, i) ==
    /\ HasLease(w, i) /\ i = Current(w).id /\ Current(w) \in Batch(w)
    /\ row'[i] = Retried(row[i], Exhausted(Current(w).attempts, MaxAttempts(i)))

Aged(i) ==
    \/ row[i].state = "pending" /\ row'[i] = [row[i] EXCEPT !.ready = TRUE]
    \/ row[i].state = "processing" /\ row'[i] = [row[i] EXCEPT !.expired = TRUE]

\* A deletion takes the event of a job with it, and records that of an event.
Deleted(i) ==
    /\ row'[i] = NoRow
    /\ i \in Job => row'[i[1]] = NoRow
    /\ i \in Event /\ Present(i) => removed'[i] # None

Inserted(i) ==
    /\ ~Present(i) /\ row'[i] = NewRow
    /\ i \in Event => removed[i] = None

RowStep(i) ==
    \/ row'[i] = row[i]
    \/ Deleted(i)
    \/ Inserted(i)
    \/ \E w \in Worker : TakenBy(w, i) \/ SucceededBy(w, i) \/ RetriedBy(w, i)
    \/ Aged(i)

LEMMA ClaimBatchRow ==
    ASSUME TypeOK, NEW w \in Worker, NEW next, NEW ids, Batch(w) = {},
           ClaimBatch(w, ids, next), NEW i \in Event \cup Job
    PROVE  RowStep(i)
<1>1. PICK taken \in SUBSET {x \in ids : Claimable(x)} :
        row' = [x \in DOMAIN row |-> IF x \in taken THEN Claimed(row[x], w) ELSE row[x]]
  BY DEF ClaimBatch
<1>2. CASE i \in taken
  BY <1>1, <1>2 DEF RowStep, TakenBy, TypeOK
<1>3. CASE i \notin taken
  BY <1>1, <1>3 DEF RowStep, TypeOK
<1> QED BY <1>2, <1>3

LEMMA RowSteps ==
    ASSUME TypeOK, [Next]_vars, NEW i \in Event \cup Job
    PROVE  RowStep(i)
<1> USE DEF RowStep
<1>1. ASSUME NEW w \in Worker, Drain(w) PROVE RowStep(i)
  <2>1. CASE ClaimEvents(w)
    BY <2>1, ClaimBatchRow DEF ClaimEvents, TypeOK, WorkerOK
  <2>2. CASE ClaimJobs(w)
    BY <2>2, ClaimBatchRow DEF ClaimJobs
  <2>3. CASE Enqueue(w)
    <3>1. PICK d \in worker[w].todo :
            row' = [row EXCEPT ![<<Current(w).id, d, 0>>] =
                       IF Present(<<Current(w).id, d, 0>>) THEN @ ELSE NewRow]
      BY <2>3 DEF Enqueue
    <3>2. Current(w).id \in Event /\ d \in Dest
      BY <2>3 DEF Enqueue, TypeOK, WorkerOK, BusyStep, EventStep, WorkerState
    <3>3. <<Current(w).id, d, 0>> \notin Event
      BY <3>2, JobKey, QueueAssumption
    <3> QED BY <3>1, <3>3 DEF Inserted, TypeOK
  <2>4. CASE CompleteEvent(w)
    <3>1. Current(w) \in Batch(w) /\ Current(w).id \in Event
      BY <2>4 DEF CompleteEvent, TypeOK, WorkerOK, BusyStep, EventStep
    <3> QED BY <2>4, <3>1 DEF CompleteEvent, SucceededBy, TypeOK
  <2>5. CASE AckJob(w)
    <3>1. Current(w) \in Batch(w) /\ Current(w).id \in Job
      BY <2>5 DEF AckJob, TypeOK, WorkerOK, BusyStep, JobStep
    <3>2. Current(w).id \notin Event
      BY <3>1, QueueAssumption
    <3> QED BY <2>5, <3>1, <3>2 DEF AckJob, SucceededBy, TypeOK
  <2>6. CASE RetryEvent(w) \/ FailJob(w)
    <3>1. Current(w) \in Batch(w)
      BY <2>6 DEF RetryEvent, FailJob, TypeOK, WorkerOK, BusyStep
    <3> QED BY <2>6, <3>1 DEF RetryEvent, FailJob, Reschedule, RetriedBy, TypeOK
  <2>7. CASE \/ StartExpand(w) \/ ReadSubscriptions(w) \/ ExpandFails(w)
             \/ RunJob(w) \/ DrainEnds(w)
    BY <2>7 DEF StartExpand, ReadSubscriptions, ExpandFails, RunJob, DrainEnds
  <2> QED BY <1>1, <2>1, <2>2, <2>3, <2>4, <2>5, <2>6, <2>7 DEF Drain
<1>2. ASSUME NEW w \in Worker, Crash(w) \/ Restart(w) PROVE RowStep(i)
  BY <1>2 DEF Crash, Restart
<1>3. ASSUME NEW x \in Event \cup Job, Due(x) \/ Expire(x) \/ Slip(x) PROVE RowStep(i)
  BY <1>3 DEF Due, Expire, Slip, Aged, TypeOK
<1>4. ASSUME NEW e \in Event, Emit(e) PROVE RowStep(i)
  BY <1>4 DEF Emit, Inserted, TypeOK
<1>5. ASSUME NEW x \in Entry, DeleteEntry(x) \/ ReplaceEntry(x) PROVE RowStep(i)
  <2> DEFINE both == EventsOf(x) \cup (EventsOf(x) \X Removable \X Copy)
  <2>0. Remove(x, both, "deleted") \/ Remove(x, EventsOf(x), "replaced")
    BY <1>5 DEF DeleteEntry, ReplaceEntry
  <2>1. PICK ids \in {both, EventsOf(x)} :
          Remove(x, ids, "deleted") \/ Remove(x, ids, "replaced")
    BY <2>0
  <2>2. CASE i \notin ids
    BY <2>1, <2>2 DEF Remove, TypeOK
  <2>3. CASE i \in ids /\ i \in Event
    <3>1. i \notin Job /\ EntryOf[i] = x
      BY <2>1, <2>3, QueueAssumption DEF EventsOf, Job, Dest
    <3>2. Present(i) => removed'[i] # None
      BY <2>1, <2>3, <3>1, QueueAssumption DEF Remove
    <3> QED BY <2>1, <2>3, <3>1, <3>2 DEF Remove, Deleted, TypeOK
  <2>4. CASE i \in ids /\ i \notin Event
    <3>1. i[1] \in EventsOf(x) /\ i[1] \in Event
      BY <2>1, <2>4 DEF EventsOf
    <3> QED BY <2>1, <2>4, <3>1 DEF Remove, Deleted, TypeOK
  <2> QED BY <2>2, <2>3, <2>4
<1>6. ASSUME NEW e \in Event, NEW d \in Dest, NEW a \in Copy, NEW b \in Copy,
             Replay(e, d, a, b)
      PROVE  RowStep(i)
  <2>1. <<e, d, b>> \notin Event
    BY QueueAssumption DEF Job
  <2> QED BY <1>6, <2>1 DEF Replay, Inserted, TypeOK
<1>7. ASSUME NEW x \in Sub, SetSubscription(x) PROVE RowStep(i)
  BY <1>7 DEF SetSubscription
<1>8. CASE UNCHANGED vars
  BY <1>8 DEF vars
<1> QED BY <1>1, <1>2, <1>3, <1>4, <1>5, <1>6, <1>7, <1>8 DEF Next

\* A worker's claims only become fewer, unless it has just made them, of attempts
\* that the rows now count.
Taking(w) ==
    /\ \A v \in Worker : v # w => worker'[v] = worker[v]
    /\ \A c \in Batch(w)' : /\ c.id \in Event \cup Job
                            /\ c.attempts = row[c.id].attempts + 1
                            /\ c.attempts = row'[c.id].attempts
                            /\ row'[c.id].state = "processing"

BatchStep(w) == Batch(w)' \subseteq Batch(w) \/ Taking(w)

LEMMA ClaimBatchBatch ==
    ASSUME TypeOK, NEW w \in Worker, NEW next, NEW ids \in SUBSET (Event \cup Job),
           ClaimBatch(w, ids, next), NEW v \in Worker
    PROVE  BatchStep(v)
<1>1. PICK taken \in SUBSET ids :
        /\ row' = [i \in DOMAIN row |-> IF i \in taken THEN Claimed(row[i], w)
                                        ELSE row[i]]
        /\ worker' = [worker EXCEPT ![w] =
              [step |-> next, current |-> None, todo |-> {},
               batch |-> {ClaimOf(i, row[i].attempts + 1) : i \in taken}]]
  BY DEF ClaimBatch
<1>2. CASE v = w
  <2>1. Batch(v)' = {ClaimOf(i, row[i].attempts + 1) : i \in taken}
    BY <1>1, <1>2 DEF Batch, TypeOK
  <2>2. ASSUME NEW i \in taken
        PROVE  row'[i].attempts = row[i].attempts + 1 /\ row'[i].state = "processing"
    <3>1. row[i] \in Row /\ row'[i] = Claimed(row[i], w)
      BY <1>1 DEF TypeOK
    <3> QED BY <3>1 DEF Claimed, Row
  <2>3. \A u \in Worker : u # v => worker'[u] = worker[u]
    BY <1>1, <1>2 DEF TypeOK
  <2> QED BY <2>1, <2>2, <2>3 DEF BatchStep, Taking, ClaimOf
<1>3. CASE v # w
  BY <1>1, <1>3 DEF BatchStep, Batch, TypeOK
<1> QED BY <1>2, <1>3

LEMMA BatchShrinks ==
    ASSUME worker \in [Worker -> WorkerState], NEW w \in Worker, NEW s,
           worker' = [worker EXCEPT ![w] = s], s.batch \subseteq Batch(w),
           NEW v \in Worker
    PROVE  BatchStep(v)
BY DEF BatchStep, Batch

LEMMA BatchSteps ==
    ASSUME TypeOK, [Next]_vars, NEW v \in Worker
    PROVE  BatchStep(v)
<1>1. ASSUME NEW w \in Worker, Drain(w) PROVE BatchStep(v)
  <2>0. worker \in [Worker -> WorkerState] /\ worker[w] \in WorkerState
    BY DEF TypeOK
  <2>1. CASE ClaimEvents(w)
    BY <2>1, ClaimBatchBatch DEF ClaimEvents
  <2>2. CASE ClaimJobs(w)
    BY <2>2, ClaimBatchBatch DEF ClaimJobs
  <2>3. CASE CompleteEvent(w) \/ AckJob(w)
    <3>1. PICK x \in {"events", "jobs", "retry", "fail"} :
             \/ worker' = [worker EXCEPT ![w].step = x, ![w].current = None,
                                        ![w].batch = @ \ {Current(w)}]
             \/ worker' = [worker EXCEPT ![w].step = x]
      BY <2>3 DEF CompleteEvent, AckJob
    <3> DEFINE s == [worker[w] EXCEPT !.step = x, !.current = None,
                                      !.batch = @ \ {Current(w)}]
               t == [worker[w] EXCEPT !.step = x]
    <3>2. worker' = [worker EXCEPT ![w] = s] \/ worker' = [worker EXCEPT ![w] = t]
      BY <3>1, <2>0
    <3>3. s.batch \subseteq Batch(w) /\ t.batch \subseteq Batch(w)
      BY <2>0 DEF Batch, WorkerState
    <3> HIDE DEF s, t
    <3> QED BY <3>2, <3>3, <2>0, BatchShrinks
  <2>4. CASE RetryEvent(w) \/ FailJob(w)
    <3>1. PICK x \in {"events", "jobs"} :
             \/ worker' = [worker EXCEPT ![w].step = x, ![w].current = None,
                                        ![w].batch = @ \ {Current(w)}]
             \/ worker' = [worker EXCEPT ![w] = Down]
      BY <2>4 DEF RetryEvent, FailJob, Reschedule, LeftAfterFailure
    <3> DEFINE s == [worker[w] EXCEPT !.step = x, !.current = None,
                                      !.batch = @ \ {Current(w)}]
    <3>2. worker' = [worker EXCEPT ![w] = s] \/ worker' = [worker EXCEPT ![w] = Down]
      BY <3>1, <2>0
    <3>3. s.batch \subseteq Batch(w) /\ Down.batch \subseteq Batch(w)
      BY <2>0 DEF Batch, WorkerState, Down
    <3> HIDE DEF s
    <3> QED BY <3>2, <3>3, <2>0, BatchShrinks
  <2>5. CASE \/ StartExpand(w) \/ Enqueue(w) \/ ReadSubscriptions(w) \/ ExpandFails(w)
             \/ RunJob(w)
    <3>1. PICK x, y, z :
             \/ worker' = [worker EXCEPT ![w].step = x, ![w].current = y, ![w].todo = z]
             \/ worker' = [worker EXCEPT ![w].step = x, ![w].current = y]
             \/ worker' = [worker EXCEPT ![w].step = x, ![w].todo = z]
             \/ worker' = [worker EXCEPT ![w].todo = @ \ {y}]
      <4>1. CASE StartExpand(w)
        <5>1. PICK c \in Batch(w) :
                 worker' = [worker EXCEPT ![w].step = "fixed", ![w].current = c,
                                          ![w].todo = Fixed]
          BY <4>1 DEF StartExpand
        <5> QED BY <5>1
      <4>2. CASE Enqueue(w)
        BY <4>2 DEF Enqueue
      <4>3. CASE ReadSubscriptions(w)
        BY <4>3 DEF ReadSubscriptions
      <4>4. CASE ExpandFails(w)
        BY <4>4 DEF ExpandFails
      <4>5. CASE RunJob(w)
        BY <4>5 DEF RunJob
      <4> QED BY <2>5, <4>1, <4>2, <4>3, <4>4, <4>5
    <3> DEFINE s == {[worker[w] EXCEPT !.step = x, !.current = y, !.todo = z],
                     [worker[w] EXCEPT !.step = x, !.current = y],
                     [worker[w] EXCEPT !.step = x, !.todo = z],
                     [worker[w] EXCEPT !.todo = @ \ {y}]}
    <3>2. PICK t \in s : worker' = [worker EXCEPT ![w] = t]
      BY <3>1, <2>0
    <3>3. t.batch \subseteq Batch(w)
      BY <2>0 DEF Batch, WorkerState
    <3> QED BY <3>2, <3>3, <2>0, BatchShrinks
  <2>6. CASE DrainEnds(w)
    <3>1. IdleWorker.batch \subseteq Batch(w)
      BY DEF IdleWorker, Down
    <3> QED BY <3>1, <2>0, <2>6, BatchShrinks DEF DrainEnds
  <2> QED BY <1>1, <2>1, <2>2, <2>3, <2>4, <2>5, <2>6 DEF Drain
<1>2. ASSUME NEW w \in Worker, Crash(w) \/ Restart(w) PROVE BatchStep(v)
  BY <1>2 DEF Crash, Restart, IdleWorker, Down, BatchStep, Batch, TypeOK
<1>3. CASE UNCHANGED worker
  BY <1>3 DEF BatchStep, Batch
<1>4. UNCHANGED worker \/ \E w \in Worker : Drain(w) \/ Crash(w) \/ Restart(w)
  BY DEF Next, vars, Due, Expire, Slip, Emit, DeleteEntry, ReplaceEntry, Remove, Replay,
     SetSubscription
<1> QED BY <1>1, <1>2, <1>3, <1>4

(***************************************************************************)
(* Decisions.                                                              *)
(***************************************************************************)

LEMMA DecidesStep ==
    ASSUME NamesDiffer, TypeOK, DecidesOwnAttempt, [Next]_vars
    PROVE  DecidesOwnAttempt'
<1> SUFFICES ASSUME NEW w \in Worker, NEW c \in Batch(w)', HasLease(w, c.id)'
             PROVE  c.attempts = row'[c.id].attempts
  BY DEF DecidesOwnAttempt
<1>1. CASE \A x \in Batch(w)' : x.attempts = row'[x.id].attempts
  BY <1>1
<1>2. CASE Batch(w)' \subseteq Batch(w)
  <2>1. c \in Batch(w) /\ c.id \in Event \cup Job
    BY <1>2 DEF TypeOK, WorkerState, Claim, Batch
  <2>2. row[c.id] \in Row /\ RowStep(c.id)
    BY <2>1, RowSteps DEF TypeOK
  <2>3. row'[c.id].state = "processing" /\ row'[c.id].owner = Name[w]
    BY DEF HasLease
  <2>4. row'[c.id] # NoRow /\ row'[c.id] # NewRow
    <3>1. NoRow.state = "none" /\ NewRow.state = "pending"
      BY DEF NoRow, NewRow
    <3> QED BY <3>1, <2>3
  <2>5. ASSUME NEW v \in Worker PROVE ~TakenBy(v, c.id)
    <3> SUFFICES ASSUME TakenBy(v, c.id) PROVE FALSE
      OBVIOUS
    <3>1. Name[v] = Name[w]
      BY <2>2, <2>3 DEF TakenBy, Claimed, Row
    <3> QED BY <3>1, <2>1 DEF NamesDiffer, TakenBy
  <2>6. ASSUME NEW v \in Worker PROVE ~SucceededBy(v, c.id) /\ ~RetriedBy(v, c.id)
    BY <2>2, <2>3 DEF SucceededBy, RetriedBy, Succeeded, Retried, Row
  <2>7. row'[c.id] = row[c.id] \/ Aged(c.id)
    BY <2>2, <2>4, <2>5, <2>6 DEF RowStep, Deleted, Inserted
  <2>8. HasLease(w, c.id) /\ row'[c.id].attempts = row[c.id].attempts
    BY <2>2, <2>3, <2>7 DEF Aged, Row, HasLease
  <2> QED BY <2>1, <2>8 DEF DecidesOwnAttempt
<1> QED BY <1>1, <1>2, BatchSteps DEF BatchStep, Taking

\* With names of their own, workers decide the attempt they were given.
THEOREM DecisionsAreOwn == NamesDiffer => (Spec => []DecidesOwnAttempt)
<1> SUFFICES ASSUME NamesDiffer PROVE Spec => []DecidesOwnAttempt
  OBVIOUS
<1>1. Init => TypeOK /\ DecidesOwnAttempt
  BY TypeInit DEF Init, DecidesOwnAttempt, Batch, IdleWorker, Down
<1>2. TypeOK /\ DecidesOwnAttempt /\ [Next]_vars => (TypeOK /\ DecidesOwnAttempt)'
  BY TypeStep, DecidesStep
<1> QED BY <1>1, <1>2, PTL DEF Spec

\* Nothing is given up early, if workers have names of their own.
THEOREM NothingGivenUpEarly == NamesDiffer => (Spec => []DeadMeansExhausted)
<1> SUFFICES ASSUME NamesDiffer PROVE Spec => []DeadMeansExhausted
  OBVIOUS
<1> DEFINE I == TypeOK /\ DecidesOwnAttempt /\ DeadMeansExhausted
<1>1. Init => I
  BY TypeInit DEF Init, DecidesOwnAttempt, Batch, IdleWorker, Down, DeadMeansExhausted, NoRow
<1>2. I /\ [Next]_vars => I'
  <2> SUFFICES ASSUME I, [Next]_vars PROVE DeadMeansExhausted'
    BY TypeStep, DecidesStep
  <2> SUFFICES ASSUME NEW i \in Event \cup Job, row'[i].state = "dead"
               PROVE  row'[i].attempts >= MaxAttempts(i)
    BY DEF DeadMeansExhausted, MaxAttempts
  <2>1. row[i] \in Row /\ RowStep(i)
    BY RowSteps DEF TypeOK
  <2>2. row'[i] # NoRow /\ row'[i] # NewRow
    <3>1. NoRow.state = "none" /\ NewRow.state = "pending"
      BY DEF NoRow, NewRow
    <3> QED BY <3>1
  <2>3. ~Aged(i)
    BY <2>1 DEF Aged, Row
  <2>4. ASSUME NEW w \in Worker PROVE ~TakenBy(w, i) /\ ~SucceededBy(w, i)
    BY <2>1 DEF TakenBy, SucceededBy, Claimed, Succeeded, Row
  <2>5. CASE row'[i] = row[i]
    BY <2>5 DEF DeadMeansExhausted
  <2>6. ASSUME NEW w \in Worker, RetriedBy(w, i)
        PROVE  row'[i].attempts >= MaxAttempts(i)
    <3>1. Current(w).attempts = row[i].attempts
      BY <2>6 DEF RetriedBy, DecidesOwnAttempt
    <3>2. Exhausted(Current(w).attempts, MaxAttempts(i))
      BY <2>1, <2>6 DEF RetriedBy, Retried, Row
    <3>3. row'[i].attempts = row[i].attempts
      BY <2>1, <2>6 DEF RetriedBy, Retried, Row
    <3> QED BY <3>1, <3>2, <3>3 DEF Exhausted
  <2> QED BY <2>1, <2>2, <2>3, <2>4, <2>5, <2>6 DEF RowStep, Deleted, Inserted
<1>3. I => DeadMeansExhausted
  OBVIOUS
<1> QED BY <1>1, <1>2, <1>3, PTL DEF Spec

\* Verdicts are about the attempts the row counted, if workers have names of their
\* own.
THEOREM AttemptsAreCounted == NamesDiffer => (Spec => []AttemptsCounted)
<1>1. DecidesOwnAttempt /\ DeadMeansExhausted => AttemptsCounted
  BY DEF AttemptsCounted
<1> QED BY DecisionsAreOwn, NothingGivenUpEarly, <1>1, PTL

\* What is decided stays decided, whatever the workers are called.
THEOREM DecisionsAreFinal == Spec => SettledStays
<1>1. TypeOK /\ [Next]_vars =>
        [\A i \in Event \cup Job :
            row[i].state \in {"succeeded", "dead"} =>
                row'[i] = row[i] \/ row'[i] = NoRow]_vars
  <2> SUFFICES ASSUME TypeOK, [Next]_vars, NEW i \in Event \cup Job,
                      row[i].state \in {"succeeded", "dead"}
               PROVE  row'[i] = row[i] \/ row'[i] = NoRow
    OBVIOUS
  <2>1. RowStep(i)
    BY RowSteps
  <2> QED BY <2>1 DEF RowStep, Deleted, Inserted, Present, TakenBy, SucceededBy, RetriedBy, Aged, Claimable,
          HasLease
<1> QED BY <1>1, TypeCorrect, PTL DEF Spec, SettledStays

(***************************************************************************)
(* What succeeded has happened.                                            *)
(***************************************************************************)

\* A job on its way to be acknowledged has been delivered.
AckedDelivered ==
    \A w \in Worker : Step(w) = "ack" => delivered[Current(w).id] > 0

LEMMA DeliveredGrows ==
    ASSUME TypeOK, [Next]_vars, NEW j \in Job
    PROVE  delivered'[j] >= delivered[j] /\ delivered[j] \in Nat /\ delivered'[j] \in Nat
<1>1. delivered[j] \in Nat
  BY DEF TypeOK
<1>2. ASSUME NEW w \in Worker, RunJob(w)
      PROVE  delivered'[j] >= delivered[j] /\ delivered'[j] \in Nat
  <2>1. PICK c \in Batch(w), o \in Outcome :
          delivered' = [delivered EXCEPT ![c.id] = @ + o[1]]
    BY <1>2 DEF RunJob
  <2>2. o[1] \in Nat
    BY DEF Outcome
  <2> QED BY <1>1, <2>1, <2>2 DEF TypeOK
<1>3. UNCHANGED delivered \/ \E w \in Worker : RunJob(w)
  BY DEF Next, vars, history, Drain, ClaimEvents, StartExpand, Enqueue,
     ReadSubscriptions, ExpandFails, CompleteEvent, RetryEvent, Reschedule, ClaimJobs,
     AckJob, FailJob, DrainEnds, Crash, Restart, Due, Expire, Slip, Emit, DeleteEntry,
     ReplaceEntry, Remove, Replay, SetSubscription
<1> QED BY <1>1, <1>2, <1>3

\* How a worker can come to the steps the invariants speak of.
LEMMA WorkerSteps ==
    ASSUME TypeOK, [Next]_vars, NEW w \in Worker
    PROVE  \/ worker'[w] = worker[w]
           \/ StartExpand(w) \/ Enqueue(w) \/ ReadSubscriptions(w) \/ RunJob(w)
           \/ Step(w)' \notin {"fixed", "hooks", "ack"}
<1> DEFINE Goal == \/ worker'[w] = worker[w]
                   \/ StartExpand(w) \/ Enqueue(w) \/ ReadSubscriptions(w) \/ RunJob(w)
                   \/ Step(w)' \notin {"fixed", "hooks", "ack"}
<1>0. worker \in [Worker -> WorkerState] /\ \A v \in Worker : worker[v] \in WorkerState
  BY DEF TypeOK
<1>1. ASSUME NEW v \in Worker, Drain(v) PROVE Goal
  <2>1. CASE ClaimEvents(v) \/ ClaimJobs(v)
    BY <2>1, <1>0 DEF ClaimEvents, ClaimJobs, ClaimBatch, Step
  <2>2. CASE StartExpand(v) \/ Enqueue(v) \/ ReadSubscriptions(v) \/ RunJob(v)
    <3>1. CASE v = w
      BY <2>2, <3>1
    <3>2. CASE v # w
      BY <2>2, <3>2, <1>0 DEF StartExpand, Enqueue, ReadSubscriptions, RunJob
    <3> QED BY <3>1, <3>2
  <2>3. CASE ExpandFails(v)
    BY <2>3, <1>0 DEF ExpandFails, AfterExpandError, Step, WorkerState
  <2>4. CASE CompleteEvent(v) \/ AckJob(v)
    BY <2>4, <1>0 DEF CompleteEvent, AckJob, Step, WorkerState
  <2>5. CASE RetryEvent(v) \/ FailJob(v)
    BY <2>5, <1>0 DEF RetryEvent, FailJob, Reschedule, Down, Step, WorkerState
  <2>6. CASE DrainEnds(v)
    BY <2>6, <1>0 DEF DrainEnds, IdleWorker, Down, Step
  <2> QED BY <1>1, <2>1, <2>2, <2>3, <2>4, <2>5, <2>6 DEF Drain
<1>2. ASSUME NEW v \in Worker, Crash(v) \/ Restart(v) PROVE Goal
  BY <1>2, <1>0 DEF Crash, Restart, IdleWorker, Down, Step
<1>3. UNCHANGED worker \/ \E v \in Worker : Drain(v) \/ Crash(v) \/ Restart(v)
  BY DEF Next, vars, Due, Expire, Slip, Emit, DeleteEntry, ReplaceEntry, Remove, Replay,
     SetSubscription
<1> QED BY <1>1, <1>2, <1>3

LEMMA AckedStep ==
    ASSUME TypeOK, AckedDelivered, [Next]_vars
    PROVE  AckedDelivered'
<1> SUFFICES ASSUME NEW w \in Worker, Step(w)' = "ack"
             PROVE  delivered'[Current(w)'.id] > 0
  BY DEF AckedDelivered
<1>0. worker \in [Worker -> WorkerState] /\ worker[w] \in WorkerState
  BY DEF TypeOK
<1>1. CASE worker'[w] = worker[w]
  <2>1. Step(w) = "ack" /\ Current(w)' = Current(w)
    BY <1>1 DEF Step, Current
  <2>2. Current(w).id \in Job
    BY <2>1 DEF TypeOK, WorkerOK, BusyStep, JobStep
  <2> QED BY <2>1, <2>2, DeliveredGrows DEF AckedDelivered
<1>2. CASE RunJob(w)
  <2>1. PICK c \in Batch(w), o \in Outcome :
          /\ delivered' = [delivered EXCEPT ![c.id] = @ + o[1]]
          /\ worker' = [worker EXCEPT ![w].step = o[2], ![w].current = c]
    BY <1>2 DEF RunJob
  <2>2. worker'[w] = [worker[w] EXCEPT !.step = o[2], !.current = c]
    BY <2>1, <1>0
  <2>3. o[2] = "ack" /\ Current(w)' = c
    BY <2>2, <1>0 DEF Step, Current, WorkerState
  <2>4. o[1] = 1
    BY <2>3 DEF Outcome
  <2>5. c.id \in Job
    BY <1>2 DEF RunJob, TypeOK, WorkerOK, JobStep
  <2> QED BY <2>1, <2>3, <2>4, <2>5 DEF TypeOK
<1>3. CASE StartExpand(w)
  BY <1>3, <1>0 DEF StartExpand, Step, WorkerState
<1>4. CASE Enqueue(w)
  BY <1>4, <1>0 DEF Enqueue, Step, WorkerState
<1>5. CASE ReadSubscriptions(w)
  BY <1>5, <1>0 DEF ReadSubscriptions, Step, WorkerState
<1> QED BY <1>1, <1>2, <1>3, <1>4, <1>5, WorkerSteps

\* A job that is reported succeeded has had its effect.
THEOREM SuccessIsDelivery == Spec => []SucceededMeansDelivered
<1> DEFINE I == TypeOK /\ AckedDelivered /\ SucceededMeansDelivered
<1>1. Init => I
  <2> SUFFICES ASSUME Init PROVE AckedDelivered /\ SucceededMeansDelivered
    BY TypeInit
  <2>1. AckedDelivered
    BY DEF Init, AckedDelivered, Step, IdleWorker, Down
  <2>2. SucceededMeansDelivered
    BY DEF Init, SucceededMeansDelivered, NoRow
  <2> QED BY <2>1, <2>2
<1>2. I /\ [Next]_vars => I'
  <2> SUFFICES ASSUME I, [Next]_vars PROVE SucceededMeansDelivered'
    BY TypeStep, AckedStep
  <2> SUFFICES ASSUME NEW j \in Job, row'[j].state = "succeeded" PROVE delivered'[j] > 0
    BY DEF SucceededMeansDelivered
  <2>1. row[j] \in Row /\ RowStep(j) /\ j \notin Event
    BY RowSteps, QueueAssumption DEF TypeOK
  <2>2. delivered[j] > 0
    <3>1. CASE row'[j] = row[j]
      BY <3>1 DEF SucceededMeansDelivered
    <3>2. ~Deleted(j) /\ ~Inserted(j)
      <4>1. NoRow.state = "none" /\ NewRow.state = "pending"
        BY DEF NoRow, NewRow
      <4> QED BY <4>1 DEF Deleted, Inserted
    <3>3. ~Aged(j)
      BY <2>1 DEF Aged, Row
    <3>4. ASSUME NEW w \in Worker PROVE ~TakenBy(w, j) /\ ~RetriedBy(w, j)
      BY <2>1 DEF TakenBy, RetriedBy, Claimed, Retried, Row
    <3>5. ASSUME NEW w \in Worker, SucceededBy(w, j) PROVE delivered[j] > 0
      BY <2>1, <3>5 DEF SucceededBy, AckedDelivered
    <3> QED BY <2>1, <3>1, <3>2, <3>3, <3>4, <3>5 DEF RowStep
  <2> QED BY <2>2, DeliveredGrows
<1>3. I => SucceededMeansDelivered
  OBVIOUS
<1> QED BY <1>1, <1>2, <1>3, PTL DEF Spec

(***************************************************************************)
(* An event that succeeded has been expanded.                              *)
(***************************************************************************)

\* Claims are of events that were emitted, and emitted once.
ClaimsEmitted ==
    \A w \in Worker : \A c \in Batch(w) :
        c.id \in Event => Present(c.id) \/ removed[c.id] # None

SteadySubscribed == \A e \in Event : steady[e] \subseteq subscribed

\* Of an event that is still there, a worker has enqueued what it has not to do.
Wanted(w) == Fixed \cup IF Step(w) = "hooks" THEN steady[Current(w).id] ELSE {}
Expanding(w) == Step(w) \in {"fixed", "hooks"}

Progress ==
    \A w \in Worker : Expanding(w) /\ Present(Current(w).id) =>
        \A d \in Wanted(w) : d \in worker[w].todo \/ Present(<<Current(w).id, d, 0>>)

\* The subscriptions active ever since an event only become fewer.
LEMMA SteadyShrinks ==
    ASSUME TypeOK, [Next]_vars, NEW e \in Event, Present(e)
    PROVE  steady'[e] \subseteq steady[e]
<1>1. ASSUME NEW x \in Event, Emit(x) PROVE steady'[e] \subseteq steady[e]
  BY <1>1 DEF Emit, TypeOK
<1>2. ASSUME NEW x \in Sub, SetSubscription(x) PROVE steady'[e] \subseteq steady[e]
  BY <1>2 DEF SetSubscription
<1>3. \/ UNCHANGED steady
      \/ (\E x \in Event : Emit(x)) \/ (\E x \in Sub : SetSubscription(x))
  BY DEF Next, vars, history, Drain, ClaimEvents, StartExpand, Enqueue,
     ReadSubscriptions, ExpandFails, CompleteEvent, RetryEvent, Reschedule, ClaimJobs,
     RunJob, AckJob, FailJob, DrainEnds, Crash, Restart, Due, Expire, Slip, DeleteEntry,
     ReplaceEntry, Remove, Replay
<1> QED BY <1>1, <1>2, <1>3

LEMMA SteadyStep ==
    ASSUME TypeOK, SteadySubscribed, [Next]_vars
    PROVE  SteadySubscribed'
<1>1. ASSUME NEW x \in Event, Emit(x) PROVE SteadySubscribed'
  BY <1>1 DEF Emit, TypeOK, SteadySubscribed
<1>2. ASSUME NEW x \in Sub, SetSubscription(x) PROVE SteadySubscribed'
  BY <1>2 DEF SetSubscription, TypeOK, SteadySubscribed
<1>3. \/ UNCHANGED <<steady, subscribed>>
      \/ (\E x \in Event : Emit(x)) \/ (\E x \in Sub : SetSubscription(x))
  BY ZenonT(30) DEF Next, vars, history, Drain, ClaimEvents, StartExpand, Enqueue,
     ReadSubscriptions, ExpandFails, CompleteEvent, RetryEvent, Reschedule, ClaimJobs,
     RunJob, AckJob, FailJob, DrainEnds, Crash, Restart, Due, Expire, Slip, DeleteEntry,
     ReplaceEntry, Remove, Replay
<1> QED BY <1>1, <1>2, <1>3 DEF SteadySubscribed

LEMMA RemovedStays ==
    ASSUME TypeOK, [Next]_vars, NEW e \in Event, removed[e] # None
    PROVE  removed'[e] # None
<1>1. ASSUME NEW x \in Entry, DeleteEntry(x) \/ ReplaceEntry(x) PROVE removed'[e] # None
  BY <1>1, QueueAssumption DEF DeleteEntry, ReplaceEntry, Remove, TypeOK
<1>2. UNCHANGED removed \/ \E x \in Entry : DeleteEntry(x) \/ ReplaceEntry(x)
  BY DEF Next, vars, history, Drain, ClaimEvents, StartExpand, Enqueue,
     ReadSubscriptions, ExpandFails, CompleteEvent, RetryEvent, Reschedule, ClaimJobs,
     RunJob, AckJob, FailJob, DrainEnds, Crash, Restart, Due, Expire, Slip, Emit,
     Replay, SetSubscription
<1> QED BY <1>1, <1>2

\* What a row can become and still be there, or be there for the first time.
LEMMA PresentSteps ==
    ASSUME TypeOK, [Next]_vars, NEW i \in Event \cup Job
    PROVE  /\ Present(i) => Present(i)' \/ Deleted(i)
           /\ ~Present(i) /\ Present(i)' /\ i \in Event => removed[i] = None
<1>1. row[i] \in Row /\ RowStep(i)
  BY RowSteps DEF TypeOK
<1>2. NoRow.state = "none" /\ NewRow.state = "pending"
  BY DEF NoRow, NewRow
<1>3. ASSUME NEW w \in Worker, TakenBy(w, i) \/ SucceededBy(w, i) \/ RetriedBy(w, i)
      PROVE  Present(i) /\ Present(i)'
  BY <1>1, <1>3 DEF TakenBy, SucceededBy, RetriedBy, Claimed, Succeeded, Retried, Row,
     Present, Claimable, HasLease
<1>4. Aged(i) => Present(i) /\ Present(i)'
  BY <1>1 DEF Aged, Present, Row
<1> QED BY <1>1, <1>2, <1>3, <1>4 DEF RowStep, Present, Deleted, Inserted

LEMMA ClaimsStep ==
    ASSUME TypeOK, ClaimsEmitted, [Next]_vars
    PROVE  ClaimsEmitted'
<1> SUFFICES ASSUME NEW w \in Worker, NEW c \in Batch(w)', c.id \in Event
             PROVE  Present(c.id)' \/ removed'[c.id] # None
  BY DEF ClaimsEmitted
<1>1. CASE c \in Batch(w)
  <2>1. CASE Present(c.id)
    BY <2>1, PresentSteps DEF Deleted
  <2>2. CASE removed[c.id] # None
    BY <2>2, RemovedStays
  <2> QED BY <1>1, <2>1, <2>2 DEF ClaimsEmitted
<1>2. CASE row'[c.id].state = "processing"
  BY <1>2 DEF Present
<1> QED BY <1>1, <1>2, BatchSteps DEF BatchStep, Taking

\* A job stays as long as its event does.
LEMMA JobStays ==
    ASSUME TypeOK, [Next]_vars, NEW e \in Event, NEW d \in Dest,
           Present(<<e, d, 0>>), Present(e)'
    PROVE  Present(<<e, d, 0>>)'
<1>1. <<e, d, 0>> \in Job
  BY JobKey
<1>2. CASE Deleted(<<e, d, 0>>)
  BY <1>1, <1>2 DEF Deleted, Present, NoRow
<1> QED BY <1>1, <1>2, PresentSteps

LEMMA ProgressStep ==
    ASSUME TypeOK, ClaimsEmitted, SteadySubscribed, Progress, [Next]_vars
    PROVE  Progress'
<1> SUFFICES ASSUME NEW w \in Worker, Expanding(w)', Present(Current(w).id)',
                    NEW d \in Wanted(w)'
             PROVE  d \in worker'[w].todo \/ Present(<<Current(w).id, d, 0>>)'
  BY DEF Progress
<1> DEFINE e == Current(w).id
<1>0. worker \in [Worker -> WorkerState] /\ worker[w] \in WorkerState
  BY DEF TypeOK
<1>1. CASE worker'[w] = worker[w]
  <2>1. e' = e /\ Expanding(w) /\ Step(w)' = Step(w)
    BY <1>1 DEF Current, Expanding, Step
  <2>2. e \in Event /\ Current(w) \in Batch(w)
    BY <2>1 DEF Expanding, TypeOK, WorkerOK, BusyStep, EventStep
  <2>3. Present(e)
    BY <2>1, <2>2, PresentSteps DEF ClaimsEmitted
  <2>4. d \in Wanted(w) /\ d \in Dest
    <3>1. steady'[e] \subseteq steady[e] /\ steady[e] \subseteq Sub
      BY <2>2, <2>3, SteadyShrinks DEF TypeOK
    <3> QED BY <3>1, <2>1 DEF Wanted, Dest
  <2>5. d \in worker[w].todo \/ Present(<<e, d, 0>>)
    BY <2>1, <2>3, <2>4 DEF Progress
  <2>6. Present(<<e, d, 0>>) => Present(<<e, d, 0>>)'
    BY <2>1, <2>2, <2>4, JobStays
  <2> QED BY <1>1, <2>1, <2>5, <2>6
<1>2. CASE StartExpand(w)
  <2>1. worker'[w].todo = Fixed /\ Step(w)' = "fixed"
    BY <1>2, <1>0 DEF StartExpand, Step, WorkerState
  <2> QED BY <2>1 DEF Wanted
<1>3. CASE Enqueue(w)
  <2>1. PICK x \in worker[w].todo :
          /\ row' = [row EXCEPT ![<<e, x, 0>>] = IF Present(<<e, x, 0>>) THEN @ ELSE NewRow]
          /\ worker' = [worker EXCEPT ![w].todo = @ \ {x}]
          /\ UNCHANGED steady
    BY <1>3 DEF Enqueue, history
  <2>2. /\ e' = e /\ Step(w)' = Step(w) /\ Expanding(w)
        /\ worker'[w].todo = worker[w].todo \ {x}
    BY <1>3, <2>1, <1>0 DEF Enqueue, Step, Current, Expanding, WorkerState
  <2>3. e \in Event /\ x \in Dest /\ Current(w) \in Batch(w)
    BY <1>0, <2>2 DEF Expanding, TypeOK, WorkerOK, BusyStep, EventStep, WorkerState
  <2>4. Present(e)
    BY <2>2, <2>3, PresentSteps DEF ClaimsEmitted
  <2>5. d \in Wanted(w) /\ d \in Dest
    BY <2>1, <2>2, <2>3 DEF Wanted, Dest, TypeOK
  <2>6. d \in worker[w].todo \/ Present(<<e, d, 0>>)
    BY <2>2, <2>4, <2>5 DEF Progress
  <2>7. Present(<<e, d, 0>>) => Present(<<e, d, 0>>)'
    BY <2>2, <2>3, <2>5, JobStays
  <2>8. CASE d = x
    <3>1. <<e, d, 0>> \in Job
      BY <2>3, <2>5, JobKey
    <3>2. NewRow.state = "pending"
      BY DEF NewRow, NoRow
    <3> QED BY <2>1, <2>2, <2>8, <3>1, <3>2 DEF Present, TypeOK
  <2> QED BY <2>2, <2>6, <2>7, <2>8
<1>4. CASE ReadSubscriptions(w)
  <2>1. /\ Step(w) = "fixed" /\ worker[w].todo = {} /\ e' = e
        /\ worker'[w].todo = subscribed /\ Step(w)' = "hooks" /\ UNCHANGED steady
    BY <1>4, <1>0 DEF ReadSubscriptions, Step, Current, WorkerState, history
  <2>2. e \in Event /\ Current(w) \in Batch(w)
    BY <2>1 DEF TypeOK, WorkerOK, BusyStep, EventStep
  <2>3. Present(e)
    BY <2>1, <2>2, PresentSteps DEF ClaimsEmitted
  <2>4. CASE d \in Fixed
    <3>1. Present(<<e, d, 0>>)
      BY <2>1, <2>3, <2>4 DEF Progress, Expanding, Wanted
    <3> QED BY <3>1, <2>1, <2>2, <2>4, JobStays DEF Dest
  <2>5. CASE d \in steady[e]
    BY <2>1, <2>2, <2>5 DEF SteadySubscribed
  <2> QED BY <2>1, <2>4, <2>5 DEF Wanted
<1>5. CASE RunJob(w)
  <2>1. Step(w)' \in {"ack", "fail"}
    BY <1>5, <1>0 DEF RunJob, Outcome, Step, WorkerState
  <2> QED BY <2>1 DEF Expanding
<1> QED BY <1>1, <1>2, <1>3, <1>4, <1>5, WorkerSteps DEF Expanding

\* An event that is reported succeeded has a job for every fixed destination and
\* for every webhook subscribed to all along.
THEOREM SuccessIsExpansion == Spec => []SucceededMeansExpanded
<1> DEFINE I == /\ TypeOK /\ ClaimsEmitted /\ SteadySubscribed /\ Progress
                /\ SucceededMeansExpanded
<1>1. Init => I
  <2> SUFFICES ASSUME Init
               PROVE  ClaimsEmitted /\ SteadySubscribed /\ Progress /\ SucceededMeansExpanded
    BY TypeInit
  <2>1. ClaimsEmitted
    BY DEF Init, ClaimsEmitted, Batch, IdleWorker, Down
  <2>2. SteadySubscribed
    BY DEF Init, SteadySubscribed
  <2>3. Progress
    BY DEF Init, Progress, Expanding, Step, IdleWorker, Down
  <2>4. SucceededMeansExpanded
    BY DEF Init, SucceededMeansExpanded, NoRow
  <2> QED BY <2>1, <2>2, <2>3, <2>4
<1>2. I /\ [Next]_vars => I'
  <2> SUFFICES ASSUME I, [Next]_vars PROVE SucceededMeansExpanded'
    BY TypeStep, ClaimsStep, SteadyStep, ProgressStep
  <2> SUFFICES ASSUME NEW e \in Event, row'[e].state = "succeeded",
                      NEW d \in Fixed \cup steady'[e]
               PROVE  Present(<<e, d, 0>>)'
    BY DEF SucceededMeansExpanded
  <2>1. row[e] \in Row /\ RowStep(e)
    BY RowSteps DEF TypeOK
  <2>2. row'[e] = row[e] \/ \E w \in Worker : SucceededBy(w, e)
    <3>2. ~Deleted(e) /\ ~Inserted(e)
      <4>1. NoRow.state = "none" /\ NewRow.state = "pending"
        BY DEF NoRow, NewRow
      <4> QED BY <4>1 DEF Deleted, Inserted
    <3>3. ~Aged(e)
      BY <2>1 DEF Aged, Row
    <3>4. ASSUME NEW w \in Worker PROVE ~TakenBy(w, e) /\ ~RetriedBy(w, e)
      BY <2>1 DEF TakenBy, RetriedBy, Claimed, Retried, Row
    <3> QED BY <2>1, <3>2, <3>3, <3>4 DEF RowStep
  <2>3. Present(e) /\ Present(e)'
    BY <2>2 DEF Present, SucceededBy, HasLease
  <2>4. d \in Fixed \cup steady[e] /\ d \in Dest
    BY <2>3, SteadyShrinks DEF Dest, TypeOK
  <2>5. Present(<<e, d, 0>>)
    <3>1. CASE row'[e] = row[e]
      BY <3>1, <2>4 DEF SucceededMeansExpanded
    <3>2. ASSUME NEW w \in Worker, SucceededBy(w, e) PROVE Present(<<e, d, 0>>)
      <4>1. Step(w) = "hooks" /\ Current(w).id = e /\ worker[w].todo = {}
        BY <3>2 DEF SucceededBy
      <4> QED BY <4>1, <2>3, <2>4 DEF Progress, Expanding, Wanted
    <3> QED BY <2>2, <3>1, <3>2
  <2> QED BY <2>3, <2>4, <2>5, JobStays
<1>3. I => SucceededMeansExpanded
  OBVIOUS
<1> QED BY <1>1, <1>2, <1>3, PTL DEF Spec

(***************************************************************************)
(* An effect happens at most once per attempt.                             *)
(***************************************************************************)

\* The claims that a worker has still to carry out, and the attempts at a job
\* that some worker has still to carry out.
Unrun(w) == {c \in Batch(w) : Step(w) \in {"ack", "fail"} => c # Current(w)}
Undone(j) == {a \in Nat : \E w \in Worker : ClaimOf(j, a) \in Unrun(w)}

EmptyRows == \A i \in Id : ~Present(i) => row[i].attempts = 0

OneHolder(j) ==
    \A v, w \in Worker : \A c \in Unrun(v) \cap Unrun(w) : c.id = j => v = w

\* Of a job whose event was never removed, each attempt that the row counted was
\* carried out, or is one worker's to carry out, or was lost with its worker.
Accounted(j) ==
    removed[j[1]] = None =>
        /\ Present(j) => Present(j[1])
        /\ Undone(j) \subseteq 1..row[j].attempts
        /\ OneHolder(j)
        /\ delivered[j] + Cardinality(Undone(j)) <= row[j].attempts

JobsAccounted == \A j \in Job : Accounted(j)

LEMMA UnrunSame ==
    ASSUME NEW v \in Worker, worker'[v] = worker[v]
    PROVE  Unrun(v)' = Unrun(v)
BY DEF Unrun, Batch, Step, Current

\* A worker has ever less to carry out, unless it has just claimed it.
LEMMA UnrunSteps ==
    ASSUME TypeOK, [Next]_vars, NEW v \in Worker
    PROVE  Unrun(v)' \subseteq Unrun(v) \/ Taking(v)
<1>0. worker \in [Worker -> WorkerState] /\ worker[v] \in WorkerState
  BY DEF TypeOK
<1>1. CASE Step(v) \notin {"ack", "fail"}
  <2>1. Unrun(v) = Batch(v) /\ Unrun(v)' \subseteq Batch(v)'
    BY <1>1 DEF Unrun
  <2> QED BY <2>1, BatchSteps DEF BatchStep
<1>2. CASE Step(v) \in {"ack", "fail"}
  <2>1. worker'[v] = worker[v] \/ AckJob(v) \/ FailJob(v) \/ Crash(v)
    <3>1. ASSUME NEW w \in Worker, Drain(w)
          PROVE  worker'[v] = worker[v] \/ AckJob(v) \/ FailJob(v)
      <4>1. CASE w = v
        BY <3>1, <4>1, <1>2 DEF Drain, ClaimEvents, StartExpand, Enqueue,
           ReadSubscriptions, ExpandFails, CompleteEvent, RetryEvent, ClaimJobs, RunJob,
           DrainEnds
      <4>2. CASE w # v
        BY <3>1, <4>2, <1>0 DEF Drain, ClaimEvents, ClaimBatch, StartExpand, Enqueue,
           ReadSubscriptions, ExpandFails, CompleteEvent, RetryEvent, Reschedule,
           ClaimJobs, RunJob, AckJob, FailJob, DrainEnds
      <4> QED BY <4>1, <4>2
    <3>2. ASSUME NEW w \in Worker, Crash(w) \/ Restart(w)
          PROVE  worker'[v] = worker[v] \/ Crash(v)
      BY <3>2, <1>0, <1>2 DEF Crash, Restart
    <3>3. UNCHANGED worker \/ \E w \in Worker : Drain(w) \/ Crash(w) \/ Restart(w)
      BY DEF Next, vars, Due, Expire, Slip, Emit, DeleteEntry, ReplaceEntry, Remove,
         Replay, SetSubscription
    <3> QED BY <3>1, <3>2, <3>3
  <2>2. CASE AckJob(v)
    <3>1. \/ worker'[v] = [worker[v] EXCEPT !.step = "jobs", !.current = None,
                                            !.batch = @ \ {Current(v)}]
          \/ worker'[v] = [worker[v] EXCEPT !.step = "fail"]
      BY <2>2, <1>0 DEF AckJob
    <3> QED BY <3>1, <1>0, <1>2 DEF Unrun, Batch, Step, Current, WorkerState
  <2>3. CASE FailJob(v)
    <3>1. \/ worker'[v] = [worker[v] EXCEPT !.step = "jobs", !.current = None,
                                            !.batch = @ \ {Current(v)}]
          \/ worker'[v] = Down
      BY <2>3, <1>0 DEF FailJob, Reschedule, LeftAfterFailure
    <3>2. CASE worker'[v] = Down
      BY <3>2 DEF Unrun, Batch, Down
    <3>3. CASE worker'[v] = [worker[v] EXCEPT !.step = "jobs", !.current = None,
                                              !.batch = @ \ {Current(v)}]
      BY <3>3, <1>0, <1>2 DEF Unrun, Batch, Step, Current, WorkerState
    <3> QED BY <3>1, <3>2, <3>3
  <2>4. CASE Crash(v)
    BY <2>4, <1>0 DEF Crash, Unrun, Batch, Down
  <2> QED BY <2>1, <2>2, <2>3, <2>4, UnrunSame
<1> QED BY <1>1, <1>2

LEMMA EmptyRowsStep ==
    ASSUME TypeOK, EmptyRows, [Next]_vars
    PROVE  EmptyRows'
<1> SUFFICES ASSUME NEW i \in Id, ~Present(i)' PROVE row'[i].attempts = 0
  BY DEF EmptyRows
<1>1. row[i] \in Row /\ RowStep(i)
  BY RowSteps DEF TypeOK, Id
<1>2. NoRow.attempts = 0 /\ NewRow.state = "pending"
  BY DEF NoRow, NewRow, FirstAttempts
<1>3. ASSUME NEW w \in Worker PROVE ~TakenBy(w, i) /\ ~SucceededBy(w, i) /\ ~RetriedBy(w, i)
  BY <1>1 DEF TakenBy, SucceededBy, RetriedBy, Claimed, Succeeded, Retried, Row, Present
<1>4. ~Aged(i)
  BY <1>1 DEF Aged, Row, Present
<1> QED BY <1>1, <1>2, <1>3, <1>4 DEF RowStep, Deleted, Inserted, EmptyRows, Present

\* Jobs begin as expansions of a claimed event and as copies of another job.
LEMMA JobsBegin ==
    ASSUME TypeOK, [Next]_vars, NEW j \in Job, ~Present(j), Present(j)'
    PROVE  \/ \E w \in Worker : Enqueue(w) /\ j[1] = Current(w).id
           \/ \E a \in Copy : Present(<<j[1], j[2], a>>)
<1> DEFINE Goal == \/ \E w \in Worker : Enqueue(w) /\ j[1] = Current(w).id
                   \/ \E a \in Copy : Present(<<j[1], j[2], a>>)
<1>0. row'[j] # row[j] /\ j \in DOMAIN row /\ row \in [Id -> Row]
  BY DEF Present, TypeOK, Id
<1>1. ASSUME NEW w \in Worker, Drain(w) PROVE Goal
  <2>1. CASE ClaimEvents(w) \/ ClaimJobs(w)
    <3>1. PICK ids \in {Event, Job} : \E next \in {"events", "jobs"} : ClaimBatch(w, ids, next)
      BY <2>1 DEF ClaimEvents, ClaimJobs
    <3>2. PICK taken \in SUBSET {i \in ids : Claimable(i)} :
            row' = [i \in DOMAIN row |-> IF i \in taken THEN Claimed(row[i], w) ELSE row[i]]
      BY <3>1 DEF ClaimBatch
    <3> QED BY <3>2, <1>0 DEF Claimable, Present
  <2>2. CASE Enqueue(w)
    <3>1. PICK d \in worker[w].todo :
            row' = [row EXCEPT ![<<Current(w).id, d, 0>>] =
                       IF Present(<<Current(w).id, d, 0>>) THEN @ ELSE NewRow]
      BY <2>2 DEF Enqueue
    <3>2. j = <<Current(w).id, d, 0>>
      BY <3>1, <1>0
    <3> QED BY <3>2, <2>2
  <2>3. CASE CompleteEvent(w) \/ AckJob(w) \/ RetryEvent(w) \/ FailJob(w)
    BY <2>3, <1>0 DEF CompleteEvent, AckJob, RetryEvent, FailJob, Reschedule, HasLease,
       Present
  <2>4. CASE \/ StartExpand(w) \/ ReadSubscriptions(w) \/ ExpandFails(w)
             \/ RunJob(w) \/ DrainEnds(w)
    BY <2>4, <1>0 DEF StartExpand, ReadSubscriptions, ExpandFails, RunJob, DrainEnds
  <2> QED BY <1>1, <2>1, <2>2, <2>3, <2>4 DEF Drain
<1>2. ASSUME NEW w \in Worker, Crash(w) \/ Restart(w) PROVE Goal
  BY <1>2, <1>0 DEF Crash, Restart
<1>3. ASSUME NEW i \in Event \cup Job, Due(i) \/ Expire(i) \/ Slip(i) PROVE Goal
  BY <1>3, <1>0 DEF Due, Expire, Slip, Present
<1>4. ASSUME NEW e \in Event, Emit(e) PROVE Goal
  <2>1. e # j
    BY QueueAssumption
  <2> QED BY <1>4, <1>0, <2>1 DEF Emit
<1>5. ASSUME NEW x \in Entry, DeleteEntry(x) \/ ReplaceEntry(x) PROVE Goal
  BY <1>5, <1>0 DEF DeleteEntry, ReplaceEntry, Remove, Present, NoRow
<1>6. ASSUME NEW e \in Event, NEW d \in Dest, NEW a \in Copy, NEW b \in Copy,
             Replay(e, d, a, b)
      PROVE  Goal
  <2>1. j = <<e, d, b>>
    BY <1>6, <1>0 DEF Replay
  <2> QED BY <1>6, <2>1 DEF Replay
<1>7. ASSUME NEW x \in Sub, SetSubscription(x) PROVE Goal
  BY <1>7, <1>0 DEF SetSubscription
<1>8. CASE UNCHANGED vars
  BY <1>8, <1>0 DEF vars
<1> QED BY <1>1, <1>2, <1>3, <1>4, <1>5, <1>6, <1>7, <1>8 DEF Next

\* As long as its event is not removed, a job keeps the attempts it has counted.
LEMMA AttemptsKept ==
    ASSUME TypeOK, ClaimsEmitted, EmptyRows, JobsAccounted, [Next]_vars,
           NEW j \in Job, removed'[j[1]] = None
    PROVE  /\ removed[j[1]] = None
           /\ Present(j)' => Present(j[1])'
           /\ row'[j].attempts >= row[j].attempts
           /\ row[j].attempts \in Nat /\ row'[j].attempts \in Nat
<1>1. j[1] \in Event /\ j \in Id /\ j[1] \in Id
  BY DEF Job, Id
<1>2. removed[j[1]] = None
  BY <1>1, RemovedStays
<1>3. Present(j) => Present(j[1])
  BY <1>2 DEF JobsAccounted, Accounted
<1>4. Present(j[1]) => Present(j[1])'
  BY <1>1, PresentSteps DEF Id, Deleted
<1>5. Present(j)' => Present(j[1])'
  <2>1. ASSUME ~Present(j), Present(j)' PROVE Present(j[1])
    <3>1. ASSUME NEW w \in Worker, Enqueue(w), j[1] = Current(w).id PROVE Present(j[1])
      <4>1. Current(w) \in Batch(w)
        BY <3>1 DEF Enqueue, TypeOK, WorkerOK, BusyStep
      <4> QED BY <3>1, <4>1, <1>1, <1>2 DEF ClaimsEmitted
    <3>2. ASSUME NEW a \in Copy, Present(<<j[1], j[2], a>>) PROVE Present(j[1])
      <4>1. <<j[1], j[2], a>> \in Job
        BY DEF Job
      <4> QED BY <3>2, <4>1, <1>2 DEF JobsAccounted, Accounted
    <3> QED BY <2>1, <3>1, <3>2, JobsBegin
  <2> QED BY <2>1, <1>3, <1>4
<1>6. row[j] \in Row /\ RowStep(j) /\ row'[j] \in Row
  BY <1>1, RowSteps, TypeStep DEF Id, TypeOK
<1>7. row'[j].attempts >= row[j].attempts
  <2>0. row[j].attempts \in Nat /\ row'[j].attempts \in Nat
    BY <1>6 DEF Row
  <2>1. CASE Deleted(j)
    <3>1. ~Present(j[1])'
      BY <2>1 DEF Deleted, Present, NoRow
    <3>2. ~Present(j)
      BY <3>1, <1>3, <1>4
    <3> QED BY <3>2, <1>1, <2>0 DEF EmptyRows
  <2>2. CASE Inserted(j)
    BY <2>0, <2>2, <1>1 DEF Inserted, EmptyRows
  <2>3. ASSUME NEW w \in Worker, TakenBy(w, j) \/ SucceededBy(w, j) \/ RetriedBy(w, j)
        PROVE  row'[j].attempts >= row[j].attempts
    <3>1. CASE TakenBy(w, j)
      BY <3>1, <2>0, <1>6 DEF TakenBy, Claimed, Row
    <3>2. CASE SucceededBy(w, j)
      BY <3>2, <2>0, <1>6 DEF SucceededBy, Succeeded, Row
    <3>3. CASE RetriedBy(w, j)
      BY <3>3, <2>0, <1>6 DEF RetriedBy, Retried, Row
    <3> QED BY <2>3, <3>1, <3>2, <3>3
  <2>4. CASE Aged(j)
    BY <2>4, <2>0, <1>6 DEF Aged, Row
  <2>5. CASE row'[j] = row[j]
    BY <2>5, <2>0
  <2> QED BY <1>6, <2>1, <2>2, <2>3, <2>4, <2>5 DEF RowStep
<1> QED BY <1>2, <1>5, <1>6, <1>7 DEF Row

\* Counting the attempts that are still to be carried out.
LEMMA Counting ==
    ASSUME NEW n \in Nat, NEW m \in Nat, NEW S, S \subseteq 1..n, NEW T
    PROVE  /\ Cardinality(S) \in Nat
           /\ T \subseteq S => Cardinality(T) \in Nat /\ Cardinality(T) <= Cardinality(S)
           /\ \A x \in S : T \subseteq S \ {x} =>
                 Cardinality(T) \in Nat /\ Cardinality(T) + 1 <= Cardinality(S)
           /\ T \subseteq S \cup {m} =>
                 Cardinality(T) \in Nat /\ Cardinality(T) <= Cardinality(S) + 1
<1>1. IsFiniteSet(S) /\ Cardinality(S) \in Nat
  <2>1. IsFiniteSet(1..n)
    BY FS_Interval
  <2> QED BY <2>1, FS_Subset, FS_CardinalityType
<1>2. ASSUME T \subseteq S PROVE Cardinality(T) \in Nat /\ Cardinality(T) <= Cardinality(S)
  BY <1>1, <1>2, FS_Subset, FS_CardinalityType
<1>3. ASSUME NEW x \in S, T \subseteq S \ {x}
      PROVE  Cardinality(T) \in Nat /\ Cardinality(T) + 1 <= Cardinality(S)
  <2>1. IsFiniteSet(S \ {x}) /\ Cardinality(S \ {x}) = Cardinality(S) - 1
    BY <1>1, FS_RemoveElement
  <2>2. Cardinality(T) \in Nat /\ Cardinality(T) <= Cardinality(S \ {x})
    BY <1>3, <2>1, FS_Subset, FS_CardinalityType
  <2> QED BY <1>1, <2>1, <2>2
<1>4. ASSUME T \subseteq S \cup {m}
      PROVE  Cardinality(T) \in Nat /\ Cardinality(T) <= Cardinality(S) + 1
  <2>1. /\ IsFiniteSet(S \cup {m})
        /\ Cardinality(S \cup {m}) \in {Cardinality(S), Cardinality(S) + 1}
    BY <1>1, FS_AddElement
  <2>2. Cardinality(T) \in Nat /\ Cardinality(T) <= Cardinality(S \cup {m})
    BY <1>4, <2>1, FS_Subset, FS_CardinalityType
  <2> QED BY <1>1, <2>1, <2>2
<1> QED BY <1>1, <1>2, <1>3, <1>4

LEMMA UndoneTypes ==
    ASSUME TypeOK, NEW v \in Worker, NEW c \in Unrun(v)
    PROVE  /\ c \in Batch(v) /\ c.id \in Id /\ c.attempts \in Nat
           /\ c = ClaimOf(c.id, c.attempts)
           /\ c.attempts \in Undone(c.id)
BY DEF Unrun, Undone, TypeOK, WorkerState, Batch, Claim, ClaimOf, Id

LEMMA AccountedStep ==
    ASSUME TypeOK, ClaimsEmitted, EmptyRows, JobsAccounted, [Next]_vars
    PROVE  JobsAccounted'
<1> SUFFICES ASSUME NEW j \in Job, removed'[j[1]] = None
             PROVE  /\ Present(j)' => Present(j[1])'
                    /\ Undone(j)' \subseteq 1..row'[j].attempts
                    /\ OneHolder(j)'
                    /\ delivered'[j] + Cardinality(Undone(j)') <= row'[j].attempts
  BY DEF JobsAccounted, Accounted
<1> DEFINE n == row[j].attempts
           S == Undone(j)
           T == Undone(j)'
           Clear == OneHolder(j)'
           Goal == /\ T \subseteq 1..row'[j].attempts
                   /\ Clear
                   /\ delivered'[j] + Cardinality(T) <= row'[j].attempts
<1>1. /\ removed[j[1]] = None
      /\ Present(j)' => Present(j[1])'
      /\ row'[j].attempts >= n /\ n \in Nat /\ row'[j].attempts \in Nat
  BY AttemptsKept
<1>2. /\ S \subseteq 1..n /\ delivered[j] + Cardinality(S) <= n
      /\ OneHolder(j)
  <2>1. Accounted(j)
    BY DEF JobsAccounted
  <2> QED BY <2>1, <1>1 DEF Accounted
<1>3. delivered[j] \in Nat /\ Cardinality(S) \in Nat
  <2>1. Cardinality(S) \in Nat
    BY <1>1, <1>2, Counting
  <2> QED BY <2>1 DEF TypeOK
<1>4. j \in Id /\ TypeOK'
  BY TypeStep DEF Id
<1>5. ASSUME \A v \in Worker : Unrun(v)' \subseteq Unrun(v)
      PROVE  T \subseteq S /\ Clear
  BY <1>2, <1>5 DEF Undone, OneHolder
<1>6. ASSUME NEW w \in Worker, RunJob(w) PROVE Goal
  <2>1. PICK c \in Batch(w), o \in Outcome :
          /\ delivered' = [delivered EXCEPT ![c.id] = @ + o[1]]
          /\ worker' = [worker EXCEPT ![w].step = o[2], ![w].current = c]
    BY <1>6 DEF RunJob
  <2>2. Step(w) = "jobs" /\ row' = row /\ o[1] \in {0, 1} /\ o[2] \in {"ack", "fail"}
    BY <1>6 DEF RunJob, Outcome
  <2>3. worker'[w] = [worker[w] EXCEPT !.step = o[2], !.current = c]
        /\ worker[w] \in WorkerState
    BY <2>1 DEF TypeOK
  <2>4. c \in Unrun(w) /\ Unrun(w)' = Unrun(w) \ {c}
    BY <2>2, <2>3 DEF Unrun, Batch, Step, Current, WorkerState
  <2>5. ASSUME NEW v \in Worker, v # w PROVE Unrun(v)' = Unrun(v)
    BY <2>1, <2>5, UnrunSame DEF TypeOK
  <2>6. T \subseteq S /\ Clear
    BY <1>5, <2>4, <2>5
  <2>7. CASE c.id = j
    <3>1. c.attempts \in S /\ c = ClaimOf(j, c.attempts)
      BY <2>4, <2>7, UndoneTypes
    <3>2. c.attempts \notin T
      <4>1. ASSUME NEW v \in Worker, c \in Unrun(v)' PROVE FALSE
        <5>1. v # w /\ c \in Unrun(v)
          BY <4>1, <2>4, <2>5
        <5> QED BY <5>1, <2>4, <2>7, <1>2 DEF OneHolder
      <4> QED BY <4>1, <3>1 DEF Undone
    <3>3. Cardinality(T) \in Nat /\ Cardinality(T) + 1 <= Cardinality(S)
      BY <1>1, <1>2, <2>6, <3>1, <3>2, Counting
    <3>4. delivered'[j] \in {delivered[j], delivered[j] + 1}
      BY <2>1, <2>2, <2>7 DEF TypeOK
    <3> HIDE DEF S, T, Clear
    <3> QED BY <1>1, <1>2, <1>3, <2>2, <2>6, <3>3, <3>4
  <2>8. CASE c.id # j
    <3>1. delivered'[j] = delivered[j]
      BY <2>1, <2>8 DEF TypeOK
    <3>2. Cardinality(T) \in Nat /\ Cardinality(T) <= Cardinality(S)
      BY <1>1, <1>2, <2>6, Counting
    <3> HIDE DEF S, T, Clear
    <3> QED BY <1>1, <1>2, <1>3, <2>2, <2>6, <3>1, <3>2
  <2> QED BY <2>7, <2>8
<1>7. ASSUME delivered' = delivered PROVE Goal
  <2>1. CASE \A v \in Worker : Unrun(v)' \subseteq Unrun(v)
    <3>1. T \subseteq S /\ Clear
      BY <1>5, <2>1
    <3>2. Cardinality(T) \in Nat /\ Cardinality(T) <= Cardinality(S)
      BY <1>1, <1>2, <3>1, Counting
    <3>3. T \subseteq 1..row'[j].attempts
      <4> HIDE DEF S, T
      <4> QED BY <1>1, <1>2, <3>1
    <3> HIDE DEF S, T, Clear
    <3> QED BY <1>1, <1>2, <1>3, <1>7, <3>1, <3>2, <3>3
  <2>2. ASSUME NEW w \in Worker, Taking(w) PROVE Goal
    <3>1. \A v \in Worker : v # w => Unrun(v)' = Unrun(v)
      BY <2>2, UnrunSame DEF Taking
    <3>2. ASSUME NEW c \in Unrun(w)', c.id = j
          PROVE  c.attempts = n + 1 /\ row'[j].attempts = n + 1
      BY <2>2, <3>2 DEF Taking, Unrun
    <3>3. CASE \E c \in Unrun(w)' : c.id = j
      <4>1. row'[j].attempts = n + 1
        BY <3>2, <3>3
      <4>2. T \subseteq S \cup {n + 1}
        <5> SUFFICES ASSUME NEW a \in T PROVE a \in S \cup {n + 1}
          OBVIOUS
        <5>1. PICK v \in Worker : ClaimOf(j, a) \in Unrun(v)'
          BY DEF Undone
        <5>2. CASE v = w
          BY <5>1, <5>2, <3>2 DEF ClaimOf
        <5>3. CASE v # w
          BY <5>1, <5>3, <3>1 DEF Undone
        <5> QED BY <5>2, <5>3
      <4>3. Cardinality(T) \in Nat /\ Cardinality(T) <= Cardinality(S) + 1
        BY <1>1, <1>2, <4>2, Counting
      <4>4. Clear
        <5> SUFFICES ASSUME NEW v \in Worker, NEW u \in Worker,
                            NEW c \in Unrun(v)' \cap Unrun(u)', c.id = j, v # u
                     PROVE  FALSE
          BY DEF OneHolder
        <5>1. PICK x \in {v, u} : x # w /\ c \in Unrun(x)
          BY <3>1
        <5>2. c.attempts \in S
          BY <5>1, UndoneTypes
        <5>3. c.attempts # n + 1
          <6> HIDE DEF S
          <6> QED BY <5>2, <1>1, <1>2
        <5>4. c \in Unrun(v) /\ c \in Unrun(u)
          BY <3>1, <3>2, <5>3
        <5> QED BY <5>4, <1>2 DEF OneHolder
      <4>5. T \subseteq 1..(n + 1)
        <5> HIDE DEF S, T
        <5> QED BY <1>1, <1>2, <4>2
      <4> HIDE DEF S, T, Clear
      <4> QED BY <1>1, <1>2, <1>3, <1>7, <4>1, <4>3, <4>4, <4>5
    <3>4. CASE ~\E c \in Unrun(w)' : c.id = j
      <4>1. T \subseteq S
        BY <3>1, <3>4 DEF Undone, ClaimOf
      <4>2. Clear
        BY <3>1, <3>4, <1>2 DEF OneHolder
      <4>3. Cardinality(T) \in Nat /\ Cardinality(T) <= Cardinality(S)
        BY <1>1, <1>2, <4>1, Counting
      <4>4. T \subseteq 1..row'[j].attempts
        <5> HIDE DEF S, T
        <5> QED BY <1>1, <1>2, <4>1
      <4> HIDE DEF S, T, Clear
      <4> QED BY <1>1, <1>2, <1>3, <1>7, <4>2, <4>3, <4>4
    <3> QED BY <3>3, <3>4
  <2> QED BY <2>1, <2>2, UnrunSteps
<1>8. delivered' = delivered \/ \E w \in Worker : RunJob(w)
  BY DEF Next, vars, history, Drain, ClaimEvents, StartExpand, Enqueue,
     ReadSubscriptions, ExpandFails, CompleteEvent, RetryEvent, Reschedule, ClaimJobs,
     AckJob, FailJob, DrainEnds, Crash, Restart, Due, Expire, Slip, Emit, DeleteEntry,
     ReplaceEntry, Remove, Replay, SetSubscription
<1>9. Goal
  BY <1>6, <1>7, <1>8
<1> QED BY <1>1, <1>9

\* An effect happens at most once for each attempt that the row has counted, even
\* when workers share a name, leases are taken over and jobs are replayed.
THEOREM DeliveriesAreCounted == Spec => []OneDeliveryPerAttempt
<1> DEFINE I == TypeOK /\ ClaimsEmitted /\ EmptyRows /\ JobsAccounted
<1>1. Init => I
  <2> SUFFICES ASSUME Init PROVE ClaimsEmitted /\ EmptyRows /\ JobsAccounted
    BY TypeInit
  <2>1. \A w \in Worker : Batch(w) = {} /\ Unrun(w) = {}
    BY DEF Init, Batch, Unrun, IdleWorker, Down
  <2>2. ClaimsEmitted
    BY <2>1 DEF ClaimsEmitted
  <2>3. EmptyRows
    BY DEF Init, EmptyRows, Id, NoRow, FirstAttempts
  <2>4. ASSUME NEW j \in Job PROVE Accounted(j)
    <3>1. ~Present(j) /\ row[j].attempts = 0 /\ delivered[j] = 0
      BY DEF Init, Present, NoRow, FirstAttempts
    <3>2. Undone(j) = {} /\ Cardinality({}) = 0
      BY <2>1, FS_EmptySet DEF Undone
    <3> QED BY <2>1, <3>1, <3>2 DEF Accounted, OneHolder
  <2> QED BY <2>2, <2>3, <2>4 DEF JobsAccounted
<1>2. I /\ [Next]_vars => I'
  BY TypeStep, ClaimsStep, EmptyRowsStep, AccountedStep
<1>3. I => OneDeliveryPerAttempt
  <2> SUFFICES ASSUME I, NEW j \in Job, Present(j), removed[j[1]] = None
               PROVE  delivered[j] <= row[j].attempts
    BY DEF OneDeliveryPerAttempt
  <2>1. Accounted(j) /\ row[j].attempts \in Nat /\ delivered[j] \in Nat
    BY DEF JobsAccounted, TypeOK, Row
  <2>2. Cardinality(Undone(j)) \in Nat
    BY <2>1, Counting DEF Accounted
  <2> QED BY <2>1, <2>2 DEF Accounted
<1> QED BY <1>1, <1>2, <1>3, PTL DEF Spec
=============================================================================
