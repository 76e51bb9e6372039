---------------------------- MODULE DurableQueue ----------------------------
(***************************************************************************)
(* The transactional outbox and the durable job queue of one scope, and    *)
(* the workers that drain them.  A worker claims outbox events under an    *)
(* expiring lease, expands each into one job per destination (the fixed    *)
(* ones, and a webhook per active subscription), claims jobs under a       *)
(* lease, performs their effects and acknowledges them or schedules a      *)
(* retry.  Each database call is one step; workers crash, overrun their    *)
(* leases and are restarted.                                               *)
(*                                                                         *)
(* Time is two booleans of a row: ready (available_at or run_at has        *)
(* passed) and expired (lease_expires_at has passed).  Payloads, error     *)
(* texts, results and the order in which a claimed batch is worked through *)
(* are left out.                                                           *)
(***************************************************************************)
EXTENDS Naturals, FiniteSets, TLC

CONSTANTS
    Worker,       \* callers of drain: worker processes and API requests
    Owner,        \* values of lease_owner
    Name,         \* the workerId each worker passes to drain
    Event,        \* outbox event ids
    Entry,        \* entry ids
    EntryOf,      \* aggregate_id of each event
    Fixed,        \* destinations of every event: cache.invalidate, search.index
    Removable,    \* those whose payload has the entryId a deletion looks for
    Sub,          \* webhook subscription ids
    None,
    MaxEventAttempts,  \* 10 in drain
    MaxJobAttempts,    \* 8 in #expandOutbox
    Limit,             \* rows one claim takes
    MaxReplays, MaxCrashes, MaxSlips, MaxToggles   \* bounds of the model

Dest == Fixed \cup Sub
Copy == 0..MaxReplays            \* 0: the expansion's own job; else a replay
Job == Event \X Dest \X Copy

ASSUME QueueAssumption ==
    /\ Name \in [Worker -> Owner]
    /\ None \notin Owner \cup {"deleted", "replaced"}
    /\ EntryOf \in [Event -> Entry]
    /\ Removable \subseteq Fixed
    /\ Event \cap Job = {}
    /\ MaxEventAttempts \in Nat \ {0} /\ MaxJobAttempts \in Nat \ {0}
    /\ Limit \in Nat \ {0}
ASSUME BudgetAssumption ==
    {MaxReplays, MaxCrashes, MaxSlips, MaxToggles} \subseteq Nat

VARIABLES
    row,        \* outbox_events and durable_jobs, by id and by key
    subscribed, \* webhook_subscriptions with active = 1
    worker,     \* what each worker is doing
    steady,     \* history: subscriptions active ever since the event
    delivered,  \* history: how often a job's effect has happened
    removed,    \* history: how an event's row was deleted, or None
    spent       \* crashes, slips and toggles so far

vars == <<row, subscribed, worker, steady, delivered, removed, spent>>
history == <<steady, delivered, removed>>

-----------------------------------------------------------------------------
(* Rows *)

\* Mutant: the column is left NULL on insertion.
NullAttempts == None
FirstAttempts == 0

NoRow == [state |-> "none", attempts |-> FirstAttempts, ready |-> FALSE,
          expired |-> FALSE, owner |-> None]
NewRow == [NoRow EXCEPT !.state = "pending", !.ready = TRUE]

Present(i) == row[i].state # "none"
Active(i) == row[i].state \in {"pending", "processing"}

\* Mutant: a claim looks at pending rows only.
ClaimablePending(i) == row[i].state = "pending" /\ row[i].ready
Claimable(i) == \/ row[i].state = "pending" /\ row[i].ready
                \/ row[i].state = "processing" /\ row[i].expired

\* UPDATE ... WHERE state = 'processing' AND lease_owner = ? changes one row.
\* Mutants: the owner, or the whole condition, is left out.
HasState(w, i) == row[i].state = "processing"
HasAny(w, i) == TRUE
HasLease(w, i) == row[i].state = "processing" /\ row[i].owner = Name[w]

\* Mutant: off by one.
ExhaustedEarly(attempts, max) == attempts + 1 >= max
Exhausted(attempts, max) == attempts >= max

MaxAttempts(i) == IF i \in Event THEN MaxEventAttempts ELSE MaxJobAttempts

Claimed(r, w) == [r EXCEPT !.state = "processing", !.attempts = @ + 1,
                           !.owner = Name[w], !.expired = FALSE]
Succeeded(r) == [r EXCEPT !.state = "succeeded", !.owner = None, !.expired = FALSE]
Retried(r, dead) == [r EXCEPT !.state = IF dead THEN "dead" ELSE "pending",
                              !.ready = FALSE, !.owner = None, !.expired = FALSE]

-----------------------------------------------------------------------------
(* Workers *)

Down == [step |-> "down", batch |-> {}, current |-> None, todo |-> {}]
IdleWorker == [Down EXCEPT !.step = "idle"]

Step(w) == worker[w].step
Batch(w) == worker[w].batch
Current(w) == worker[w].current

ClaimOf(i, attempts) == [id |-> i, attempts |-> attempts]

\* The claim on the row as it stands, and whether a running worker has it.
CurrentClaim(i) == ClaimOf(i, row[i].attempts)
Held(i) == row[i].state = "processing" /\ \E w \in Worker : CurrentClaim(i) \in Batch(w)

\* A claim takes the rows ready for it, as many as the limit allows.
ClaimBatch(w, ids, next) ==
    \E taken \in SUBSET {i \in ids : Claimable(i)} :
        /\ \/ Cardinality(taken) = Limit
           \/ Cardinality(taken) < Limit /\ taken = {i \in ids : Claimable(i)}
        /\ row' = [i \in DOMAIN row |-> IF i \in taken THEN Claimed(row[i], w)
                                        ELSE row[i]]
        /\ worker' = [worker EXCEPT ![w] =
              [step |-> next, current |-> None, todo |-> {},
               batch |-> {ClaimOf(i, row[i].attempts + 1) : i \in taken}]]

\* What a worker has left once it is done with a claim.  Mutant: it works on
\* a failed job again within the same pass.
KeptAfterFailure(batch, c) == batch
LeftAfterFailure(batch, c) == batch \ {c}

ClaimEvents(w) ==
    /\ Step(w) = "idle"
    /\ ClaimBatch(w, Event, "events")
    /\ UNCHANGED <<subscribed, history, spent>>

\* #expandOutbox begins with the fixed destinations.
StartExpand(w) ==
    /\ Step(w) = "events"
    /\ \E c \in Batch(w) :
          worker' = [worker EXCEPT ![w].step = "fixed", ![w].current = c,
                                   ![w].todo = Fixed]
    /\ UNCHANGED <<row, subscribed, history, spent>>

\* enqueueJob: INSERT OR IGNORE under the key outbox:<event>:<destination>.
Enqueue(w) ==
    /\ Step(w) \in {"fixed", "hooks"}
    /\ \E d \in worker[w].todo :
          LET j == <<Current(w).id, d, 0>> IN
          /\ row' = [row EXCEPT ![j] = IF Present(j) THEN @ ELSE NewRow]
          /\ worker' = [worker EXCEPT ![w].todo = @ \ {d}]
    /\ UNCHANGED <<subscribed, history, spent>>

ReadSubscriptions(w) ==
    /\ Step(w) = "fixed" /\ worker[w].todo = {}
    /\ worker' = [worker EXCEPT ![w].step = "hooks", ![w].todo = subscribed]
    /\ UNCHANGED <<row, subscribed, history, spent>>

\* Mutant: an error while jobs are enqueued is swallowed.
ErrorSwallowed == "hooks"
AfterExpandError == "retry"

ExpandFails(w) ==
    /\ Step(w) \in {"fixed", "hooks"}
    /\ worker' = [worker EXCEPT ![w].step = AfterExpandError, ![w].todo = {}]
    /\ UNCHANGED <<row, subscribed, history, spent>>

\* completeOutboxEvent; a lost lease is an error like any other.
CompleteEvent(w) ==
    LET i == Current(w).id IN
    /\ Step(w) = "hooks" /\ worker[w].todo = {}
    /\ IF HasLease(w, i)
       THEN /\ row' = [row EXCEPT ![i] = Succeeded(@)]
            /\ worker' = [worker EXCEPT ![w].step = "events", ![w].current = None,
                                        ![w].batch = @ \ {Current(w)}]
       ELSE /\ worker' = [worker EXCEPT ![w].step = "retry"]
            /\ UNCHANGED row
    /\ UNCHANGED <<subscribed, history, spent>>

\* retryOutboxEvent and failJob: on a lost lease drain throws, and the worker
\* process ends with its claims undecided.
Reschedule(w, next) ==
    LET c == Current(w)
        dead == Exhausted(c.attempts, MaxAttempts(c.id))
    IN  /\ IF HasLease(w, c.id)
           THEN /\ row' = [row EXCEPT ![c.id] = Retried(@, dead)]
                /\ worker' = [worker EXCEPT ![w].step = next, ![w].current = None,
                                            ![w].batch = LeftAfterFailure(@, c)]
           ELSE /\ worker' = [worker EXCEPT ![w] = Down]
                /\ UNCHANGED row
        /\ UNCHANGED <<subscribed, history, spent>>

RetryEvent(w) == Step(w) = "retry" /\ Reschedule(w, "events")

ClaimJobs(w) ==
    /\ Step(w) = "events" /\ Batch(w) = {}
    /\ ClaimBatch(w, Job, "jobs")
    /\ UNCHANGED <<subscribed, history, spent>>

\* A handler returns, or throws, and may have delivered before it threw: a
\* response that came too late, or no database for the acknowledgement.
\* Mutant: a response that is not a success is acknowledged.
AnyOutcome == {0, 1} \X {"ack", "fail"}
Outcome == {<<1, "ack">>, <<0, "fail">>, <<1, "fail">>}

RunJob(w) ==
    /\ Step(w) = "jobs"
    /\ \E c \in Batch(w), o \in Outcome :
          /\ delivered' = [delivered EXCEPT ![c.id] = @ + o[1]]
          /\ worker' = [worker EXCEPT ![w].step = o[2], ![w].current = c]
    /\ UNCHANGED <<row, subscribed, steady, removed, spent>>

\* completeJob; a lost lease sends the job to failJob.
AckJob(w) ==
    LET i == Current(w).id IN
    /\ Step(w) = "ack"
    /\ IF HasLease(w, i)
       THEN /\ row' = [row EXCEPT ![i] = Succeeded(@)]
            /\ worker' = [worker EXCEPT ![w].step = "jobs", ![w].current = None,
                                        ![w].batch = @ \ {Current(w)}]
       ELSE /\ worker' = [worker EXCEPT ![w].step = "fail"]
            /\ UNCHANGED row
    /\ UNCHANGED <<subscribed, history, spent>>

FailJob(w) == Step(w) = "fail" /\ Reschedule(w, "jobs")

DrainEnds(w) ==
    /\ Step(w) = "jobs" /\ Batch(w) = {}
    /\ worker' = [worker EXCEPT ![w] = IdleWorker]
    /\ UNCHANGED <<row, subscribed, history, spent>>

Crash(w) ==
    /\ Step(w) # "down"
    /\ spent.crashes < MaxCrashes
    /\ spent' = [spent EXCEPT !.crashes = @ + 1]
    /\ worker' = [worker EXCEPT ![w] = Down]
    /\ UNCHANGED <<row, subscribed, history>>

Restart(w) ==
    /\ Step(w) = "down"
    /\ worker' = [worker EXCEPT ![w] = IdleWorker]
    /\ UNCHANGED <<row, subscribed, history, spent>>

-----------------------------------------------------------------------------
(* Time *)

Due(i) ==
    /\ row[i].state = "pending" /\ ~row[i].ready
    /\ row' = [row EXCEPT ![i].ready = TRUE]
    /\ UNCHANGED <<subscribed, worker, history, spent>>

\* The lease of a claim nobody works on any more.
Expire(i) ==
    /\ row[i].state = "processing" /\ ~row[i].expired /\ ~Held(i)
    /\ row' = [row EXCEPT ![i].expired = TRUE]
    /\ UNCHANGED <<subscribed, worker, history, spent>>

\* The lease of a worker that is slower than the lease is long.
Slip(i) ==
    /\ row[i].state = "processing" /\ ~row[i].expired /\ Held(i)
    /\ spent.slips < MaxSlips
    /\ spent' = [spent EXCEPT !.slips = @ + 1]
    /\ row' = [row EXCEPT ![i].expired = TRUE]
    /\ UNCHANGED <<subscribed, worker, history>>

-----------------------------------------------------------------------------
(* Content writers and operators *)

\* #emitOutbox, in the transaction of a content write.
Emit(e) ==
    /\ ~Present(e) /\ removed[e] = None
    /\ row' = [row EXCEPT ![e] = NewRow]
    /\ steady' = [steady EXCEPT ![e] = subscribed]
    /\ UNCHANGED <<subscribed, worker, delivered, removed, spent>>

Remove(x, ids, how) ==
    /\ \E i \in ids : Present(i)
    /\ row' = [i \in DOMAIN row |-> IF i \in ids THEN NoRow ELSE row[i]]
    /\ removed' = [e \in Event |-> IF EntryOf[e] = x /\ Present(e) THEN how
                                   ELSE removed[e]]
    /\ UNCHANGED <<subscribed, worker, steady, delivered, spent>>

EventsOf(x) == {e \in Event : EntryOf[e] = x}

\* deleteEntry: the outbox rows and the jobs whose payload names the entry.
DeleteEntry(x) ==
    Remove(x, EventsOf(x) \cup (EventsOf(x) \X Removable \X Copy), "deleted")

\* importPortableContent with policy replace: the outbox rows.
ReplaceEntry(x) == Remove(x, EventsOf(x), "replaced")

\* replayJob: a new job with a key of its own.
Replay(e, d, c, copy) ==
    /\ Present(<<e, d, c>>) /\ row[<<e, d, c>>].state # "processing"
    /\ copy # 0 /\ ~Present(<<e, d, copy>>) /\ delivered[<<e, d, copy>>] = 0
    /\ row' = [row EXCEPT ![<<e, d, copy>>] = NewRow]
    /\ UNCHANGED <<subscribed, worker, history, spent>>

\* saveWebhookSubscription and deleteWebhookSubscription
SetSubscription(s) ==
    /\ spent.toggles < MaxToggles
    /\ spent' = [spent EXCEPT !.toggles = @ + 1]
    /\ subscribed' = IF s \in subscribed THEN subscribed \ {s}
                     ELSE subscribed \cup {s}
    /\ steady' = [e \in Event |-> steady[e] \ {s}]
    /\ UNCHANGED <<row, worker, delivered, removed>>

-----------------------------------------------------------------------------
(* The specification *)

Init ==
    /\ row = [i \in Event \cup Job |-> NoRow]
    /\ subscribed \in SUBSET Sub
    /\ worker = [w \in Worker |-> IdleWorker]
    /\ steady = [e \in Event |-> {}]
    /\ delivered = [j \in Job |-> 0]
    /\ removed = [e \in Event |-> None]
    /\ spent = [crashes |-> 0, slips |-> 0, toggles |-> 0]

\* One call of drain after another.
Drain(w) ==
    \/ ClaimEvents(w) \/ StartExpand(w) \/ Enqueue(w) \/ ReadSubscriptions(w)
    \/ ExpandFails(w) \/ CompleteEvent(w) \/ RetryEvent(w)
    \/ ClaimJobs(w) \/ RunJob(w) \/ AckJob(w) \/ FailJob(w) \/ DrainEnds(w)

Next ==
    \/ \E w \in Worker : Drain(w) \/ Crash(w) \/ Restart(w)
    \/ \E i \in Event \cup Job : Due(i) \/ Expire(i) \/ Slip(i)
    \/ \E e \in Event : Emit(e)
    \/ \E x \in Entry : DeleteEntry(x) \/ ReplaceEntry(x)
    \/ \E e \in Event, d \in Dest, c, copy \in Copy : Replay(e, d, c, copy)
    \/ \E s \in Sub : SetSubscription(s)

Spec == Init /\ [][Next]_vars

\* A worker that runs goes on running, one that ended is started again, and
\* time passes.  Nobody has to crash, overrun a lease, or write content.
Fairness ==
    /\ \A w \in Worker : WF_vars(Drain(w)) /\ WF_vars(Restart(w))
    /\ \A i \in Event \cup Job : WF_vars(Due(i)) /\ WF_vars(Expire(i))

FairSpec == Spec /\ Fairness

-----------------------------------------------------------------------------
(* Types *)

Row == [state : {"none", "pending", "processing", "succeeded", "dead"},
        attempts : Nat, ready : BOOLEAN, expired : BOOLEAN,
        owner : Owner \cup {None}]

Claim == [id : Event \cup Job, attempts : Nat]
EventStep == {"events", "fixed", "hooks", "retry"}
JobStep == {"jobs", "ack", "fail"}
BusyStep == {"fixed", "hooks", "retry", "ack", "fail"}

WorkerState == [step : {"down", "idle"} \cup EventStep \cup JobStep,
                batch : SUBSET Claim, current : Claim \cup {None},
                todo : SUBSET Dest]

\* What a worker holds fits the step it is at.
WorkerOK(w) ==
    /\ Step(w) \in {"down", "idle"} => Batch(w) = {}
    /\ Step(w) \in EventStep => \A c \in Batch(w) : c.id \in Event
    /\ Step(w) \in JobStep => \A c \in Batch(w) : c.id \in Job
    /\ Step(w) \in BusyStep => Current(w) \in Batch(w)

\* Every variable has its type; a worker that expands or runs something has a
\* current claim out of its batch.
TypeOK ==
    /\ row \in [Event \cup Job -> Row]
    /\ subscribed \in SUBSET Sub
    /\ worker \in [Worker -> WorkerState]
    /\ \A w \in Worker : WorkerOK(w)
    /\ steady \in [Event -> SUBSET Sub]
    /\ delivered \in [Job -> Nat]
    /\ removed \in [Event -> {None, "deleted", "replaced"}]
    /\ spent \in [crashes : Nat, slips : Nat, toggles : Nat]

-----------------------------------------------------------------------------
(* Safety *)

\* A worker that passes the check of lease_owner decides on the attempt it was
\* given, however leases expire and are taken over, and whatever is deleted and
\* enqueued again: its verdict of exhaustion is about the attempt in the row.
DecidesOwnAttempt ==
    \A w \in Worker : \A c \in Batch(w) :
        HasLease(w, c.id) => c.attempts = row[c.id].attempts

\* A row that succeeded or died is decided: a late answer of a worker that lost
\* its lease cannot bring it back; only a deletion takes it away.
SettledStays ==
    [][\A i \in Event \cup Job :
          row[i].state \in {"succeeded", "dead"} =>
              row'[i] = row[i] \/ row'[i] = NoRow]_vars

\* A job is reported succeeded only if its effect has happened.
SucceededMeansDelivered ==
    \A j \in Job : row[j].state = "succeeded" => delivered[j] > 0

\* An event is reported succeeded only after a job exists for each destination,
\* the webhooks of every subscription that was active all along included.
SucceededMeansExpanded ==
    \A e \in Event : row[e].state = "succeeded" =>
        \A d \in Fixed \cup steady[e] : Present(<<e, d, 0>>)

\* Nothing is given up before its attempts are used up.
DeadMeansExhausted ==
    \A i \in Event \cup Job :
        row[i].state = "dead" => row[i].attempts >= MaxAttempts(i)

\* Attempts are counted by the row alone: a verdict is about the attempt that the
\* worker was given, and none is the last before its time.
AttemptsCounted == DecidesOwnAttempt /\ DeadMeansExhausted

\* An effect happens at most once per claim: repeated deliveries are only
\* those of attempts the row has counted (jobs of a deleted entry start anew).
OneDeliveryPerAttempt ==
    \A j \in Job : Present(j) /\ removed[j[1]] = None =>
        delivered[j] <= row[j].attempts

\* Two workers with one name cannot be told apart by lease_owner.
NamesDiffer == \A v, w \in Worker : Name[v] = Name[w] => v = w

-----------------------------------------------------------------------------
(* Liveness *)

\* Every row is decided in the end, or deleted: no crash, lost lease or failing
\* destination leaves an event or a job claimed or pending for ever.
EveryRowSettles == \A i \in Event \cup Job : Active(i) ~> ~Active(i)

\* Every event reaches every fixed destination, unless the event or the job ran
\* out of attempts or the entry was deleted or replaced.
EventuallyHandled ==
    \A e \in Event : \A d \in Fixed :
        Present(e) ~> \/ delivered[<<e, d, 0>>] > 0
                      \/ "dead" \in {row[e].state, row[<<e, d, 0>>].state}
                      \/ removed[e] # None

-----------------------------------------------------------------------------
(* What the documents say and the code does not do *)

\* docs/portability.md: what an entry's replacement made obsolete is delivered
\* no more.
NothingObsoleteDelivered ==
    [][\A j \in Job : removed[j[1]] = "replaced" => delivered'[j] = delivered[j]]_vars
-----------------------------------------------------------------------------
(* For TLC: a name of its own for each worker, one entry that all events   *)
(* are about, and what may be exchanged for another of its kind.           *)

UniqueNames == [w \in Worker |-> w]

OneEntry == [e \in Event |-> CHOOSE x \in Entry : TRUE]

WorkersAlike == Permutations(Worker)
=============================================================================
