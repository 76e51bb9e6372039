------------------------ MODULE EditorialFlow_proofs ------------------------
(***************************************************************************)
(* Proofs about EditorialFlow, for any number of processes, people,        *)
(* requests and schedules.  The instance is written back whole by whoever  *)
(* read it, so the invariant is about every copy of it, the stored one and *)
(* those that processes work on: each copy tells the truth about facts     *)
(* that, once true, stay true.                                             *)
(***************************************************************************)
EXTENDS EditorialFlow, FiniteSetTheorems, TLAPS

\* A copy of the instance, wherever it is: what it says of approvals,
\* publication and its pending request has happened.
CopyOK(c) ==
    /\ c.rev <= draft
    /\ c.state \in {"approved", "published", "archived"} =>
          c.rev # 0 /\ Reviewed(c.rev)
    /\ c.state \in {"published", "archived"} => published # 0
    /\ c.request # None =>
          /\ c.rev # 0 /\ requests[c.request].rev = c.rev
          /\ c.yes \subseteq requests[c.request].yes \ {requests[c.request].by}

\* What a process has checked of the copy it is about to write
SaveOK(s) ==
    /\ s.op = "transition" =>
          /\ s.copy.rev = s.seen
          /\ From[s.t] = s.copy.state /\ To[s.t] # "published"
    /\ s.op \in {"approve", "reject"} =>
          /\ s.copy.request # None /\ s.copy.request = s.want
          /\ s.by \in Actor /\ s.by # requests[s.want].by
    /\ s.op = "published" => s.copy.state = "approved"

\* ... of the revision it is about to publish
PublishOK(s) ==
    /\ s.op = "publish" /\ s.pc = "entry" => s.want \in Nat /\ s.want <= draft
    /\ s.op = "publish" /\ s.pc \in {"look", "ensure", "commit"} =>
          s.want \in Nat /\ s.want <= s.seen
    /\ s.op \in {"publish", "published"} => s.t = "publish"
    /\ s.op = "published" => published # 0
    /\ s.pc = "commit" => s.op = "publish" /\ Reviewed(s.seen)

\* ... and what it knows of its request or pass otherwise
CallOK(s) ==
    /\ s.seen <= draft
    /\ s.pc \in {"look", "ensure", "save", "commit"} => s.seen # 0
    /\ s.op \in {"transition", "schedule"} => s.t \in Transition
    /\ s.op = "approve" => s.t = "approve"
    /\ s.op = "approve" /\ s.pc \in {"notify", "complete"} => s.copy.request # None
    /\ s.pc = "complete" => s.op = "approve" /\ Enough(s.copy)

PassOK(s) ==
    /\ s.todo \subseteq Booked
    /\ s.pass /\ s.job = None => s.op \in {"none", "outcome"}
    /\ s.pc \in {"list", "escalate", "escalated", "pass"} => s.pass /\ s.job = None
    /\ s.pc = "enqueue" => s.op \in {"transition", "approve", "published"}

SessionOK(s) ==
    /\ CopyOK(s.copy) /\ CopyOK(s.own)
    /\ s.pc = "save" => SaveOK(s)
    /\ PublishOK(s) /\ CallOK(s) /\ PassOK(s)

IInv ==
    /\ TypeOK
    /\ \A c \in Instance : instance = c => CopyOK(c)
    /\ \A p \in Proc, s \in ProcState : proc[p] = s => SessionOK(s)
    /\ \A i \in Booked : schedules[i].t \in Transition /\ schedules[i].rev <= draft
    /\ clock.ripe \subseteq Booked
    /\ PublishedWasReviewed

-----------------------------------------------------------------------------
(* Transitions and records *)

\* The default workflow leads from states to states, to approved by approve
\* alone, to published by publish alone and to archived from published alone.
LEMMA Transitions ==
    ASSUME NEW t \in Transition
    PROVE  /\ From[t] \in State /\ To[t] \in State
           /\ To[t] = "approved" => t = "approve"
           /\ To[t] = "published" => t = "publish"
           /\ To[t] = "archived" => From[t] = "published"
<1>1. t \in {"submit", "approve", "changes", "publish", "revise", "archive", "restore"}
  BY DEF Transition, From
<1>2. CASE t = "submit"
  BY <1>2 DEF From, To, State
<1>3. CASE t = "approve"
  BY <1>3 DEF From, To, State
<1>4. CASE t = "changes"
  BY <1>4 DEF From, To, State
<1>5. CASE t = "publish"
  BY <1>5 DEF From, To, State
<1>6. CASE t = "revise"
  BY <1>6 DEF From, To, State
<1>7. CASE t = "archive"
  BY <1>7 DEF From, To, State
<1>8. CASE t = "restore"
  BY <1>8 DEF From, To, State
<1> QED BY <1>1, <1>2, <1>3, <1>4, <1>5, <1>6, <1>7, <1>8

LEMMA Named == "approve" \in Transition /\ "publish" \in Transition
BY DEF Transition, From

\* What the operations make of a copy of the instance is an instance.
LEMMA InstanceTypes ==
    ASSUME NEW c \in Instance
    PROVE  /\ NoPending(c) \in Instance
           /\ \A r \in Nat : ForRevision(c, r) \in Instance
           /\ \A t \in Transition, e \in Nat : Moved(c, t, e) \in Instance
           /\ \A q \in Request : [c EXCEPT !.request = q, !.yes = {}, !.late = FALSE]
                                    \in Instance
           /\ \A a \in Actor : [c EXCEPT !.yes = @ \cup {a}] \in Instance
           /\ \A i : \A x \in {"pending", "executed", "cancelled", "failed"} :
                 [c EXCEPT !.sched[i] = x] \in Instance
           /\ [c EXCEPT !.late = TRUE] \in Instance
<1>1. NoPending(c) \in Instance
  BY DEF NoPending, Instance
<1>2. \A r \in Nat : ForRevision(c, r) \in Instance
  BY <1>1 DEF ForRevision, NoPending, Instance, State
<1>3. \A t \in Transition, e \in Nat : Moved(c, t, e) \in Instance
  <2> SUFFICES ASSUME NEW t \in Transition, NEW e \in Nat
               PROVE  Moved(c, t, e) \in Instance
    OBVIOUS
  <2> DEFINE n == NoPending(c)
  <2>1. PICK h \in SUBSET Nat : Moved(c, t, e) = [n EXCEPT !.state = To[t], !.hist = h]
    <3>1. n.hist \in SUBSET Nat /\ n.hist \cup {e} \in SUBSET Nat
      BY <1>1 DEF Instance
    <3>2. CASE FollowHistory
      BY <3>1, <3>2 DEF Moved
    <3>3. CASE ~FollowHistory
      BY <3>1, <3>3 DEF Moved
    <3> QED BY <3>2, <3>3
  <2>2. n \in Instance /\ To[t] \in State
    BY <1>1, Transitions
  <2> HIDE DEF n
  <2> QED BY <2>1, <2>2 DEF Instance
<1>4. \A q \in Request : [c EXCEPT !.request = q, !.yes = {}, !.late = FALSE] \in Instance
  BY DEF Instance
<1>5. \A a \in Actor : [c EXCEPT !.yes = @ \cup {a}] \in Instance
  BY DEF Instance
<1>6. \A i : \A x \in {"pending", "executed", "cancelled", "failed"} :
         [c EXCEPT !.sched[i] = x] \in Instance
  BY DEF Instance
<1>7. [c EXCEPT !.late = TRUE] \in Instance
  BY DEF Instance
<1> QED BY <1>1, <1>2, <1>3, <1>4, <1>5, <1>6, <1>7

LEMMA FirstInstances ==
    /\ NoInstance \in Instance
    /\ \A r \in Nat : FirstInstance(r) \in Instance
    /\ \A r \in Nat, s \in State : [FirstInstance(r) EXCEPT !.state = s] \in Instance
<1>1. NoInstance \in Instance
  BY DEF NoInstance, Instance
<1>2. \A r \in Nat : FirstInstance(r) \in Instance
  BY <1>1 DEF FirstInstance, NoInstance, Instance, State
<1>3. \A r \in Nat, s \in State : [FirstInstance(r) EXCEPT !.state = s] \in Instance
  BY <1>2 DEF Instance
<1> QED BY <1>1, <1>2, <1>3

LEMMA IdleType == Idle \in ProcState
<1>1. NoInstance \in Instance
  BY FirstInstances
<1> QED BY <1>1 DEF Idle, ProcState, PC

\* Leaving an operation
LEMMA DoneTypes ==
    ASSUME NEW s \in ProcState
    PROVE  Done(s) \in ProcState /\ Thrown(s) \in ProcState
<1>1. /\ [s EXCEPT !.pc = "pass"] \in ProcState /\ [s EXCEPT !.pc = "reread"] \in ProcState
      /\ [s EXCEPT !.pc = "failed"] \in ProcState
  BY DEF ProcState, PC
<1> QED BY <1>1, IdleType DEF Done, Thrown

LEMMA CheckedType ==
    ASSUME NEW s \in ProcState, NEW c \in Instance
    PROVE  Checked(s, c) \in ProcState
<1>1. /\ [s EXCEPT !.copy = c, !.pc = "commit"] \in ProcState
      /\ [s EXCEPT !.copy = c, !.pc = "save"] \in ProcState
  BY ZenonT(30) DEF ProcState, PC
<1> QED BY <1>1, DoneTypes DEF Checked

-----------------------------------------------------------------------------
(* Facts that stay true *)

\* Drafts and approvals are only added; a request or schedule that was made is
\* made for good.
Grows ==
    /\ draft <= draft'
    /\ published # 0 => published' # 0
    /\ \A q \in Request : requests[q].rev # 0 =>
          /\ requests'[q].rev = requests[q].rev /\ requests'[q].by = requests[q].by
          /\ requests[q].yes \subseteq requests'[q].yes
    /\ Booked \subseteq Booked'

LEMMA ReviewStays ==
    ASSUME TypeOK, TypeOK', Grows, NEW r, r # 0, Reviewed(r)
    PROVE  Reviewed(r)'
<1>1. PICK q \in Request :
          /\ requests[q].rev = r
          /\ Cardinality(requests[q].yes \ {requests[q].by}) >= MinApprovals
  BY DEF Reviewed
<1> DEFINE A == requests[q].yes \ {requests[q].by}
           B == requests'[q].yes \ {requests'[q].by}
<1>2. requests'[q].rev = r /\ A \subseteq B
  BY <1>1 DEF Grows
<1>3. IsFiniteSet(B)
  <2>1. B \subseteq Actor
    BY DEF TypeOK
  <2> QED BY <2>1, FlowAssumption, FS_Subset
<1>4. Cardinality(A) <= Cardinality(B) /\ Cardinality(A) \in Nat /\ Cardinality(B) \in Nat
  BY <1>2, <1>3, FS_Subset, FS_CardinalityType
<1>5. Cardinality(B) >= MinApprovals
  <2>1. Cardinality(A) >= MinApprovals
    BY <1>1
  <2> HIDE DEF A, B
  <2> QED BY <2>1, <1>4, FlowAssumption
<1> QED BY <1>2, <1>5 DEF Reviewed

LEMMA CopyStays ==
    ASSUME TypeOK, TypeOK', Grows, NEW c \in Instance, CopyOK(c)
    PROVE  CopyOK(c)'
<1>1. c.rev <= draft'
  BY DEF CopyOK, Grows, TypeOK, Instance
<1>2. c.state \in {"approved", "published", "archived"} => c.rev # 0 /\ Reviewed(c.rev)'
  BY ReviewStays DEF CopyOK
<1>3. c.state \in {"published", "archived"} => published' # 0
  BY DEF CopyOK, Grows
<1>4. c.request # None =>
          /\ c.rev # 0 /\ requests'[c.request].rev = c.rev
          /\ c.yes \subseteq requests'[c.request].yes \ {requests'[c.request].by}
  BY DEF CopyOK, Grows, Instance
<1> QED BY <1>1, <1>2, <1>3, <1>4 DEF CopyOK

LEMMA SessionStays ==
    ASSUME TypeOK, TypeOK', Grows, NEW s \in ProcState, SessionOK(s)
    PROVE  SessionOK(s)'
<1>1. s.copy \in Instance /\ s.own \in Instance /\ s.seen \in Nat
  BY DEF ProcState
<1>2. CopyOK(s.copy)' /\ CopyOK(s.own)'
  BY <1>1, CopyStays DEF SessionOK
<1>3. s.pc = "save" => SaveOK(s)'
  <2> SUFFICES ASSUME s.pc = "save"
               PROVE  SaveOK(s)'
    OBVIOUS
  <2>1. SaveOK(s) /\ CopyOK(s.copy)
    BY DEF SessionOK
  <2>2. s.op \in {"approve", "reject"} => s.by # requests'[s.want].by
    BY <2>1, <1>1 DEF SaveOK, CopyOK, Grows, Instance
  <2> QED BY <2>1, <2>2 DEF SaveOK
<1>4. draft \in Nat /\ draft' \in Nat /\ draft <= draft'
  BY DEF TypeOK, Grows
<1>5. PublishOK(s)'
  <2>1. PublishOK(s) /\ CallOK(s)
    BY DEF SessionOK
  <2>2. s.op = "publish" /\ s.pc = "entry" => s.want \in Nat /\ s.want <= draft'
    BY <2>1, <1>4 DEF PublishOK
  <2>3. s.pc = "commit" => s.op = "publish" /\ Reviewed(s.seen)'
    BY <2>1, ReviewStays DEF PublishOK, CallOK
  <2>4. s.op = "published" => published' # 0
    BY <2>1 DEF PublishOK, Grows
  <2> QED BY <2>1, <2>2, <2>3, <2>4 DEF PublishOK
<1>6. CallOK(s)'
  BY <1>1, <1>4 DEF SessionOK, CallOK, Enough
<1>7. PassOK(s)'
  BY DEF SessionOK, PassOK, Grows
<1> QED BY <1>2, <1>3, <1>5, <1>6, <1>7 DEF SessionOK

\* A step of one process that adds facts
LEMMA GrowStep ==
    ASSUME IInv, TypeOK', Grows, NEW p \in Proc, NEW s \in ProcState, Become(p, s),
           SessionOK(s)', NEW c \in Instance, instance' = c, CopyOK(c)',
           \A i \in Booked' : schedules'[i].t \in Transition /\ schedules'[i].rev <= draft',
           clock'.ripe \subseteq Booked',
           PublishedWasReviewed'
    PROVE  IInv'
<1>1. ASSUME NEW r \in Proc, NEW x \in ProcState, proc'[r] = x
      PROVE  SessionOK(x)'
  <2>1. CASE r = p
    <3>1. x = s
      BY <1>1, <2>1 DEF Become, IInv, TypeOK
    <3> QED BY <3>1 DEF SessionOK, CopyOK, SaveOK, PublishOK, CallOK, PassOK, Reviewed,
                        Booked, Enough
  <2>2. CASE r # p
    <3>1. proc[r] = x
      BY <1>1, <2>2 DEF Become, IInv, TypeOK
    <3>2. SessionOK(x)
      BY <3>1 DEF IInv
    <3> QED BY <3>2, SessionStays DEF IInv
  <2> QED BY <2>1, <2>2
<1> QED BY <1>1 DEF IInv

\* A step of one process that writes nothing but the instance
LEMMA QuietStep ==
    ASSUME IInv, NEW p \in Proc, NEW s \in ProcState, NEW c \in Instance,
           Become(p, s), instance' = c, SessionOK(s), CopyOK(c),
           UNCHANGED <<draft, published, requests, schedules, clock>>,
           jobs' \in SUBSET (Nat \X Nat), made' \in Nat,
           spent' \in [ops : Nat, crashes : Nat]
    PROVE  IInv'
<1>1. TypeOK'
  BY DEF IInv, TypeOK, Become
<1>2. Grows
  BY DEF Grows, Booked, IInv, TypeOK
<1>3. SessionOK(s)' /\ CopyOK(c)'
  BY <1>1, <1>2, SessionStays, CopyStays DEF IInv
<1>5. Booked' = Booked
  BY DEF Booked
<1>6. PublishedWasReviewed'
  BY DEF IInv, PublishedWasReviewed, Reviewed
<1> QED BY <1>1, <1>2, <1>3, <1>5, <1>6, GrowStep DEF IInv

-----------------------------------------------------------------------------
(* Sessions between two steps *)

LEMMA NoInstanceOK == TypeOK => CopyOK(NoInstance)
BY DEF CopyOK, NoInstance, TypeOK

LEMMA IdleOK == TypeOK => SessionOK(Idle)
<1> SUFFICES ASSUME TypeOK
             PROVE  SessionOK(Idle)
  OBVIOUS
<1>1. CopyOK(Idle.copy) /\ CopyOK(Idle.own)
  BY NoInstanceOK DEF Idle
<1>2. PublishOK(Idle) /\ CallOK(Idle) /\ PassOK(Idle) /\ Idle.pc = "idle"
  BY DEF PublishOK, CallOK, PassOK, Idle, TypeOK
<1> QED BY <1>1, <1>2 DEF SessionOK

\* Leaving an operation keeps what the process knows.
LEMMA DoneOK ==
    ASSUME TypeOK, NEW s \in ProcState, SessionOK(s)
    PROVE  SessionOK(Done(s)) /\ SessionOK(Thrown(s))
<1>1. ASSUME NEW pc \in {"reread", "failed"}
      PROVE  SessionOK([s EXCEPT !.pc = pc])
  BY <1>1 DEF SessionOK, PublishOK, CallOK, PassOK, ProcState, Enough
<1>2. ASSUME s.job = None, s.pass
      PROVE  SessionOK([s EXCEPT !.pc = "pass"])
  BY <1>2 DEF SessionOK, PublishOK, CallOK, PassOK, ProcState, Enough
<1> QED BY <1>1, <1>2, IdleOK DEF Done, Thrown

\* So do the checks of an operation on the instance it read or created.
LEMMA CheckedOK ==
    ASSUME TypeOK, NEW s \in ProcState, NEW c \in Instance, SessionOK(s), CopyOK(c),
           s.pc \in {"look", "ensure"}
    PROVE  SessionOK(Checked(s, c))
<1>1. CASE ~Admits(s, c)
  BY <1>1, DoneOK DEF Checked
<1>2. CASE Admits(s, c) /\ s.op = "publish"
  <2> DEFINE t == [s EXCEPT !.copy = c, !.pc = "commit"]
  <2>1. Checked(s, c) = t
    BY <1>2 DEF Checked
  <2>2. t.copy = c /\ t.own = s.own /\ t.pc = "commit" /\ t.op = "publish"
    BY <1>2 DEF ProcState
  <2>3. Reviewed(t.seen)
    <3>1. c.rev = s.seen /\ c.state = "approved"
      BY <1>2 DEF Admits, MayPublish
    <3> QED BY <3>1 DEF CopyOK, Reviewed, ProcState
  <2>4. PublishOK(t) /\ CallOK(t) /\ PassOK(t)
    BY <2>3, <2>2 DEF SessionOK, PublishOK, CallOK, PassOK, ProcState
  <2> HIDE DEF t
  <2> QED BY <2>1, <2>2, <2>4 DEF SessionOK
<1>3. CASE Admits(s, c) /\ s.op # "publish"
  <2> DEFINE t == [s EXCEPT !.copy = c, !.pc = "save"]
  <2>1. Checked(s, c) = t
    BY <1>3 DEF Checked
  <2>2. t.copy = c /\ t.own = s.own /\ t.pc = "save" /\ t.op # "publish"
    BY <1>3 DEF ProcState
  <2>3. SaveOK(t)
    BY <1>3, FlowAssumption DEF SaveOK, Admits, MayTransition, MayDecide, ProcState
  <2>4. PublishOK(t) /\ CallOK(t) /\ PassOK(t)
    BY <2>2 DEF SessionOK, PublishOK, CallOK, PassOK, ProcState
  <2> HIDE DEF t
  <2> QED BY <2>1, <2>2, <2>3, <2>4 DEF SessionOK
<1> QED BY <1>1, <1>2, <1>3

-----------------------------------------------------------------------------
(* Requests *)

LEMMA BeginStep ==
    ASSUME IInv, NEW p \in Proc, NEW call \in Call, Begin(p, call)
    PROVE  IInv'
<1> DEFINE s == [Idle EXCEPT !.pc = "entry", !.op = call.op, !.by = call.by,
                             !.t = call.t, !.want = call.want]
<1>1. /\ call.op \in {"transition", "approve", "reject", "schedule", "cancel", "update",
                      "publish"}
      /\ call.by \in Actor /\ call.t \in Transition \cup {"none"}
      /\ call.want \in Request \cup Schedule \cup Nat \cup {None}
      /\ call.op \in {"transition", "schedule"} => call.t \in Transition
      /\ call.op \in {"approve", "reject"} => call.t = "approve"
      /\ call.op = "publish" => /\ call.t = "publish"
                                /\ call.want \in Nat /\ call.want <= draft
  BY FlowAssumption, OfferedAssumption, Named DEF Call, Asked, Booked, IInv, TypeOK
<1>2. s \in ProcState
  BY ZenonT(30), <1>1, IdleType DEF ProcState, PC
<1>3. SessionOK(s)
  <2>1. SessionOK(Idle)
    BY IdleOK DEF IInv
  <2>2. PublishOK(s) /\ CallOK(s) /\ PassOK(s) /\ s.pc = "entry"
    BY <1>1, <2>1 DEF SessionOK, PublishOK, CallOK, PassOK, Idle
  <2>3. s.copy = Idle.copy /\ s.own = Idle.own
    BY DEF Idle
  <2> HIDE DEF s
  <2> QED BY <2>1, <2>2, <2>3 DEF SessionOK
<1>4. PICK c \in Instance : instance = c
  BY DEF IInv, TypeOK
<1>5. spent' \in [ops : Nat, crashes : Nat]
  BY DEF Begin, IInv, TypeOK
<1>6. Become(p, s) /\ UNCHANGED <<draft, published, instance, requests, schedules, clock,
                                  jobs, made>>
  BY DEF Begin, entry, given
<1> HIDE DEF s
<1> QED BY <1>2, <1>3, <1>4, <1>5, <1>6, QuietStep DEF IInv, TypeOK

LEMMA ReadEntryStep ==
    ASSUME IInv, NEW p \in Proc, ReadEntry(p)
    PROVE  IInv'
<1>1. PICK s \in ProcState : s = proc[p]
  BY DEF IInv, TypeOK
<1>2. SessionOK(s) /\ s.pc = "entry"
  BY <1>1 DEF IInv, ReadEntry, At
<1> DEFINE t == [s EXCEPT !.seen = draft, !.pc = IF s.op = "update" THEN "write" ELSE "look"]
<1>3. draft \in Nat \ {0}
  BY DEF IInv, TypeOK
<1>4. t \in ProcState /\ SessionOK(t)
  <2>1. CASE s.op = "update"
    <3>1. t = [s EXCEPT !.seen = draft, !.pc = "write"]
      BY <2>1
    <3> HIDE DEF t
    <3>2. t \in ProcState
      BY <1>3, <3>1 DEF ProcState, PC
    <3>3. PublishOK(t) /\ CallOK(t) /\ PassOK(t) /\ t.pc = "write"
      BY <1>2, <1>3, <2>1, <3>1 DEF SessionOK, PublishOK, CallOK, PassOK, ProcState
    <3> QED BY <1>2, <3>1, <3>2, <3>3 DEF SessionOK, ProcState
  <2>2. CASE s.op # "update"
    <3>1. t = [s EXCEPT !.seen = draft, !.pc = "look"]
      BY <2>2
    <3> HIDE DEF t
    <3>2. t \in ProcState
      BY <1>3, <3>1 DEF ProcState, PC
    <3>3. PublishOK(t) /\ CallOK(t) /\ PassOK(t) /\ t.pc = "look"
      BY <1>2, <1>3, <2>2, <3>1 DEF SessionOK, PublishOK, CallOK, PassOK, ProcState
    <3> QED BY <1>2, <3>1, <3>2, <3>3 DEF SessionOK, ProcState
  <2> QED BY <2>1, <2>2
<1>5. PICK c \in Instance : instance = c
  BY DEF IInv, TypeOK
<1>6. Become(p, t) /\ UNCHANGED <<draft, published, instance, requests, schedules, clock,
                                  jobs, made, spent>>
  BY <1>1 DEF ReadEntry, entry, given
<1> HIDE DEF t
<1> QED BY <1>4, <1>5, <1>6, QuietStep DEF IInv, TypeOK

\* The record and the instance a process works on
LEMMA Working ==
    ASSUME IInv, NEW p \in Proc
    PROVE  \E s \in ProcState, c \in Instance :
              /\ proc[p] = s /\ SessionOK(s)
              /\ instance = c /\ CopyOK(c)
              /\ s.copy \in Instance /\ s.own \in Instance /\ s.seen \in Nat
              /\ CopyOK(s.copy) /\ CopyOK(s.own)
<1>1. PICK s \in ProcState, c \in Instance : proc[p] = s /\ instance = c
  BY DEF IInv, TypeOK
<1>2. SessionOK(s) /\ CopyOK(c)
  BY <1>1 DEF IInv
<1>3. s.copy \in Instance /\ s.own \in Instance /\ s.seen \in Nat
  BY DEF ProcState
<1> QED BY <1>1, <1>2, <1>3 DEF SessionOK

LEMMA ReadInstanceStep ==
    ASSUME IInv, NEW p \in Proc, ReadInstance(p)
    PROVE  IInv'
<1>1. PICK s \in ProcState, c \in Instance :
          proc[p] = s /\ SessionOK(s) /\ instance = c /\ CopyOK(c)
  BY Working
<1>2. s.pc = "look"
  BY <1>1 DEF ReadInstance, At
<1>3. PICK t \in ProcState : Become(p, t) /\ SessionOK(t)
  <2>1. CASE c.state = "none"
    <3> DEFINE t == [s EXCEPT !.pc = "ensure"]
    <3>1. t \in ProcState
      BY DEF ProcState, PC
    <3>2. SessionOK(t)
      BY <1>1, <1>2 DEF SessionOK, PublishOK, CallOK, PassOK, ProcState
    <3>3. Become(p, t)
      BY <1>1, <2>1 DEF ReadInstance
    <3> HIDE DEF t
    <3> QED BY <3>1, <3>2, <3>3
  <2>2. CASE c.state # "none"
    <3>1. Checked(s, c) \in ProcState /\ SessionOK(Checked(s, c))
      BY <1>1, <1>2, CheckedType, CheckedOK DEF IInv
    <3>2. Become(p, Checked(s, c))
      BY <1>1, <2>2 DEF ReadInstance
    <3> QED BY <3>1, <3>2
  <2> QED BY <2>1, <2>2
<1>4. UNCHANGED <<draft, published, instance, requests, schedules, clock, jobs, made, spent>>
  BY DEF ReadInstance, entry, given
<1> QED BY <1>1, <1>3, <1>4, QuietStep DEF IInv, TypeOK

LEMMA EnsureInstanceStep ==
    ASSUME IInv, NEW p \in Proc, EnsureInstance(p)
    PROVE  IInv'
<1>1. PICK s \in ProcState, c \in Instance :
          proc[p] = s /\ SessionOK(s) /\ instance = c /\ s.seen \in Nat
  BY Working
<1>2. s.pc = "ensure"
  BY <1>1 DEF EnsureInstance, At
<1> DEFINE d == FirstInstance(s.seen)
<1>3. d \in Instance
  BY <1>1, FirstInstances
<1>4. CopyOK(d)
  BY <1>1 DEF CopyOK, FirstInstance, NoInstance, SessionOK, CallOK
<1>5. Become(p, Checked(s, d)) /\ instance' = d
         /\ UNCHANGED <<draft, published, requests, schedules, clock, jobs, made, spent>>
  BY <1>1 DEF EnsureInstance, entry, given
<1> HIDE DEF d
<1>6. Checked(s, d) \in ProcState /\ SessionOK(Checked(s, d))
  BY <1>1, <1>2, <1>3, <1>4, CheckedType, CheckedOK DEF IInv
<1> QED BY <1>3, <1>4, <1>5, <1>6, QuietStep DEF IInv, TypeOK

\* A copy after one of the three ways to complete a transition
LEMMA MovedOK ==
    ASSUME TypeOK, NEW c \in Instance, CopyOK(c), NEW t \in Transition, NEW e \in Nat,
           \/ From[t] = c.state /\ To[t] # "published" /\ t # "approve"
           \/ t = "publish" /\ c.state = "approved" /\ published # 0
           \/ t = "approve" /\ c.request # None /\ Enough(c)
    PROVE  CopyOK(Moved(c, t, e))
<1>1. PICK m : /\ m = Moved(c, t, e)
               /\ m.state = To[t] /\ m.rev = c.rev /\ m.request = None
  <2>1. NoPending(c).rev = c.rev /\ NoPending(c).request = None /\ NoPending(c) \in Instance
    BY InstanceTypes DEF NoPending, Instance
  <2>2. PICK h : Moved(c, t, e) = [NoPending(c) EXCEPT !.state = To[t], !.hist = h]
    BY DEF Moved
  <2> QED BY <2>1, <2>2 DEF Instance
<1> SUFFICES CopyOK(m)
  BY <1>1 DEF CopyOK, Reviewed
<1>2. CASE From[t] = c.state /\ To[t] # "published" /\ t # "approve"
  <2>1. m.state \in {"approved", "published", "archived"} => c.state = "published"
    BY <1>1, <1>2, Transitions
  <2> QED BY <1>1, <2>1 DEF CopyOK
<1>3. CASE t = "publish" /\ c.state = "approved" /\ published # 0
  <2> QED BY <1>1, <1>3 DEF CopyOK
<1>4. CASE t = "approve" /\ c.request # None /\ Enough(c)
  <2>1. To[t] = "approved"
    BY <1>4 DEF To
  <2> DEFINE B == requests[c.request].yes \ {requests[c.request].by}
  <2>2. c.request \in Request /\ requests[c.request].rev = c.rev /\ c.rev # 0
           /\ c.yes \subseteq B
    BY <1>4 DEF CopyOK, Instance
  <2>3. IsFiniteSet(B)
    <3>1. B \subseteq Actor
      BY <2>2 DEF TypeOK
    <3> QED BY <3>1, FlowAssumption, FS_Subset
  <2>4. Cardinality(c.yes) <= Cardinality(B) /\ Cardinality(c.yes) \in Nat
           /\ Cardinality(B) \in Nat
    BY <2>2, <2>3, FS_Subset, FS_CardinalityType
  <2>5. Cardinality(B) >= MinApprovals
    <3>1. Cardinality(c.yes) >= MinApprovals
      BY <1>4 DEF Enough
    <3> HIDE DEF B
    <3> QED BY <3>1, <2>4, FlowAssumption
  <2>6. Reviewed(c.rev)
    BY <2>2, <2>5 DEF Reviewed
  <2> QED BY <1>1, <2>1, <2>2, <2>6 DEF CopyOK
<1> QED BY <1>2, <1>3, <1>4

LEMMA CompleteTransitionStep ==
    ASSUME IInv, NEW p \in Proc, CompleteTransition(p)
    PROVE  IInv'
<1>1. PICK s \in ProcState :
          proc[p] = s /\ SessionOK(s) /\ s.copy \in Instance /\ CopyOK(s.copy)
  BY Working
<1>2. /\ \/ s.pc = "save" /\ s.op = "transition" /\ s.t # "approve"
         \/ s.pc = "save" /\ s.op = "published"
         \/ s.pc = "complete"
      /\ SessionOK(s)
  BY <1>1 DEF CompleteTransition, At
<1>3. s.t \in Transition /\ s.op \in {"transition", "approve", "published"}
  BY <1>2, Named DEF SessionOK, PublishOK, CallOK
<1>4. made + 1 \in Nat /\ made' \in Nat
  BY DEF CompleteTransition, IInv, TypeOK
<1> DEFINE m == Moved(s.copy, s.t, made + 1)
           t == [s EXCEPT !.copy = m, !.event = made', !.pc = "enqueue"]
<1>5. m \in Instance /\ CopyOK(m)
  <2>1. \/ From[s.t] = s.copy.state /\ To[s.t] # "published" /\ s.t # "approve"
        \/ s.t = "publish" /\ s.copy.state = "approved" /\ published # 0
        \/ s.t = "approve" /\ s.copy.request # None /\ Enough(s.copy)
    BY <1>2 DEF SessionOK, SaveOK, PublishOK, CallOK
  <2> QED BY <2>1, <1>1, <1>3, <1>4, MovedOK, InstanceTypes DEF IInv
<1>6. Become(p, t) /\ instance' = m
         /\ UNCHANGED <<draft, published, requests, schedules, clock, jobs, spent>>
  BY <1>1 DEF CompleteTransition, entry, given
<1> HIDE DEF m
<1>7. t \in ProcState
  BY <1>4, <1>5 DEF ProcState, PC
<1>8. SessionOK(t)
  <2>1. t.copy = m /\ t.own = s.own /\ t.pc = "enqueue"
    BY DEF ProcState
  <2>2. PublishOK(t) /\ CallOK(t) /\ PassOK(t)
    BY <1>2, <1>3 DEF SessionOK, PublishOK, CallOK, PassOK, ProcState
  <2> HIDE DEF t
  <2> QED BY <1>1, <1>5, <2>1, <2>2 DEF SessionOK
<1> HIDE DEF t
<1> QED BY <1>4, <1>5, <1>6, <1>7, <1>8, QuietStep DEF IInv, TypeOK

LEMMA EnqueueActionsStep ==
    ASSUME IInv, NEW p \in Proc, EnqueueActions(p)
    PROVE  IInv'
<1>1. PICK s \in ProcState, c \in Instance :
          proc[p] = s /\ SessionOK(s) /\ instance = c /\ CopyOK(c)
  BY Working
<1>2. s.pc = "enqueue"
  BY <1>1 DEF EnqueueActions, At
<1> DEFINE t == [s EXCEPT !.pc = "notify", !.op = "completed"]
<1>3. t \in ProcState
  BY DEF ProcState, PC
<1>4. SessionOK(t)
  BY <1>1, <1>2 DEF SessionOK, PublishOK, CallOK, PassOK, ProcState
<1>5. Become(p, t) /\ UNCHANGED <<draft, published, instance, requests, schedules, clock,
                                  made, spent>>
  BY <1>1 DEF EnqueueActions, entry, given
<1>6. jobs' \in SUBSET (Nat \X Nat)
  BY <1>1 DEF EnqueueActions, IInv, TypeOK, ProcState, Instance
<1> HIDE DEF t
<1> QED BY <1>1, <1>3, <1>4, <1>5, <1>6, QuietStep DEF IInv, TypeOK

LEMMA NotifyStep ==
    ASSUME IInv, NEW p \in Proc, Notify(p)
    PROVE  IInv'
<1>1. PICK s \in ProcState :
          proc[p] = s /\ SessionOK(s) /\ s.copy \in Instance /\ CopyOK(s.copy)
  BY Working
<1>2. s.pc = "notify"
  BY <1>1 DEF Notify, At
<1>3. instance' = s.copy
         /\ UNCHANGED <<draft, published, requests, schedules, clock, jobs, made, spent>>
  BY <1>1 DEF Notify, entry, given
<1>4. PICK t \in ProcState : Become(p, t) /\ SessionOK(t)
  <2>1. CASE s.op = "approve" /\ Enough(s.copy)
    <3> DEFINE t == [s EXCEPT !.pc = "complete"]
    <3>1. t \in ProcState
      BY DEF ProcState, PC
    <3>2. SessionOK(t)
      BY <1>1, <1>2, <2>1 DEF SessionOK, PublishOK, CallOK, PassOK, ProcState, Enough
    <3>3. Become(p, t)
      BY <1>1, <2>1 DEF Notify
    <3> HIDE DEF t
    <3> QED BY <3>1, <3>2, <3>3
  <2>2. CASE ~(s.op = "approve" /\ Enough(s.copy))
    <3>1. Done(s) \in ProcState /\ SessionOK(Done(s))
      BY <1>1, DoneTypes, DoneOK DEF IInv
    <3>2. Become(p, Done(s))
      BY <1>1, <2>2 DEF Notify
    <3> QED BY <3>1, <3>2
  <2> QED BY <2>1, <2>2
<1> QED BY <1>1, <1>3, <1>4, QuietStep DEF IInv, TypeOK

LEMMA CancelScheduleStep ==
    ASSUME IInv, NEW p \in Proc, CancelSchedule(p)
    PROVE  IInv'
<1>1. PICK s \in ProcState :
          proc[p] = s /\ SessionOK(s) /\ s.copy \in Instance /\ CopyOK(s.copy)
  BY Working
<1>2. s.pc = "save" /\ s.op = "cancel"
  BY <1>1 DEF CancelSchedule, At
<1> DEFINE d == [s.copy EXCEPT !.sched[s.want] = "cancelled"]
           t == [s EXCEPT !.copy = d, !.pc = "notify"]
<1>3. d \in Instance
  BY <1>1, InstanceTypes
<1>4. CopyOK(d)
  BY <1>1 DEF CopyOK, Instance, Reviewed
<1>5. Become(p, t) /\ instance' = d
         /\ UNCHANGED <<draft, published, requests, schedules, clock, jobs, made, spent>>
  BY <1>1 DEF CancelSchedule, Save, entry, given
<1> HIDE DEF d
<1>6. t \in ProcState
  BY <1>3 DEF ProcState, PC
<1>7. SessionOK(t)
  <2>1. t.copy = d /\ t.own = s.own /\ t.pc = "notify"
    BY DEF ProcState
  <2>2. PublishOK(t) /\ CallOK(t) /\ PassOK(t)
    BY <1>2, <1>1 DEF SessionOK, PublishOK, CallOK, PassOK, ProcState
  <2> HIDE DEF t
  <2> QED BY <1>1, <1>4, <2>1, <2>2 DEF SessionOK
<1> HIDE DEF t
<1> QED BY <1>3, <1>4, <1>5, <1>6, <1>7, QuietStep DEF IInv, TypeOK

LEMMA DraftUpdatedStep ==
    ASSUME IInv, NEW p \in Proc, DraftUpdated(p)
    PROVE  IInv'
<1>1. PICK s \in ProcState :
          /\ proc[p] = s /\ SessionOK(s) /\ s.copy \in Instance /\ s.seen \in Nat
          /\ CopyOK(s.copy)
  BY Working
<1>2. PICK d : d = ForRevision(s.copy, s.seen)
  OBVIOUS
<1>3. d \in Instance
  BY <1>1, <1>2, InstanceTypes
<1>4. CopyOK(d)
  <2>1. d.rev = s.seen /\ d.state = "draft" /\ d.request = None
    BY <1>1, <1>2 DEF ForRevision, NoPending, Instance
  <2> QED BY <1>1, <2>1 DEF CopyOK, SessionOK, CallOK
<1>5. Become(p, Idle) /\ instance' = d
         /\ UNCHANGED <<draft, published, requests, schedules, clock, jobs, made, spent>>
  BY <1>1, <1>2 DEF DraftUpdated, entry, given
<1>6. SessionOK(Idle)
  BY IdleOK DEF IInv
<1> QED BY <1>3, <1>4, <1>5, <1>6, IdleType, QuietStep DEF IInv, TypeOK

LEMMA RefusePublishStep ==
    ASSUME IInv, NEW p \in Proc, RefusePublish(p)
    PROVE  IInv'
<1>1. PICK s \in ProcState, c \in Instance :
          proc[p] = s /\ SessionOK(s) /\ instance = c /\ CopyOK(c)
  BY Working
<1>2. Thrown(s) \in ProcState /\ SessionOK(Thrown(s))
  BY <1>1, DoneTypes, DoneOK DEF IInv
<1>3. Become(p, Thrown(s)) /\ UNCHANGED <<draft, published, instance, requests, schedules,
                                          clock, jobs, made, spent>>
  BY <1>1 DEF RefusePublish, entry, given
<1> QED BY <1>1, <1>2, <1>3, QuietStep DEF IInv, TypeOK

-----------------------------------------------------------------------------
(* Passes *)

LEMMA BeginPassStep ==
    ASSUME IInv, NEW p \in Proc, BeginPass(p)
    PROVE  IInv'
<1>1. PICK c \in Instance : instance = c /\ CopyOK(c)
  BY Working
<1> DEFINE t == [Idle EXCEPT !.pc = "list", !.pass = TRUE]
<1>2. t \in ProcState
  BY IdleType DEF ProcState, PC
<1>3. SessionOK(t)
  <2>1. SessionOK(Idle)
    BY IdleOK DEF IInv
  <2>2. t.copy = Idle.copy /\ t.own = Idle.own /\ t.pc = "list"
    BY DEF Idle
  <2>3. PublishOK(t) /\ CallOK(t) /\ PassOK(t)
    BY <2>1 DEF SessionOK, PublishOK, CallOK, PassOK, Idle
  <2> HIDE DEF t
  <2> QED BY <2>1, <2>2, <2>3 DEF SessionOK
<1>4. Become(p, t) /\ UNCHANGED <<draft, published, instance, requests, schedules, clock,
                                  made>>
  BY DEF BeginPass, entry, given
<1>5. jobs' \in SUBSET (Nat \X Nat) /\ spent' \in [ops : Nat, crashes : Nat]
  BY <1>1 DEF BeginPass, Reconciled, IInv, TypeOK, Instance
<1> HIDE DEF t
<1> QED BY <1>1, <1>2, <1>3, <1>4, <1>5, QuietStep DEF IInv, TypeOK

LEMMA WorkOffOK ==
    ASSUME TypeOK, NEW s \in ProcState, SessionOK(s), s.pass, s.job = None,
           NEW c \in Instance, CopyOK(c)
    PROVE  WorkOff(s, c) \in ProcState /\ SessionOK(WorkOff(s, c))
<1> DEFINE todo == {i \in s.todo : c.sched[i] = "pending"}
           t == [s EXCEPT !.own = c, !.pc = "pass", !.todo = todo]
<1>1. WorkOff(s, c) = t
  BY DEF WorkOff
<1>2. todo \subseteq s.todo /\ todo \in SUBSET Schedule /\ "pass" \in PC
  BY DEF ProcState, PC
<1> HIDE DEF todo
<1>3. t \in ProcState
  BY ZenonT(30), <1>2 DEF ProcState
<1>4. t.copy = s.copy /\ t.own = c /\ t.pc = "pass"
  BY DEF ProcState
<1>5. PublishOK(t) /\ CallOK(t) /\ PassOK(t)
  BY <1>2 DEF SessionOK, PublishOK, CallOK, PassOK, ProcState
<1> HIDE DEF t
<1>6. SessionOK(t)
  BY <1>4, <1>5 DEF SessionOK
<1> QED BY <1>1, <1>3, <1>6

LEMMA ListInstancesStep ==
    ASSUME IInv, NEW p \in Proc, ListInstances(p)
    PROVE  IInv'
<1>1. PICK s \in ProcState, c \in Instance :
          proc[p] = s /\ SessionOK(s) /\ instance = c /\ CopyOK(c)
  BY Working
<1>2. s.pc = "list" /\ s.pass /\ s.job = None /\ s.op \in {"none", "outcome"}
  BY <1>1 DEF ListInstances, At, SessionOK, PassOK
<1>3. PICK u \in ProcState : /\ u = [s EXCEPT !.copy = c, !.todo = clock.ripe]
                             /\ SessionOK(u) /\ u.pass /\ u.job = None
                             /\ u.op \in {"none", "outcome"}
  <2> DEFINE u == [s EXCEPT !.copy = c, !.todo = clock.ripe]
  <2>1. u \in ProcState
    BY DEF ProcState, IInv, TypeOK
  <2>2. u.copy = c /\ u.own = s.own /\ u.pc = "list" /\ u.pass /\ u.job = None
           /\ u.op \in {"none", "outcome"}
    BY <1>2 DEF ProcState
  <2>3. PublishOK(u) /\ CallOK(u) /\ PassOK(u)
    BY <1>1, <1>2 DEF SessionOK, PublishOK, CallOK, PassOK, ProcState, IInv
  <2> HIDE DEF u
  <2>4. SessionOK(u)
    BY <1>1, <2>2, <2>3 DEF SessionOK
  <2> QED BY <2>1, <2>2, <2>4 DEF u
<1>4. PICK t \in ProcState : Become(p, t) /\ SessionOK(t)
  <2>1. CASE c.state = "none"
    <3>1. SessionOK(Idle) /\ Become(p, Idle)
      BY <1>1, <2>1, IdleOK DEF IInv, ListInstances
    <3> QED BY <3>1, IdleType
  <2>2. CASE c.state # "none" /\ Overdue(c)
    <3> DEFINE t == [u EXCEPT !.pc = "escalate"]
    <3>1. t \in ProcState
      BY DEF ProcState, PC
    <3>2. SessionOK(t)
      BY <1>3 DEF SessionOK, PublishOK, CallOK, PassOK, ProcState
    <3>3. Become(p, t)
      BY <1>1, <1>3, <2>2 DEF ListInstances
    <3> HIDE DEF t
    <3> QED BY <3>1, <3>2, <3>3
  <2>3. CASE c.state # "none" /\ ~Overdue(c)
    <3>1. Become(p, WorkOff(u, c))
      BY <1>1, <1>3, <2>3 DEF ListInstances
    <3> QED BY <3>1, <1>1, <1>3, WorkOffOK DEF IInv
  <2> QED BY <2>1, <2>2, <2>3
<1>5. UNCHANGED <<draft, published, instance, requests, schedules, clock, jobs, made, spent>>
  BY DEF ListInstances, entry, given
<1> QED BY <1>1, <1>4, <1>5, QuietStep DEF IInv, TypeOK

LEMMA EscalateStep ==
    ASSUME IInv, NEW p \in Proc, Escalate(p)
    PROVE  IInv'
<1>1. PICK s \in ProcState :
          proc[p] = s /\ SessionOK(s) /\ s.copy \in Instance /\ CopyOK(s.copy)
  BY Working
<1>2. s.pc = "escalate"
  BY <1>1 DEF Escalate, At
<1> DEFINE d == [s.copy EXCEPT !.late = TRUE]
           t == [s EXCEPT !.copy = d, !.pc = "escalated"]
<1>3. d \in Instance
  BY <1>1, InstanceTypes
<1>4. CopyOK(d)
  BY <1>1 DEF CopyOK, Instance, Reviewed
<1>5. Become(p, t) /\ instance' = d
         /\ UNCHANGED <<draft, published, requests, schedules, clock, jobs, made, spent>>
  BY <1>1 DEF Escalate, Save, entry, given
<1> HIDE DEF d
<1>6. t \in ProcState
  BY <1>3 DEF ProcState, PC
<1>7. SessionOK(t)
  <2>1. t.copy = d /\ t.own = s.own /\ t.pc = "escalated"
    BY DEF ProcState
  <2>2. PublishOK(t) /\ CallOK(t) /\ PassOK(t)
    BY <1>2, <1>1 DEF SessionOK, PublishOK, CallOK, PassOK, ProcState
  <2> HIDE DEF t
  <2> QED BY <1>1, <1>4, <2>1, <2>2 DEF SessionOK
<1> HIDE DEF t
<1> QED BY <1>3, <1>4, <1>5, <1>6, <1>7, QuietStep DEF IInv, TypeOK

LEMMA NotifyEscalatedStep ==
    ASSUME IInv, NEW p \in Proc, NotifyEscalated(p)
    PROVE  IInv'
<1>1. PICK s \in ProcState :
          proc[p] = s /\ SessionOK(s) /\ s.copy \in Instance /\ CopyOK(s.copy)
  BY Working
<1>2. s.pass /\ s.job = None
  BY <1>1 DEF NotifyEscalated, At, SessionOK, PassOK
<1>3. WorkOff(s, s.copy) \in ProcState /\ SessionOK(WorkOff(s, s.copy))
  BY <1>1, <1>2, WorkOffOK DEF IInv
<1>4. Become(p, WorkOff(s, s.copy)) /\ instance' = s.copy
         /\ UNCHANGED <<draft, published, requests, schedules, clock, jobs, made, spent>>
  BY <1>1 DEF NotifyEscalated, entry, given
<1> QED BY <1>1, <1>3, <1>4, QuietStep DEF IInv, TypeOK

\* The operation a schedule stands for is begun with the revision it was made
\* for, or refused.
LEMMA ExecutesOK ==
    ASSUME IInv, NEW s \in ProcState, SessionOK(s), s.pc = "pass", NEW i \in s.todo
    PROVE  Executes(s, i) \in ProcState /\ SessionOK(Executes(s, i))
<1>1. i \in Schedule /\ i \in Booked /\ s.pass /\ s.job = None
  BY DEF SessionOK, PassOK, ProcState
<1>2. PICK rev \in Nat, act \in Transition, by \in Actor \cup {None} :
          schedules[i].rev = rev /\ schedules[i].t = act /\ schedules[i].by = by
          /\ rev <= draft
  BY <1>1 DEF IInv, TypeOK
<1>3. PICK todo \in SUBSET Schedule : todo = s.todo \ {i}
  BY DEF ProcState
<1> DEFINE next == [s EXCEPT !.todo = todo, !.job = i, !.by = by, !.t = act]
<1>4. next \in ProcState
  <2>1. [s EXCEPT !.todo = todo, !.job = i] \in ProcState
    BY ZenonT(30), <1>1 DEF ProcState
  <2>2. next = [[s EXCEPT !.todo = todo, !.job = i] EXCEPT !.by = by, !.t = act]
    BY DEF ProcState
  <2> QED BY <2>1, <2>2 DEF ProcState
<1>5. next.pc = "pass" /\ next.job = i /\ i # None
  BY <1>1, FlowAssumption DEF ProcState
<1>6. CASE From[act] # s.own.state
  <2> DEFINE t == [next EXCEPT !.pc = "failed"]
  <2>1. Executes(s, i) = t
    BY <1>2, <1>3, <1>5, <1>6 DEF Executes, Thrown
  <2>2. t \in ProcState
    BY <1>4, DoneTypes, <1>5 DEF Thrown
  <2>3. t.copy = s.copy /\ t.own = s.own /\ t.pc = "failed" /\ t.op = s.op
           /\ t.todo = todo /\ t.seen = s.seen /\ t.job = i /\ t.t = act
    BY DEF ProcState
  <2>4. s.op \in {"none", "outcome"}
    BY <1>1 DEF SessionOK, PassOK
  <2> HIDE DEF t, next
  <2>5. PublishOK(t) /\ CallOK(t) /\ PassOK(t)
    BY <1>3, <1>5, <2>3, <2>4 DEF SessionOK, PublishOK, CallOK, PassOK
  <2> QED BY <2>1, <2>2, <2>3, <2>5 DEF SessionOK
<1>7. ASSUME From[act] = s.own.state,
             NEW op \in {"publish", "transition"}, act = "publish" <=> op = "publish"
      PROVE  Executes(s, i) \in ProcState /\ SessionOK(Executes(s, i))
  <2> DEFINE t == [next EXCEPT !.pc = "entry", !.want = rev, !.op = op]
  <2>1. Executes(s, i) = t
    BY <1>2, <1>3, <1>7 DEF Executes
  <2>2. "entry" \in PC
    BY DEF PC
  <2>3. t \in ProcState
    <3> HIDE DEF next
    <3> QED BY <1>4, <2>2 DEF ProcState
  <2>4. t.copy = s.copy /\ t.own = s.own /\ t.pc = "entry" /\ t.op = op
           /\ t.todo = todo /\ t.seen = s.seen /\ t.job = i /\ t.t = act
           /\ t.want = rev
    BY DEF ProcState
  <2> HIDE DEF t, next
  <2>5. PublishOK(t) /\ CallOK(t) /\ PassOK(t)
    BY <1>2, <1>3, <1>5, <1>7, <2>4 DEF SessionOK, PublishOK, CallOK, PassOK
  <2> QED BY <2>1, <2>3, <2>4, <2>5 DEF SessionOK
<1>8. CASE From[act] = s.own.state /\ act = "publish"
  BY <1>7, <1>8
<1>9. CASE From[act] = s.own.state /\ act # "publish"
  BY <1>7, <1>9
<1> QED BY <1>6, <1>8, <1>9

LEMMA ExecuteScheduleStep ==
    ASSUME IInv, NEW p \in Proc, ExecuteSchedule(p)
    PROVE  IInv'
<1>1. PICK s \in ProcState, c \in Instance :
          proc[p] = s /\ SessionOK(s) /\ instance = c /\ CopyOK(c)
  BY Working
<1>2. PICK i \in s.todo : Become(p, Executes(s, i))
  BY <1>1 DEF ExecuteSchedule
<1>3. Executes(s, i) \in ProcState /\ SessionOK(Executes(s, i))
  BY <1>1, ExecutesOK DEF ExecuteSchedule, At
<1>4. UNCHANGED <<draft, published, instance, requests, schedules, clock, jobs, made, spent>>
  BY DEF ExecuteSchedule, entry, given
<1> QED BY <1>1, <1>2, <1>3, <1>4, QuietStep DEF IInv, TypeOK

LEMMA RereadStep ==
    ASSUME IInv, NEW p \in Proc, Reread(p)
    PROVE  IInv'
<1>1. PICK s \in ProcState, c \in Instance :
          proc[p] = s /\ SessionOK(s) /\ instance = c /\ CopyOK(c)
  BY Working
<1> DEFINE t == [s EXCEPT !.own = c, !.pc = "executed"]
<1>2. t \in ProcState
  BY DEF ProcState, PC
<1>3. SessionOK(t)
  <2>1. t.copy = s.copy /\ t.own = c /\ t.pc = "executed"
    BY DEF ProcState
  <2>2. PublishOK(t) /\ CallOK(t) /\ PassOK(t)
    BY <1>1 DEF SessionOK, PublishOK, CallOK, PassOK, ProcState
  <2> HIDE DEF t
  <2> QED BY <1>1, <2>1, <2>2 DEF SessionOK
<1>4. Become(p, t) /\ UNCHANGED <<draft, published, instance, requests, schedules, clock,
                                  jobs, made, spent>>
  BY <1>1 DEF Reread, entry, given
<1> HIDE DEF t
<1> QED BY <1>1, <1>2, <1>3, <1>4, QuietStep DEF IInv, TypeOK

LEMMA SaveOutcomeStep ==
    ASSUME IInv, NEW p \in Proc, SaveOutcome(p)
    PROVE  IInv'
<1>1. PICK s \in ProcState :
          proc[p] = s /\ SessionOK(s) /\ s.own \in Instance /\ CopyOK(s.own)
  BY Working
<1>2. s.pc \in {"executed", "failed"}
  BY <1>1 DEF SaveOutcome
<1>3. PICK d \in Instance : /\ d = [s.own EXCEPT !.sched[s.job] =
                                       IF s.pc = "executed" THEN "executed" ELSE AfterFailure]
                            /\ CopyOK(d)
  <2>1. PICK x \in {"pending", "executed", "cancelled", "failed"} :
           x = IF s.pc = "executed" THEN "executed" ELSE AfterFailure
    BY DEF AfterFailure
  <2> DEFINE d == [s.own EXCEPT !.sched[s.job] = x]
  <2>2. d \in Instance
    BY <1>1, InstanceTypes
  <2>3. CopyOK(d)
    BY <1>1 DEF CopyOK, Instance, Reviewed
  <2> QED BY <2>1, <2>2, <2>3
<1> DEFINE t == [s EXCEPT !.own = d, !.copy = d, !.job = None, !.op = "outcome",
                          !.pc = "notify"]
<1>4. Become(p, t) /\ instance' = d
         /\ UNCHANGED <<draft, published, requests, schedules, clock, jobs, made, spent>>
  BY <1>1, <1>3 DEF SaveOutcome, entry, given
<1>5. t \in ProcState
  BY DEF ProcState, PC
<1>6. SessionOK(t)
  <2>1. t.copy = d /\ t.own = d /\ t.pc = "notify"
    BY DEF ProcState
  <2>2. PublishOK(t) /\ CallOK(t) /\ PassOK(t)
    BY <1>1 DEF SessionOK, PublishOK, CallOK, PassOK, ProcState
  <2> HIDE DEF t
  <2> QED BY <1>3, <2>1, <2>2 DEF SessionOK
<1> HIDE DEF t
<1> QED BY <1>3, <1>4, <1>5, <1>6, QuietStep DEF IInv, TypeOK

LEMMA LeaveStep ==
    ASSUME IInv, NEW p \in Proc, EndPass(p) \/ Crash(p)
    PROVE  IInv'
<1>1. PICK c \in Instance : instance = c /\ CopyOK(c)
  BY Working
<1>2. Become(p, Idle) /\ UNCHANGED <<draft, published, instance, requests, schedules, clock,
                                     jobs, made>>
  BY DEF EndPass, Crash, entry, given
<1>3. spent' \in [ops : Nat, crashes : Nat]
  BY DEF EndPass, Crash, IInv, TypeOK
<1>4. SessionOK(Idle)
  BY IdleOK DEF IInv
<1> QED BY <1>1, <1>2, <1>3, <1>4, IdleType, QuietStep DEF IInv, TypeOK

-----------------------------------------------------------------------------
(* Steps that add a fact *)

\* A session after such a step, when it does not save next
LEMMA SessionFrom ==
    ASSUME NEW t, NEW d, NEW o, t.copy = d, t.own = o, CopyOK(d)', CopyOK(o)',
           t.pc # "save", PublishOK(t)', CallOK(t)', PassOK(t)'
    PROVE  SessionOK(t)'
BY DEF SessionOK, CopyOK, Reviewed

LEMMA PublishedStays ==
    ASSUME IInv, TypeOK', Grows, published' = published
    PROVE  PublishedWasReviewed'
<1>1. PICK r \in Nat : published = r
  BY DEF IInv, TypeOK
<1>2. r # 0 => Reviewed(r)'
  <2>1. r # 0 => Reviewed(r)
    BY <1>1 DEF IInv, PublishedWasReviewed, Reviewed
  <2> QED BY <2>1, ReviewStays DEF IInv
<1> QED BY <1>1, <1>2 DEF PublishedWasReviewed, Reviewed

\* A step that adds a revision or something to a request
LEMMA AddStep ==
    ASSUME IInv, TypeOK', Grows, NEW p \in Proc, NEW s \in ProcState, Become(p, s),
           SessionOK(s)', NEW c \in Instance, instance' = c, CopyOK(c)',
           UNCHANGED <<published, schedules, clock>>
    PROVE  IInv'
<1>1. Booked' = Booked
  BY DEF Booked
<1>2. \A i \in Booked' : schedules'[i].t \in Transition /\ schedules'[i].rev <= draft'
  BY <1>1 DEF IInv, TypeOK, Grows, Booked
<1> QED BY <1>1, <1>2, PublishedStays, GrowStep DEF IInv

LEMMA WriteDraftStep ==
    ASSUME IInv, NEW p \in Proc, WriteDraft(p)
    PROVE  IInv'
<1>1. PICK s \in ProcState, c \in Instance :
          /\ proc[p] = s /\ SessionOK(s) /\ instance = c /\ CopyOK(c)
          /\ s.copy \in Instance /\ s.own \in Instance
          /\ CopyOK(s.copy) /\ CopyOK(s.own)
  BY Working
<1>2. CASE draft # s.want
  <2>1. SessionOK(Idle)
    BY IdleOK DEF IInv
  <2>2. Become(p, Idle) /\ UNCHANGED <<draft, published, instance, requests, schedules,
                                      clock, jobs, made, spent>>
    BY <1>1, <1>2 DEF WriteDraft, given
  <2> QED BY <1>1, <2>1, <2>2, IdleType, QuietStep DEF IInv, TypeOK
<1>3. CASE draft = s.want
  <2>1. PICK r \in Nat : r = draft
    BY DEF IInv, TypeOK
  <2> DEFINE t == [s EXCEPT !.seen = r + 1, !.pc = "look"]
  <2>2. /\ Become(p, t) /\ draft' = r + 1
        /\ UNCHANGED <<published, instance, requests, schedules, clock, jobs, made, spent>>
    BY <1>1, <1>3, <2>1 DEF WriteDraft, given
  <2>3. t \in ProcState
    <3>1. "look" \in PC /\ r + 1 \in Nat
      BY DEF PC
    <3> QED BY <3>1 DEF ProcState
  <2>4. t.copy = s.copy /\ t.own = s.own /\ t.pc = "look" /\ t.seen = r + 1
           /\ t.op = s.op /\ t.t = s.t /\ t.want = s.want /\ t.todo = s.todo
           /\ t.pass = s.pass /\ t.job = s.job
    BY DEF ProcState
  <2> HIDE DEF t
  <2>5. TypeOK'
    BY <2>1, <2>2, <2>3 DEF IInv, TypeOK, Become
  <2>6. Grows
    BY <2>1, <2>2 DEF Grows, Booked, IInv, TypeOK
  <2>7. CopyOK(s.copy)' /\ CopyOK(s.own)' /\ CopyOK(c)'
    BY <1>1, <2>5, <2>6, CopyStays DEF IInv
  <2>8. PublishOK(t)' /\ CallOK(t)' /\ PassOK(t)'
    BY <1>1, <1>3, <2>1, <2>2, <2>4 DEF SessionOK, PublishOK, CallOK, PassOK, Booked
  <2>9. SessionOK(t)'
    BY <2>4, <2>7, <2>8, SessionFrom
  <2> QED BY <1>1, <2>2, <2>3, <2>5, <2>6, <2>7, <2>9, AddStep
<1> QED BY <1>2, <1>3

LEMMA RequestApprovalStep ==
    ASSUME IInv, NEW p \in Proc, RequestApproval(p)
    PROVE  IInv'
<1>1. PICK s \in ProcState :
          /\ proc[p] = s /\ SessionOK(s) /\ s.copy \in Instance /\ s.own \in Instance
          /\ CopyOK(s.copy) /\ CopyOK(s.own)
  BY Working
<1>2. s.pc = "save" /\ s.op = "transition" /\ s.t = "approve"
  BY <1>1 DEF RequestApproval, At
<1>3. PICK q \in Request :
          /\ requests[q].rev = 0
          /\ requests' = [requests EXCEPT ![q].rev = s.copy.rev, ![q].by = s.by]
          /\ Save(p, [s.copy EXCEPT !.request = q, !.yes = {}, !.late = FALSE], "notify")
  BY <1>1 DEF RequestApproval
<1> DEFINE d == [s.copy EXCEPT !.request = q, !.yes = {}, !.late = FALSE]
           t == [s EXCEPT !.copy = d, !.pc = "notify"]
<1>4. UNCHANGED <<draft, published, schedules, clock, jobs, made, spent>>
         /\ Become(p, t) /\ instance' = d
  BY <1>1, <1>3 DEF RequestApproval, Save, entry
<1>5. s.copy.rev \in Nat /\ s.copy.rev # 0 /\ s.by \in Actor \cup {None}
  BY <1>1, <1>2 DEF SessionOK, SaveOK, CallOK, ProcState, Instance
<1>6. d \in Instance
  BY <1>1, InstanceTypes
<1>7. d.rev = s.copy.rev /\ d.state = s.copy.state /\ d.request = q /\ d.yes = {}
  BY <1>1 DEF Instance
<1> HIDE DEF d
<1>8. t \in ProcState
  BY <1>6 DEF ProcState, PC
<1>9. t.copy = d /\ t.own = s.own /\ t.pc = "notify" /\ t.seen = s.seen
         /\ t.op = s.op /\ t.t = s.t /\ t.todo = s.todo
         /\ t.pass = s.pass /\ t.job = s.job
  BY DEF ProcState
<1> HIDE DEF t
<1>10. requests' \in [Request -> [rev : Nat, by : Actor \cup {None}, yes : SUBSET Actor]]
  <2>1. PICK x : x = [requests[q] EXCEPT !.rev = s.copy.rev, !.by = s.by]
    OBVIOUS
  <2>2. x \in [rev : Nat, by : Actor \cup {None}, yes : SUBSET Actor]
    <3>1. requests[q] \in [rev : Nat, by : Actor \cup {None}, yes : SUBSET Actor]
      BY DEF IInv, TypeOK
    <3> QED BY <1>5, <2>1, <3>1
  <2>3. requests' = [requests EXCEPT ![q] = x]
    BY <1>3, <2>1 DEF IInv, TypeOK
  <2> QED BY <2>2, <2>3 DEF IInv, TypeOK
<1>11. TypeOK'
  BY <1>4, <1>6, <1>8, <1>10 DEF IInv, TypeOK, Become
<1>12. Grows
  BY <1>3, <1>4 DEF Grows, Booked, IInv, TypeOK
<1>13. CopyOK(s.copy)' /\ CopyOK(s.own)'
  BY <1>1, <1>11, <1>12, CopyStays DEF IInv
<1>14. CopyOK(d)'
  <2>1. requests'[q].rev = s.copy.rev
    BY <1>3 DEF IInv, TypeOK
  <2> QED BY <1>5, <1>7, <1>13, <2>1 DEF CopyOK, Reviewed
<1>15. PublishOK(t)' /\ CallOK(t)' /\ PassOK(t)'
  BY <1>1, <1>2, <1>4, <1>9 DEF SessionOK, PublishOK, CallOK, PassOK, Booked
<1>16. SessionOK(t)'
  BY <1>9, <1>13, <1>14, <1>15, SessionFrom
<1> QED BY <1>4, <1>6, <1>8, <1>11, <1>12, <1>14, <1>16, AddStep

LEMMA DecideStep ==
    ASSUME IInv, NEW p \in Proc, Decide(p)
    PROVE  IInv'
<1>1. PICK s \in ProcState :
          /\ proc[p] = s /\ SessionOK(s) /\ s.copy \in Instance /\ s.own \in Instance
          /\ CopyOK(s.copy) /\ CopyOK(s.own)
  BY Working
<1>2. s.pc = "save" /\ s.op \in {"approve", "reject"}
  BY <1>1 DEF Decide, At
<1>3. UNCHANGED <<draft, published, schedules, clock, jobs, made, spent>>
  BY DEF Decide, entry
<1>4. CASE s.op = "reject"
  <2> DEFINE d == NoPending(s.copy)
             t == [s EXCEPT !.copy = d, !.pc = "notify"]
  <2>1. Become(p, t) /\ instance' = d /\ UNCHANGED requests
    BY <1>1, <1>4 DEF Decide, Save
  <2>2. d \in Instance
    BY <1>1, InstanceTypes
  <2>3. CopyOK(d)
    BY <1>1 DEF CopyOK, NoPending, Instance, Reviewed
  <2> HIDE DEF d
  <2>4. t \in ProcState
    BY <2>2 DEF ProcState, PC
  <2>5. SessionOK(t)
    <3>1. t.copy = d /\ t.own = s.own /\ t.pc = "notify"
      BY DEF ProcState
    <3>2. PublishOK(t) /\ CallOK(t) /\ PassOK(t)
      BY <1>2, <1>1, <1>4 DEF SessionOK, PublishOK, CallOK, PassOK, ProcState
    <3> HIDE DEF t
    <3> QED BY <1>1, <2>3, <3>1, <3>2 DEF SessionOK
  <2> HIDE DEF t
  <2> QED BY <1>3, <2>1, <2>2, <2>3, <2>4, <2>5, QuietStep DEF IInv, TypeOK
<1>5. CASE s.op = "approve"
  <2> DEFINE d == [s.copy EXCEPT !.yes = @ \cup {s.by}]
             t == [s EXCEPT !.copy = d, !.pc = "notify"]
  <2>1. Become(p, t) /\ instance' = d
           /\ requests' = [requests EXCEPT ![s.want].yes = @ \cup {s.by}]
    BY <1>1, <1>5 DEF Decide, Save
  <2>2. /\ s.by \in Actor /\ s.want \in Request /\ s.copy.request = s.want
        /\ s.copy.request # None
        /\ s.by # requests[s.want].by
    BY <1>1, <1>2 DEF SessionOK, SaveOK, Instance
  <2>3. d \in Instance
    BY <1>1, <2>2, InstanceTypes
  <2>4. d.rev = s.copy.rev /\ d.state = s.copy.state /\ d.request = s.want
           /\ d.yes = s.copy.yes \cup {s.by}
    BY <1>1, <2>2 DEF Instance
  <2> HIDE DEF d
  <2>5. t \in ProcState
    BY <2>3 DEF ProcState, PC
  <2>6. t.copy = d /\ t.own = s.own /\ t.pc = "notify" /\ t.seen = s.seen
           /\ t.op = s.op /\ t.t = s.t /\ t.todo = s.todo
           /\ t.pass = s.pass /\ t.job = s.job
    BY DEF ProcState
  <2> HIDE DEF t
  <2>7. requests' \in [Request -> [rev : Nat, by : Actor \cup {None}, yes : SUBSET Actor]]
    BY <2>1, <2>2 DEF IInv, TypeOK
  <2>8. TypeOK'
    BY <1>3, <2>1, <2>3, <2>5, <2>7 DEF IInv, TypeOK, Become
  <2>9. Grows
    BY <1>3, <2>1 DEF Grows, Booked, IInv, TypeOK
  <2>10. CopyOK(s.copy)' /\ CopyOK(s.own)'
    BY <1>1, <2>8, <2>9, CopyStays DEF IInv
  <2>11. CopyOK(d)'
    <3>1. requests'[s.want].yes = requests[s.want].yes \cup {s.by}
             /\ requests'[s.want].by = requests[s.want].by
      BY <2>1, <2>2 DEF IInv, TypeOK
    <3>2. s.copy.rev # 0 /\ requests'[s.want].rev = s.copy.rev
             /\ s.copy.yes \subseteq requests'[s.want].yes \ {requests'[s.want].by}
      BY <2>2, <2>10 DEF CopyOK
    <3>3. d.yes \subseteq requests'[s.want].yes \ {requests'[s.want].by}
      BY <2>2, <2>4, <3>1, <3>2
    <3> QED BY <2>4, <2>10, <3>2, <3>3 DEF CopyOK, Reviewed
  <2>12. PublishOK(t)' /\ CallOK(t)' /\ PassOK(t)'
    BY <1>1, <1>2, <1>3, <1>5, <2>2, <2>4, <2>6, FlowAssumption
       DEF SessionOK, PublishOK, CallOK, PassOK, Booked
  <2>13. SessionOK(t)'
    BY <2>6, <2>10, <2>11, <2>12, SessionFrom
  <2> QED BY <1>3, <2>1, <2>3, <2>5, <2>8, <2>9, <2>11, <2>13, AddStep
<1> QED BY <1>2, <1>4, <1>5

LEMMA ScheduleTransitionStep ==
    ASSUME IInv, NEW p \in Proc, ScheduleTransition(p)
    PROVE  IInv'
<1>1. PICK s \in ProcState :
          /\ proc[p] = s /\ SessionOK(s) /\ s.copy \in Instance /\ s.own \in Instance
          /\ CopyOK(s.copy) /\ CopyOK(s.own)
  BY Working
<1>2. s.pc = "save" /\ s.op = "schedule"
  BY <1>1 DEF ScheduleTransition, At
<1>3. PICK i \in Schedule :
          /\ schedules[i].rev = 0
          /\ schedules' = [schedules EXCEPT
                 ![i] = [rev |-> s.copy.rev, t |-> s.t, by |-> s.by]]
          /\ Save(p, [s.copy EXCEPT !.sched[i] = "pending"], "notify")
  BY <1>1 DEF ScheduleTransition
<1> DEFINE d == [s.copy EXCEPT !.sched[i] = "pending"]
           t == [s EXCEPT !.copy = d, !.pc = "notify"]
<1>4. UNCHANGED <<draft, published, requests, clock, jobs, made, spent>>
         /\ Become(p, t) /\ instance' = d
  BY <1>1, <1>3 DEF ScheduleTransition, Save, entry
<1>5. s.copy.rev \in Nat /\ s.copy.rev <= draft /\ s.t \in Transition
         /\ s.by \in Actor \cup {None}
  BY <1>1, <1>2 DEF SessionOK, CallOK, CopyOK, ProcState, Instance
<1>6. d \in Instance
  BY <1>1, InstanceTypes
<1>7. CopyOK(d)
  BY <1>1 DEF CopyOK, Instance, Reviewed
<1> HIDE DEF d
<1>8. t \in ProcState
  BY <1>6 DEF ProcState, PC
<1>9. t.copy = d /\ t.own = s.own /\ t.pc = "notify" /\ t.seen = s.seen
         /\ t.op = s.op /\ t.t = s.t /\ t.todo = s.todo
         /\ t.pass = s.pass /\ t.job = s.job
  BY DEF ProcState
<1> HIDE DEF t
<1>10. schedules' \in [Schedule -> [rev : Nat, t : Transition \cup {"none"},
                                    by : Actor \cup {None}]]
  BY <1>3, <1>5 DEF IInv, TypeOK
<1>11. TypeOK'
  BY <1>4, <1>6, <1>8, <1>10 DEF IInv, TypeOK, Become
<1>12. Booked \subseteq Booked'
  BY <1>3 DEF Booked, IInv, TypeOK
<1>13. Grows
  BY <1>4, <1>12 DEF Grows, IInv, TypeOK
<1>14. CopyOK(d)' /\ CopyOK(s.own)'
  BY <1>1, <1>6, <1>7, <1>11, <1>13, CopyStays DEF IInv
<1>15. PublishOK(t)' /\ CallOK(t)' /\ PassOK(t)'
  <2>1. t.todo \subseteq Booked'
    BY <1>1, <1>9, <1>12 DEF SessionOK, PassOK
  <2> QED BY <1>1, <1>2, <1>4, <1>9, <2>1 DEF SessionOK, PublishOK, CallOK, PassOK
<1>16. SessionOK(t)'
  BY <1>9, <1>14, <1>15, SessionFrom
<1>17. \A j \in Booked' : schedules'[j].t \in Transition /\ schedules'[j].rev <= draft'
  BY <1>3, <1>4, <1>5 DEF Booked, IInv, TypeOK
<1>18. clock'.ripe \subseteq Booked'
  BY <1>4, <1>12 DEF IInv
<1>19. PublishedWasReviewed'
  BY <1>4, <1>11, <1>13, PublishedStays
<1> QED BY <1>4, <1>6, <1>8, <1>11, <1>13, <1>14, <1>16, <1>17, <1>18, <1>19, GrowStep

LEMMA PublishStep ==
    ASSUME IInv, NEW p \in Proc, Publish(p)
    PROVE  IInv'
<1>1. PICK s \in ProcState, c \in Instance :
          /\ proc[p] = s /\ SessionOK(s) /\ instance = c /\ CopyOK(c)
          /\ s.copy \in Instance /\ s.own \in Instance /\ s.seen \in Nat
          /\ CopyOK(s.copy) /\ CopyOK(s.own)
  BY Working
<1>2. s.pc = "commit" /\ UNCHANGED <<draft, instance, requests, schedules, clock, jobs, made,
                                     spent>>
  BY <1>1 DEF Publish, At, given
<1>3. CASE draft # s.want
  <2>1. Thrown(s) \in ProcState /\ SessionOK(Thrown(s))
    BY <1>1, DoneTypes, DoneOK DEF IInv
  <2>2. Become(p, Thrown(s)) /\ published' = published
    BY <1>1, <1>3 DEF Publish
  <2> QED BY <1>1, <1>2, <2>1, <2>2, QuietStep DEF IInv, TypeOK
<1>4. CASE draft = s.want
  <2> DEFINE t == [s EXCEPT !.op = "published", !.pc = "look"]
  <2>1. Become(p, t) /\ published' = draft
    BY <1>1, <1>4 DEF Publish
  <2>2. draft \in Nat \ {0}
    BY DEF IInv, TypeOK
  <2>3. s.op = "publish" /\ s.t = "publish" /\ s.seen = draft /\ Reviewed(s.seen)
    BY <1>1, <1>2, <1>4, <2>2 DEF SessionOK, PublishOK, CallOK
  <2>4. t \in ProcState
    BY DEF ProcState, PC
  <2>5. t.copy = s.copy /\ t.own = s.own /\ t.pc = "look" /\ t.seen = s.seen
           /\ t.op = "published" /\ t.t = "publish" /\ t.todo = s.todo
           /\ t.pass = s.pass /\ t.job = s.job
    BY <2>3 DEF ProcState
  <2> HIDE DEF t
  <2>6. TypeOK'
    BY <1>2, <2>1, <2>2, <2>4 DEF IInv, TypeOK, Become
  <2>7. Booked' = Booked
    BY <1>2 DEF Booked
  <2>8. Grows
    BY <1>2, <2>1, <2>2, <2>7 DEF Grows, IInv, TypeOK
  <2>9. CopyOK(c)' /\ CopyOK(s.copy)' /\ CopyOK(s.own)'
    BY <1>1, <2>6, <2>8, CopyStays DEF IInv
  <2>10. PublishOK(t)' /\ CallOK(t)' /\ PassOK(t)'
    <3>1. ~(s.pass /\ s.job = None)
      BY <1>1, <2>3 DEF SessionOK, PassOK
    <3> QED BY <1>1, <1>2, <2>1, <2>2, <2>3, <2>5, <2>7, <3>1
            DEF SessionOK, PublishOK, CallOK, PassOK
  <2>11. SessionOK(t)'
    BY <2>5, <2>9, <2>10, SessionFrom
  <2>12. \A j \in Booked' : schedules'[j].t \in Transition /\ schedules'[j].rev <= draft'
    BY <1>2, <2>7 DEF IInv
  <2>13. clock'.ripe \subseteq Booked'
    BY <1>2, <2>7 DEF IInv
  <2>14. PublishedWasReviewed'
    BY <1>2, <2>1, <2>3 DEF PublishedWasReviewed, Reviewed
  <2> QED BY <1>1, <1>2, <2>1, <2>4, <2>6, <2>8, <2>9, <2>11, <2>12, <2>13, <2>14, GrowStep
<1> QED BY <1>3, <1>4

-----------------------------------------------------------------------------
(* The invariant *)

\* Time passing, or nothing happening
LEMMA ClockStep ==
    ASSUME IInv, UNCHANGED <<draft, published, instance, proc, requests, schedules, jobs,
                             made, spent>>,
           clock' \in [ripe : SUBSET Schedule, overdue : SUBSET Request],
           clock'.ripe \subseteq Booked
    PROVE  IInv'
<1>1. TypeOK'
  BY DEF IInv, TypeOK
<1>2. Booked' = Booked
  BY DEF Booked
<1>3. Grows
  BY <1>2 DEF Grows, IInv, TypeOK
<1>4. \A c \in Instance : instance' = c => CopyOK(c)'
  <2> SUFFICES ASSUME NEW c \in Instance, instance' = c
               PROVE  CopyOK(c)'
    OBVIOUS
  <2> QED BY <1>1, <1>3, CopyStays DEF IInv
<1>5. \A r \in Proc, x \in ProcState : proc'[r] = x => SessionOK(x)'
  <2> SUFFICES ASSUME NEW r \in Proc, NEW x \in ProcState, proc'[r] = x
               PROVE  SessionOK(x)'
    OBVIOUS
  <2> QED BY <1>1, <1>3, SessionStays DEF IInv
<1>6. PublishedWasReviewed'
  BY <1>1, <1>3, PublishedStays
<1> QED BY <1>1, <1>2, <1>4, <1>5, <1>6 DEF IInv

LEMMA IInvInit == Init => IInv
<1> SUFFICES ASSUME Init
             PROVE  IInv
  OBVIOUS
<1>1. instance \in Instance
  <2>1. PICK s \in Start : instance = IF s = "none" THEN NoInstance
                                      ELSE [FirstInstance(1) EXCEPT !.state = s]
    BY DEF Init
  <2>2. s = "none" \/ s \in State
    BY FlowAssumption DEF State
  <2> QED BY <2>1, <2>2, FirstInstances
<1>2. TypeOK
  BY <1>1, IdleType DEF Init, TypeOK
<1>3. \A c \in Instance : instance = c => CopyOK(c)
  <2> SUFFICES ASSUME NEW c \in Instance, instance = c
               PROVE  CopyOK(c)
    OBVIOUS
  <2>1. /\ c.state \in {"none", "draft", "in-review"}
        /\ c.rev \in {0, 1} /\ c.request = None
    <3>1. PICK s \in Start : instance = IF s = "none" THEN NoInstance
                                        ELSE [FirstInstance(1) EXCEPT !.state = s]
      BY DEF Init
    <3>2. NoInstance.state = "none" /\ NoInstance.rev = 0 /\ NoInstance.request = None
      BY DEF NoInstance
    <3>3. FirstInstance(1) \in Instance /\ FirstInstance(1).rev = 1
             /\ FirstInstance(1).request = None
      BY FirstInstances DEF FirstInstance, NoInstance
    <3> QED BY <3>1, <3>2, <3>3, FlowAssumption DEF Instance
  <2> QED BY <2>1 DEF CopyOK, Init
<1>4. \A p \in Proc, s \in ProcState : proc[p] = s => SessionOK(s)
  BY <1>2, IdleOK DEF Init
<1>5. Booked = {}
  BY DEF Booked, Init
<1> QED BY <1>2, <1>3, <1>4, <1>5 DEF IInv, Init, PublishedWasReviewed

LEMMA IInvNext == IInv /\ [Next]_vars => IInv'
<1> SUFFICES ASSUME IInv, [Next]_vars
             PROVE  IInv'
  OBVIOUS
<1>1. ASSUME NEW p \in Proc, Step(p)
      PROVE  IInv'
  BY <1>1, ReadEntryStep, WriteDraftStep, ReadInstanceStep, EnsureInstanceStep,
     RequestApprovalStep, DecideStep, CompleteTransitionStep, EnqueueActionsStep,
     NotifyStep, ScheduleTransitionStep, CancelScheduleStep, DraftUpdatedStep,
     PublishStep, RefusePublishStep, ListInstancesStep, EscalateStep,
     NotifyEscalatedStep, ExecuteScheduleStep, RereadStep, SaveOutcomeStep, LeaveStep
     DEF Step
<1>2. ASSUME NEW p \in Proc, BeginPass(p) \/ Crash(p)
      PROVE  IInv'
  BY <1>2, BeginPassStep, LeaveStep
<1>3. ASSUME NEW p \in Proc, NEW call \in Call, Begin(p, call)
      PROVE  IInv'
  BY <1>3, BeginStep
<1>4. ASSUME NEW i \in Schedule, ScheduleComesDue(i)
      PROVE  IInv'
  <2>1. clock' \in [ripe : SUBSET Schedule, overdue : SUBSET Request]
           /\ clock'.ripe \subseteq Booked
    BY <1>4 DEF ScheduleComesDue, IInv, TypeOK
  <2> QED BY <1>4, <2>1, ClockStep DEF ScheduleComesDue, entry, given
<1>5. ASSUME NEW q \in Request, DeadlinePasses(q)
      PROVE  IInv'
  <2>1. clock' \in [ripe : SUBSET Schedule, overdue : SUBSET Request]
           /\ clock'.ripe \subseteq Booked
    BY <1>5 DEF DeadlinePasses, IInv, TypeOK
  <2> QED BY <1>5, <2>1, ClockStep DEF DeadlinePasses, entry, given
<1>6. CASE UNCHANGED vars
  BY <1>6, ClockStep DEF vars, IInv, TypeOK
<1> QED BY <1>1, <1>2, <1>3, <1>4, <1>5, <1>6 DEF Next

LEMMA Invariance == Spec => []IInv
BY IInvInit, IInvNext, PTL DEF Spec

-----------------------------------------------------------------------------
(* Theorems *)

\* Every variable keeps its type through whatever the processes do.
THEOREM TypeCorrect == Spec => []TypeOK
<1>1. IInv => TypeOK
  BY DEF IInv
<1> QED BY <1>1, Invariance, PTL

\* What publish of ContentService makes public had been approved, in that very
\* revision, by as many people as the workflow requires, none of them the
\* requester, although the workflow record is written without a comparison.
THEOREM PublicationsReviewed == Spec => []PublishedWasReviewed
<1>1. IInv => PublishedWasReviewed
  BY DEF IInv
<1> QED BY <1>1, Invariance, PTL

\* The workflow record never says approved, published or archived of a
\* revision that was not reviewed, whichever older copy of it is written back.
THEOREM ApprovalsEarned == Spec => []ApprovalIsEarned
<1>1. IInv => ApprovalIsEarned
  BY DEF IInv, TypeOK, CopyOK, ApprovalIsEarned, Reviewed
<1> QED BY <1>1, Invariance, PTL

\* What is published was reviewed, and so was what the record says is approved,
\* for any number of approvals and schedules.
THEOREM ReviewsCover == Spec => []ReviewCovers
<1>1. PublishedWasReviewed /\ ApprovalIsEarned => ReviewCovers
  BY DEF ReviewCovers
<1> QED BY PublicationsReviewed, ApprovalsEarned, <1>1, PTL

\* Nor published or archived of an entry that was never published: transition
\* and the schedules have no way around publish.
THEOREM OnlyPublishingPublishes == Spec => []PublishedByPublishing
<1>1. IInv => PublishedByPublishing
  BY DEF IInv, TypeOK, CopyOK, PublishedByPublishing
<1> QED BY <1>1, Invariance, PTL
=============================================================================
