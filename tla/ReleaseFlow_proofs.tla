------------------------- MODULE ReleaseFlow_proofs -------------------------
(***************************************************************************)
(* Proofs about ReleaseFlow, for any number of processes, entries and      *)
(* releases.  A release record is written back whole by whoever read it,   *)
(* so the invariant is about every copy of it: what a copy claims has      *)
(* happened, and its pins are those the record was created with, because   *)
(* nobody changes them.  The rest is what a process has found out so far   *)
(* about facts that, once true, stay true.                                 *)
(***************************************************************************)
EXTENDS ReleaseFlow, TLAPS

\* Where a process works on a copy of a record it has read
Held == {"assess", "validated", "schedule", "cancel", "execute", "swap", "tell",
         "failed", "restore", "restored"}
OnRecord == {"pin", "get"} \cup Held
OnEntry == {"route", "commit", "told"}

\* What the name of a process's subject stands for
SubjectOK(s) ==
    /\ s.pc \in OnRecord => s.id \in Release
    /\ s.pc \in OnEntry => s.id \in Entry

TypeInv == TypeOK /\ \A p \in Proc : SubjectOK(proc[p])

Created(r) == release[r].state # "none"

\* A copy claims nothing that has not happened, and gives back only what was approved.
CopyOK(r, c) ==
    /\ c.state \in Final \/ c.sched = "executed" => r \in swapped
    /\ c.state = "rolled-back" => r \in restored
    /\ \A e \in Entry : c.prev[e] # 0 => c.prev[e] \in approved[e]

\* What a process knows of the release it works on
HeldOK(s) ==
    /\ Created(s.id)
    /\ s.copy.pin = release[s.id].pin /\ s.copy.prev = release[s.id].prev
    /\ CopyOK(s.id, s.copy)
    /\ s.pc \in {"assess", "swap"} /\ s.ok =>
          \A e \in Members[s.id] \ s.todo : s.copy.pin[e] \in approved[e]
    /\ s.pc = "swap" => s.todo = {}
    /\ s.pc = "tell" => s.id \in swapped
    /\ s.pc \in {"restore", "restored"} => s.copy.state = "published"
    /\ s.pc = "restored" => s.id \in restored

SessionOK(s) ==
    /\ s.pc \in Held => HeldOK(s)
    /\ s.pc = "pin" => ~Created(s.id) /\ s.copy.state = "none" /\ CopyOK(s.id, s.copy)
    /\ s.pc = "get" => Created(s.id) /\ s.todo = Members[s.id]
    /\ s.pc \in {"route", "commit"} => s.want \in approved[s.id]
    /\ \A r \in s.due : Created(r)

\* Pointers, what moved them, and the workflow
FactsOK ==
    /\ \A e \in Entry : moved[e].at <= spent.moves
    /\ NeverPartial
    /\ \A e \in Entry : flow[e].state # "draft" => flow[e].rev \in approved[e]
    /\ PublishedWasApproved

IInv ==
    /\ TypeInv
    /\ FactsOK
    /\ \A r \in Release : CopyOK(r, release[r])
    /\ \A p \in Proc : SessionOK(proc[p])
    /\ \A p, q \in Proc : proc[p].pc = "pin" /\ proc[q].pc = "pin" /\ p # q
                             => proc[p].id # proc[q].id

-----------------------------------------------------------------------------
(* Types *)

LEMMA Constants ==
    /\ Idle \in ProcState /\ SubjectOK(Idle)
    /\ NoRelease \in ReleaseRecord
BY ReleaseAssumption DEF Idle, NoRelease, NoRevs, Revs, ProcState, ReleaseRecord, PC,
   SubjectOK, OnRecord, OnEntry, Held

\* What an operation leaves of a process
LEMMA EndedType ==
    ASSUME NEW s \in ProcState
    PROVE  /\ Ended(s) \in ProcState /\ SubjectOK(Ended(s))
           /\ Ended(s).pc \in {"idle", "due"} /\ Ended(s).due \in {{}, s.due}
<1>1. Ended(s) = Idle
        \/ Ended(s) = [Idle EXCEPT !.pc = "due", !.pass = TRUE, !.due = s.due]
  BY DEF Ended
<1>2. s.due \in SUBSET Release
  BY DEF ProcState
<1>3. DEFINE d == [Idle EXCEPT !.pc = "due", !.pass = TRUE, !.due = s.due]
<1>4. d \in ProcState
  BY <1>2, Constants DEF ProcState, PC
<1>5. d.pc = "due" /\ d.due = s.due /\ Idle.pc = "idle" /\ Idle.due = {}
  BY DEF Idle
<1>6. SubjectOK(d)
  BY <1>5 DEF SubjectOK, OnRecord, OnEntry, Held
<1>7. QED
  BY <1>1, <1>4, <1>5, <1>6, Constants

\* A step of one process, to a state of the right type
LEMMA BecomeType ==
    ASSUME TypeInv, NEW p \in Proc, NEW s \in ProcState, SubjectOK(s), Become(p, s)
    PROVE  /\ proc' \in [Proc -> ProcState]
           /\ \A q \in Proc : SubjectOK(proc'[q])
           /\ proc'[p] = s /\ \A q \in Proc \ {p} : proc'[q] = proc[q]
BY DEF TypeInv, TypeOK, Become

\* A record that is written
LEMMA SaveType ==
    ASSUME TypeInv, NEW p \in Proc, proc[p].id \in Release, NEW c \in ReleaseRecord,
           release' = [release EXCEPT ![proc[p].id] = c]
    PROVE  /\ release' \in [Release -> ReleaseRecord]
           /\ release'[proc[p].id] = c
           /\ \A r \in Release \ {proc[p].id} : release'[r] = release[r]
BY DEF TypeInv, TypeOK

LEMMA CopyTypes ==
    ASSUME NEW c \in ReleaseRecord,
           NEW st \in {"draft", "validated", "scheduled", "executing", "published",
                       "rolled-back", "failed"},
           NEW sc \in {"none", "pending", "executed", "cancelled", "failed"}
    PROVE  /\ [c EXCEPT !.state = st] \in ReleaseRecord
           /\ [c EXCEPT !.state = st, !.sched = sc] \in ReleaseRecord
           /\ Sched(c, sc) \in {c.sched, sc}
BY DEF ReleaseRecord, Sched

\* The types of everything but the processes
RestOK ==
    /\ draft \in [Entry -> 1..MaxRev] /\ published \in [Entry -> 0..MaxRev]
    /\ flow \in [Entry -> [state : {"draft", "approved", "published"}, rev : 1..MaxRev]]
    /\ release \in [Release -> ReleaseRecord]
    /\ approved \in [Entry -> SUBSET (1..MaxRev)]
    /\ swapped \subseteq Release /\ restored \subseteq Release
    /\ moved \in [Entry -> [by : Release \cup {None}, at : Nat]]
    /\ spent \in [ops : Nat, crashes : Nat, moves : Nat]

LEMMA TypeSplit == TypeInv <=> /\ RestOK /\ proc \in [Proc -> ProcState]
                               /\ \A p \in Proc : SubjectOK(proc[p])
BY DEF TypeInv, TypeOK, RestOK

LEMMA StepType ==
    ASSUME TypeInv, NEW p \in Proc, NEW s \in ProcState, SubjectOK(s), Become(p, s), RestOK'
    PROVE  TypeInv'
BY BecomeType DEF TypeInv, TypeOK, RestOK

LEMMA LocalType ==
    ASSUME TypeInv, NEW p \in Proc, NEW s \in ProcState, SubjectOK(s), Become(p, s),
           UNCHANGED <<content, release, moves, spent>>
    PROVE  TypeInv'
<1>1. RestOK'
  BY TypeSplit DEF RestOK, content, moves
<1>2. QED
  BY <1>1, StepType

LEMMA SaveStepType ==
    ASSUME TypeInv, NEW p \in Proc, NEW s \in ProcState, SubjectOK(s), Become(p, s),
           proc[p].id \in Release, NEW c \in ReleaseRecord,
           release' = [release EXCEPT ![proc[p].id] = c],
           UNCHANGED <<content, moves, spent>>
    PROVE  TypeInv'
<1>1. release' \in [Release -> ReleaseRecord]
  BY SaveType
<1>2. RestOK'
  BY <1>1, TypeSplit DEF RestOK, content, moves
<1>3. QED
  BY <1>2, StepType

\* Requests and passes count; nothing else of the content moves.
LEMMA SpentType ==
    ASSUME TypeInv, UNCHANGED <<content, release, moves>>,
           \/ spent' = [spent EXCEPT !.ops = @ + 1]
           \/ spent' = [spent EXCEPT !.crashes = @ + 1]
    PROVE  RestOK' /\ spent'.moves = spent.moves
<1>1. spent \in [ops : Nat, crashes : Nat, moves : Nat]
  BY TypeSplit DEF RestOK
<1>2. spent' \in [ops : Nat, crashes : Nat, moves : Nat] /\ spent'.moves = spent.moves
  BY <1>1
<1>3. QED
  BY <1>2, TypeSplit DEF RestOK, content, moves

LEMMA MoveType ==
    ASSUME TypeInv, NEW X \in SUBSET Entry, NEW target \in Revs,
           NEW cause \in Release \cup {None}, Move(X, target, cause)
    PROVE  /\ published' \in [Entry -> 0..MaxRev]
           /\ moved' \in [Entry -> [by : Release \cup {None}, at : Nat]]
           /\ spent' \in [ops : Nat, crashes : Nat, moves : Nat]
           /\ spent'.moves = spent.moves + 1
           /\ \A e \in X : /\ published'[e] = target[e]
                           /\ moved'[e].by = cause /\ moved'[e].at = spent.moves + 1
           /\ \A e \in Entry \ X : published'[e] = published[e] /\ moved'[e] = moved[e]
<1>1. spent \in [ops : Nat, crashes : Nat, moves : Nat]
  BY TypeSplit DEF RestOK
<1>2. /\ spent' \in [ops : Nat, crashes : Nat, moves : Nat]
      /\ spent'.moves = spent.moves + 1
  BY <1>1 DEF Move
<1>3. /\ published' \in [Entry -> 0..MaxRev]
      /\ \A e \in X : published'[e] = target[e]
      /\ \A e \in Entry \ X : published'[e] = published[e]
  BY TypeSplit DEF RestOK, Move, Revs
<1>4. /\ moved' \in [Entry -> [by : Release \cup {None}, at : Nat]]
      /\ \A e \in X : moved'[e].by = cause /\ moved'[e].at = spent.moves + 1
      /\ \A e \in Entry \ X : moved'[e] = moved[e]
  BY <1>1, TypeSplit DEF RestOK, Move
<1>5. QED
  BY <1>2, <1>3, <1>4

LEMMA TypeStep ==
    ASSUME TypeInv, [Next]_vars
    PROVE  TypeInv'

<1>a. ASSUME NEW p \in Proc
      PROVE  /\ proc[p] \in ProcState /\ SubjectOK(proc[p])
             /\ proc[p].copy \in ReleaseRecord /\ Ended(proc[p]) \in ProcState
             /\ SubjectOK(Ended(proc[p]))
  <2>1. proc[p] \in ProcState /\ SubjectOK(proc[p])
    BY TypeSplit
  <2>2. QED
    BY <2>1, EndedType DEF ProcState
<1>b. /\ draft \in [Entry -> 1..MaxRev] /\ published \in [Entry -> 0..MaxRev]
      /\ release \in [Release -> ReleaseRecord] /\ Members \in [Release -> SUBSET Entry]
  BY ReleaseAssumption, TypeSplit DEF RestOK
<1>1. CASE UNCHANGED vars
  BY <1>1 DEF TypeInv, TypeOK, SubjectOK, vars
<1>2. ASSUME NEW p \in Proc, PinMember(p) PROVE TypeInv'
  <2>1. PICK e \in proc[p].todo :
          Become(p, [proc[p] EXCEPT !.todo = @ \ {e}, !.copy.pin[e] = draft[e],
                                    !.copy.prev[e] = published[e]])
    BY <1>2 DEF PinMember
  <2> DEFINE s == [proc[p] EXCEPT !.todo = @ \ {e}, !.copy.pin[e] = draft[e],
                                  !.copy.prev[e] = published[e]]
  <2>2. e \in Entry /\ draft[e] \in 0..MaxRev /\ published[e] \in 0..MaxRev
    BY <1>a, <1>b DEF ProcState
  <2> DEFINE c == [proc[p].copy EXCEPT !.pin[e] = draft[e], !.prev[e] = published[e]]
             d == [proc[p] EXCEPT !.todo = @ \ {e}, !.copy = c]
  <2>3a. c \in ReleaseRecord
    BY <1>a, <2>2 DEF ReleaseRecord, Revs
  <2>3b. d \in ProcState /\ d.pc = proc[p].pc /\ d.id = proc[p].id
    BY <1>a, <2>3a DEF ProcState
  <2>3c. s = d
    BY ZenonT(30), <1>a DEF ProcState, ReleaseRecord
  <2>3. s.pc = proc[p].pc /\ s.id = proc[p].id /\ s \in ProcState
    BY <2>3b, <2>3c
  <2>4. SubjectOK(s)
    BY <1>a, <2>3 DEF SubjectOK
  <2>5. QED
    BY <1>2, <2>1, <2>3, <2>4, LocalType DEF PinMember
<1>3. ASSUME NEW p \in Proc, SaveCreated(p) PROVE TypeInv'
  <2> DEFINE c == [proc[p].copy EXCEPT !.state = "draft"]
  <2>1. c \in ReleaseRecord
    BY <1>a DEF ReleaseRecord
  <2>2. proc[p].id \in Release
    BY <1>a, <1>3 DEF SaveCreated, At, SubjectOK, OnRecord
  <2>3. QED
    BY <1>a, <1>3, <2>1, <2>2, SaveStepType DEF SaveCreated, SaveAndEnd
<1>4. ASSUME NEW p \in Proc, GetRelease(p) PROVE TypeInv'
  <2> DEFINE c == release[proc[p].id]
             s == [proc[p] EXCEPT !.copy = c, !.pc = FirstStep(proc[p].op)]
  <2>1. proc[p].id \in Release /\ c \in ReleaseRecord
    BY <1>a, <1>b, <1>4 DEF GetRelease, At, SubjectOK, OnRecord
  <2>2. FirstStep(proc[p].op) \in {"cancel", "restore", "assess"}
    BY DEF FirstStep
  <2>3. s \in ProcState /\ s.id = proc[p].id /\ s.pc = FirstStep(proc[p].op)
    BY ZenonT(30), <1>a, <2>1, <2>2 DEF ProcState, PC
  <2>4. SubjectOK(s)
    BY <2>1, <2>2, <2>3 DEF SubjectOK, OnEntry
  <2>5. QED
    BY <1>a, <1>4, <2>3, <2>4, LocalType DEF GetRelease
<1>5. ASSUME NEW p \in Proc, AssessMember(p) PROVE TypeInv'
  <2>1. PICK e \in proc[p].todo :
          Become(p, [proc[p] EXCEPT !.todo = @ \ {e},
            !.ok = @ /\ draft[e] = proc[p].copy.pin[e] /\ CanPublish(e, proc[p].copy.pin[e])])
    BY <1>5 DEF AssessMember
  <2> DEFINE new == proc[p].ok /\ draft[e] = proc[p].copy.pin[e]
                               /\ CanPublish(e, proc[p].copy.pin[e])
             s == [proc[p] EXCEPT !.todo = @ \ {e}, !.ok = new]
  <2>2. new \in BOOLEAN
    OBVIOUS
  <2> HIDE DEF new
  <2>3. s \in ProcState /\ s.id = proc[p].id /\ s.pc = proc[p].pc
    BY <1>a, <2>2 DEF ProcState
  <2>4. SubjectOK(s)
    BY <1>a, <2>3 DEF SubjectOK
  <2>5. Become(p, s)
    BY <2>1 DEF new
  <2>6. QED
    BY <1>5, <2>3, <2>4, <2>5, LocalType DEF AssessMember
<1>6. ASSUME NEW p \in Proc, AssessTogether(p) PROVE TypeInv'
  <2>1. PICK refused \in BOOLEAN :
          Become(p, [proc[p] EXCEPT
              !.ok = @ /\ ~refused /\ ~RoutesCollide(proc[p].id, proc[p].copy.pin),
              !.pc = IF proc[p].again THEN "swap" ELSE "validated"])
    BY <1>6 DEF AssessTogether
  <2> DEFINE new == proc[p].ok /\ ~refused /\ ~RoutesCollide(proc[p].id, proc[p].copy.pin)
             then == IF proc[p].again THEN "swap" ELSE "validated"
             s == [proc[p] EXCEPT !.ok = new, !.pc = then]
  <2>2. new \in BOOLEAN /\ then \in {"swap", "validated"}
    OBVIOUS
  <2> HIDE DEF new, then
  <2>3. s \in ProcState /\ s.id = proc[p].id /\ s.pc = then
    BY ZenonT(30), <1>a, <2>2 DEF ProcState, PC
  <2>4. SubjectOK(s)
    BY <1>a, <1>6, <2>2, <2>3 DEF SubjectOK, AssessTogether, At, OnRecord, OnEntry, Held
  <2>5. Become(p, s)
    BY <2>1 DEF new, then
  <2>6. QED
    BY <1>6, <2>3, <2>4, <2>5, LocalType DEF AssessTogether
<1>7. ASSUME NEW p \in Proc, SaveValidated(p) PROVE TypeInv'
  <2> DEFINE c == Validated(proc[p].copy, proc[p].ok)
             s == [proc[p] EXCEPT !.pc = proc[p].op]
             t == [s EXCEPT !.copy = c]
  <2>1. c \in ReleaseRecord
    BY <1>a DEF Validated, Sched, ReleaseRecord
  <2>2. proc[p].id \in Release
    BY <1>a, <1>7 DEF SaveValidated, At, SubjectOK, OnRecord, Held
  <2>3. CASE proc[p].ok /\ proc[p].op \in {"schedule", "execute"}
    <3>1. Save(p, c, s) /\ UNCHANGED <<content, moves, spent>>
      BY <1>7, <2>3 DEF SaveValidated
    <3> HIDE DEF c
    <3>1a. s \in ProcState /\ s.id = proc[p].id /\ s.pc = proc[p].op
      BY <1>a, <2>3 DEF ProcState, PC
    <3> HIDE DEF s
    <3>2. t \in ProcState /\ t.id = proc[p].id /\ t.pc \in {"schedule", "execute"}
      BY <2>1, <2>3, <3>1a DEF ProcState
    <3> USE DEF s
    <3>3. SubjectOK(t)
      BY <2>2, <3>2 DEF SubjectOK, OnEntry
    <3>4. Become(p, t) /\ release' = [release EXCEPT ![proc[p].id] = c]
      BY <3>1 DEF Save
    <3>5. QED
      BY <2>1, <2>2, <3>1, <3>2, <3>3, <3>4, SaveStepType
  <2>4. CASE ~(proc[p].ok /\ proc[p].op \in {"schedule", "execute"})
    <3>1. SaveAndEnd(p, c) /\ UNCHANGED <<content, moves, spent>>
      BY <1>7, <2>4 DEF SaveValidated
    <3>2. QED
      BY <1>a, <2>1, <2>2, <3>1, SaveStepType DEF SaveAndEnd
  <2>5. QED
    BY <2>3, <2>4
<1>8. ASSUME NEW p \in Proc, SaveScheduled(p) PROVE TypeInv'
  <2> DEFINE c == [proc[p].copy EXCEPT !.state = "scheduled", !.sched = "pending"]
  <2>1. c \in ReleaseRecord /\ proc[p].id \in Release
    BY <1>a, <1>8, CopyTypes DEF SaveScheduled, At, SubjectOK, OnRecord, Held
  <2>2. QED
    BY <1>a, <1>8, <2>1, SaveStepType DEF SaveScheduled, SaveAndEnd
<1>9. ASSUME NEW p \in Proc, CancelSchedule(p) PROVE TypeInv'
  <2> DEFINE c == [proc[p].copy EXCEPT !.state = "validated", !.sched = "cancelled"]
  <2>1. c \in ReleaseRecord /\ proc[p].id \in Release
    BY <1>a, <1>9, CopyTypes DEF CancelSchedule, At, SubjectOK, OnRecord, Held
  <2>2. QED
    BY <1>a, <1>9, <2>1, SaveStepType DEF CancelSchedule, SaveAndEnd
<1>10. ASSUME NEW p \in Proc, SaveExecuting(p) PROVE TypeInv'
  <2> DEFINE c == [proc[p].copy EXCEPT !.state = "executing"]
             s == [proc[p] EXCEPT !.pc = "assess", !.todo = Members[proc[p].id],
                                  !.again = TRUE]
             t == [s EXCEPT !.copy = c]
  <2>1. c \in ReleaseRecord /\ proc[p].id \in Release
    BY <1>a, <1>10, CopyTypes DEF SaveExecuting, At, SubjectOK, OnRecord, Held
  <2>2. Members[proc[p].id] \in SUBSET Entry
    BY <1>b, <2>1
  <2>3. t \in ProcState /\ t.id = proc[p].id /\ t.pc = "assess"
    BY ZenonT(30), <1>a, <2>1, <2>2 DEF ProcState, PC
  <2>4. SubjectOK(t)
    BY <2>1, <2>3 DEF SubjectOK, OnEntry
  <2>5. QED
    BY <1>10, <2>1, <2>3, <2>4, SaveStepType DEF SaveExecuting, Save
<1>11. ASSUME NEW p \in Proc, PublishMany(p) PROVE TypeInv'
  <2> DEFINE X == MovedMembers(proc[p].id, proc[p].copy)
             s == [proc[p] EXCEPT !.pc = "tell", !.todo = X]
             f == [proc[p] EXCEPT !.pc = "failed"]
  <2>1. proc[p].id \in Release /\ proc[p].copy.pin \in Revs
    BY <1>a, <1>11 DEF PublishMany, At, SubjectOK, OnRecord, Held, ReleaseRecord
  <2>2. X \in SUBSET Entry
    BY <1>b, <2>1 DEF MovedMembers
  <2> HIDE DEF X
  <2>3. /\ s \in ProcState /\ s.id = proc[p].id /\ s.pc = "tell"
        /\ f \in ProcState /\ f.id = proc[p].id /\ f.pc = "failed"
    BY ZenonT(30), <1>a, <2>2 DEF ProcState, PC
  <2>4. SubjectOK(s) /\ SubjectOK(f)
    BY <2>1, <2>3 DEF SubjectOK, OnEntry
  <2>5. CASE proc[p].ok /\ X # {}
    <3>1. /\ Move(X, proc[p].copy.pin, proc[p].id) /\ Become(p, s)
          /\ swapped' = swapped \cup {proc[p].id}
          /\ UNCHANGED <<draft, flow, release, approved, restored>>
      BY <1>11, <2>5 DEF PublishMany, X
    <3>2. RestOK'
      BY <2>1, <2>2, <3>1, MoveType, TypeSplit DEF RestOK
    <3>3. QED
      BY <2>3, <2>4, <3>1, <3>2, StepType
  <2>6. CASE ~(proc[p].ok /\ X # {})
    <3>1. Become(p, f) /\ UNCHANGED <<content, release, moves, spent>>
      BY <1>11, <2>6 DEF PublishMany, X, Go, content, moves
    <3>2. QED
      BY <2>3, <2>4, <3>1, LocalType
  <2>7. QED
    BY <2>5, <2>6
<1>12. ASSUME NEW p \in Proc, TellWorkflow(p) PROVE TypeInv'
  <2>1. PICK e \in proc[p].todo :
          IF flow[e].state = "approved"
          THEN flow' = Told({e}) /\ Become(p, [proc[p] EXCEPT !.todo = @ \ {e}])
          ELSE Go(p, "failed") /\ UNCHANGED flow
    BY <1>12 DEF TellWorkflow
  <2> DEFINE s == [proc[p] EXCEPT !.todo = @ \ {e}]
             f == [proc[p] EXCEPT !.pc = "failed"]
  <2>2. /\ s \in ProcState /\ s.id = proc[p].id /\ s.pc = proc[p].pc
        /\ f \in ProcState /\ f.id = proc[p].id /\ f.pc = "failed"
    BY <1>a DEF ProcState, PC
  <2>3. proc[p].id \in Release
    BY <1>a, <1>12 DEF TellWorkflow, At, SubjectOK, OnRecord, Held
  <2>4. SubjectOK(s) /\ SubjectOK(f)
    BY <1>a, <2>2, <2>3 DEF SubjectOK, OnEntry
  <2>5. flow' \in [Entry -> [state : {"draft", "approved", "published"}, rev : 1..MaxRev]]
    BY <2>1, TypeSplit DEF RestOK, Told
  <2>6. RestOK'
    BY <1>12, <2>5, TypeSplit DEF TellWorkflow, RestOK, moves
  <2>7. Become(p, s) \/ Become(p, f)
    BY <2>1 DEF Go
  <2>8. QED
    BY <2>2, <2>4, <2>6, <2>7, StepType
<1>13. ASSUME NEW p \in Proc, SavePublished(p) PROVE TypeInv'
  <2> DEFINE c == [proc[p].copy EXCEPT !.state = "published",
                                       !.sched = Sched(proc[p].copy, "executed")]
  <2>1. c \in ReleaseRecord
    BY <1>a DEF Sched, ReleaseRecord
  <2>2. proc[p].id \in Release
    BY <1>a, <1>13 DEF SavePublished, At, SubjectOK, OnRecord, Held
  <2>3. QED
    BY <1>a, <1>13, <2>1, <2>2, SaveStepType DEF SavePublished, SaveAndEnd
<1>14. ASSUME NEW p \in Proc, SaveFailed(p) PROVE TypeInv'
  <2> DEFINE c == Failed(proc[p].copy)
  <2>1. c \in ReleaseRecord
    BY <1>a DEF Failed, Sched, ReleaseRecord
  <2>2. proc[p].id \in Release
    BY <1>a, <1>14 DEF SaveFailed, At, SubjectOK, OnRecord, Held
  <2>3. QED
    BY <1>a, <1>14, <2>1, <2>2, SaveStepType DEF SaveFailed, SaveAndEnd
<1>15. ASSUME NEW p \in Proc, RollbackMany(p) PROVE TypeInv'
  <2> DEFINE s == [proc[p] EXCEPT !.pc = "restored"]
  <2>1. proc[p].id \in Release /\ proc[p].copy.prev \in Revs
    BY <1>a, <1>15 DEF RollbackMany, At, SubjectOK, OnRecord, Held, ReleaseRecord
  <2>2. Members[proc[p].id] \in SUBSET Entry
    BY <1>b, <2>1
  <2>3. s \in ProcState /\ s.id = proc[p].id /\ s.pc = "restored"
    BY <1>a DEF ProcState, PC
  <2>4. SubjectOK(s)
    BY <2>1, <2>3 DEF SubjectOK, OnEntry
  <2>5. CASE Restorable(proc[p].id, proc[p].copy)
    <3>1. /\ Move(Members[proc[p].id], proc[p].copy.prev, proc[p].id) /\ Become(p, s)
          /\ restored' = restored \cup {proc[p].id}
          /\ UNCHANGED <<draft, flow, release, approved, swapped>>
      BY <1>15, <2>5 DEF RollbackMany, Go
    <3>2. RestOK'
      BY <2>1, <2>2, <3>1, MoveType, TypeSplit DEF RestOK
    <3>3. QED
      BY <2>3, <2>4, <3>1, <3>2, StepType
  <2>6. CASE ~Restorable(proc[p].id, proc[p].copy)
    BY <1>15, <2>6, Constants, LocalType DEF RollbackMany, content, moves
  <2>7. QED
    BY <2>5, <2>6
<1>16. ASSUME NEW p \in Proc, SaveRolledBack(p) PROVE TypeInv'
  <2> DEFINE c == [proc[p].copy EXCEPT !.state = "rolled-back"]
  <2>1. c \in ReleaseRecord /\ proc[p].id \in Release
    BY <1>a, <1>16, CopyTypes DEF SaveRolledBack, At, SubjectOK, OnRecord, Held
  <2>2. QED
    BY <1>a, <1>16, <2>1, SaveStepType DEF SaveRolledBack, SaveAndEnd
<1>17. ASSUME NEW p \in Proc, ExecuteDue(p) PROVE TypeInv'
  <2>1. PICK r \in proc[p].due :
          Become(p, [proc[p] EXCEPT !.due = @ \ {r}, !.pc = "get", !.op = "execute",
                                    !.id = r, !.todo = Members[r]])
    BY <1>17 DEF ExecuteDue
  <2> DEFINE s == [proc[p] EXCEPT !.due = @ \ {r}, !.pc = "get", !.op = "execute",
                                  !.id = r, !.todo = Members[r]]
  <2>2. r \in Release /\ Members[r] \in SUBSET Entry
    BY <1>a, <1>b DEF ProcState
  <2>3. s \in ProcState /\ s.id = r /\ s.pc = "get"
    BY ZenonT(30), <1>a, <2>2 DEF ProcState, PC
  <2>4. SubjectOK(s)
    BY <2>2, <2>3 DEF SubjectOK, OnEntry
  <2>5. QED
    BY <1>17, <2>1, <2>3, <2>4, LocalType DEF ExecuteDue
<1>18. ASSUME NEW p \in Proc, EndPass(p) PROVE TypeInv'
  BY <1>18, Constants, LocalType DEF EndPass
<1>19. ASSUME NEW p \in Proc, CheckRoute(p) PROVE TypeInv'
  <2> DEFINE s == [proc[p] EXCEPT !.pc = "commit"]
  <2>1. s \in ProcState /\ s.id = proc[p].id /\ s.pc = "commit"
    BY <1>a DEF ProcState, PC
  <2>2. SubjectOK(s)
    BY <1>a, <1>19, <2>1 DEF CheckRoute, At, SubjectOK, OnRecord, OnEntry, Held
  <2>3. Become(p, Idle) \/ Become(p, s)
    BY <1>19 DEF CheckRoute
  <2>4. QED
    BY <1>19, <2>1, <2>2, <2>3, Constants, LocalType DEF CheckRoute
<1>20. ASSUME NEW p \in Proc, PublishOne(p) PROVE TypeInv'
  <2> DEFINE s == [proc[p] EXCEPT !.pc = "told"]
  <2>1. s \in ProcState /\ s.id = proc[p].id /\ s.pc = "told" /\ proc[p].id \in Entry
    BY <1>a, <1>20 DEF PublishOne, At, SubjectOK, OnEntry, ProcState, PC
  <2>2. SubjectOK(s)
    BY <2>1 DEF SubjectOK, OnRecord, Held
  <2>3. draft \in Revs
    BY <1>b, ReleaseAssumption DEF Revs
  <2>4. CASE draft[proc[p].id] = proc[p].want
    <3>1. /\ Move({proc[p].id}, draft, None) /\ Become(p, s)
          /\ UNCHANGED <<draft, flow, release, approved, swapped, restored>>
      BY <1>20, <2>4 DEF PublishOne, Go
    <3>2. RestOK'
      BY <2>1, <2>3, <3>1, MoveType, TypeSplit DEF RestOK
    <3>3. QED
      BY <2>1, <2>2, <3>1, <3>2, StepType
  <2>5. CASE draft[proc[p].id] # proc[p].want
    BY <1>20, <2>5, Constants, LocalType DEF PublishOne, content, moves
  <2>6. QED
    BY <2>4, <2>5
<1>21. ASSUME NEW p \in Proc, TellOne(p) PROVE TypeInv'
  <2>1. flow' \in [Entry -> [state : {"draft", "approved", "published"}, rev : 1..MaxRev]]
    BY SMTT(20), <1>21, TypeSplit DEF TellOne, RestOK, Told
  <2>2. RestOK' /\ Become(p, Idle)
    BY <1>21, <2>1, TypeSplit DEF TellOne, RestOK, moves
  <2>3. QED
    BY <2>2, Constants, StepType
<1>22. ASSUME NEW p \in Proc, ListDue(p) PROVE TypeInv'
  <2>1. PICK due \in SUBSET Release :
          Become(p, [Idle EXCEPT !.pc = "due", !.pass = TRUE, !.due = due])
    BY <1>22 DEF ListDue
  <2> DEFINE s == [Idle EXCEPT !.pc = "due", !.pass = TRUE, !.due = due]
  <2>2. s \in ProcState /\ s.pc = "due"
    BY Constants DEF ProcState, PC
  <2>3. SubjectOK(s)
    BY <2>2 DEF SubjectOK, OnRecord, OnEntry, Held
  <2>4. RestOK'
    BY <1>22, SpentType DEF ListDue
  <2>5. QED
    BY <2>1, <2>2, <2>3, <2>4, StepType
<1>23. ASSUME NEW p \in Proc, Crash(p) PROVE TypeInv'
  <2>1. RestOK' /\ Become(p, Idle)
    BY <1>23, SpentType DEF Crash
  <2>2. QED
    BY <2>1, Constants, StepType
<1>24. ASSUME NEW p \in Proc, NEW op \in Op \ {"publish", "due"}, NEW r \in Release,
              Begin(p, op, r)
       PROVE  TypeInv'
  <2> DEFINE first == IF op = "create" THEN "pin" ELSE "get"
             s == [Idle EXCEPT !.op = op, !.id = r, !.todo = Members[r], !.pc = first]
  <2>1. /\ op \in {"create", "validate", "schedule", "cancel", "execute", "rollback"}
        /\ first \in {"pin", "get"} /\ Members[r] \in SUBSET Entry
    BY <1>b, ReleaseAssumption
  <2> HIDE DEF first
  <2>2. s \in ProcState /\ s.id = r /\ s.pc = first
    BY <2>1, Constants DEF ProcState, PC
  <2>3. SubjectOK(s)
    BY <2>1, <2>2 DEF SubjectOK, OnEntry
  <2>4. RestOK' /\ Become(p, s)
    BY <1>24, SpentType DEF Begin, first
  <2>5. QED
    BY <2>2, <2>3, <2>4, StepType
<1>25. ASSUME NEW p \in Proc, NEW e \in Entry, BeginPublish(p, e) PROVE TypeInv'
  <2> DEFINE s == [Idle EXCEPT !.pc = "route", !.op = "publish", !.id = e,
                               !.want = draft[e]]
  <2>1. draft[e] \in 0..MaxRev
    BY <1>b
  <2>2. s \in ProcState /\ s.id = e /\ s.pc = "route"
    BY <2>1, Constants DEF ProcState, PC
  <2>3. SubjectOK(s)
    BY <2>2 DEF SubjectOK, OnRecord, Held
  <2>4. RestOK' /\ Become(p, s)
    BY <1>25, SpentType DEF BeginPublish
  <2>5. QED
    BY <2>2, <2>3, <2>4, StepType
<1>26. ASSUME NEW e \in Entry, Edit(e) \/ ResetFlow(e) \/ Approve(e) \/ Revise(e)
       PROVE  TypeInv'
  <2>1. UNCHANGED <<proc, release, moves, spent, published>>
    BY <1>26 DEF Edit, ResetFlow, Approve, Revise, content, moves
  <2>2. draft' \in [Entry -> 1..MaxRev]
    BY <1>26, <1>b, ReleaseAssumption DEF Edit, ResetFlow, Approve, Revise
  <2>3. flow' \in [Entry -> [state : {"draft", "approved", "published"}, rev : 1..MaxRev]]
    BY <1>26, <1>b, TypeSplit DEF RestOK, Edit, ResetFlow, Approve, Revise
  <2>3a. flow[e].rev \in 1..MaxRev /\ approved \in [Entry -> SUBSET (1..MaxRev)]
    BY TypeSplit DEF RestOK
  <2>3b. UNCHANGED approved \/ approved' = [approved EXCEPT ![e] = @ \cup {flow[e].rev}]
    BY <1>26 DEF Edit, ResetFlow, Approve, Revise
  <2>4. approved' \in [Entry -> SUBSET (1..MaxRev)]
    BY <2>3a, <2>3b
  <2>5. QED
    BY <2>1, <2>2, <2>3, <2>4, TypeSplit DEF TypeInv, TypeOK, RestOK, SubjectOK, moves
<1>27. QED
  BY <1>1, <1>2, <1>3, <1>4, <1>5, <1>6, <1>7, <1>8, <1>9, <1>10, <1>11, <1>12, <1>13,
     <1>14, <1>15, <1>16, <1>17, <1>18, <1>19, <1>20, <1>21, <1>22, <1>23, <1>24, <1>25,
     <1>26 DEF Next, Step

LEMMA TypeInit == Init => TypeInv
<1>1. SUFFICES ASSUME Init PROVE TypeInv
  OBVIOUS
<1>2. RestOK
  BY <1>1, ReleaseAssumption, Constants DEF Init, RestOK
<1>3. proc \in [Proc -> ProcState] /\ \A p \in Proc : SubjectOK(proc[p])
  BY <1>1, Constants DEF Init
<1>4. QED
  BY <1>2, <1>3, TypeSplit

-----------------------------------------------------------------------------
(* Pointers and approvals *)

LEMMA FactsStay ==
    ASSUME IInv, UNCHANGED <<published, flow, approved, moved>>,
           spent'.moves = spent.moves
    PROVE  FactsOK'
BY DEF IInv, FactsOK, NeverPartial, PublishedWasApproved

\* Pointers that move together: of a release all or of a single entry, to
\* revisions that were approved
LEMMA MoveFacts ==
    ASSUME IInv, NEW X \in SUBSET Entry, NEW target \in Revs,
           NEW cause \in Release \cup {None}, Move(X, target, cause),
           UNCHANGED <<flow, approved>>,
           cause \in Release => X = Members[cause],
           \A e \in X : target[e] \in approved[e]
    PROVE  FactsOK'
<1>1. TypeInv /\ FactsOK
  BY DEF IInv
<1>2. /\ moved \in [Entry -> [by : Release \cup {None}, at : Nat]] /\ spent.moves \in Nat
      /\ Members \in [Release -> SUBSET Entry]
  BY <1>1, TypeSplit, ReleaseAssumption DEF RestOK
<1>3. /\ spent'.moves = spent.moves + 1
      /\ \A e \in X : /\ published'[e] = target[e]
                      /\ moved'[e].by = cause /\ moved'[e].at = spent.moves + 1
      /\ \A e \in Entry \ X : published'[e] = published[e] /\ moved'[e] = moved[e]
  BY <1>1, MoveType
<1>4. \A e \in Entry : moved'[e].at <= spent'.moves
  BY <1>1, <1>2, <1>3 DEF FactsOK
<1>5. ASSUME NEW r \in Release, NEW e \in Members[r], NEW f \in Members[r],
             moved'[e].by = r
      PROVE  moved'[f].at >= moved'[e].at
  <2>1. e \in Entry /\ f \in Entry
    BY <1>2
  <2>2. CASE e \in X
    BY <1>2, <1>3, <1>5, <2>1, <2>2, ReleaseAssumption
  <2>3. CASE e \notin X
    <3>1. moved[e].by = r /\ moved[f].at >= moved[e].at /\ moved[e].at <= spent.moves
      BY <1>1, <1>3, <1>5, <2>1, <2>3 DEF FactsOK, NeverPartial
    <3>2. QED
      BY <1>2, <1>3, <2>1, <2>3, <3>1
  <2>4. QED
    BY <2>2, <2>3
<1>6. NeverPartial'
  BY <1>5 DEF NeverPartial
<1>7. PublishedWasApproved'
  BY <1>1, <1>3 DEF FactsOK, PublishedWasApproved
<1>8. QED
  BY <1>1, <1>4, <1>6, <1>7 DEF FactsOK

\* What the workflow does with an entry
LEMMA FlowFacts ==
    ASSUME IInv, UNCHANGED <<published, moved>>, spent'.moves = spent.moves,
           \A e \in Entry : approved[e] \subseteq approved'[e],
           \A e \in Entry : flow'[e].state # "draft" => flow'[e].rev \in approved'[e]
    PROVE  FactsOK'
BY DEF IInv, FactsOK, NeverPartial, PublishedWasApproved

LEMMA ToldFacts ==
    ASSUME IInv, NEW e \in Entry, flow[e].state = "approved", flow' = Told({e}),
           UNCHANGED <<published, moved, approved>>, spent'.moves = spent.moves
    PROVE  FactsOK'
<1>1. flow \in [Entry -> [state : {"draft", "approved", "published"}, rev : 1..MaxRev]]
  BY TypeSplit DEF IInv, RestOK
<1>2. \A f \in Entry : flow[f].state # "draft" => flow[f].rev \in approved[f]
  BY DEF IInv, FactsOK
<1>3. \A f \in Entry : flow'[f].rev = flow[f].rev /\ (f # e => flow'[f] = flow[f])
  BY <1>1 DEF Told
<1>4. QED
  BY <1>2, <1>3, FlowFacts

-----------------------------------------------------------------------------
(* Copies and processes *)

\* What never ceases to be true
Grows ==
    /\ \A e \in Entry : approved[e] \subseteq approved'[e]
    /\ swapped \subseteq swapped' /\ restored \subseteq restored'
    /\ \A r \in Release : Created(r) =>
          /\ Created(r)'
          /\ release'[r].pin = release[r].pin /\ release'[r].prev = release[r].prev

\* An old copy stays true.
LEMMA CopyStays ==
    ASSUME Grows, NEW r \in Release, NEW c \in ReleaseRecord, CopyOK(r, c)
    PROVE  CopyOK(r, c)'
BY DEF Grows, CopyOK

LEMMA SessionStays ==
    ASSUME Grows, NEW s \in ProcState, SubjectOK(s), SessionOK(s),
           s.pc = "pin" => ~Created(s.id)'
    PROVE  SessionOK(s)'
<1>1. s.copy \in ReleaseRecord /\ s.due \in SUBSET Release
  BY DEF ProcState
<1>2. ASSUME s.pc \in Held PROVE HeldOK(s)'
  <2>1. HeldOK(s) /\ s.id \in Release
    BY <1>2 DEF SessionOK, SubjectOK, OnRecord
  <2>2. CopyOK(s.id, s.copy)'
    BY <1>1, <2>1, CopyStays DEF HeldOK
  <2>3. Members[s.id] \subseteq Entry
    BY <2>1, ReleaseAssumption
  <2>4. QED
    BY <2>1, <2>2, <2>3 DEF HeldOK, Grows
<1>3. s.pc = "pin" => CopyOK(s.id, s.copy)'
  BY <1>1, CopyStays DEF SessionOK, SubjectOK, OnRecord
<1>4. s.pc = "get" => Created(s.id)'
  BY DEF SessionOK, SubjectOK, OnRecord, Grows
<1>5. s.pc \in {"route", "commit"} => s.want \in approved'[s.id]
  BY DEF SessionOK, SubjectOK, OnEntry, Grows
<1>6. \A r \in s.due : Created(r)'
  BY <1>1 DEF SessionOK, Grows
<1>7. QED
  BY <1>2, <1>3, <1>4, <1>5, <1>6 DEF SessionOK

\* A record that has just been written, and the others
LEMMA SavedCopies ==
    ASSUME IInv, Grows, TypeInv', NEW r \in Release, NEW c \in ReleaseRecord,
           release' = [release EXCEPT ![r] = c], CopyOK(r, c)'
    PROVE  \A q \in Release : CopyOK(q, release[q])'
<1>1. TypeInv
  BY DEF IInv
<1>2. release \in [Release -> ReleaseRecord]
  BY <1>1, TypeSplit DEF RestOK
<1>3. ASSUME NEW q \in Release PROVE CopyOK(q, release[q])'
  <2>1. CASE q = r
    <3>1. release'[q] = c
      BY <1>2, <2>1
    <3>2. QED
      BY <2>1, <3>1 DEF CopyOK
  <2>2. CASE q # r
    <3>1. PICK d \in ReleaseRecord : release[q] = d
      BY <1>2
    <3>2. CopyOK(q, d)
      BY <3>1 DEF IInv
    <3>3. CopyOK(q, d)'
      BY <3>2, CopyStays
    <3>4. release'[q] = d
      BY <1>2, <2>2, <3>1
    <3>5. QED
      BY <3>3, <3>4 DEF CopyOK
  <2>3. QED
    BY <2>1, <2>2
<1>4. QED
  BY <1>3

LEMMA SameCopies ==
    ASSUME IInv, Grows, release' = release
    PROVE  \A q \in Release : CopyOK(q, release[q])'
<1>1. release \in [Release -> ReleaseRecord]
  BY TypeSplit DEF IInv, RestOK
<1>2. ASSUME NEW q \in Release PROVE CopyOK(q, release[q])'
  <2>1. PICK d \in ReleaseRecord : release[q] = d
    BY <1>1
  <2>2. CopyOK(q, d)'
    BY <2>1, CopyStays DEF IInv
  <2>3. QED
    BY <2>1, <2>2 DEF CopyOK
<1>3. QED
  BY <1>2

\* The step of one process, seen from the others
LEMMA StepSessions ==
    ASSUME IInv, NEW p \in Proc, NEW s \in ProcState, SubjectOK(s), Become(p, s), Grows,
           SessionOK(s)',
           \A r \in Release : CopyOK(r, release[r])',
           \A q \in Proc \ {p} : proc[q].pc = "pin" =>
              release'[proc[q].id].state = "none" /\ (s.pc = "pin" => proc[q].id # s.id),
           FactsOK', TypeInv'
    PROVE  IInv'
<1>1. /\ proc' \in [Proc -> ProcState]
      /\ proc'[p] = s /\ \A q \in Proc \ {p} : proc'[q] = proc[q]
  BY BecomeType DEF IInv
<1>2. ASSUME NEW q \in Proc PROVE SessionOK(proc[q])'
  <2>1. CASE q = p
    BY <1>1, <2>1 DEF SessionOK, HeldOK, Created, CopyOK
  <2>2. CASE q # p
    <3>1. proc[q] \in ProcState /\ SubjectOK(proc[q]) /\ SessionOK(proc[q])
      BY TypeSplit DEF IInv
    <3>2. PICK t \in ProcState : proc[q] = t
      BY <3>1
    <3>3. SubjectOK(t) /\ SessionOK(t)
      BY <3>1, <3>2
    <3>3a. t.pc = "pin" => ~Created(t.id)'
      BY <2>2, <3>2 DEF Created
    <3>4. SessionOK(t)'
      BY <3>3, <3>3a, SessionStays
    <3>5. proc'[q] = t
      BY <1>1, <2>2, <3>2
    <3>6. QED
      BY <3>4, <3>5 DEF SessionOK, HeldOK, Created, CopyOK
  <2>3. QED
    BY <2>1, <2>2
<1>3. ASSUME NEW q \in Proc, NEW x \in Proc, proc'[q].pc = "pin", proc'[x].pc = "pin", q # x
      PROVE  proc'[q].id # proc'[x].id
  BY <1>1, <1>3 DEF IInv
<1>4. QED
  BY <1>2, <1>3 DEF IInv

\* What a process knows at the beginning of its step, and what it becomes
LEMMA Working ==
    ASSUME IInv, NEW p \in Proc
    PROVE  \E s \in ProcState : proc[p] = s /\ SubjectOK(s) /\ SessionOK(s)
<1>1. proc[p] \in ProcState /\ SubjectOK(proc[p]) /\ SessionOK(proc[p])
  BY TypeSplit DEF IInv
<1>2. PICK s \in ProcState : proc[p] = s
  BY <1>1
<1>3. QED
  BY <1>1, <1>2

LEMMA Reached ==
    ASSUME IInv, TypeInv', NEW p \in Proc, NEW x, Become(p, x)
    PROVE  \E t \in ProcState : t = x /\ SubjectOK(t) /\ Become(p, t)
<1>1. proc \in [Proc -> ProcState] /\ proc' \in [Proc -> ProcState]
  BY TypeSplit DEF IInv, TypeInv, TypeOK
<1>2. proc'[p] = x /\ SubjectOK(proc'[p])
  BY <1>1 DEF Become, TypeInv
<1>3. QED
  BY <1>1, <1>2

LEMMA EndedOK ==
    ASSUME NEW s \in ProcState, SessionOK(s)
    PROVE  SessionOK(Ended(s)) /\ SessionOK(Idle) /\ Ended(s).pc # "pin" /\ Idle.pc # "pin"
<1>1. Ended(s).pc \in {"idle", "due"} /\ Ended(s).due \in {{}, s.due}
  BY EndedType
<1>2. Idle.pc = "idle" /\ Idle.due = {}
  BY DEF Idle
<1>3. QED
  BY <1>1, <1>2 DEF SessionOK, Held

\* A step that touches nothing but the process itself
LEMMA LocalStep ==
    ASSUME IInv, TypeInv', NEW p \in Proc, NEW t \in ProcState, SubjectOK(t), Become(p, t),
           UNCHANGED <<content, release, moves>>, spent'.moves = spent.moves,
           SessionOK(t),
           \A q \in Proc \ {p} : proc[q].pc = "pin" /\ t.pc = "pin" => proc[q].id # t.id
    PROVE  IInv'
<1>1. Grows
  BY DEF Grows, Created, content, moves
<1>2. \A q \in Release : CopyOK(q, release[q])'
  BY <1>1, SameCopies
<1>3. FactsOK'
  BY FactsStay DEF content, moves
<1>4. t.pc = "pin" => ~Created(t.id)'
  BY DEF SessionOK, Created
<1>5. SessionOK(t)'
  BY <1>1, <1>4, SessionStays
<1>6. \A q \in Proc \ {p} : proc[q].pc = "pin" => release'[proc[q].id].state = "none"
  BY DEF IInv, SessionOK, Created
<1>7. QED
  BY <1>1, <1>2, <1>3, <1>5, <1>6, StepSessions

\* A record is written back whole.
LEMMA SaveGrows ==
    ASSUME IInv, NEW r \in Release, NEW c \in ReleaseRecord,
           release' = [release EXCEPT ![r] = c], UNCHANGED <<content, moves>>,
           c.state # "none",
           Created(r) => c.pin = release[r].pin /\ c.prev = release[r].prev,
           CopyOK(r, c)
    PROVE  Grows /\ CopyOK(r, c)'
<1>1. release \in [Release -> ReleaseRecord]
  BY TypeSplit DEF IInv, RestOK
<1>2. Grows
  BY <1>1 DEF Grows, Created, content, moves
<1>3. QED
  BY <1>2, CopyStays

LEMMA SaveStep ==
    ASSUME IInv, TypeInv', NEW p \in Proc, NEW r \in Release, r = proc[p].id,
           proc[p].pc \in Held \cup {"pin"}, NEW c \in ReleaseRecord,
           release' = [release EXCEPT ![r] = c], UNCHANGED <<content, moves, spent>>,
           NEW t \in ProcState, SubjectOK(t), Become(p, t),
           c.state # "none", t.pc # "pin", SessionOK(t)', CopyOK(r, c),
           Created(r) => c.pin = release[r].pin /\ c.prev = release[r].prev
    PROVE  IInv'
<1>1. Grows /\ CopyOK(r, c)'
  BY SaveGrows
<1>2. \A q \in Release : CopyOK(q, release[q])'
  BY <1>1, SavedCopies
<1>3. FactsOK'
  BY FactsStay DEF content, moves
<1>4. ASSUME NEW q \in Proc \ {p}, proc[q].pc = "pin"
      PROVE  release'[proc[q].id].state = "none"
  <2>1. SessionOK(proc[q]) /\ SessionOK(proc[p]) /\ SubjectOK(proc[q])
    BY TypeSplit DEF IInv
  <2>2. release[proc[q].id].state = "none" /\ proc[q].id \in Release
    BY <1>4, <2>1 DEF SessionOK, Created, SubjectOK, OnRecord
  <2>3. proc[p].pc \in Held => release[r].state # "none"
    BY <2>1 DEF SessionOK, HeldOK, Created
  <2>4. proc[p].pc = "pin" => proc[q].id # r
    BY <1>4 DEF IInv
  <2>5. proc[q].id # r
    BY <2>2, <2>3, <2>4
  <2>6. QED
    BY <2>2, <2>5
<1>5. QED
  BY <1>1, <1>2, <1>3, <1>4, StepSessions

\* The same, when the operation ends with it
LEMMA SaveEnds ==
    ASSUME IInv, TypeInv', NEW p \in Proc, NEW r \in Release, r = proc[p].id,
           proc[p].pc \in Held \cup {"pin"}, NEW c \in ReleaseRecord,
           SaveAndEnd(p, c), UNCHANGED <<content, moves, spent>>,
           c.state # "none", CopyOK(r, c),
           Created(r) => c.pin = release[r].pin /\ c.prev = release[r].prev
    PROVE  IInv'
<1>1. PICK s \in ProcState : proc[p] = s /\ SubjectOK(s) /\ SessionOK(s)
  BY Working
<1>2. PICK t \in ProcState : t = Ended(s) /\ SubjectOK(t) /\ Become(p, t)
  BY <1>1, Reached DEF SaveAndEnd
<1>3. SessionOK(t) /\ t.pc # "pin"
  BY <1>1, <1>2, EndedOK
<1>4. release' = [release EXCEPT ![r] = c]
  BY DEF SaveAndEnd
<1>5. Grows
  BY <1>4, SaveGrows
<1>6. SessionOK(t)'
  BY <1>2, <1>3, <1>5, SessionStays
<1>7. QED
  BY <1>2, <1>3, <1>4, <1>6, SaveStep

-----------------------------------------------------------------------------
(* The steps of a process, one lemma each *)

\* Every entry that is read is pinned; only what is published, and so was
\* approved, is noted as what the release replaces.
LEMMA PinMemberStep == ASSUME IInv, TypeInv', NEW p \in Proc, PinMember(p) PROVE IInv'
<1>1. PICK s \in ProcState : proc[p] = s /\ SubjectOK(s) /\ SessionOK(s)
  BY Working
<1>2. PICK e \in s.todo :
        Become(p, [s EXCEPT !.todo = @ \ {e}, !.copy.pin[e] = draft[e],
                            !.copy.prev[e] = published[e]])
  BY <1>1 DEF PinMember
<1>3. PICK t \in ProcState :
        /\ t = [s EXCEPT !.todo = @ \ {e}, !.copy.pin[e] = draft[e],
                         !.copy.prev[e] = published[e]]
        /\ SubjectOK(t) /\ Become(p, t)
  BY <1>2, Reached
<1>4. /\ s.pc = "pin" /\ UNCHANGED <<content, release, moves, spent>>
  BY <1>1 DEF PinMember, At
<1>5. s.copy.prev \in [Entry -> 0..MaxRev] /\ e \in Entry
  BY DEF ProcState, ReleaseRecord, Revs
<1>6. /\ t.pc = s.pc /\ t.id = s.id /\ t.due = s.due
      /\ t.copy.state = s.copy.state /\ t.copy.sched = s.copy.sched
      /\ t.copy.prev = [s.copy.prev EXCEPT ![e] = published[e]]
  <2>1. s.copy \in ReleaseRecord
    BY DEF ProcState
  <2>2. PICK c : c = [s.copy EXCEPT !.pin[e] = draft[e], !.prev[e] = published[e]]
    OBVIOUS
  <2>3. /\ c.state = s.copy.state /\ c.sched = s.copy.sched
        /\ c.prev = [s.copy.prev EXCEPT ![e] = published[e]]
    BY <2>1, <2>2 DEF ReleaseRecord
  <2>4. t = [s EXCEPT !.todo = @ \ {e}, !.copy = c]
    BY <1>3, <2>1, <2>2 DEF ProcState, ReleaseRecord
  <2>5. /\ t.pc = s.pc /\ t.id = s.id /\ t.due = s.due /\ t.copy = c
    BY <2>4 DEF ProcState
  <2>6. QED
    BY <2>3, <2>5
<1>7. CopyOK(t.id, t.copy)
  <2>1. CopyOK(s.id, s.copy) /\ PublishedWasApproved
    BY <1>1, <1>4 DEF SessionOK, IInv, FactsOK
  <2>2. QED
    BY <1>5, <1>6, <2>1 DEF CopyOK, PublishedWasApproved
<1>8. SessionOK(t)
  BY <1>1, <1>4, <1>6, <1>7 DEF SessionOK, Held
<1>9. \A q \in Proc \ {p} : proc[q].pc = "pin" => proc[q].id # t.id
  BY <1>1, <1>4, <1>6 DEF IInv
<1>10. QED
  BY <1>3, <1>4, <1>8, <1>9, LocalStep

LEMMA SaveCreatedStep == ASSUME IInv, TypeInv', NEW p \in Proc, SaveCreated(p) PROVE IInv'
<1>1. PICK s \in ProcState : proc[p] = s /\ SubjectOK(s) /\ SessionOK(s)
  BY Working
<1>2. /\ s.pc = "pin" /\ s.id \in Release /\ s.copy \in ReleaseRecord
      /\ SaveAndEnd(p, [s.copy EXCEPT !.state = "draft"])
      /\ UNCHANGED <<content, moves, spent>>
  BY <1>1 DEF SaveCreated, At, SubjectOK, OnRecord, ProcState
<1>3. PICK c \in ReleaseRecord : c = [s.copy EXCEPT !.state = "draft"]
  BY <1>2, CopyTypes
<1>4. c.state = "draft" /\ c.sched = s.copy.sched /\ c.prev = s.copy.prev
  BY <1>2, <1>3 DEF ReleaseRecord
<1>5. CopyOK(s.id, c)
  BY <1>1, <1>2, <1>4 DEF SessionOK, CopyOK, Final
<1>6. ~Created(s.id)
  BY <1>1, <1>2 DEF SessionOK
<1>7. QED
  BY <1>1, <1>2, <1>3, <1>4, <1>5, <1>6, SaveEnds

\* The copy is the record as it is.
LEMMA GetReleaseStep == ASSUME IInv, TypeInv', NEW p \in Proc, GetRelease(p) PROVE IInv'
<1>1. PICK s \in ProcState : proc[p] = s /\ SubjectOK(s) /\ SessionOK(s)
  BY Working
<1>2. /\ s.pc = "get" /\ s.id \in Release /\ UNCHANGED <<content, release, moves, spent>>
      /\ Created(s.id) /\ s.todo = Members[s.id]
  BY <1>1 DEF GetRelease, At, SubjectOK, OnRecord, SessionOK
<1>3. PICK c \in ReleaseRecord : c = release[s.id]
  BY <1>2, TypeSplit DEF IInv, RestOK
<1>4. CASE Allows(s.op, c)
  <2>1. Become(p, [s EXCEPT !.copy = c, !.pc = FirstStep(s.op)])
    BY <1>1, <1>3, <1>4 DEF GetRelease
  <2>2. PICK t \in ProcState : /\ t = [s EXCEPT !.copy = c, !.pc = FirstStep(s.op)]
                               /\ SubjectOK(t) /\ Become(p, t)
    BY <2>1, Reached
  <2>3. /\ t.pc = FirstStep(s.op) /\ t.id = s.id /\ t.due = s.due
        /\ t.copy = c /\ t.todo = s.todo
    BY <2>2 DEF ProcState
  <2>4. t.pc \in {"cancel", "restore", "assess"}
    BY <2>3 DEF FirstStep
  <2>5. t.pc = "restore" => c.state = "published"
    BY <1>4, <2>3 DEF FirstStep, Allows
  <2>6. CopyOK(s.id, c)
    BY <1>2, <1>3 DEF IInv, CopyOK
  <2>7. HeldOK(t)
    BY <1>2, <1>3, <2>3, <2>4, <2>5, <2>6 DEF HeldOK
  <2>8. SessionOK(t)
    BY <1>1, <2>3, <2>4, <2>7 DEF SessionOK
  <2>9. QED
    BY <1>2, <2>2, <2>4, <2>8, LocalStep
<1>5. CASE ~Allows(s.op, c)
  <2>1. Become(p, Ended(s))
    BY <1>1, <1>3, <1>5 DEF GetRelease
  <2>2. QED
    BY <1>1, <1>2, <2>1, EndedOK, EndedType, LocalStep
<1>6. QED
  BY <1>4, <1>5

\* A member that was found ready was approved at its pin, and that stays so.
LEMMA AssessMemberStep ==
    ASSUME IInv, TypeInv', NEW p \in Proc, AssessMember(p) PROVE IInv'
<1>1. PICK s \in ProcState : proc[p] = s /\ SubjectOK(s) /\ SessionOK(s)
  BY Working
<1>2. PICK e \in s.todo :
        Become(p, [s EXCEPT !.todo = @ \ {e},
                     !.ok = @ /\ draft[e] = s.copy.pin[e] /\ CanPublish(e, s.copy.pin[e])])
  BY <1>1 DEF AssessMember
<1>3. PICK t \in ProcState :
        /\ t = [s EXCEPT !.todo = @ \ {e},
                  !.ok = @ /\ draft[e] = s.copy.pin[e] /\ CanPublish(e, s.copy.pin[e])]
        /\ SubjectOK(t) /\ Become(p, t)
  BY <1>2, Reached
<1>4. s.pc = "assess" /\ UNCHANGED <<content, release, moves, spent>>
  BY <1>1 DEF AssessMember, At
<1>5. /\ t.pc = s.pc /\ t.id = s.id /\ t.due = s.due /\ t.copy = s.copy
      /\ t.todo = s.todo \ {e}
      /\ t.ok => s.ok /\ CanPublish(e, s.copy.pin[e])
  BY <1>3 DEF ProcState
<1>6. HeldOK(s)
  BY <1>1, <1>4 DEF SessionOK, Held
<1>7. CanPublish(e, s.copy.pin[e]) => s.copy.pin[e] \in approved[e]
  BY DEF CanPublish, IInv, FactsOK, ProcState
<1>8. HeldOK(t)
  BY <1>4, <1>5, <1>6, <1>7 DEF HeldOK
<1>9. SessionOK(t)
  BY <1>1, <1>4, <1>5, <1>8 DEF SessionOK
<1>10. QED
  BY <1>3, <1>4, <1>5, <1>9, LocalStep

LEMMA AssessTogetherStep ==
    ASSUME IInv, TypeInv', NEW p \in Proc, AssessTogether(p) PROVE IInv'
<1>1. PICK s \in ProcState : proc[p] = s /\ SubjectOK(s) /\ SessionOK(s)
  BY Working
<1>2. PICK refused \in BOOLEAN :
        Become(p, [s EXCEPT
            !.ok = @ /\ ~refused /\ ~RoutesCollide(s.id, s.copy.pin),
            !.pc = IF s.again THEN "swap" ELSE "validated"])
  BY <1>1 DEF AssessTogether
<1>3. PICK t \in ProcState :
        /\ t = [s EXCEPT
                  !.ok = @ /\ ~refused /\ ~RoutesCollide(s.id, s.copy.pin),
                  !.pc = IF s.again THEN "swap" ELSE "validated"]
        /\ SubjectOK(t) /\ Become(p, t)
  BY <1>2, Reached
<1>4. s.pc = "assess" /\ s.todo = {} /\ UNCHANGED <<content, release, moves, spent>>
  BY <1>1 DEF AssessTogether, At
<1>5. /\ t.pc \in {"swap", "validated"} /\ t.id = s.id /\ t.due = s.due
      /\ t.copy = s.copy /\ t.todo = s.todo /\ (t.ok => s.ok)
  BY <1>3 DEF ProcState
<1>6. HeldOK(s)
  BY <1>1, <1>4 DEF SessionOK, Held
<1>7. HeldOK(t)
  BY <1>4, <1>5, <1>6 DEF HeldOK
<1>8. SessionOK(t)
  BY <1>1, <1>5, <1>7 DEF SessionOK
<1>9. QED
  BY <1>3, <1>4, <1>5, <1>8, LocalStep

\* A copy goes back with the pins it came with, and claims only what has happened.
LEMMA HeldSave ==
    ASSUME IInv, NEW s \in ProcState, s.pc \in Held, SessionOK(s), NEW c \in ReleaseRecord,
           c.pin = s.copy.pin, c.prev = s.copy.prev,
           c.state \in Final \/ c.sched = "executed" => s.id \in swapped,
           c.state = "rolled-back" => s.id \in restored
    PROVE  /\ CopyOK(s.id, c) /\ Created(s.id)
           /\ c.pin = release[s.id].pin /\ c.prev = release[s.id].prev
BY DEF SessionOK, HeldOK, CopyOK

LEMMA HeldEnds ==
    ASSUME IInv, TypeInv', NEW p \in Proc, NEW s \in ProcState, proc[p] = s, s.pc \in Held,
           NEW c \in ReleaseRecord, SaveAndEnd(p, c), UNCHANGED <<content, moves, spent>>,
           c.state # "none", c.pin = s.copy.pin, c.prev = s.copy.prev,
           c.state \in Final \/ c.sched = "executed" => s.id \in swapped,
           c.state = "rolled-back" => s.id \in restored
    PROVE  IInv'
<1>1. SessionOK(s) /\ SubjectOK(s)
  <2>1. PICK u \in ProcState : proc[p] = u /\ SubjectOK(u) /\ SessionOK(u)
    BY Working
  <2>2. QED
    BY <2>1
<1>2. s.id \in Release
  BY <1>1 DEF SubjectOK, OnRecord
<1>3. /\ CopyOK(s.id, c) /\ Created(s.id)
      /\ c.pin = release[s.id].pin /\ c.prev = release[s.id].prev
  BY <1>1, HeldSave
<1>4. QED
  BY <1>2, <1>3, SaveEnds

LEMMA Claims ==
    ASSUME NEW s \in ProcState, s.pc \in Held, SessionOK(s)
    PROVE  /\ s.copy \in ReleaseRecord
           /\ s.copy.state \in Final \/ s.copy.sched = "executed" => s.id \in swapped
           /\ s.copy.state = "rolled-back" => s.id \in restored
BY DEF SessionOK, HeldOK, CopyOK, ProcState

LEMMA SaveValidatedStep ==
    ASSUME IInv, TypeInv', NEW p \in Proc, SaveValidated(p) PROVE IInv'
<1>1. PICK s \in ProcState : proc[p] = s /\ SubjectOK(s) /\ SessionOK(s)
  BY Working
<1>2. s.pc = "validated" /\ s.pc \in Held /\ UNCHANGED <<content, moves, spent>>
  BY <1>1 DEF SaveValidated, At, Held
<1>3. /\ s.copy \in ReleaseRecord
      /\ s.copy.state \in Final \/ s.copy.sched = "executed" => s.id \in swapped
  BY <1>1, <1>2, Claims
<1>4. Validated(s.copy, s.ok) \in ReleaseRecord
  BY <1>3 DEF Validated, Sched, ReleaseRecord
<1>5. PICK c \in ReleaseRecord : c = Validated(s.copy, s.ok)
  BY <1>4
<1>6. /\ c.state \in {"draft", "scheduled", "validated"}
      /\ c.sched \in {s.copy.sched, "failed"}
      /\ c.pin = s.copy.pin /\ c.prev = s.copy.prev
  BY <1>3, <1>5 DEF Validated, Sched, ReleaseRecord
<1>7. CASE s.ok /\ s.op \in {"schedule", "execute"}
  <2>1. Save(p, c, [s EXCEPT !.pc = s.op])
    BY <1>1, <1>5, <1>7 DEF SaveValidated
  <2>2. PICK t \in ProcState : /\ t = [[s EXCEPT !.pc = s.op] EXCEPT !.copy = c]
                               /\ SubjectOK(t) /\ Become(p, t)
    BY <2>1, Reached DEF Save
  <2>3. t.pc = s.op /\ t.copy = c /\ t.id = s.id /\ t.due = s.due
    BY <2>2 DEF ProcState
  <2>4. release' = [release EXCEPT ![s.id] = c] /\ s.id \in Release
    BY <1>1, <1>2, <2>1 DEF Save, SubjectOK, OnRecord
  <2>5. /\ CopyOK(s.id, c) /\ Created(s.id)
        /\ c.pin = release[s.id].pin /\ c.prev = release[s.id].prev
    BY <1>1, <1>2, <1>3, <1>6, HeldSave DEF Final
  <2>6. Grows /\ CopyOK(s.id, c)'
    BY <1>2, <1>6, <2>4, <2>5, SaveGrows
  <2>7. release'[s.id] = c
    BY <2>4, TypeSplit DEF IInv, RestOK
  <2>8. HeldOK(t)'
    BY <1>6, <1>7, <2>3, <2>6, <2>7 DEF HeldOK, Created
  <2>9. \A r \in t.due : Created(r)'
    BY <1>1, <2>3, <2>6 DEF SessionOK, Grows, ProcState
  <2>10. SessionOK(t)' /\ t.pc # "pin"
    BY <1>7, <2>3, <2>8, <2>9 DEF SessionOK
  <2>11. QED
    BY <1>1, <1>2, <1>6, <2>2, <2>4, <2>5, <2>10, SaveStep
<1>8. CASE ~(s.ok /\ s.op \in {"schedule", "execute"})
  <2>1. SaveAndEnd(p, c)
    BY <1>1, <1>5, <1>8 DEF SaveValidated
  <2>2. QED
    BY <1>1, <1>2, <1>3, <1>6, <2>1, HeldEnds DEF Final
<1>9. QED
  BY <1>7, <1>8

LEMMA SaveScheduledStep ==
    ASSUME IInv, TypeInv', NEW p \in Proc, SaveScheduled(p) PROVE IInv'
<1>1. PICK s \in ProcState : proc[p] = s /\ SubjectOK(s) /\ SessionOK(s)
  BY Working
<1>2. /\ s.pc = "schedule" /\ s.pc \in Held /\ UNCHANGED <<content, moves, spent>>
      /\ SaveAndEnd(p, [s.copy EXCEPT !.state = "scheduled", !.sched = "pending"])
  BY <1>1 DEF SaveScheduled, At, Held
<1>3. PICK c \in ReleaseRecord :
        c = [s.copy EXCEPT !.state = "scheduled", !.sched = "pending"]
  BY <1>1, <1>2, Claims, CopyTypes
<1>4. /\ c.state = "scheduled" /\ c.sched = "pending"
      /\ c.pin = s.copy.pin /\ c.prev = s.copy.prev
  BY <1>1, <1>2, <1>3, Claims DEF ReleaseRecord
<1>5. QED
  BY <1>1, <1>2, <1>3, <1>4, HeldEnds DEF Final

LEMMA CancelScheduleStep ==
    ASSUME IInv, TypeInv', NEW p \in Proc, CancelSchedule(p) PROVE IInv'
<1>1. PICK s \in ProcState : proc[p] = s /\ SubjectOK(s) /\ SessionOK(s)
  BY Working
<1>2. /\ s.pc = "cancel" /\ s.pc \in Held /\ UNCHANGED <<content, moves, spent>>
      /\ SaveAndEnd(p, [s.copy EXCEPT !.state = "validated", !.sched = "cancelled"])
  BY <1>1 DEF CancelSchedule, At, Held
<1>3. PICK c \in ReleaseRecord :
        c = [s.copy EXCEPT !.state = "validated", !.sched = "cancelled"]
  BY <1>1, <1>2, Claims, CopyTypes
<1>4. /\ c.state = "validated" /\ c.sched = "cancelled"
      /\ c.pin = s.copy.pin /\ c.prev = s.copy.prev
  BY <1>1, <1>2, <1>3, Claims DEF ReleaseRecord
<1>5. QED
  BY <1>1, <1>2, <1>3, <1>4, HeldEnds DEF Final

\* The second assessment starts over.
LEMMA SaveExecutingStep ==
    ASSUME IInv, TypeInv', NEW p \in Proc, SaveExecuting(p) PROVE IInv'
<1>1. PICK s \in ProcState : proc[p] = s /\ SubjectOK(s) /\ SessionOK(s)
  BY Working
<1>2. s.pc = "execute" /\ s.pc \in Held /\ UNCHANGED <<content, moves, spent>>
  BY <1>1 DEF SaveExecuting, At, Held
<1>3. s.id \in Release
  BY <1>1, <1>2 DEF SubjectOK, OnRecord
<1>4. PICK c \in ReleaseRecord : c = [s.copy EXCEPT !.state = "executing"]
  BY <1>1, <1>2, Claims, CopyTypes
<1>5. /\ c.state = "executing" /\ c.sched = s.copy.sched
      /\ c.pin = s.copy.pin /\ c.prev = s.copy.prev
  BY <1>1, <1>2, <1>4, Claims DEF ReleaseRecord
<1>6. Save(p, c, [s EXCEPT !.pc = "assess", !.todo = Members[s.id], !.again = TRUE])
  BY <1>1, <1>4 DEF SaveExecuting
<1>7. PICK t \in ProcState :
        /\ t = [[s EXCEPT !.pc = "assess", !.todo = Members[s.id], !.again = TRUE]
                  EXCEPT !.copy = c]
        /\ SubjectOK(t) /\ Become(p, t)
  BY <1>6, Reached DEF Save
<1>8. /\ t.pc = "assess" /\ t.copy = c /\ t.id = s.id /\ t.due = s.due
      /\ t.todo = Members[s.id]
  BY <1>7 DEF ProcState
<1>9. release' = [release EXCEPT ![s.id] = c]
  BY <1>1, <1>6 DEF Save
<1>10. /\ CopyOK(s.id, c) /\ Created(s.id)
       /\ c.pin = release[s.id].pin /\ c.prev = release[s.id].prev
  BY <1>1, <1>2, <1>5, Claims, HeldSave DEF Final
<1>11. Grows /\ CopyOK(s.id, c)'
  BY <1>2, <1>3, <1>5, <1>9, <1>10, SaveGrows
<1>12. release'[s.id] = c
  BY <1>3, <1>9, TypeSplit DEF IInv, RestOK
<1>13. HeldOK(t)'
  BY <1>5, <1>8, <1>11, <1>12 DEF HeldOK, Created
<1>14. \A r \in t.due : Created(r)'
  BY <1>1, <1>8, <1>11 DEF SessionOK, Grows, ProcState
<1>15. SessionOK(t)' /\ t.pc # "pin"
  BY <1>8, <1>13, <1>14 DEF SessionOK
<1>16. QED
  BY <1>1, <1>2, <1>3, <1>5, <1>7, <1>9, <1>10, <1>15, SaveStep

\* A step on content, which leaves the records alone
LEMMA ContentStep ==
    ASSUME IInv, TypeInv', NEW p \in Proc, NEW t \in ProcState, SubjectOK(t), Become(p, t),
           Grows, release' = release, FactsOK', t.pc # "pin", SessionOK(t)'
    PROVE  IInv'
<1>1. \A q \in Release : CopyOK(q, release[q])'
  BY SameCopies
<1>2. \A q \in Proc \ {p} : proc[q].pc = "pin" => release'[proc[q].id].state = "none"
  BY DEF IInv, SessionOK, Created
<1>3. QED
  BY <1>1, <1>2, StepSessions

\* All members move, to revisions that were approved, or none.
LEMMA PublishManyStep ==
    ASSUME IInv, TypeInv', NEW p \in Proc, PublishMany(p) PROVE IInv'
<1>1. PICK s \in ProcState : proc[p] = s /\ SubjectOK(s) /\ SessionOK(s)
  BY Working
<1>2. s.pc = "swap" /\ s.id \in Release /\ HeldOK(s) /\ s.copy.pin \in Revs
  BY <1>1 DEF PublishMany, At, SubjectOK, OnRecord, SessionOK, Held, ProcState, ReleaseRecord
<1>3. Members[s.id] \in SUBSET Entry
  BY <1>2, ReleaseAssumption
<1> DEFINE X == MovedMembers(s.id, s.copy)
<1>4. CASE s.ok /\ X # {}
  <2>1. X = Members[s.id]
    BY <1>4 DEF MovedMembers
  <2>2. /\ Move(X, s.copy.pin, s.id) /\ swapped' = swapped \cup {s.id}
        /\ Become(p, [s EXCEPT !.pc = "tell", !.todo = X])
        /\ UNCHANGED <<draft, flow, release, approved, restored>>
    BY <1>1, <1>4 DEF PublishMany
  <2>3. \A e \in X : s.copy.pin[e] \in approved[e]
    BY <1>2, <1>4, <2>1 DEF HeldOK
  <2> HIDE DEF X
  <2>4. FactsOK'
    BY <1>2, <1>3, <2>1, <2>2, <2>3, MoveFacts
  <2>5. PICK t \in ProcState : /\ t = [s EXCEPT !.pc = "tell", !.todo = X]
                               /\ SubjectOK(t) /\ Become(p, t)
    BY <2>2, Reached
  <2>6. t.pc = "tell" /\ t.id = s.id /\ t.copy = s.copy /\ t.due = s.due
    BY <2>5 DEF ProcState
  <2>7. Grows
    BY <2>2 DEF Grows, Created
  <2>8. CopyOK(s.id, s.copy)'
    BY <1>2, <2>7, CopyStays DEF HeldOK, ProcState
  <2>9. HeldOK(t)'
    BY <1>2, <2>2, <2>6, <2>8 DEF HeldOK, Created
  <2>10. \A r \in t.due : Created(r)'
    BY <1>1, <2>2, <2>6 DEF SessionOK, Created
  <2>11. SessionOK(t)'
    BY <2>6, <2>9, <2>10 DEF SessionOK
  <2>12. QED
    BY <2>2, <2>4, <2>5, <2>6, <2>7, <2>11, ContentStep
<1>5. CASE ~(s.ok /\ X # {})
  <2>1. /\ Become(p, [s EXCEPT !.pc = "failed"])
        /\ UNCHANGED <<content, release, moves, spent>>
    BY <1>1, <1>5 DEF PublishMany, Go, content, moves
  <2>2. PICK t \in ProcState : /\ t = [s EXCEPT !.pc = "failed"]
                               /\ SubjectOK(t) /\ Become(p, t)
    BY <2>1, Reached
  <2>3. t.pc = "failed" /\ t.id = s.id /\ t.copy = s.copy /\ t.due = s.due
    BY <2>2 DEF ProcState
  <2>4. SessionOK(t)
    BY <1>1, <1>2, <2>3 DEF SessionOK, HeldOK
  <2>5. QED
    BY <2>1, <2>2, <2>3, <2>4, LocalStep
<1>6. QED
  BY <1>4, <1>5

LEMMA TellWorkflowStep ==
    ASSUME IInv, TypeInv', NEW p \in Proc, TellWorkflow(p) PROVE IInv'
<1>1. PICK s \in ProcState : proc[p] = s /\ SubjectOK(s) /\ SessionOK(s)
  BY Working
<1>2. /\ s.pc = "tell" /\ HeldOK(s)
      /\ UNCHANGED <<draft, published, release, approved, moves, spent>>
  BY <1>1 DEF TellWorkflow, At, SessionOK, Held
<1>3. PICK e \in s.todo :
        IF flow[e].state = "approved"
        THEN flow' = Told({e}) /\ Become(p, [s EXCEPT !.todo = @ \ {e}])
        ELSE Go(p, "failed") /\ UNCHANGED flow
  BY <1>1 DEF TellWorkflow
<1>4. e \in Entry
  BY DEF ProcState
<1>5. CASE flow[e].state = "approved"
  <2>1. flow' = Told({e}) /\ Become(p, [s EXCEPT !.todo = @ \ {e}])
    BY <1>3, <1>5
  <2>2. FactsOK'
    BY <1>2, <1>4, <1>5, <2>1, ToldFacts DEF moves
  <2>3. PICK t \in ProcState : /\ t = [s EXCEPT !.todo = @ \ {e}]
                               /\ SubjectOK(t) /\ Become(p, t)
    BY <2>1, Reached
  <2>4. t.pc = s.pc /\ t.id = s.id /\ t.copy = s.copy /\ t.due = s.due
    BY <2>3 DEF ProcState
  <2>5. Grows
    BY <1>2 DEF Grows, Created, moves
  <2>6. SessionOK(t)
    BY <1>1, <1>2, <2>4 DEF SessionOK, HeldOK
  <2>7. SessionOK(t)' /\ t.pc # "pin"
    BY <1>2, <2>3, <2>4, <2>5, <2>6, SessionStays
  <2>8. QED
    BY <1>2, <2>2, <2>3, <2>5, <2>7, ContentStep
<1>6. CASE flow[e].state # "approved"
  <2>1. Become(p, [s EXCEPT !.pc = "failed"]) /\ UNCHANGED flow
    BY <1>1, <1>3, <1>6 DEF Go
  <2>2. PICK t \in ProcState : /\ t = [s EXCEPT !.pc = "failed"]
                               /\ SubjectOK(t) /\ Become(p, t)
    BY <2>1, Reached
  <2>3. t.pc = "failed" /\ t.id = s.id /\ t.copy = s.copy /\ t.due = s.due
    BY <2>2 DEF ProcState
  <2>4. SessionOK(t)
    BY <1>1, <1>2, <2>3 DEF SessionOK, HeldOK
  <2>5. QED
    BY <1>2, <2>1, <2>2, <2>3, <2>4, LocalStep DEF content
<1>7. QED
  BY <1>5, <1>6

\* Only who has moved the pointers records a publication.
LEMMA SavePublishedStep ==
    ASSUME IInv, TypeInv', NEW p \in Proc, SavePublished(p) PROVE IInv'
<1>1. PICK s \in ProcState : proc[p] = s /\ SubjectOK(s) /\ SessionOK(s)
  BY Working
<1>2. /\ s.pc = "tell" /\ s.pc \in Held /\ UNCHANGED <<content, moves, spent>>
      /\ SaveAndEnd(p, [s.copy EXCEPT !.state = "published",
                                      !.sched = Sched(s.copy, "executed")])
  BY <1>1 DEF SavePublished, At, Held
<1>3. s.copy \in ReleaseRecord
  BY DEF ProcState
<1>4. Sched(s.copy, "executed") \in {s.copy.sched, "executed"}
  BY DEF Sched
<1>5. [s.copy EXCEPT !.state = "published", !.sched = Sched(s.copy, "executed")]
        \in ReleaseRecord
  BY <1>3, <1>4 DEF ReleaseRecord
<1>6. PICK c \in ReleaseRecord :
        c = [s.copy EXCEPT !.state = "published", !.sched = Sched(s.copy, "executed")]
  BY <1>5
<1>7. c.state = "published" /\ c.pin = s.copy.pin /\ c.prev = s.copy.prev
  BY <1>3, <1>6 DEF ReleaseRecord
<1>8. s.id \in swapped
  BY <1>1, <1>2 DEF SessionOK, HeldOK
<1>9. QED
  BY <1>1, <1>2, <1>6, <1>7, <1>8, HeldEnds

LEMMA SaveFailedStep ==
    ASSUME IInv, TypeInv', NEW p \in Proc, SaveFailed(p) PROVE IInv'
<1>1. PICK s \in ProcState : proc[p] = s /\ SubjectOK(s) /\ SessionOK(s)
  BY Working
<1>2. /\ s.pc = "failed" /\ s.pc \in Held /\ UNCHANGED <<content, moves, spent>>
      /\ SaveAndEnd(p, Failed(s.copy))
  BY <1>1 DEF SaveFailed, At, Held
<1>3. s.copy \in ReleaseRecord
  BY DEF ProcState
<1>4. Failed(s.copy) \in ReleaseRecord
  BY <1>3 DEF Failed, Sched, ReleaseRecord
<1>5. PICK c \in ReleaseRecord : c = Failed(s.copy)
  BY <1>4
<1>6. /\ c.state = "failed" /\ c.sched \in {s.copy.sched, "failed"}
      /\ c.pin = s.copy.pin /\ c.prev = s.copy.prev
  BY <1>3, <1>5 DEF Failed, Sched, ReleaseRecord
<1>7. QED
  BY <1>1, <1>2, <1>5, <1>6, Claims, HeldEnds DEF Final

\* What comes back was approved when the release replaced it.
LEMMA RollbackManyStep ==
    ASSUME IInv, TypeInv', NEW p \in Proc, RollbackMany(p) PROVE IInv'
<1>1. PICK s \in ProcState : proc[p] = s /\ SubjectOK(s) /\ SessionOK(s)
  BY Working
<1>2. s.pc = "restore" /\ s.id \in Release /\ HeldOK(s) /\ s.copy.prev \in Revs
  BY <1>1 DEF RollbackMany, At, SubjectOK, OnRecord, SessionOK, Held, ProcState,
              ReleaseRecord
<1>3. Members[s.id] \in SUBSET Entry
  BY <1>2, ReleaseAssumption
<1>4. CASE Restorable(s.id, s.copy)
  <2>1. /\ Move(Members[s.id], s.copy.prev, s.id) /\ restored' = restored \cup {s.id}
        /\ Become(p, [s EXCEPT !.pc = "restored"])
        /\ UNCHANGED <<draft, flow, release, approved, swapped>>
    BY <1>1, <1>4 DEF RollbackMany, Go
  <2>2. \A e \in Members[s.id] : s.copy.prev[e] \in approved[e]
    BY <1>2, <1>3, <1>4 DEF Restorable, HeldOK, CopyOK
  <2>3. FactsOK'
    BY <1>2, <1>3, <2>1, <2>2, MoveFacts
  <2>4. PICK t \in ProcState : /\ t = [s EXCEPT !.pc = "restored"]
                               /\ SubjectOK(t) /\ Become(p, t)
    BY <2>1, Reached
  <2>5. t.pc = "restored" /\ t.id = s.id /\ t.copy = s.copy /\ t.due = s.due
    BY <2>4 DEF ProcState
  <2>6. Grows
    BY <2>1 DEF Grows, Created
  <2>7. CopyOK(s.id, s.copy)'
    BY <1>2, <2>6, CopyStays DEF HeldOK, ProcState
  <2>8. HeldOK(t)'
    BY <1>2, <2>1, <2>5, <2>7 DEF HeldOK, Created
  <2>9. \A r \in t.due : Created(r)'
    BY <1>1, <2>1, <2>5 DEF SessionOK, Created
  <2>10. SessionOK(t)'
    BY <2>5, <2>8, <2>9 DEF SessionOK
  <2>11. QED
    BY <2>1, <2>3, <2>4, <2>5, <2>6, <2>10, ContentStep
<1>5. CASE ~Restorable(s.id, s.copy)
  <2>1. Become(p, Idle) /\ UNCHANGED <<content, release, moves, spent>>
    BY <1>1, <1>5 DEF RollbackMany, content, moves
  <2>2. QED
    BY <1>1, <2>1, Constants, EndedOK, LocalStep
<1>6. QED
  BY <1>4, <1>5

LEMMA SaveRolledBackStep ==
    ASSUME IInv, TypeInv', NEW p \in Proc, SaveRolledBack(p) PROVE IInv'
<1>1. PICK s \in ProcState : proc[p] = s /\ SubjectOK(s) /\ SessionOK(s)
  BY Working
<1>2. /\ s.pc = "restored" /\ s.pc \in Held /\ UNCHANGED <<content, moves, spent>>
      /\ SaveAndEnd(p, [s.copy EXCEPT !.state = "rolled-back"])
  BY <1>1 DEF SaveRolledBack, At, Held
<1>3. PICK c \in ReleaseRecord : c = [s.copy EXCEPT !.state = "rolled-back"]
  BY <1>1, <1>2, Claims, CopyTypes
<1>4. /\ c.state = "rolled-back" /\ c.sched = s.copy.sched
      /\ c.pin = s.copy.pin /\ c.prev = s.copy.prev
  BY <1>1, <1>2, <1>3, Claims DEF ReleaseRecord
<1>5. s.id \in swapped /\ s.id \in restored
  BY <1>1, <1>2, Claims DEF SessionOK, HeldOK, Final
<1>6. QED
  BY <1>1, <1>2, <1>3, <1>4, <1>5, HeldEnds

-----------------------------------------------------------------------------
(* Requests, passes, single publications and the content itself *)

LEMMA PassSteps ==
    ASSUME IInv, TypeInv', NEW p \in Proc, ListDue(p) \/ ExecuteDue(p) \/ EndPass(p)
    PROVE  IInv'
<1>1. PICK s \in ProcState : proc[p] = s /\ SubjectOK(s) /\ SessionOK(s)
  BY Working
<1>2. CASE ListDue(p)
  <2>1. PICK due \in SUBSET {r \in Release : release[r].state = "scheduled"
                                            /\ release[r].sched = "pending"} :
          Become(p, [Idle EXCEPT !.pc = "due", !.pass = TRUE, !.due = due])
    BY <1>2 DEF ListDue
  <2>2. PICK t \in ProcState : /\ t = [Idle EXCEPT !.pc = "due", !.pass = TRUE, !.due = due]
                               /\ SubjectOK(t) /\ Become(p, t)
    BY <2>1, Reached
  <2>3. t.pc = "due" /\ t.due = due
    BY <2>2 DEF Idle
  <2>4. SessionOK(t)
    BY <2>3 DEF SessionOK, Held, Created
  <2>5. UNCHANGED <<content, release, moves>> /\ spent'.moves = spent.moves
    BY <1>2, SpentType DEF ListDue, IInv
  <2>6. QED
    BY <2>2, <2>3, <2>4, <2>5, LocalStep
<1>3. CASE ExecuteDue(p)
  <2>1. PICK r \in s.due :
          Become(p, [s EXCEPT !.due = @ \ {r}, !.pc = "get", !.op = "execute",
                              !.id = r, !.todo = Members[r]])
    BY <1>1, <1>3 DEF ExecuteDue
  <2>2. PICK t \in ProcState : /\ t = [s EXCEPT !.due = @ \ {r}, !.pc = "get",
                                         !.op = "execute", !.id = r, !.todo = Members[r]]
                               /\ SubjectOK(t) /\ Become(p, t)
    BY <2>1, Reached
  <2>3. t.pc = "get" /\ t.id = r /\ t.todo = Members[r] /\ t.due = s.due \ {r}
    BY <2>2 DEF ProcState
  <2>4. SessionOK(t)
    BY <1>1, <2>1, <2>3 DEF SessionOK, Held
  <2>5. QED
    BY <1>3, <2>2, <2>3, <2>4, LocalStep DEF ExecuteDue
<1>4. CASE EndPass(p)
  BY <1>1, <1>4, Constants, EndedOK, LocalStep DEF EndPass
<1>5. QED
  BY <1>2, <1>3, <1>4

LEMMA CrashStep == ASSUME IInv, TypeInv', NEW p \in Proc, Crash(p) PROVE IInv'
<1>1. PICK s \in ProcState : proc[p] = s /\ SubjectOK(s) /\ SessionOK(s)
  BY Working
<1>2. /\ Become(p, Idle) /\ UNCHANGED <<content, release, moves>>
      /\ spent'.moves = spent.moves
  BY SpentType DEF Crash, IInv
<1>3. QED
  BY <1>1, <1>2, Constants, EndedOK, LocalStep

\* One creates a release that nobody works on, with an empty copy.
LEMMA BeginStep ==
    ASSUME IInv, TypeInv', NEW p \in Proc, NEW op \in Op \ {"publish", "due"},
           NEW r \in Release, Begin(p, op, r)
    PROVE  IInv'
<1>1. /\ UNCHANGED <<content, release, moves>> /\ spent'.moves = spent.moves
      /\ Become(p, [Idle EXCEPT !.op = op, !.id = r, !.todo = Members[r],
                                !.pc = IF op = "create" THEN "pin" ELSE "get"])
  BY SpentType DEF Begin, IInv
<1>2. PICK t \in ProcState :
        /\ t = [Idle EXCEPT !.op = op, !.id = r, !.todo = Members[r],
                            !.pc = IF op = "create" THEN "pin" ELSE "get"]
        /\ SubjectOK(t) /\ Become(p, t)
  BY <1>1, Reached
<1>3. /\ t.pc = IF op = "create" THEN "pin" ELSE "get"
      /\ t.id = r /\ t.todo = Members[r] /\ t.due = {} /\ t.copy = NoRelease
  BY <1>2 DEF Idle
<1>4. CopyOK(r, NoRelease) /\ NoRelease.state = "none"
  BY DEF CopyOK, NoRelease, NoRevs, Final
<1>5. IF op = "create" THEN ~Created(r) /\ \A q \in Proc : proc[q].id # r ELSE Created(r)
  BY DEF Begin, Created
<1>6. SessionOK(t)
  BY <1>3, <1>4, <1>5 DEF SessionOK, Held
<1>7. \A q \in Proc \ {p} : t.pc = "pin" => proc[q].id # t.id
  BY <1>3, <1>5
<1>8. QED
  BY ZenonT(30), <1>1, <1>2, <1>6, <1>7, LocalStep

\* Publication of one entry: what is wanted was approved when it was asked for,
\* and the draft is still what was wanted.
LEMMA PublishSteps ==
    ASSUME IInv, TypeInv', NEW p \in Proc,
           CheckRoute(p) \/ PublishOne(p) \/ TellOne(p) \/ \E e \in Entry : BeginPublish(p, e)
    PROVE  IInv'
<1>1. PICK s \in ProcState : proc[p] = s /\ SubjectOK(s) /\ SessionOK(s)
  BY Working
<1>2. CASE CheckRoute(p)
  <2>1. s.pc = "route" /\ UNCHANGED <<content, release, moves, spent>>
    BY <1>1, <1>2 DEF CheckRoute, At
  <2>2. CASE Become(p, Idle)
    BY <1>1, <2>1, <2>2, Constants, EndedOK, LocalStep
  <2>3. CASE Become(p, [s EXCEPT !.pc = "commit"])
    <3>1. PICK t \in ProcState : /\ t = [s EXCEPT !.pc = "commit"]
                                 /\ SubjectOK(t) /\ Become(p, t)
      BY <2>3, Reached
    <3>2. t.pc = "commit" /\ t.id = s.id /\ t.want = s.want /\ t.due = s.due
      BY <3>1 DEF ProcState
    <3>3. SessionOK(t)
      BY <1>1, <2>1, <3>2 DEF SessionOK, Held
    <3>4. QED
      BY <2>1, <3>1, <3>2, <3>3, LocalStep
  <2>4. QED
    BY <1>1, <1>2, <2>2, <2>3 DEF CheckRoute
<1>3. CASE PublishOne(p)
  <2>1. s.pc = "commit" /\ s.id \in Entry /\ s.want \in approved[s.id]
    BY <1>1, <1>3 DEF PublishOne, At, SubjectOK, OnEntry, SessionOK
  <2>2. CASE draft[s.id] = s.want
    <3>1. /\ Move({s.id}, draft, None) /\ Become(p, [s EXCEPT !.pc = "told"])
          /\ UNCHANGED <<draft, flow, release, approved, swapped, restored>>
      BY <1>1, <1>3, <2>2 DEF PublishOne, Go
    <3>2. draft \in Revs
      BY TypeSplit, ReleaseAssumption DEF IInv, RestOK, Revs
    <3>3. FactsOK'
      BY <2>1, <2>2, <3>1, <3>2, ReleaseAssumption, MoveFacts
    <3>4. PICK t \in ProcState : /\ t = [s EXCEPT !.pc = "told"]
                                 /\ SubjectOK(t) /\ Become(p, t)
      BY <3>1, Reached
    <3>5. t.pc = "told" /\ t.due = s.due
      BY <3>4 DEF ProcState
    <3>6. Grows
      BY <3>1 DEF Grows, Created
    <3>7. SessionOK(t)'
      BY <1>1, <3>1, <3>5 DEF SessionOK, Held, Created
    <3>8. QED
      BY <3>1, <3>3, <3>4, <3>5, <3>6, <3>7, ContentStep
  <2>3. CASE draft[s.id] # s.want
    <3>1. Become(p, Idle) /\ UNCHANGED <<content, release, moves, spent>>
      BY <1>1, <1>3, <2>3 DEF PublishOne, content, moves
    <3>2. QED
      BY <1>1, <3>1, Constants, EndedOK, LocalStep
  <2>4. QED
    BY <2>2, <2>3
<1>4. CASE TellOne(p)
  <2>1. /\ s.pc = "told" /\ s.id \in Entry /\ Become(p, Idle)
        /\ flow' = IF flow[s.id].state = "approved" THEN Told({s.id}) ELSE flow
        /\ UNCHANGED <<draft, published, release, approved, moves, spent>>
    BY <1>1, <1>4 DEF TellOne, At, SubjectOK, OnEntry
  <2>2. FactsOK'
    <3>1. CASE flow[s.id].state = "approved"
      BY <2>1, <3>1, ToldFacts DEF moves
    <3>2. CASE flow[s.id].state # "approved"
      BY <2>1, <3>2, FactsStay DEF moves
    <3>3. QED
      BY <3>1, <3>2
  <2>3. Grows
    BY <2>1 DEF Grows, Created, moves
  <2>4. PICK t \in ProcState : t = Idle
    BY Constants
  <2>5. SubjectOK(t) /\ SessionOK(t) /\ Become(p, t) /\ t.pc # "pin"
    BY <1>1, <2>1, <2>4, Constants, EndedOK
  <2>6. SessionOK(t)'
    BY <2>3, <2>5, SessionStays
  <2>7. QED
    BY <2>1, <2>2, <2>3, <2>5, <2>6, ContentStep
<1>5. CASE \E e \in Entry : BeginPublish(p, e)
  <2>1. PICK e \in Entry : BeginPublish(p, e)
    BY <1>5
  <2>2. /\ UNCHANGED <<content, release, moves>> /\ spent'.moves = spent.moves
        /\ Become(p, [Idle EXCEPT !.pc = "route", !.op = "publish", !.id = e,
                                  !.want = draft[e]])
    BY <2>1, SpentType DEF BeginPublish, IInv
  <2>3. PICK t \in ProcState :
          /\ t = [Idle EXCEPT !.pc = "route", !.op = "publish", !.id = e, !.want = draft[e]]
          /\ SubjectOK(t) /\ Become(p, t)
    BY <2>2, Reached
  <2>4. t.pc = "route" /\ t.id = e /\ t.want = draft[e] /\ t.due = {}
    BY <2>3 DEF Idle
  <2>5. draft[e] \in approved[e]
    BY <2>1 DEF BeginPublish, CanPublish, IInv, FactsOK
  <2>6. SessionOK(t)
    BY <2>4, <2>5 DEF SessionOK, Held
  <2>7. QED
    BY <2>2, <2>3, <2>4, <2>6, LocalStep
<1>6. QED
  BY <1>2, <1>3, <1>4, <1>5

\* Edits, resets, approvals and revisions of entries
LEMMA EntrySteps ==
    ASSUME IInv, TypeInv', NEW e \in Entry, Edit(e) \/ ResetFlow(e) \/ Approve(e) \/ Revise(e)
    PROVE  IInv'
<1>1. UNCHANGED <<proc, release, moves, spent, published>>
  BY DEF Edit, ResetFlow, Approve, Revise, content, moves
<1>2. /\ flow \in [Entry -> [state : {"draft", "approved", "published"}, rev : 1..MaxRev]]
      /\ approved \in [Entry -> SUBSET (1..MaxRev)]
      /\ \A f \in Entry : flow[f].state # "draft" => flow[f].rev \in approved[f]
  BY TypeSplit DEF IInv, RestOK, FactsOK
<1>3. \/ UNCHANGED <<flow, approved>>
      \/ flow' = [flow EXCEPT ![e] = [state |-> "draft", rev |-> draft[e]]]
         /\ UNCHANGED approved
      \/ flow' = [flow EXCEPT ![e].state = "draft"] /\ UNCHANGED approved
      \/ flow' = [flow EXCEPT ![e].state = "approved"]
         /\ approved' = [approved EXCEPT ![e] = @ \cup {flow[e].rev}]
  BY DEF Edit, ResetFlow, Approve, Revise
<1>4. \A f \in Entry : approved[f] \subseteq approved'[f]
  BY <1>2, <1>3
<1>5. \A f \in Entry : flow'[f].state # "draft" => flow'[f].rev \in approved'[f]
  BY <1>2, <1>3
<1>6. FactsOK'
  BY <1>1, <1>4, <1>5, FlowFacts DEF moves
<1>7. Grows
  BY <1>1, <1>4 DEF Grows, Created, moves
<1>8. \A r \in Release : CopyOK(r, release[r])'
  BY <1>1, <1>7, SameCopies
<1>9. ASSUME NEW p \in Proc PROVE SessionOK(proc[p])'
  <2>1. PICK s \in ProcState : proc[p] = s /\ SubjectOK(s) /\ SessionOK(s)
    BY Working
  <2>2. s.pc = "pin" => ~Created(s.id)'
    BY <1>1, <2>1 DEF SessionOK, Created
  <2>3. SessionOK(s)'
    BY <1>7, <2>1, <2>2, SessionStays
  <2>4. proc'[p] = s
    BY <1>1, <2>1
  <2>5. QED
    BY <2>3, <2>4 DEF SessionOK, HeldOK, Created, CopyOK
<1>10. QED
  BY <1>1, <1>6, <1>8, <1>9 DEF IInv

-----------------------------------------------------------------------------
(* The invariant, and what it means *)

LEMMA InvInit == Init => IInv
<1>1. SUFFICES ASSUME Init PROVE IInv
  OBVIOUS
<1>2. TypeInv
  BY <1>1, TypeInit
<1>3. FactsOK
  BY <1>1, ReleaseAssumption DEF Init, FactsOK, NeverPartial, PublishedWasApproved
<1>5. \A r \in Release : CopyOK(r, release[r])
  <2>1. ASSUME NEW r \in Release PROVE CopyOK(r, release[r])
    <3>1. release[r] = NoRelease
      BY <1>1 DEF Init
    <3>2. QED
      BY <3>1 DEF CopyOK, NoRelease, NoRevs, Final
  <2>2. QED
    BY <2>1
<1>6. \A p \in Proc : SessionOK(proc[p])
  BY <1>1 DEF Init, Idle, SessionOK, Held
<1>7. \A p \in Proc : proc[p].pc # "pin"
  BY <1>1 DEF Init, Idle
<1>8. QED
  BY <1>2, <1>3, <1>5, <1>6, <1>7 DEF IInv

LEMMA InvStep == IInv /\ [Next]_vars => IInv'
<1>1. SUFFICES ASSUME IInv, [Next]_vars PROVE IInv'
  OBVIOUS
<1>2. TypeInv'
  BY <1>1, TypeStep DEF IInv
<1>3. ASSUME NEW p \in Proc, Step(p) PROVE IInv'
  BY <1>1, <1>2, <1>3, PinMemberStep, SaveCreatedStep, GetReleaseStep, AssessMemberStep,
     AssessTogetherStep, SaveValidatedStep, SaveScheduledStep, CancelScheduleStep,
     SaveExecutingStep, PublishManyStep, TellWorkflowStep, SavePublishedStep,
     SaveFailedStep, RollbackManyStep, SaveRolledBackStep, PassSteps, PublishSteps DEF Step
<1>4. CASE UNCHANGED vars
  BY <1>1, <1>2, <1>4 DEF vars, content, moves, IInv, FactsOK, NeverPartial,
     PublishedWasApproved, CopyOK, SessionOK, HeldOK, Created
<1>5. CASE Next
  BY <1>1, <1>2, <1>3, <1>5, PassSteps, CrashStep, BeginStep, PublishSteps, EntrySteps
     DEF Next
<1>6. QED
  BY <1>1, <1>4, <1>5

\* What the copies of a process, the pins of a record and the pointers of the
\* entries have to do with each other holds in every reachable state.
THEOREM InvAlways == Spec => []IInv
<1>1. QED
  BY InvInit, InvStep, PTL DEF Spec

\* Every variable keeps its type, whatever is requested and however the steps of
\* the processes interleave and crash.
THEOREM TypeCorrect == Spec => []TypeOK
<1>1. IInv => TypeOK
  BY DEF IInv, TypeInv
<1>2. QED
  BY <1>1, InvAlways, PTL

\* publishMany and rollbackMany move all pointers of a release or none
\* (content-service.ts publishRelease and rollbackRelease): what moved one member
\* has moved the others, or something later has.
THEOREM NeverPartialAlways == Spec => []NeverPartial
<1>1. IInv => NeverPartial
  BY DEF IInv, FactsOK
<1>2. QED
  BY <1>1, InvAlways, PTL

\* Whoever wrote a release record last, it claims no publication, no executed
\* schedule and no rollback that did not happen, and what is published, by a
\* release, by a rollback or by itself, was approved.
THEOREM ReleasesAlwaysAccounted == Spec => []ReleasesAccounted
<1>1. IInv => PublishedWasApproved
  BY DEF IInv, FactsOK
<1>2. IInv => RecordIsBacked
  BY DEF IInv, CopyOK, RecordIsBacked
<1>3. QED
  BY <1>1, <1>2, InvAlways, PTL DEF ReleasesAccounted

\* A rollback finds in place what the release published: the pins it compares
\* with are those of its copy, and nobody has changed them in the record since.
LEMMA RollbackStep ==
    IInv /\ [Next]_vars =>
      \A r \in Release : r \in restored' \ restored =>
         \A e \in Members[r] : published[e] = release[r].pin[e]
<1>1. SUFFICES ASSUME IInv, [Next]_vars, NEW r \in Release, r \in restored' \ restored
               PROVE  \A e \in Members[r] : published[e] = release[r].pin[e]
  OBVIOUS
<1>2. PICK p \in Proc : RollbackMany(p)
  BY ZenonT(30), <1>1 DEF Next, Step, vars, moves, PinMember, SaveCreated, GetRelease, AssessMember,
     AssessTogether, SaveValidated, SaveScheduled, CancelSchedule, SaveExecuting,
     PublishMany, TellWorkflow, SavePublished, SaveFailed, RollbackMany, SaveRolledBack,
     ExecuteDue, EndPass, CheckRoute, PublishOne, TellOne, ListDue, Crash, Begin,
     BeginPublish, Edit, ResetFlow, Approve, Revise
<1>3. PICK s \in ProcState : proc[p] = s /\ SubjectOK(s) /\ SessionOK(s)
  BY <1>1, Working
<1>4. HeldOK(s)
  BY <1>2, <1>3 DEF RollbackMany, At, SessionOK, Held
<1>5. Restorable(s.id, s.copy) /\ r = s.id
  BY <1>1, <1>2, <1>3 DEF RollbackMany
<1>6. QED
  BY <1>4, <1>5 DEF Restorable, HeldOK

\* rollbackMany moves the pointers of a release only from the revisions that this
\* release pinned (content-service.ts rollbackRelease).
THEOREM RollbacksReplaceOwn == Spec => RollbackReplacesOwn
<1>1. IInv /\ [Next]_vars =>
        [\A r \in Release : r \in restored' \ restored =>
            \A e \in Members[r] : published[e] = release[r].pin[e]]_vars
  BY RollbackStep
<1>2. QED
  BY <1>1, InvAlways, PTL DEF RollbackReplacesOwn, Spec
=============================================================================
