-------------------------------- MODULE Fleet --------------------------------
(***************************************************************************)
(* Fleet observation: the members of a scope, and what checks of them      *)
(* found.  A check reads the document, asks the adapter of the member,     *)
(* perhaps for long, and writes what it got into the document it read.     *)
(* A write of the document is one step (VersionedDocument, without its     *)
(* retries).                                                               *)
(***************************************************************************)
EXTENDS Naturals, Sequences, SequencesExt

CONSTANTS
  Members,          \* ids of members
  Adapters,         \* configured observers
  Instances,        \* instances that may answer
  Operators,        \* clients that check members
  MaxObservations,  \* maximumObservations
  MaxVersion,       \* bound on the writes of the document
  None

VARIABLES
  fleet,   \* the document
  check,   \* the check each operator has under way
  lives    \* history: how often each id was registered

fvars == <<fleet, check, lives>>

Idle == [step |-> "idle", version |-> 0, id |-> None, member |-> None, found |-> None]

-----------------------------------------------------------------------------
(* The document *)

\* #replace and save: the document is as it was read, and its version goes up.
\* Mutant: the version is read, not compared.
ReplaceLatest(version, members, observations) ==
  /\ fleet.version < MaxVersion
  /\ fleet' = [version |-> fleet.version + 1, members |-> members,
               observations |-> observations]

Replace(version, members, observations) ==
  /\ fleet.version = version
  /\ fleet.version < MaxVersion
  /\ fleet' = [version |-> version + 1, members |-> members, observations |-> observations]

\* Mutant: a member that is edited is of the same generation.
SameGeneration(member) == IF member = None THEN 1 ELSE member.generation
NextGeneration(member) == IF member = None THEN 1 ELSE member.generation + 1

\* The settings change and the generation goes up; a paused member stays paused.
UpsertMember(id, adapter, expected) ==
  LET existing == fleet.members[id]
      member == [generation |-> NextGeneration(existing),
                 adapter    |-> adapter,
                 expects    |-> expected,
                 state      |-> IF existing = None THEN "active" ELSE existing.state]
  IN
  /\ Replace(fleet.version, [fleet.members EXCEPT ![id] = member], fleet.observations)
  /\ lives' = IF existing = None THEN [lives EXCEPT ![id] = @ + 1] ELSE lives
  /\ UNCHANGED check

SetMemberState(id, state) ==
  /\ fleet.members[id] # None
  /\ Replace(fleet.version,
             [fleet.members EXCEPT ![id].state = state, ![id].generation = @ + 1],
             fleet.observations)
  /\ UNCHANGED <<check, lives>>

\* What was observed of the member stays.
RemoveMember(id) ==
  /\ fleet.members[id] # None
  /\ Replace(fleet.version, [fleet.members EXCEPT ![id] = None], fleet.observations)
  /\ UNCHANGED <<check, lives>>

-----------------------------------------------------------------------------
(* checkMember *)

CheckMember(op, id) ==
  /\ check[op].step = "idle"
  /\ fleet.members[id] # None
  /\ fleet.members[id].state = "active"
  /\ check' = [check EXCEPT ![op] = [Idle EXCEPT !.step = "asked", !.version = fleet.version,
                                                 !.id = id, !.member = fleet.members[id]]]
  /\ UNCHANGED <<fleet, lives>>

\* #observe: an instance answers, or nothing valid does in time (None).
Observe(op, instance) ==
  LET member == check[op].member
      found == [id         |-> check[op].id,
                generation |-> member.generation,
                reachable  |-> instance # None,
                compatible |-> instance = member.expects,
                expired    |-> FALSE,
                adapter    |-> member.adapter,       \* history: who was asked,
                instance   |-> instance,
                life       |-> lives[check[op].id]]  \* in which life of the id
  IN
  /\ check[op].step = "asked"
  /\ check' = [check EXCEPT ![op].step = "found", ![op].found = found]
  /\ UNCHANGED <<fleet, lives>>

\* The list of observations is cut off.
Record(op) ==
  LET all == Append(fleet.observations, check[op].found)
  IN
  /\ check[op].step = "found"
  /\ Replace(check[op].version, fleet.members,
             SubSeq(all, IF Len(all) > MaxObservations THEN Len(all) - MaxObservations + 1 ELSE 1,
                    Len(all)))
  /\ check' = [check EXCEPT ![op] = Idle]
  /\ UNCHANGED lives

\* fleet_write_conflict; or the request is given up.
Refuse(op) ==
  /\ check[op].step # "idle"
  /\ check' = [check EXCEPT ![op] = Idle]
  /\ UNCHANGED <<fleet, lives>>

\* The clock passes expiresAt of an observation, recorded or not.
Expire(i) ==
  /\ ~fleet.observations[i].expired
  /\ fleet' = [fleet EXCEPT !.observations[i].expired = TRUE]
  /\ UNCHANGED <<check, lives>>

ExpireEarly(op) ==
  /\ check[op].step = "found"
  /\ ~check[op].found.expired
  /\ check' = [check EXCEPT ![op].found.expired = TRUE]
  /\ UNCHANGED <<fleet, lives>>

-----------------------------------------------------------------------------
(* snapshot, and what the Studio shows of it *)

Conditions(observation) ==
  [reachable  |-> IF observation.expired THEN "unknown"
                  ELSE IF observation.reachable THEN "true" ELSE "false",
   compatible |-> IF observation.expired \/ ~observation.reachable THEN "unknown"
                  ELSE IF observation.compatible THEN "true" ELSE "false"]

\* The last observation of this id in this generation.
IsOf(observation, id) ==
  /\ observation.id = id
  /\ observation.generation = fleet.members[id].generation

Latest(id) == SelectLastInSeq(fleet.observations, LAMBDA o : IsOf(o, id))

Init ==
  /\ fleet = [version |-> 0, members |-> [id \in Members |-> None], observations |-> <<>>]
  /\ check = [op \in Operators |-> Idle]
  /\ lives = [id \in Members |-> 0]

Next ==
  \/ \E id \in Members :
       \/ \E adapter \in Adapters, expected \in Instances : UpsertMember(id, adapter, expected)
       \/ \E state \in {"active", "paused"} : SetMemberState(id, state)
       \/ RemoveMember(id)
       \/ \E op \in Operators : CheckMember(op, id)
  \/ \E op \in Operators :
       \/ \E instance \in Instances \cup {None} : Observe(op, instance)
       \/ Record(op) \/ Refuse(op) \/ ExpireEarly(op)
  \/ \E i \in DOMAIN fleet.observations : Expire(i)

Spec == Init /\ [][Next]_fvars

-----------------------------------------------------------------------------
\* A member that is shown as compatible has answered as the instance that its
\* settings of now expect, through the adapter they name, and was not edited,
\* paused or resumed since, as long as the id was not registered anew; what is
\* shown of an expired observation is unknown.
EvidenceCurrent ==
  \A id \in Members :
    fleet.members[id] # None /\ Latest(id) # 0 =>
      LET shown == fleet.observations[Latest(id)] IN
      /\ shown.life = lives[id] /\ Conditions(shown).compatible = "true" =>
           /\ shown.instance = fleet.members[id].expects
           /\ shown.adapter = fleet.members[id].adapter
           /\ fleet.members[id].state = "active"
      /\ shown.expired => Conditions(shown).compatible = "unknown"

\* What a check writes is about the member as the document has it then: a member
\* that was removed, paused or edited while its adapter was asked gets nothing.
EvidenceInTime ==
  \A op \in Operators :
    check[op].step = "found" /\ fleet'.version # fleet.version /\ check'[op] = Idle =>
      fleet.members[check[op].id] = check[op].member

\* docs/interoperability-and-fleet.md:55 "Evidence is bound to the member generation":
\* an id that is removed and registered again starts at its first generation, and
\* evidence of the removed member is shown as its own.
EvidenceIsOwn ==
  \A id \in Members :
    fleet.members[id] # None /\ Latest(id) # 0 =>
      fleet.observations[Latest(id)].life = lives[id]
=============================================================================
