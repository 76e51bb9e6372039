--------------------------- MODULE Services_proofs ---------------------------
(***************************************************************************)
(* What the services promise, for every number of agents, items and other  *)
(* things, proved over the specification that the run Services checks on   *)
(* two of each.  Each section states the inductive invariant of a service: *)
(* its types and what relates what an agent has read to what is stored     *)
(* now.  A write of a document outdates what the others have read, which   *)
(* is why most of them speak of those whose copy is current.               *)
(***************************************************************************)
EXTENDS MCServices, Integers, Sequences, FiniteSetTheorems, WellFoundedInduction, TLAPS

-----------------------------------------------------------------------------
(* Proposals of the AI (AiAuthoring): a review that saves has read the document in which the       *)
(* proposal is still pending.                                                                      *)

ProposalType == [status : Aut!PStatus, rev : 0..MaxRev]
AuthorType == [pc : {"idle", "generate"}, id : Proposals \cup {None}, policy : Aut!Policies,
               rev : 0..MaxRev]
ReviewType == [pc : {"idle", "target", "save"}, id : Proposals \cup {None},
               verdict : Aut!Decided, current : BOOLEAN]

AuthoringTypes ==
  /\ auth \in [policy : Aut!Policies, proposals : [Proposals -> ProposalType]]
  /\ drafted \in 0..MaxRev
  /\ author \in [Agents -> AuthorType]
  /\ reviewer \in [Items -> ReviewType]

\* An author that waits for the gateway has named its proposal.
AuthorsName == \A a \in Agents : author[a].pc = "generate" => author[a].id \in Proposals

\* A review under way is of a proposal, which is still pending as long as the
\* document is the one that was read.
ReviewsPending ==
  \A r \in Items : reviewer[r].pc # "idle" =>
    /\ reviewer[r].id \in Proposals
    /\ reviewer[r].current => auth.proposals[reviewer[r].id].status = "pending"

AuthoringInv == AuthoringTypes /\ AuthorsName /\ ReviewsPending

\* Before anything is drafted nothing is pending and nobody waits.
LEMMA AuthoringInit == Aut!Init => AuthoringInv
BY Bounded DEF Aut!Init, AuthoringInv, AuthoringTypes, AuthorsName, ReviewsPending, Aut!NoAuthor,
  Aut!NoReview, Aut!Policies, Aut!PStatus, Aut!Decided, ProposalType, AuthorType, ReviewType

\* A write of the document outdates every review, and changes nothing else of it.
LEMMA OutdatedReviews ==
  ASSUME reviewer \in [Items -> ReviewType]
  PROVE  /\ Aut!Outdated \in [Items -> ReviewType]
         /\ \A r \in Items : /\ Aut!Outdated[r].current = FALSE
                             /\ Aut!Outdated[r].pc = reviewer[r].pc
                             /\ Aut!Outdated[r].id = reviewer[r].id
BY DEF Aut!Outdated, ReviewType

\* Who waits for nothing is well typed.
LEMMA NoAuthorType == Aut!NoAuthor \in AuthorType
BY Bounded DEF Aut!NoAuthor, AuthorType, Aut!Policies

\* Each operation on proposals, and each edit of their target, keeps the invariant and leaves
\* decided proposals as they are.
LEMMA AuthoringStep ==
  ASSUME AuthoringInv, Aut!Next
  PROVE  AuthoringInv' /\ Aut!DecidedStays
<1>0. AuthoringTypes /\ AuthorsName /\ ReviewsPending
  BY DEF AuthoringInv
<1>1. ASSUME NEW p \in Aut!Policies, Aut!UpdatePolicy(p)
      PROVE  AuthoringInv' /\ Aut!DecidedStays
  <2>1. AuthoringTypes'
    BY <1>0, <1>1, OutdatedReviews DEF Aut!UpdatePolicy, AuthoringTypes
  <2>2. AuthorsName' /\ ReviewsPending'
    BY <1>0, <1>1, OutdatedReviews DEF Aut!UpdatePolicy, AuthoringTypes, AuthorsName, ReviewsPending
  <2>3. Aut!DecidedStays
    BY <1>0, <1>1 DEF Aut!UpdatePolicy, AuthoringTypes, Aut!DecidedStays
  <2> QED BY <2>1, <2>2, <2>3 DEF AuthoringInv
<1>2. ASSUME NEW a \in Agents, Aut!GatewayFails(a)
      PROVE  AuthoringInv' /\ Aut!DecidedStays
  <2>1. AuthoringTypes'
    BY <1>0, <1>2, NoAuthorType DEF Aut!GatewayFails, AuthoringTypes
  <2>2. AuthorsName' /\ ReviewsPending'
    BY <1>0, <1>2 DEF Aut!GatewayFails, AuthoringTypes, AuthorsName, ReviewsPending, Aut!NoAuthor
  <2>3. Aut!DecidedStays
    BY <1>2 DEF Aut!GatewayFails, Aut!DecidedStays
  <2> QED BY <2>1, <2>2, <2>3 DEF AuthoringInv
<1>3. ASSUME NEW a \in Agents, NEW id \in Proposals, Aut!CreateProposal(a, id)
      PROVE  AuthoringInv' /\ Aut!DecidedStays
  <2>1. AuthoringTypes'
    <3>1. [pc |-> "generate", id |-> id, policy |-> auth.policy, rev |-> drafted] \in AuthorType
      BY <1>0 DEF AuthoringTypes, AuthorType
    <3> QED BY <1>0, <1>3, <3>1 DEF Aut!CreateProposal, AuthoringTypes
  <2>2. AuthorsName' /\ ReviewsPending'
    BY <1>0, <1>3 DEF Aut!CreateProposal, AuthoringTypes, AuthorsName, ReviewsPending
  <2>3. Aut!DecidedStays
    BY <1>3 DEF Aut!CreateProposal, Aut!DecidedStays
  <2> QED BY <2>1, <2>2, <2>3 DEF AuthoringInv
<1>4. ASSUME NEW a \in Agents, NEW b \in BOOLEAN, Aut!StoreProposal(a, b)
      PROVE  AuthoringInv' /\ Aut!DecidedStays
  <2> DEFINE id == author[a].id
             stored == [status |-> IF b THEN "pending" ELSE "failed", rev |-> author[a].rev]
  <2>0. id \in Proposals /\ stored \in ProposalType
    BY <1>0, <1>4 DEF Aut!StoreProposal, AuthorsName, AuthoringTypes, AuthorType, ProposalType,
      Aut!PStatus
  <2>1. AuthoringTypes'
    <3>1. (author \in [Agents -> AuthorType])' /\ (drafted \in 0..MaxRev)'
      BY <1>0, <1>4, NoAuthorType DEF Aut!StoreProposal, AuthoringTypes
    <3>2. (reviewer \in [Items -> ReviewType])'
      BY <1>0, <1>4, OutdatedReviews DEF Aut!StoreProposal, AuthoringTypes
    <3>3. (auth \in [policy : Aut!Policies, proposals : [Proposals -> ProposalType]])'
      BY <1>0, <1>4, <2>0 DEF Aut!StoreProposal, AuthoringTypes
    <3> QED BY <3>1, <3>2, <3>3 DEF AuthoringTypes
  <2>2. AuthorsName'
    BY <1>0, <1>4 DEF Aut!StoreProposal, AuthoringTypes, AuthorsName, Aut!NoAuthor
  <2>3. ReviewsPending'
    BY <1>0, <1>4, OutdatedReviews DEF Aut!StoreProposal, AuthoringTypes, ReviewsPending
  <2>4. Aut!DecidedStays
    BY <1>0, <1>4, <2>0 DEF Aut!StoreProposal, Aut!Storable, AuthoringTypes, Aut!DecidedStays,
      Aut!Decided
  <2> QED BY <2>1, <2>2, <2>3, <2>4 DEF AuthoringInv
<1>5. ASSUME NEW r \in Items, Aut!CheckTarget(r)
      PROVE  AuthoringInv' /\ Aut!DecidedStays
  <2> DEFINE verdict == IF auth.proposals[reviewer[r].id].rev = drafted
                        THEN reviewer[r].verdict ELSE "stale"
  <2>0. verdict \in Aut!Decided
    BY <1>0 DEF AuthoringTypes, ReviewType, Aut!Decided
  <2>1. reviewer' = [reviewer EXCEPT ![r].pc = "save", ![r].verdict = verdict]
    BY <1>0, <1>5 DEF Aut!CheckTarget, AuthoringTypes
  <2> HIDE DEF verdict
  <2>2. AuthoringTypes'
    <3>1. [reviewer[r] EXCEPT !.pc = "save", !.verdict = verdict] \in ReviewType
      BY <1>0, <2>0 DEF AuthoringTypes, ReviewType
    <3>2. reviewer' \in [Items -> ReviewType]
      BY <1>0, <2>1, <3>1 DEF AuthoringTypes
    <3> QED BY <1>0, <1>5, <3>2 DEF Aut!CheckTarget, AuthoringTypes
  <2>3. AuthorsName' /\ ReviewsPending'
    BY <1>0, <1>5, <2>1 DEF Aut!CheckTarget, AuthoringTypes, ReviewType, AuthorsName, ReviewsPending
  <2>4. Aut!DecidedStays
    BY <1>5 DEF Aut!CheckTarget, Aut!DecidedStays
  <2> QED BY <2>2, <2>3, <2>4 DEF AuthoringInv
<1>6. ASSUME NEW r \in Items, Aut!ReviewProposal(r)
      PROVE  AuthoringInv' /\ Aut!DecidedStays
  <2>0. /\ reviewer[r].id \in Proposals
        /\ reviewer[r].verdict \in Aut!PStatus
        /\ Aut!NoReview \in ReviewType
    BY <1>0, <1>6 DEF Aut!ReviewProposal, AuthoringTypes, ReviewType, ReviewsPending, Aut!NoReview,
      Aut!Decided, Aut!PStatus
  <2>1. CASE Aut!MayDecide(r)
    <3>1. /\ auth' = [auth EXCEPT !.proposals[reviewer[r].id].status = reviewer[r].verdict]
          /\ reviewer' = [Aut!Outdated EXCEPT ![r] = Aut!NoReview]
          /\ drafted' = drafted /\ author' = author
      BY <1>6, <2>1 DEF Aut!ReviewProposal
    <3>2. AuthoringTypes'
      BY <1>0, <2>0, <3>1, OutdatedReviews DEF AuthoringTypes, ProposalType
    <3>3. AuthorsName' /\ ReviewsPending'
      BY <1>0, <3>1, OutdatedReviews DEF AuthoringTypes, AuthorsName, ReviewsPending, Aut!NoReview
    <3>4. auth.proposals[reviewer[r].id].status = "pending"
      BY <1>0, <1>6, <2>1 DEF Aut!ReviewProposal, Aut!MayDecide, ReviewsPending
    <3>5. Aut!DecidedStays
      BY <1>0, <3>1, <3>4 DEF AuthoringTypes, Aut!DecidedStays, Aut!Decided
    <3> QED BY <3>2, <3>3, <3>5 DEF AuthoringInv
  <2>2. CASE ~Aut!MayDecide(r)
    <3>1. /\ auth' = auth /\ drafted' = drafted /\ author' = author
          /\ reviewer' = [reviewer EXCEPT ![r] = Aut!NoReview]
      BY <1>6, <2>2 DEF Aut!ReviewProposal
    <3> QED
      BY <1>0, <2>0, <3>1 DEF AuthoringInv, AuthoringTypes, AuthorsName, ReviewsPending,
        Aut!NoReview, Aut!DecidedStays
  <2> QED BY <2>1, <2>2
<1>7. ASSUME NEW r \in Items, NEW id \in Proposals, NEW d \in {"approved", "rejected"},
             Aut!OpenReview(r, id, d)
      PROVE  AuthoringInv' /\ Aut!DecidedStays
  <2>1. AuthoringTypes'
    BY <1>0, <1>7 DEF Aut!OpenReview, AuthoringTypes, ReviewType, Aut!Decided
  <2>2. AuthorsName' /\ ReviewsPending'
    BY <1>0, <1>7 DEF Aut!OpenReview, AuthoringTypes, AuthorsName, ReviewsPending
  <2>3. Aut!DecidedStays
    BY <1>7 DEF Aut!OpenReview, Aut!DecidedStays
  <2> QED BY <2>1, <2>2, <2>3 DEF AuthoringInv
<1>8. ASSUME Aut!EditTarget
      PROVE  AuthoringInv' /\ Aut!DecidedStays
  BY <1>0, <1>8, Bounded DEF Aut!EditTarget, AuthoringInv, AuthoringTypes, AuthorsName,
    ReviewsPending, Aut!DecidedStays
<1> QED
  BY <1>1, <1>2, <1>3, <1>4, <1>5, <1>6, <1>7, <1>8 DEF Aut!Next

\* No step changes a proposal that was decided or that failed, whatever edits, policies and other
\* reviews come between the reads and the save of a review (reviewProposal).
THEOREM DecisionsStand == Spec => DecidedStays
<1> DEFINE Inv == service = "authoring" => AuthoringInv
<1>1. Init => Inv
  BY AuthoringInit DEF Init
<1>2. Inv /\ [Next]_vars => Inv' /\ (UNCHANGED vars \/ (service = "authoring" => Aut!DecidedStays))
  <2>1. CASE UNCHANGED vars
    BY <2>1 DEF vars, authoring, AuthoringInv, AuthoringTypes, AuthorsName, ReviewsPending
  <2>2. CASE Next
    BY <2>2, AuthoringStep DEF Next
  <2> QED BY <2>1, <2>2
<1> QED
  BY <1>1, <1>2, PTL DEF Spec, DecidedStays

-----------------------------------------------------------------------------
(* Regional failover (RegionalFailover): an answer of the adapter says what the provider did,      *)
(* which stays so, and before a plan is carried out the adapter was not called for it.             *)

RegionTypes ==
  /\ topo \in [enabled : BOOLEAN, active : Regions, topology : Nat]
  /\ plans \in [Items -> Reg!FailoverPlan]
  /\ effect \in [Items -> Reg!Effect]
  /\ operator \in [Agents -> [pc : {"idle", "calling", "apply"}, plan : Items \cup {None},
                              answer : Reg!Answers]]

\* A call of the adapter is for a plan, and an answer that settles the plan
\* says what the provider did, which stays so.
AnswersHold ==
  \A o \in Agents :
    /\ operator[o].pc # "idle" => operator[o].plan \in Items
    /\ operator[o].pc = "apply" /\ operator[o].answer = "succeeded" =>
         effect[operator[o].plan] = "moved"
    /\ operator[o].pc = "apply" /\ operator[o].answer = "failed" =>
         effect[operator[o].plan] = "refused"

\* The adapter has not been called for a plan that is not carried out yet.
UncalledBefore ==
  \A p \in Items : plans[p].state \in {"none", "preview", "approved"} => effect[p] = "uncalled"

FailedWasRefused == \A p \in Items : plans[p].state = "failed" => effect[p] = "refused"

RegionInv == RegionTypes /\ AnswersHold /\ UncalledBefore /\ FailedWasRefused

\* The adapter has not been called and nobody calls it.
LEMMA RegionInit == Reg!Init => RegionInv
BY HomeIsARegion DEF Reg!Init, RegionInv, RegionTypes, AnswersHold, UncalledBefore, FailedWasRefused,
  Reg!NoCall, Reg!Answers, Reg!Effect, Reg!FailoverPlan, Reg!FState

\* Each operation on plans and each move of the provider keeps the invariant, and the topology.
LEMMA RegionStep ==
  ASSUME RegionInv, Reg!Next
  PROVE  RegionInv' /\ Reg!TopologyHeld
<1>0. RegionTypes /\ AnswersHold /\ UncalledBefore /\ FailedWasRefused
  BY DEF RegionInv
<1>n. /\ "error" \in Reg!Answers /\ "succeeded" \in Reg!Answers
      /\ Reg!NoCall.pc = "idle" /\ Reg!NoCall.plan = None
      /\ Reg!NoCall \in [pc : {"idle", "calling", "apply"}, plan : Items \cup {None}, answer : Reg!Answers]
  BY DEF Reg!NoCall, Reg!Answers
<1>1. ASSUME NEW b \in BOOLEAN, NEW r \in Regions, Reg!UpdatePolicy(b, r)
      PROVE  RegionInv' /\ Reg!TopologyHeld
  <2>1. RegionTypes'
    BY <1>0, <1>1 DEF Reg!UpdatePolicy, RegionTypes
  <2>2. AnswersHold' /\ UncalledBefore' /\ FailedWasRefused'
    BY <1>0, <1>1 DEF Reg!UpdatePolicy, AnswersHold, UncalledBefore, FailedWasRefused
  <2>3. Reg!TopologyHeld
    BY <1>0, <1>1, <2>2 DEF Reg!UpdatePolicy, RegionTypes, Reg!TopologyHeld, Reg!BlocksChange, FailedWasRefused
  <2> QED BY <2>1, <2>2, <2>3 DEF RegionInv
<1>2. ASSUME NEW p \in Items, NEW d \in Reg!Effect, Reg!ProviderActs(p, d)
      PROVE  RegionInv' /\ Reg!TopologyHeld
  <2>1. RegionTypes'
    BY <1>0, <1>2 DEF Reg!ProviderActs, RegionTypes
  <2>2. AnswersHold' /\ UncalledBefore' /\ FailedWasRefused'
    BY <1>0, <1>2 DEF Reg!ProviderActs, RegionTypes, AnswersHold, UncalledBefore, FailedWasRefused
  <2>3. Reg!TopologyHeld
    BY <1>2, <2>2 DEF Reg!ProviderActs, Reg!TopologyHeld, FailedWasRefused
  <2> QED BY <2>1, <2>2, <2>3 DEF RegionInv
<1>3. ASSUME NEW o \in Agents, Reg!ApplyResult(o)
      PROVE  RegionInv' /\ Reg!TopologyHeld
  <2> DEFINE p == operator[o].plan
             outcome == Reg!Outcome(operator[o].answer)
  <2>0. /\ p \in Items /\ operator[o].pc = "apply"
        /\ operator' = [operator EXCEPT ![o] = Reg!NoCall] /\ effect' = effect
    BY <1>0, <1>3 DEF Reg!ApplyResult, AnswersHold, RegionTypes
  <2>a. (operator \in [Agents -> [pc : {"idle", "calling", "apply"}, plan : Items \cup {None},
                                 answer : Reg!Answers]])'
    BY <1>0, <2>0, <1>n DEF RegionTypes
  <2>b. AnswersHold'
    BY <1>0, <2>0, <1>n DEF RegionTypes, AnswersHold
  <2>1. CASE Reg!Applicable(p)
    <3>1. /\ outcome \in {"succeeded", "failed", "ambiguous"}
          /\ outcome = "failed" => effect[p] = "refused"
          /\ operator[o].answer = "succeeded" => outcome = "succeeded" /\ effect[p] = "moved"
      BY <1>0, <2>0 DEF Reg!Outcome, AnswersHold
    <3>2. /\ plans' = [plans EXCEPT ![p].state = outcome]
          /\ topo' = IF operator[o].answer = "succeeded"
                     THEN [topo EXCEPT !.active = plans[p].target, !.topology = @ + 1] ELSE topo
      BY <1>3, <2>1 DEF Reg!ApplyResult
    <3> HIDE DEF outcome
    <3>3. (plans \in [Items -> Reg!FailoverPlan])'
      <4>1. [plans[p] EXCEPT !.state = outcome] \in Reg!FailoverPlan
        BY <1>0, <2>0, <3>1 DEF RegionTypes, Reg!FailoverPlan, Reg!FState
      <4> QED BY <1>0, <3>2, <4>1 DEF RegionTypes
    <3>4. (topo \in [enabled : BOOLEAN, active : Regions, topology : Nat])'
      <4>1. plans[p].target \in Regions /\ topo.topology + 1 \in Nat
        BY <1>0, <2>0 DEF RegionTypes, Reg!FailoverPlan
      <4>2. [topo EXCEPT !.active = plans[p].target, !.topology = @ + 1]
              \in [enabled : BOOLEAN, active : Regions, topology : Nat]
        BY <1>0, <4>1 DEF RegionTypes
      <4> QED BY <1>0, <3>2, <4>2 DEF RegionTypes
    <3>5. RegionTypes'
      BY <1>0, <2>0, <2>a, <3>3, <3>4 DEF RegionTypes
    <3>6. UncalledBefore' /\ FailedWasRefused'
      BY <1>0, <2>0, <3>1, <3>2 DEF RegionTypes, UncalledBefore, FailedWasRefused, Reg!FailoverPlan
    <3>7. Reg!TopologyHeld
      <4>1. CASE operator[o].answer = "succeeded"
        <5>1. /\ Reg!InFlight(p) /\ plans'[p].state = "succeeded" /\ effect[p] = "moved"
              /\ topo'.active = plans[p].target /\ topo'.topology = topo.topology + 1
          BY <1>0, <2>0, <2>1, <3>1, <3>2, <4>1 DEF RegionTypes, Reg!Applicable, Reg!FailoverPlan
        <5>2. topo'.topology # topo.topology
          BY <1>0, <5>1 DEF RegionTypes
        <5> QED BY <2>0, <5>1, <5>2, <3>6 DEF Reg!TopologyHeld, FailedWasRefused
      <4>2. CASE operator[o].answer # "succeeded"
        BY <3>2, <3>6, <4>2 DEF Reg!TopologyHeld, FailedWasRefused
      <4> QED BY <4>1, <4>2
    <3> QED BY <3>5, <2>b, <3>6, <3>7 DEF RegionInv
  <2>2. CASE ~Reg!Applicable(p)
    <3>1. plans' = plans /\ topo' = topo
      BY <1>3, <2>2 DEF Reg!ApplyResult
    <3> QED BY <1>0, <2>0, <2>a, <2>b, <3>1 DEF RegionInv, RegionTypes, UncalledBefore,
          FailedWasRefused, Reg!TopologyHeld
  <2> QED BY <2>1, <2>2
<1>4. ASSUME NEW o \in Agents, Reg!GiveUp(o)
      PROVE  RegionInv' /\ Reg!TopologyHeld
  BY <1>0, <1>4, <1>n DEF Reg!GiveUp, RegionInv, RegionTypes, AnswersHold, UncalledBefore, FailedWasRefused,
    Reg!TopologyHeld
<1>5. ASSUME NEW o \in Agents, NEW a \in Reg!Answers, Reg!AdapterAnswers(o, a)
      PROVE  RegionInv' /\ Reg!TopologyHeld
  <2>1. RegionTypes'
    BY <1>0, <1>5 DEF Reg!AdapterAnswers, RegionTypes
  <2>2. AnswersHold'
    BY <1>0, <1>5 DEF Reg!AdapterAnswers, RegionTypes, AnswersHold, Reg!Tells
  <2>3. UncalledBefore' /\ FailedWasRefused' /\ Reg!TopologyHeld
    BY <1>0, <1>5 DEF Reg!AdapterAnswers, UncalledBefore, FailedWasRefused, Reg!TopologyHeld
  <2> QED BY <2>1, <2>2, <2>3 DEF RegionInv
<1>6. ASSUME NEW o \in Agents, NEW p \in Items, Reg!Approve(o, p)
      PROVE  RegionInv' /\ Reg!TopologyHeld
  <2>1. RegionTypes'
    BY <1>0, <1>6 DEF Reg!Approve, RegionTypes, Reg!FailoverPlan, Reg!FState
  <2>2. AnswersHold' /\ UncalledBefore' /\ FailedWasRefused'
    BY <1>0, <1>6 DEF Reg!Approve, RegionTypes, Reg!FailoverPlan, AnswersHold, UncalledBefore, FailedWasRefused
  <2>3. Reg!TopologyHeld
    BY <1>6, <2>2 DEF Reg!Approve, Reg!TopologyHeld, FailedWasRefused
  <2> QED BY <2>1, <2>2, <2>3 DEF RegionInv
<1>7. ASSUME NEW o \in Agents, NEW p \in Items, Reg!Execute(o, p)
      PROVE  RegionInv' /\ Reg!TopologyHeld
  <2> DEFINE asked == [Reg!NoCall EXCEPT !.pc = "calling", !.plan = p]
  <2>0. /\ effect[p] = "uncalled"
        /\ asked \in [pc : {"idle", "calling", "apply"}, plan : Items \cup {None}, answer : Reg!Answers]
        /\ asked.pc = "calling" /\ asked.plan = p
        /\ operator' = [operator EXCEPT ![o] = asked]
        /\ effect' = [effect EXCEPT ![p] = "called"]
        /\ plans' = [plans EXCEPT ![p].state = "executing"] /\ topo' = topo
    BY <1>0, <1>7, <1>n DEF Reg!Execute, UncalledBefore, Reg!NoCall
  <2> HIDE DEF asked
  <2>1. RegionTypes'
    BY <1>0, <2>0 DEF RegionTypes, Reg!FailoverPlan, Reg!FState, Reg!Effect
  <2>2. AnswersHold'
    BY <1>0, <2>0 DEF RegionTypes, AnswersHold
  <2>3. UncalledBefore' /\ FailedWasRefused'
    BY <1>0, <2>0 DEF RegionTypes, Reg!FailoverPlan, UncalledBefore, FailedWasRefused
  <2>4. Reg!TopologyHeld
    BY <2>0, <2>3 DEF Reg!TopologyHeld, FailedWasRefused
  <2> QED BY <2>1, <2>2, <2>3, <2>4 DEF RegionInv
<1>8. ASSUME NEW o \in Agents, NEW p \in Items, Reg!Reconcile(o, p)
      PROVE  RegionInv' /\ Reg!TopologyHeld
  <2> DEFINE asked == [Reg!NoCall EXCEPT !.pc = "calling", !.plan = p]
  <2>0. /\ asked \in [pc : {"idle", "calling", "apply"}, plan : Items \cup {None}, answer : Reg!Answers]
        /\ asked.pc = "calling" /\ asked.plan = p
        /\ operator' = [operator EXCEPT ![o] = asked]
        /\ effect' = effect /\ plans' = plans /\ topo' = topo
    BY <1>8, <1>n DEF Reg!Reconcile, Reg!NoCall
  <2> HIDE DEF asked
  <2>1. RegionTypes' /\ AnswersHold'
    BY <1>0, <2>0 DEF RegionTypes, AnswersHold
  <2>2. UncalledBefore' /\ FailedWasRefused' /\ Reg!TopologyHeld
    BY <1>0, <2>0 DEF UncalledBefore, FailedWasRefused, Reg!TopologyHeld
  <2> QED BY <2>1, <2>2 DEF RegionInv
<1>9. ASSUME NEW o \in Agents, NEW p \in Items, NEW r \in Regions, Reg!Preflight(o, p, r)
      PROVE  RegionInv' /\ Reg!TopologyHeld
  <2>0. [state |-> "preview", by |-> o, target |-> r] \in Reg!FailoverPlan
    BY DEF Reg!FailoverPlan, Reg!FState
  <2>1. RegionTypes'
    BY <1>0, <1>9, <2>0 DEF Reg!Preflight, RegionTypes
  <2>2. AnswersHold' /\ UncalledBefore' /\ FailedWasRefused'
    BY <1>0, <1>9 DEF Reg!Preflight, RegionTypes, AnswersHold, UncalledBefore, FailedWasRefused
  <2>3. Reg!TopologyHeld
    BY <1>9, <2>2 DEF Reg!Preflight, Reg!TopologyHeld, FailedWasRefused
  <2> QED BY <2>1, <2>2, <2>3 DEF RegionInv
<1> QED
  BY <1>1, <1>2, <1>3, <1>4, <1>5, <1>6, <1>7, <1>8, <1>9 DEF Reg!Next

\* The topology changes by a policy while no failover is in flight, or by applying one that the
\* provider carried out, to its target, and no failover is failed that moved the region: for any
\* number of regions, plans and operators (updatePolicy, execute, reconcile).
THEOREM TopologyAlwaysHeld == Spec => TopologyHeld
<1> DEFINE Inv == service = "regions" => RegionInv
<1>1. Init => Inv
  BY RegionInit DEF Init
<1>2. Inv /\ [Next]_vars => Inv' /\ (UNCHANGED vars \/ (service = "regions" => Reg!TopologyHeld))
  <2>1. CASE UNCHANGED vars
    BY <2>1 DEF vars, regions, RegionInv, RegionTypes, AnswersHold, UncalledBefore, FailedWasRefused
  <2>2. CASE Next
    BY <2>2, RegionStep DEF Next
  <2> QED BY <2>1, <2>2
<1> QED
  BY <1>1, <1>2, PTL DEF Spec, TopologyHeld

-----------------------------------------------------------------------------
(* The marketplace and its clients (Marketplace, Plugins): trust was earned, and a publisher       *)
(* that was suspended when a request arrived is so still.                                          *)

\* A publisher that was suspended when a request arrived is so still, and the
\* request does not get past the check of its trust.
SuspendedSince ==
  \A c \in Clients : /\ began[c] => pub.state = "suspended"
                     /\ client[c] \in {"install", "installing"} => ~began[c]

MarketTypes ==
  /\ pub \in [state : Cat!M!PubState, by : People \cup {None}, challenge : Nat, proof : Nat]
  /\ rel \in [Releases -> Cat!M!Release]
  /\ inspecting \in [People -> Releases \cup {None}]

\* The marketplace alone: the trust is kept, and a suspension is for good.
LEMMA MarketplaceStep ==
  ASSUME MarketTypes, Cat!M!TrustIsEarned, Cat!M!Next
  PROVE  MarketTypes' /\ Cat!M!TrustIsEarned' /\ (pub.state = "suspended" => pub'.state = "suspended")
<1> DEFINE Good == MarketTypes' /\ Cat!M!TrustIsEarned' /\ (pub.state = "suspended" => pub'.state = "suspended")
<1>1. ASSUME NEW x \in People, Cat!M!RegisterPublisher(x) PROVE Good
  BY <1>1 DEF Cat!M!RegisterPublisher, Cat!M!OnlyPub, MarketTypes, Cat!M!PubState, Cat!M!TrustIsEarned
<1>2. ASSUME NEW x \in People, Cat!M!ApprovePublisher(x) PROVE Good
  BY <1>2 DEF Cat!M!ApprovePublisher, Cat!M!OnlyPub, MarketTypes, Cat!M!PubState, Cat!M!TrustIsEarned
<1>3. ASSUME NEW x \in People, NEW r \in Releases, Cat!M!SubmitRelease(x, r) PROVE Good
  <2>1. [rel[r] EXCEPT !.state = "submitted", !.by = x] \in Cat!M!Release
    BY DEF MarketTypes, Cat!M!Release, Cat!M!RelState
  <2>2. rel' \in [Releases -> Cat!M!Release]
    BY <1>3, <2>1 DEF Cat!M!SubmitRelease, MarketTypes
  <2>3. \A q \in Releases : rel'[q].state = "approved" => rel'[q] = rel[q]
    BY <1>3 DEF Cat!M!SubmitRelease, MarketTypes, Cat!M!Release
  <2> QED
    BY <1>3, <2>2, <2>3 DEF Cat!M!SubmitRelease, Cat!M!OnlyRel, MarketTypes, Cat!M!TrustIsEarned
<1>4. ASSUME NEW x \in People, NEW r \in Releases, Cat!M!BeginReview(x, r) PROVE Good
  BY <1>4 DEF Cat!M!BeginReview, MarketTypes, Cat!M!TrustIsEarned
<1>5. ASSUME NEW x \in People, NEW r \in Releases, Cat!M!ApproveRelease(x, r) PROVE Good
  <2>1. [rel[r] EXCEPT !.state = "approved", !.approver = x] \in Cat!M!Release
    BY DEF MarketTypes, Cat!M!Release, Cat!M!RelState
  <2>2. rel' \in [Releases -> Cat!M!Release]
    BY <1>5, <2>1 DEF Cat!M!ApproveRelease, MarketTypes
  <2>3. \A q \in Releases : rel'[q].state = "approved" =>
          rel'[q].verdict = "passed" /\ rel'[q].approver \notin {rel'[q].by, rel'[q].reviewer}
    BY <1>5 DEF Cat!M!ApproveRelease, MarketTypes, Cat!M!Release, Cat!M!TrustIsEarned
  <2> QED
    BY <1>5, <2>2, <2>3 DEF Cat!M!ApproveRelease, Cat!M!OnlyRel, MarketTypes, Cat!M!TrustIsEarned
<1>6. ASSUME NEW x \in People, NEW v \in Cat!M!Verdict \ {"none"}, Cat!M!EndReview(x, v) PROVE Good
  <2> DEFINE r == inspecting[x]
  <2>0. r \in Releases /\ Cat!M!StateAfterReview(rel[r].state, v) \in {"reviewed", "submitted"}
    BY <1>6 DEF Cat!M!EndReview, MarketTypes, Cat!M!StateAfterReview
  <2>1. /\ rel' = [rel EXCEPT ![r] = [rel[r] EXCEPT !.state = Cat!M!StateAfterReview(rel[r].state, v),
                                                   !.verdict = v, !.reviewer = x]]
        /\ inspecting' = [inspecting EXCEPT ![x] = None] /\ pub' = pub
    BY <1>6, <2>0 DEF Cat!M!EndReview, MarketTypes, Cat!M!Release
  <2> DEFINE row == [rel[r] EXCEPT !.state = Cat!M!StateAfterReview(rel[r].state, v),
                                   !.verdict = v, !.reviewer = x]
  <2>2. row \in Cat!M!Release /\ row.state # "approved"
    BY ZenonT(30), <2>0 DEF MarketTypes, Cat!M!Release, Cat!M!RelState
  <2> HIDE DEF row
  <2>3. /\ rel' \in [Releases -> Cat!M!Release]
        /\ \A q \in Releases : rel'[q].state = "approved" => rel'[q] = rel[q]
    BY <2>0, <2>1, <2>2 DEF MarketTypes, row
  <2> QED
    BY <2>1, <2>3 DEF MarketTypes, Cat!M!TrustIsEarned
<1>7. ASSUME Cat!M!IssueDomainChallenge PROVE Good
  <2>1. pub.challenge + 1 \in Nat
    BY DEF MarketTypes
  <2>2. /\ pub' \in [state : Cat!M!PubState, by : People \cup {None}, challenge : Nat, proof : Nat]
        /\ pub'.proof = 0 /\ pub'.state = pub.state
    BY <1>7, <2>1 DEF Cat!M!IssueDomainChallenge, MarketTypes
  <2> QED
    BY <1>7, <2>2 DEF Cat!M!IssueDomainChallenge, Cat!M!OnlyPub, MarketTypes, Cat!M!TrustIsEarned
<1>8. ASSUME Cat!M!AskDomain PROVE Good
  BY <1>8 DEF Cat!M!AskDomain, MarketTypes, Cat!M!TrustIsEarned
<1>9. ASSUME Cat!M!SuspendPublisher PROVE Good
  BY <1>9 DEF Cat!M!SuspendPublisher, Cat!M!OnlyPub, MarketTypes, Cat!M!PubState, Cat!M!TrustIsEarned
<1>10. ASSUME NEW b \in BOOLEAN, Cat!M!AnswerDomain(b) PROVE Good
  BY <1>10 DEF Cat!M!AnswerDomain, Cat!M!SameChallenge, MarketTypes, Cat!M!TrustIsEarned
<1>11. ASSUME NEW r \in Releases, Cat!M!RejectRelease(r) \/ Cat!M!YankRelease(r) PROVE Good
  <2>1. PICK s \in {"rejected", "yanked"} : rel' = [rel EXCEPT ![r].state = s]
    BY <1>11 DEF Cat!M!RejectRelease, Cat!M!YankRelease
  <2>2. [rel[r] EXCEPT !.state = s] \in Cat!M!Release
    BY DEF MarketTypes, Cat!M!Release, Cat!M!RelState
  <2>3. /\ rel' \in [Releases -> Cat!M!Release]
        /\ \A q \in Releases : rel'[q].state = "approved" => rel'[q] = rel[q]
    BY <2>1, <2>2 DEF MarketTypes, Cat!M!Release
  <2> QED
    BY <1>11, <2>3 DEF Cat!M!RejectRelease, Cat!M!YankRelease, Cat!M!OnlyRel, MarketTypes,
      Cat!M!TrustIsEarned
<1> QED
  BY <1>1, <1>2, <1>3, <1>4, <1>5, <1>6, <1>7, <1>8, <1>9, <1>10, <1>11 DEF Cat!M!Next

\* The installation leaves the catalog alone.
LEMMA InstallationStep ==
  ASSUME DOMAIN client = Clients, DOMAIN began = Clients, SuspendedSince,
         Cat!Installation, UNCHANGED <<pub, rel, asking, inspecting, began>>
  PROVE  DOMAIN client' = Clients /\ SuspendedSince' /\ Cat!NoneInstalledSince
<1> DEFINE Good == DOMAIN client' = Clients /\ SuspendedSince' /\ Cat!NoneInstalledSince
<1>1. ASSUME NEW c \in Clients, NEW op,
             client' = [client EXCEPT ![c] = op], op \in {"install", "installing"} => ~began[c]
      PROVE  Good
  BY <1>1 DEF SuspendedSince, Cat!NoneInstalledSince
<1>2. ASSUME NEW c \in Clients, Cat!Refuse(c) \/ Cat!SaveInstalled(c) \/ Cat!SaveTransition(c) \/ Cat!Answer(c)
      PROVE  Good
  BY <1>1, <1>2 DEF Cat!Refuse, Cat!SaveInstalled, Cat!SaveTransition, Cat!Answer, Cat!Doing
<1>3. ASSUME NEW c \in Clients, Cat!ReadPrevious(c)
      PROVE  Good
  BY <1>1, <1>3 DEF Cat!ReadPrevious, Cat!Doing, SuspendedSince
<1>4. ASSUME NEW c \in Clients, Cat!Invoke(c)
      PROVE  Good
  BY <1>1, <1>4 DEF Cat!Invoke, Cat!Doing
<1>5. ASSUME NEW c \in Clients, NEW op \in Cat!Operations, Cat!Read(c, op)
      PROVE  Good
  BY <1>1, <1>5 DEF Cat!Read, Cat!Doing, Cat!Operations
<1>6. ASSUME Cat!MinutePasses
      PROVE  Good
  BY <1>6 DEF Cat!MinutePasses, SuspendedSince, Cat!NoneInstalledSince
<1> QED
  BY <1>2, <1>3, <1>4, <1>5, <1>6 DEF Cat!Installation

CatalogTypes == MarketTypes /\ DOMAIN client = Clients /\ DOMAIN began = Clients

CatalogInv == CatalogTypes /\ Cat!M!TrustIsEarned /\ SuspendedSince

\* Nothing is published, asked for or installed.
LEMMA CatalogInit == Cat!Init => CatalogInv
BY DEF Cat!Init, Cat!NotInstalled, Cat!M!Init, CatalogInv, CatalogTypes, MarketTypes, SuspendedSince,
  Cat!M!TrustIsEarned, Cat!M!PubState, Cat!M!RelState, Cat!M!Release, Cat!M!Verdict

\* Each operation of the marketplace and of its clients keeps the invariant, and installs nothing
\* for a request that arrived after the suspension.
LEMMA CatalogStep ==
  ASSUME CatalogInv, Cat!Next
  PROVE  CatalogInv' /\ Cat!NoneInstalledSince
<1>0. MarketTypes /\ DOMAIN client = Clients /\ DOMAIN began = Clients /\ Cat!M!TrustIsEarned /\ SuspendedSince
  BY DEF CatalogInv, CatalogTypes
<1>1. CASE Cat!M!Next /\ UNCHANGED <<Cat!installed, began>>
  <2>1. MarketTypes' /\ Cat!M!TrustIsEarned' /\ (pub.state = "suspended" => pub'.state = "suspended")
    BY <1>0, <1>1, MarketplaceStep
  <2>2. client' = client /\ began' = began
    BY <1>1 DEF Cat!installed
  <2>3. SuspendedSince' /\ Cat!NoneInstalledSince
    BY <1>0, <2>1, <2>2 DEF SuspendedSince, Cat!NoneInstalledSince
  <2> QED BY <1>0, <2>1, <2>2, <2>3 DEF CatalogInv, CatalogTypes
<1>2. CASE Cat!Installation /\ UNCHANGED <<Cat!catalog, began>>
  <2>1. UNCHANGED <<pub, rel, asking, inspecting, began>>
    BY <1>2 DEF Cat!catalog
  <2>2. DOMAIN client' = Clients /\ SuspendedSince' /\ Cat!NoneInstalledSince
    BY <1>0, <1>2, <2>1, InstallationStep
  <2> QED BY <1>0, <2>1, <2>2 DEF CatalogInv, CatalogTypes, MarketTypes, Cat!M!TrustIsEarned
<1>3. ASSUME NEW c \in Clients, Cat!RequestInstall(c)
      PROVE  CatalogInv' /\ Cat!NoneInstalledSince
  BY <1>0, <1>3 DEF Cat!RequestInstall, Cat!Doing, Cat!catalog, CatalogInv, CatalogTypes, MarketTypes,
    Cat!M!TrustIsEarned, SuspendedSince, Cat!NoneInstalledSince
<1>4. ASSUME NEW c \in Clients, Cat!ResolveTrust(c)
      PROVE  CatalogInv' /\ Cat!NoneInstalledSince
  BY <1>0, <1>4 DEF Cat!ResolveTrust, Cat!Verify, Cat!M!Trusted, Cat!Doing, Cat!catalog, CatalogInv, CatalogTypes, MarketTypes,
    Cat!M!TrustIsEarned, SuspendedSince, Cat!NoneInstalledSince
<1>5. ASSUME NEW c \in Clients, Cat!InstallConfigured(c)
      PROVE  CatalogInv' /\ Cat!NoneInstalledSince
  BY <1>0, <1>5 DEF Cat!InstallConfigured, Cat!Doing, Cat!catalog, CatalogInv, CatalogTypes, MarketTypes,
    Cat!M!TrustIsEarned, SuspendedSince, Cat!NoneInstalledSince
<1> QED
  BY <1>1, <1>2, <1>3, <1>4, <1>5 DEF Cat!Next, Cat!InstallApproved, Cat!InstallManifest

\* The proof of a pending publisher is of its current challenge, and an approved release has a
\* passing review and was approved by somebody else than its author and its reviewer, for any
\* number of people and releases (verifyPublisherDomain, reviewRelease, approveRelease).
THEOREM TrustAlwaysEarned == Spec => []TrustIsEarned
<1> DEFINE Inv == service = "catalog" => CatalogInv
<1>1. Init => Inv
  BY CatalogInit DEF Init
<1>2. Inv /\ [Next]_vars => Inv'
  <2>1. CASE UNCHANGED vars
    BY <2>1 DEF vars, catalog, CatalogInv, CatalogTypes, MarketTypes, Cat!M!TrustIsEarned, SuspendedSince
  <2>2. CASE Next
    BY <2>2, CatalogStep DEF Next
  <2> QED BY <2>1, <2>2
<1>3. Inv => TrustIsEarned
  BY DEF CatalogInv, TrustIsEarned, Cat!TrustIsEarned
<1> QED
  BY <1>1, <1>2, <1>3, PTL DEF Spec

\* A request to install that arrives after the suspension of the publisher installs nothing, for
\* any number of clients and releases (install).
THEOREM SuspensionAlwaysBlocks == Spec => SuspensionBlocks
<1> DEFINE Inv == service = "catalog" => CatalogInv
<1>1. Init => Inv
  BY CatalogInit DEF Init
<1>2. Inv /\ [Next]_vars => Inv' /\ (UNCHANGED vars \/ (service = "catalog" => Cat!NoneInstalledSince))
  <2>1. CASE UNCHANGED vars
    BY <2>1 DEF vars, catalog, CatalogInv, CatalogTypes, MarketTypes, Cat!M!TrustIsEarned, SuspendedSince
  <2>2. CASE Next
    BY <2>2, CatalogStep DEF Next
  <2> QED BY <2>1, <2>2
<1> QED
  BY <1>1, <1>2, PTL DEF Spec, SuspensionBlocks

-----------------------------------------------------------------------------
(* Federation (Federation): what is planned under a version of the agreement is planned under      *)
(* one of the past or one that is active.                                                          *)

SyncEffects == [action : Fed!Actions, seq : Nat]
SyncType    == [state : Fed!SyncState, agreement : Nat, effect : SyncEffects]
StewardType == [pc : {"idle", "pin", "store", "claim", "read", "apply", "fail"},
                plan : Items \cup {None}, offer : Nat, effect : SyncEffects, agreement : Nat,
                current : BOOLEAN]

FederationTypes ==
  /\ origin \in [offer : Nat, enabled : BOOLEAN, seq : Nat, live : BOOLEAN]
  /\ agreed \in [version : Nat, state : {"none", "active", "disabled"}, offer : Nat]
  /\ mirror \in [state : {"none", "active", "withdrawn"}, seq : Nat]
  /\ syncs \in [Items -> SyncType]
  /\ steward \in [Agents -> StewardType]

\* A version of the agreement under which something was planned is of the
\* past, or the agreement is active in it.
ActiveAt(version) ==
  version <= agreed.version /\ (version = agreed.version => agreed.state = "active")

PlannedActive ==
  /\ \A p \in Items : syncs[p].state # "none" => ActiveAt(syncs[p].agreement)
  /\ \A o \in Agents : steward[o].pc = "store" => ActiveAt(steward[o].agreement)

\* An operator that is past the plan's preview names a plan that was stored.
StewardsName ==
  \A o \in Agents :
    /\ steward[o].pc \in {"store", "claim", "read", "apply", "fail"} => steward[o].plan \in Items
    /\ steward[o].pc \in {"claim", "read", "apply", "fail"} => syncs[steward[o].plan].state # "none"

FederationInv == FederationTypes /\ PlannedActive /\ StewardsName

\* What nobody has planned or begun is well typed.
LEMMA FederationConstants ==
  /\ Fed!NoEffect \in SyncEffects /\ Fed!NoSync \in SyncType
  /\ Fed!AtRest \in StewardType /\ Fed!AtRest.pc = "idle"
BY DEF Fed!NoEffect, Fed!NoSync, Fed!AtRest, SyncEffects, SyncType, StewardType, Fed!Actions, Fed!SyncState

\* Nothing is offered, agreed, mirrored or planned.
LEMMA FederationInit == Fed!Init => FederationInv
BY FederationConstants DEF Fed!Init, FederationInv, FederationTypes, PlannedActive, StewardsName, Fed!NoSync

\* A write outdates what the others have read, and changes nothing else of it.
LEMMA WroteSteward ==
  ASSUME NEW o, NEW mine \in StewardType, steward \in [Agents -> StewardType]
  PROVE  /\ Fed!Wrote(o, mine) \in [Agents -> StewardType]
         /\ \A x \in Agents : \/ x = o /\ Fed!Wrote(o, mine)[x] = mine
                              \/ /\ Fed!Wrote(o, mine)[x].pc = steward[x].pc
                                 /\ Fed!Wrote(o, mine)[x].plan = steward[x].plan
                                 /\ Fed!Wrote(o, mine)[x].agreement = steward[x].agreement
BY DEF Fed!Wrote, StewardType

\* A step that leaves the agreement and the mirror alone, whose operators are
\* well typed and move only to what they may do, keeps the invariant.
LEMMA StewardMoves ==
  ASSUME FederationInv, UNCHANGED <<agreed, mirror, syncs>>,
         NEW o \in Agents, NEW op \in StewardType, steward' = [steward EXCEPT ![o] = op],
         UNCHANGED origin,
         op.pc = "store" => op.plan \in Items /\ ActiveAt(op.agreement),
         op.pc \in {"claim", "read", "apply", "fail"} =>
           op.plan \in Items /\ syncs[op.plan].state # "none"
  PROVE  FederationInv' /\ Fed!AgreementBinds
<1>1. FederationTypes'
  BY DEF FederationInv, FederationTypes
<1>2. PlannedActive'
  BY DEF FederationInv, FederationTypes, PlannedActive, ActiveAt
<1>3. StewardsName'
  BY DEF FederationInv, FederationTypes, StewardsName
<1> QED
  BY <1>1, <1>2, <1>3 DEF FederationInv, Fed!AgreementBinds, Fed!Served

\* What a plan would do to the mirror is well typed.
LEMMA SyncEffectType ==
  ASSUME FederationTypes PROVE Fed!SyncEffect \in SyncEffects
<1>1. (IF origin.live THEN origin.seq ELSE mirror.seq) \in Nat
  BY DEF FederationTypes
<1> QED
  BY <1>1 DEF FederationTypes, Fed!SyncEffect, SyncEffects, Fed!Actions

\* Each step of either deployment keeps the invariant, and what changes the mirror is planned
\* under the version of the agreement that is active.
LEMMA FederationStep ==
  ASSUME FederationInv, Fed!Next
  PROVE  FederationInv' /\ Fed!AgreementBinds
<1> DEFINE Good == FederationInv' /\ Fed!AgreementBinds
<1>0. FederationTypes /\ PlannedActive /\ StewardsName
  BY DEF FederationInv
<1>1. ASSUME UNCHANGED <<agreed, mirror, syncs, steward>>,
             (origin \in [offer : Nat, enabled : BOOLEAN, seq : Nat, live : BOOLEAN])'
      PROVE  Good
  BY <1>0, <1>1 DEF FederationInv, FederationTypes, PlannedActive, ActiveAt, StewardsName,
    Fed!AgreementBinds, Fed!Served
<1>2. ASSUME NEW b \in BOOLEAN, Fed!UpsertOffer(b) PROVE Good
  <2>1. origin.offer + 1 \in Nat
    BY <1>0 DEF FederationTypes
  <2> QED BY <1>0, <1>1, <1>2, <2>1 DEF Fed!UpsertOffer, FederationTypes
<1>3. ASSUME Fed!PublishRecord PROVE Good
  <2>1. origin.seq + 1 \in Nat
    BY <1>0 DEF FederationTypes
  <2> QED BY <1>0, <1>1, <1>3, <2>1 DEF Fed!PublishRecord, FederationTypes
<1>4. ASSUME Fed!WithdrawRecord PROVE Good
  BY <1>0, <1>1, <1>4 DEF Fed!WithdrawRecord, FederationTypes
<1>5. ASSUME NEW mine \in StewardType, NEW o, mine.pc = "idle",
             NEW s \in {"active", "disabled"}, NEW k \in Nat,
             agreed' = [version |-> agreed.version + 1, state |-> s, offer |-> k],
             steward' = Fed!Wrote(o, mine), UNCHANGED <<origin, mirror, syncs>>
      PROVE  Good
  <2>1. agreed.version + 1 \in Nat /\ agreed'.version = agreed.version + 1
    BY <1>0, <1>5 DEF FederationTypes
  <2>2. FederationTypes'
    BY <1>0, <1>5, <2>1, WroteSteward DEF FederationTypes
  <2>3. \A v \in Nat : v <= agreed.version => v <= agreed'.version /\ v # agreed'.version
    BY <1>0, <2>1 DEF FederationTypes
  <2>4. \A p \in Items : syncs'[p].state # "none" => ActiveAt(syncs[p].agreement)'
    BY <1>0, <1>5, <2>3 DEF FederationTypes, SyncType, PlannedActive, ActiveAt
  <2>5. \A x \in Agents : steward'[x].pc = "store" => ActiveAt(steward[x].agreement)'
    <3>1. SUFFICES ASSUME NEW x \in Agents, steward'[x].pc = "store"
                   PROVE  ActiveAt(steward[x].agreement)'
      OBVIOUS
    <3>2. steward[x].pc = "store" /\ steward'[x].agreement = steward[x].agreement
      BY <1>0, <1>5, <3>1, WroteSteward DEF FederationTypes
    <3>3. steward[x].agreement \in Nat /\ steward[x].agreement <= agreed.version
      BY <1>0, <3>2 DEF FederationTypes, StewardType, PlannedActive, ActiveAt
    <3> QED BY <2>3, <3>2, <3>3 DEF ActiveAt
  <2>6. StewardsName'
    BY <1>0, <1>5, WroteSteward DEF FederationTypes, StewardsName
  <2>7. Fed!AgreementBinds
    BY <1>0, <1>5, <2>1 DEF FederationTypes, Fed!AgreementBinds
  <2> QED BY <2>2, <2>4, <2>5, <2>6, <2>7 DEF FederationInv, PlannedActive
<1>6. ASSUME NEW s \in {"active", "disabled"}, Fed!SetAgreementState(s) PROVE Good
  <2>1. agreed' = [version |-> agreed.version + 1, state |-> s, offer |-> agreed.offer] /\ agreed.offer \in Nat
    BY <1>0, <1>6 DEF Fed!SetAgreementState, FederationTypes
  <2> QED BY <1>5, <1>6, <2>1, FederationConstants DEF Fed!SetAgreementState
<1>7. ASSUME NEW o \in Agents, Fed!ReadOffer(o) PROVE Good
  <2> DEFINE op == [Fed!AtRest EXCEPT !.pc = "pin", !.offer = origin.offer, !.current = TRUE]
  <2>1. op \in StewardType /\ op.pc = "pin"
    BY <1>0, FederationConstants DEF FederationTypes, StewardType
  <2> HIDE DEF op
  <2>2. steward' = [steward EXCEPT ![o] = op] /\ UNCHANGED <<origin, agreed, mirror, syncs>>
    BY <1>7 DEF Fed!ReadOffer, op
  <2> QED BY <2>1, <2>2, StewardMoves
<1>8. ASSUME NEW o \in Agents, steward' = [steward EXCEPT ![o] = Fed!AtRest],
             UNCHANGED <<origin, agreed, mirror, syncs>>
      PROVE  Good
  BY <1>8, StewardMoves, FederationConstants
<1>9. ASSUME NEW o \in Agents, Fed!InspectAgreement(o) PROVE Good
  <2>1. CASE steward[o].current
    <3>1. steward[o].offer \in Nat
      BY <1>0 DEF FederationTypes, StewardType
    <3> QED BY <1>5, <1>9, <2>1, <3>1, FederationConstants DEF Fed!InspectAgreement
  <2>2. CASE ~steward[o].current
    BY <1>8, <1>9, <2>2 DEF Fed!InspectAgreement
  <2> QED BY <2>1, <2>2
<1>10. ASSUME NEW o \in Agents, NEW p \in Items, Fed!PlanSync(o, p) PROVE Good
  <2> DEFINE op == [Fed!AtRest EXCEPT !.pc = "store", !.plan = p, !.effect = Fed!SyncEffect,
                                      !.agreement = agreed.version, !.current = TRUE]
  <2>1. op \in StewardType /\ op.pc = "store" /\ op.plan = p /\ op.agreement = agreed.version
    BY <1>0, FederationConstants, SyncEffectType DEF FederationTypes, StewardType
  <2> HIDE DEF op
  <2>2. steward' = [steward EXCEPT ![o] = op] /\ UNCHANGED <<origin, agreed, mirror, syncs>>
    BY <1>10 DEF Fed!PlanSync, op
  <2>3. ActiveAt(op.agreement)
    BY <1>0, <1>10, <2>1 DEF Fed!PlanSync, ActiveAt, FederationTypes
  <2> QED BY <2>1, <2>2, <2>3, StewardMoves
\* Writes of the document that leave the agreement alone.
<1>11. ASSUME NEW o \in Agents, NEW mine \in StewardType, NEW p \in Items, NEW row \in SyncType,
              UNCHANGED <<origin, agreed>>,
              steward' = Fed!Wrote(o, mine), syncs' = [syncs EXCEPT ![p] = row],
              (mirror \in [state : {"none", "active", "withdrawn"}, seq : Nat])',
              row.state # "none", ActiveAt(row.agreement),
              mine.pc \in {"idle", "read"},
              mine.pc = "read" => mine.plan = p
       PROVE  FederationInv'
  <2>1. FederationTypes'
    BY <1>0, <1>11, WroteSteward DEF FederationTypes
  <2>2. PlannedActive'
    <3>1. \A q \in Items : syncs'[q].state # "none" => ActiveAt(syncs'[q].agreement)
      BY <1>0, <1>11 DEF FederationTypes, PlannedActive
    <3>2. \A x \in Agents : steward'[x].pc = "store" => ActiveAt(steward'[x].agreement)
      BY <1>0, <1>11, WroteSteward DEF FederationTypes, PlannedActive
    <3> QED BY <1>11, <3>1, <3>2 DEF PlannedActive, ActiveAt
  <2>3. StewardsName'
    <3>1. \A q \in Items : syncs[q].state # "none" => syncs'[q].state # "none"
      BY <1>0, <1>11 DEF FederationTypes
    <3>2. syncs'[p].state # "none"
      BY <1>0, <1>11 DEF FederationTypes
    <3> QED BY <1>0, <1>11, <3>1, <3>2, WroteSteward DEF FederationTypes, StewardsName
  <2> QED BY <2>1, <2>2, <2>3 DEF FederationInv
<1>12. ASSUME NEW o \in Agents, Fed!StoreSync(o) PROVE Good
  <2> DEFINE p == steward[o].plan
             row == [state |-> "preview", agreement |-> steward[o].agreement, effect |-> steward[o].effect]
  <2>1. CASE steward[o].current
    <3>1. /\ p \in Items /\ ActiveAt(steward[o].agreement)
          /\ row \in SyncType
      BY <1>0, <1>12 DEF Fed!StoreSync, StewardsName, PlannedActive, FederationTypes, StewardType,
        SyncType, Fed!SyncState
    <3>2. syncs' = [syncs EXCEPT ![p] = row] /\ steward' = Fed!Wrote(o, Fed!AtRest)
          /\ UNCHANGED <<origin, agreed, mirror>>
      BY <1>12, <2>1 DEF Fed!StoreSync
    <3>3. FederationInv'
      BY <1>0, <1>11, <3>1, <3>2, FederationConstants DEF FederationTypes
    <3> QED BY <3>2, <3>3 DEF Fed!AgreementBinds, Fed!Served
  <2>2. CASE ~steward[o].current
    BY <1>8, <1>12, <2>2 DEF Fed!StoreSync
  <2> QED BY <2>1, <2>2
<1>13. ASSUME NEW o \in Agents, NEW p \in Items, Fed!ExecuteSync(o, p) PROVE Good
  <2> DEFINE op == [Fed!AtRest EXCEPT !.plan = p, !.current = TRUE,
                      !.pc = IF syncs[p].state = "preview" THEN "claim" ELSE "read"]
  <2>1. op \in StewardType /\ op.pc \in {"claim", "read"} /\ op.plan = p
    BY FederationConstants DEF StewardType
  <2> HIDE DEF op
  <2>2. steward' = [steward EXCEPT ![o] = op] /\ UNCHANGED <<origin, agreed, mirror, syncs>>
    BY <1>13 DEF Fed!ExecuteSync, op
  <2>3. syncs[p].state # "none"
    BY <1>13 DEF Fed!ExecuteSync
  <2> QED BY <2>1, <2>2, <2>3, StewardMoves
<1>14. ASSUME NEW o \in Agents, Fed!ClaimSync(o) PROVE Good
  <2> DEFINE p == steward[o].plan
             row == [syncs[p] EXCEPT !.state = "executing"]
             mine == [steward[o] EXCEPT !.pc = "read"]
  <2>1. CASE steward[o].current
    <3>1. p \in Items /\ ActiveAt(syncs[p].agreement)
      BY <1>0, <1>14 DEF Fed!ClaimSync, StewardsName, PlannedActive
    <3>2. /\ row \in SyncType /\ row.state # "none" /\ row.agreement = syncs[p].agreement
          /\ mine \in StewardType /\ mine.pc = "read" /\ mine.plan = p
      BY <1>0, <3>1 DEF FederationTypes, StewardType, SyncType, Fed!SyncState
    <3>3. syncs' = [syncs EXCEPT ![p] = row] /\ steward' = Fed!Wrote(o, mine)
          /\ UNCHANGED <<origin, agreed, mirror>>
      BY <1>0, <1>14, <2>1 DEF Fed!ClaimSync, FederationTypes
    <3> HIDE DEF row, mine
    <3>4. FederationInv'
      BY <1>0, <1>11, <3>1, <3>2, <3>3 DEF FederationTypes
    <3> QED BY <3>3, <3>4 DEF Fed!AgreementBinds, Fed!Served
  <2>2. CASE ~steward[o].current
    BY <1>8, <1>14, <2>2 DEF Fed!ClaimSync
  <2> QED BY <2>1, <2>2
<1>15. ASSUME NEW o \in Agents, NEW pc \in {"apply", "fail"},
              steward[o].pc \in {"read", "apply"},
              steward' = [steward EXCEPT ![o].pc = pc], UNCHANGED <<origin, agreed, mirror, syncs>>
       PROVE  Good
  <2> DEFINE op == [steward[o] EXCEPT !.pc = pc]
  <2>1. op \in StewardType /\ op.pc = pc /\ op.plan = steward[o].plan
    BY <1>0 DEF FederationTypes, StewardType
  <2>2. steward' = [steward EXCEPT ![o] = op]
    BY <1>0, <1>15 DEF FederationTypes
  <2>3. op.plan \in Items /\ syncs[op.plan].state # "none"
    BY <1>0, <1>15, <2>1 DEF StewardsName
  <2> HIDE DEF op
  <2> QED BY <1>15, <2>1, <2>2, <2>3, StewardMoves
<1>16. ASSUME NEW o \in Agents, Fed!ReadAgain(o) PROVE Good
  BY <1>15, <1>16 DEF Fed!ReadAgain
<1>17. ASSUME NEW o \in Agents, Fed!ApplySync(o) PROVE Good
  <2> DEFINE p == steward[o].plan
             row == [syncs[p] EXCEPT !.state = "completed"]
  <2>0. p \in Items /\ syncs[p].state # "none" /\ ActiveAt(syncs[p].agreement)
    BY <1>0, <1>17 DEF Fed!ApplySync, StewardsName, PlannedActive
  <2>1. CASE syncs[p].state = "executing" /\ Fed!SameAgreement(p)
    <3>1. /\ row \in SyncType /\ row.state = "completed" /\ row.agreement = syncs[p].agreement
      BY <1>0, <2>0 DEF FederationTypes, SyncType, Fed!SyncState
    <3>2. /\ syncs' = [syncs EXCEPT ![p] = row] /\ steward' = Fed!Wrote(o, Fed!AtRest)
          /\ UNCHANGED <<origin, agreed>>
      BY <1>0, <1>17, <2>1 DEF Fed!ApplySync, FederationTypes
    <3>3. (mirror \in [state : {"none", "active", "withdrawn"}, seq : Nat])'
      BY <1>0, <1>17, <2>0, <2>1 DEF Fed!ApplySync, FederationTypes, SyncType, SyncEffects
    <3> HIDE DEF row
    <3>4. FederationInv'
      BY <1>11, <2>0, <3>1, <3>2, <3>3, FederationConstants
    <3>5. agreed.state = "active" /\ syncs[p].agreement = agreed.version
      BY <2>0, <2>1 DEF Fed!SameAgreement, ActiveAt
    <3>6. syncs'[p].state = "completed"
      BY <1>0, <2>0, <3>1, <3>2 DEF FederationTypes
    <3> QED BY <2>0, <2>1, <3>4, <3>5, <3>6 DEF Fed!AgreementBinds
  <2>2. CASE ~(syncs[p].state = "executing" /\ Fed!SameAgreement(p))
    BY <1>15, <1>17, <2>2 DEF Fed!ApplySync
  <2> QED BY <2>1, <2>2
<1>18. ASSUME NEW o \in Agents, NEW b \in BOOLEAN, Fed!MarkPlanFailed(o, b) PROVE Good
  <2> DEFINE p == steward[o].plan
             row == [syncs[p] EXCEPT !.state = "failed"]
  <2>1. CASE b \/ syncs[p].state = "completed"
    BY <1>8, <1>18, <2>1 DEF Fed!MarkPlanFailed
  <2>2. CASE ~(b \/ syncs[p].state = "completed")
    <3>1. p \in Items /\ ActiveAt(syncs[p].agreement)
      BY <1>0, <1>18 DEF Fed!MarkPlanFailed, StewardsName, PlannedActive
    <3>2. row \in SyncType /\ row.state = "failed" /\ row.agreement = syncs[p].agreement
      BY <1>0, <3>1 DEF FederationTypes, SyncType, Fed!SyncState
    <3>3. syncs' = [syncs EXCEPT ![p] = row] /\ steward' = Fed!Wrote(o, Fed!AtRest)
          /\ UNCHANGED <<origin, agreed, mirror>>
      BY <1>0, <1>18, <2>2 DEF Fed!MarkPlanFailed, FederationTypes
    <3> HIDE DEF row
    <3>4. FederationInv'
      BY <1>0, <1>11, <3>1, <3>2, <3>3, FederationConstants DEF FederationTypes
    <3> QED BY <3>3, <3>4 DEF Fed!AgreementBinds, Fed!Served
  <2> QED BY <2>1, <2>2
<1>19. ASSUME NEW o \in Agents, Fed!Crash(o) PROVE Good
  BY <1>8, <1>19 DEF Fed!Crash
<1> QED
  BY <1>2, <1>3, <1>4, <1>6, <1>7, <1>9, <1>10, <1>12, <1>13, <1>14, <1>16, <1>17, <1>18, <1>19
  DEF Fed!Next

\* What is mirrored, or served of it, changes only by a synchronization that was planned under the
\* version of the agreement that is active now, for any number of plans and operators
\* (executeSync against setAgreementState and inspectAgreement).
THEOREM AgreementAlwaysBinds == Spec => AgreementBinds
<1> DEFINE Inv == service = "federation" => FederationInv
<1>1. Init => Inv
  BY FederationInit DEF Init
<1>2. Inv /\ [Next]_vars => Inv' /\ (UNCHANGED vars \/ (service = "federation" => Fed!AgreementBinds))
  <2>1. CASE UNCHANGED vars
    BY <2>1 DEF vars, federation, FederationInv, FederationTypes, PlannedActive, ActiveAt, StewardsName
  <2>2. CASE Next
    BY <2>2, FederationStep DEF Next
  <2> QED BY <2>1, <2>2
<1> QED
  BY <1>1, <1>2, PTL DEF Spec, AgreementBinds

-----------------------------------------------------------------------------
(* Reviewed plans (KnowledgeAgents): what people hold fits the document they read, and what a      *)
(* plan wrote is later than what it was planned for.                                               *)

AgendaPlan == [state : Kno!PlanState, policy : Kno!Policy, rev : Nat, key : Items \cup {None}]
Document   == [version : Nat, policy : Kno!Policy, plans : [Agenda -> AgendaPlan],
               receipts : [Agenda -> Items \cup {None}]]
Person     == [pc : {"idle", "plan", "store", "target", "stale", "claim", "write", "fail", "finalize"},
               plan : Agenda \cup {None}, key : Items \cup {None}, version : Nat,
               policy : Kno!Policy, rev : Nat, retry : BOOLEAN]

KnowledgeTypes ==
  /\ know \in Document
  /\ content \in [rev : Nat, of : Agenda \cup {None}]
  /\ human \in [Agents -> Person]
  /\ applied \in [Agenda -> Nat]

Unbegun == {"none", "pending", "rejected"}

\* Who plans has found no such plan in the document it read.  Who executes has
\* an approved plan, or one that is under way, and writes the draft against the
\* planned revision.
Fits(h) ==
  /\ human[h].pc \in {"plan", "store"} =>
       /\ human[h].plan \in Agenda /\ human[h].version <= know.version
       /\ human[h].version = know.version => know.plans[human[h].plan].state = "none"
  /\ human[h].pc \in {"target", "stale", "claim", "write", "fail", "finalize"} =>
       human[h].plan \in Agenda /\ know.plans[human[h].plan].state \notin Unbegun
  /\ human[h].pc \in {"write", "fail", "finalize"} \/ (human[h].pc = "target" /\ human[h].retry) =>
       know.plans[human[h].plan].state # "approved"
  /\ human[h].pc \in {"claim", "write"} => human[h].rev = know.plans[human[h].plan].rev
  /\ human[h].pc = "finalize" => applied[human[h].plan] = 1

AllFit == \A h \in Agents : Fits(h)

\* What a plan wrote is later than what it was planned for.
AppliedIsLater ==
  \A p \in Agenda : /\ applied[p] # 0 => content.rev > know.plans[p].rev
                    /\ content.of = p => applied[p] = 1

KnowledgeInv == KnowledgeTypes /\ AllFit /\ AppliedIsLater /\ Kno!AppliedOnce

\* Nothing is planned, and nothing was applied.
LEMMA KnowledgeInit == Kno!Init => KnowledgeInv
<1>1. Kno!Init => KnowledgeTypes
  BY DEF Kno!Init, Kno!NoPlan, Kno!Nothing, KnowledgeTypes, Document, AgendaPlan, Person, Kno!Policy, Kno!PlanState
<1>2. Kno!Init => AllFit /\ AppliedIsLater /\ Kno!AppliedOnce
  BY NoneIsNothing DEF Kno!Init, Kno!NoPlan, Kno!Nothing, AllFit, Fits, AppliedIsLater, Kno!AppliedOnce
<1> QED BY <1>1, <1>2 DEF KnowledgeInv

\* What a write of the document may make of a plan.
Follows(old, new) ==
  /\ old.state \notin Unbegun => new.state \notin Unbegun /\ new.rev = old.rev
  /\ old.state \notin Unbegun \cup {"approved"} => new.state # "approved"

\* A step of one person that writes nothing.
LEMMA PersonStep ==
  ASSUME KnowledgeInv, UNCHANGED <<know, content, applied>>,
         NEW h \in Agents, NEW op \in Person, human' = [human EXCEPT ![h] = op], Fits(h)'
  PROVE  KnowledgeInv'
<1>1. KnowledgeTypes'
  BY DEF KnowledgeInv, KnowledgeTypes
<1>2. AllFit'
  BY DEF KnowledgeInv, KnowledgeTypes, AllFit, Fits
<1> QED
  BY <1>1, <1>2 DEF KnowledgeInv, AppliedIsLater, Kno!AppliedOnce

\* A step that writes the document.
LEMMA DocumentStep ==
  ASSUME KnowledgeInv, UNCHANGED <<content, applied>>,
         know' \in Document, know'.version = know.version + 1,
         human' \in [Agents -> Person],
         \A h \in Agents : human'[h] = human[h] \/ Fits(h)',
         \A p \in Agenda : Follows(know.plans[p], know'.plans[p]),
         Kno!AppliedOnce'
  PROVE  KnowledgeInv'
<1>1. KnowledgeTypes'
  BY DEF KnowledgeInv, KnowledgeTypes
<1>2. AllFit'
  <2>1. SUFFICES ASSUME NEW h \in Agents, human'[h] = human[h] PROVE Fits(h)'
    BY DEF AllFit
  <2>2. Fits(h) /\ human[h] \in Person /\ know.version \in Nat
    BY DEF KnowledgeInv, KnowledgeTypes, AllFit, Document
  <2>3. human[h].version <= know.version =>
          human[h].version <= know'.version /\ human[h].version # know'.version
    BY <2>2 DEF Person
  <2>4. human[h].pc \in {"plan", "store"} => Fits(h)'
    BY <2>1, <2>2, <2>3 DEF Fits
  <2>5. human[h].pc \notin {"plan", "store"} => Fits(h)'
    BY <2>1, <2>2 DEF Fits, Follows
  <2> QED BY <2>4, <2>5
<1>3. AppliedIsLater'
  <2>1. \A p \in Agenda : applied[p] # 0 => know'.plans[p].rev = know.plans[p].rev
    BY DEF KnowledgeInv, Kno!AppliedOnce, Follows, Unbegun
  <2> QED BY <2>1 DEF KnowledgeInv, AppliedIsLater
<1> QED
  BY <1>1, <1>2, <1>3 DEF KnowledgeInv

\* Who is done with everything is well typed.
LEMMA NothingIsIdle == Kno!Nothing \in Person /\ Kno!Nothing.pc = "idle"
BY DEF Kno!Nothing, Person, Kno!Policy

\* A person is done, whether or not the document was written for it.
LEMMA DoneFits ==
  ASSUME KnowledgeTypes, NEW h \in Agents, human' = [human EXCEPT ![h] = Kno!Nothing]
  PROVE  /\ human' \in [Agents -> Person] /\ Fits(h)'
         /\ \A g \in Agents : human'[g] = human[g] \/ Fits(g)'
BY NothingIsIdle DEF KnowledgeTypes, Fits

\* A write of one plan.
LEMMA PlanWritten ==
  ASSUME KnowledgeInv, NEW p \in Agenda, NEW row \in AgendaPlan,
         know' = [know EXCEPT !.plans = [know.plans EXCEPT ![p] = row], !.version = know.version + 1],
         Follows(know.plans[p], row),
         applied' = applied,
         row.state = "succeeded" => applied[p] = 1,
         row.state \in Unbegun \cup {"approved"} => applied[p] = 0
  PROVE  /\ know' \in Document /\ know'.version = know.version + 1
         /\ \A q \in Agenda : Follows(know.plans[q], know'.plans[q])
         /\ Kno!AppliedOnce'
         /\ know'.plans[p] = row
<1>1. /\ know \in Document /\ know.version + 1 \in Nat
      /\ know.plans \in [Agenda -> AgendaPlan]
  BY DEF KnowledgeInv, KnowledgeTypes, Document
<1>2. /\ know' \in Document /\ know'.version = know.version + 1
      /\ know'.plans = [know.plans EXCEPT ![p] = row]
      /\ know'.receipts = know.receipts
  BY <1>1 DEF Document
<1>3. know'.plans[p] = row /\ \A q \in Agenda : q # p => know'.plans[q] = know.plans[q]
  BY <1>1, <1>2
<1>4. \A q \in Agenda : Follows(know.plans[q], know'.plans[q])
  BY <1>3 DEF Follows
<1>5. Kno!AppliedOnce'
  <2>1. SUFFICES ASSUME NEW q \in Agenda
                 PROVE /\ applied[q] <= 1
                       /\ know.receipts[q] # None \/ know'.plans[q].state = "succeeded" => applied[q] = 1
                       /\ know'.plans[q].state \in {"none", "pending", "approved", "rejected"} => applied[q] = 0
    BY <1>2 DEF Kno!AppliedOnce
  <2>2. CASE q = p
    BY <1>3, <2>2 DEF KnowledgeInv, Kno!AppliedOnce, Unbegun
  <2>3. CASE q # p
    BY <1>3, <2>3 DEF KnowledgeInv, Kno!AppliedOnce
  <2> QED BY <2>2, <2>3
<1> QED BY <1>2, <1>3, <1>4, <1>5

\* Each step of a person, each write of the document and each edit of the content keeps the
\* invariant.
LEMMA KnowledgeStep ==
  ASSUME KnowledgeInv, Kno!Next
  PROVE  KnowledgeInv'
<1>0. /\ KnowledgeTypes /\ AllFit /\ AppliedIsLater /\ Kno!AppliedOnce
      /\ know \in Document /\ know.version \in Nat
      /\ know.plans \in [Agenda -> AgendaPlan]
      /\ DOMAIN know.plans = Agenda /\ DOMAIN human = Agents
      /\ content.rev \in Nat
      /\ \A h \in Agents : human[h] \in Person /\ Fits(h)
  BY DEF KnowledgeInv, KnowledgeTypes, Document, AllFit
<1>1. ASSUME NEW x \in Kno!Policy, Kno!UpdatePolicy(x) PROVE KnowledgeInv'
  <2>1. /\ know' = [know EXCEPT !.policy = x, !.version = know.version + 1]
        /\ UNCHANGED <<content, human, applied>>
    BY <1>0, <1>1 DEF Kno!UpdatePolicy, Kno!Replace, Document
  <2>2. /\ know' \in Document /\ know'.version = know.version + 1
        /\ know'.plans = know.plans /\ know'.receipts = know.receipts
    <3>1. know \in Document /\ know.version + 1 \in Nat
      BY <1>0
    <3> QED BY <2>1, <3>1 DEF Document
  <2>3. Kno!AppliedOnce' /\ human' \in [Agents -> Person]
    BY <1>0, <2>1, <2>2 DEF Kno!AppliedOnce, KnowledgeTypes
  <2>4. \A p \in Agenda : Follows(know.plans[p], know'.plans[p])
    BY <2>2 DEF Follows
  <2> QED BY <2>1, <2>2, <2>3, <2>4, DocumentStep
<1>2. ASSUME NEW p \in Agenda, NEW d \in Kno!PlanState, Kno!ReviewPlan(p, d) PROVE KnowledgeInv'
  <2> DEFINE row == [know.plans[p] EXCEPT !.state = d]
  <2>1. row \in AgendaPlan /\ row.state = d /\ d \in {"approved", "rejected"}
    BY <1>0, <1>2 DEF Kno!ReviewPlan, AgendaPlan
  <2>2. /\ know' = [know EXCEPT !.plans = [know.plans EXCEPT ![p] = row], !.version = know.version + 1]
        /\ UNCHANGED <<content, human, applied>>
    BY <1>0, <1>2 DEF Kno!ReviewPlan, Kno!Replace, Document
  <2>3. Follows(know.plans[p], row) /\ applied[p] = 0
    BY <1>0, <1>2 DEF Kno!ReviewPlan, Follows, Unbegun, Kno!AppliedOnce
  <2> HIDE DEF row
  <2>4. human' \in [Agents -> Person]
    BY <1>0, <2>2 DEF KnowledgeTypes
  <2> QED BY <2>1, <2>2, <2>3, <2>4, PlanWritten, DocumentStep
<1>3. ASSUME NEW h \in Agents, NEW p \in Agenda, Kno!CreatePlan(h, p) PROVE KnowledgeInv'
  <2> DEFINE op == [Kno!Nothing EXCEPT !.pc = "plan", !.plan = p, !.version = know.version,
                                       !.policy = know.policy, !.rev = content.rev]
  <2>1. op \in Person /\ op.pc = "plan" /\ op.plan = p /\ op.version = know.version
    BY <1>0, NothingIsIdle DEF Person, Document
  <2> HIDE DEF op
  <2>2. human' = [human EXCEPT ![h] = op] /\ UNCHANGED <<know, content, applied>>
    BY <1>3 DEF Kno!CreatePlan, op
  <2>3. human'[h] = op
    BY <1>0, <2>2
  <2>4. Fits(h)'
    BY <1>0, <1>3, <2>1, <2>2, <2>3 DEF Fits, Kno!CreatePlan
  <2> QED BY <2>1, <2>2, <2>4, PersonStep
\* A person that is done and has written nothing.
<1>4. ASSUME NEW h \in Agents, Kno!Done(h), UNCHANGED <<know, content, applied>> PROVE KnowledgeInv'
  <2>1. human' = [human EXCEPT ![h] = Kno!Nothing]
    BY <1>4 DEF Kno!Done
  <2> QED BY <1>0, <1>4, <2>1, DoneFits, NothingIsIdle, PersonStep
\* A person that goes on and has written nothing.
<1>5. ASSUME NEW h \in Agents,
             NEW pc \in {"store", "finalize", "stale", "fail"}, Kno!Then(h, pc),
             UNCHANGED <<know, content, applied>>,
             pc = "store" => human[h].pc = "plan",
             pc = "stale" => human[h].pc = "target",
             pc = "fail" => human[h].pc = "write",
             pc = "finalize" => human[h].pc = "target" /\ human[h].retry /\ applied[human[h].plan] = 1
      PROVE  KnowledgeInv'
  <2> DEFINE op == [human[h] EXCEPT !.pc = pc]
  <2>1. op \in Person /\ op.pc = pc /\ op.plan = human[h].plan /\ op.version = human[h].version
    BY <1>0 DEF Person
  <2>2. human' = [human EXCEPT ![h] = op] /\ human'[h] = op
    BY <1>0, <1>5 DEF Kno!Then
  <2> HIDE DEF op
  <2>3. Fits(h)'
    BY <1>0, <1>5, <2>1, <2>2 DEF Fits
  <2> QED BY <1>5, <2>1, <2>2, <2>3, PersonStep
<1>6. ASSUME NEW h \in Agents, NEW ok \in BOOLEAN, Kno!FinishPlanning(h, ok) PROVE KnowledgeInv'
  BY <1>4, <1>5, <1>6 DEF Kno!FinishPlanning
\* A person that is done and has written one plan.
<1>7. ASSUME NEW h \in Agents, NEW p \in Agenda, NEW row \in AgendaPlan, Kno!Done(h),
             know' = [know EXCEPT !.plans = [know.plans EXCEPT ![p] = row], !.version = know.version + 1],
             Follows(know.plans[p], row),
             row.state = "succeeded" => applied[p] = 1,
             row.state \in Unbegun \cup {"approved"} => applied[p] = 0,
             UNCHANGED <<content, applied>>
      PROVE  KnowledgeInv'
  <2>1. human' = [human EXCEPT ![h] = Kno!Nothing]
    BY <1>7 DEF Kno!Done
  <2>2. /\ know' \in Document /\ know'.version = know.version + 1
        /\ \A q \in Agenda : Follows(know.plans[q], know'.plans[q])
        /\ Kno!AppliedOnce'
    BY <1>7, PlanWritten
  <2> QED BY <1>0, <1>7, <2>1, <2>2, DoneFits, DocumentStep
<1>8. ASSUME NEW h \in Agents, Kno!StorePlan(h) PROVE KnowledgeInv'
  <2> DEFINE p == human[h].plan
             row == [state |-> "pending", policy |-> human[h].policy, rev |-> human[h].rev, key |-> None]
  <2>1. CASE know.version = human[h].version
    <3>1. p \in Agenda /\ know.plans[p].state = "none" /\ row \in AgendaPlan
      BY <1>0, <1>8, <2>1 DEF Kno!StorePlan, Fits, Person, AgendaPlan, Kno!PlanState
    <3>2. know' = [know EXCEPT !.plans = [know.plans EXCEPT ![p] = row], !.version = know.version + 1]
      BY <1>0, <1>8, <2>1 DEF Kno!StorePlan, Kno!Replace, Document
    <3>3. Follows(know.plans[p], row) /\ applied[p] = 0
      BY <1>0, <3>1 DEF Follows, Unbegun, Kno!AppliedOnce
    <3> QED BY <1>7, <1>8, <3>1, <3>2, <3>3 DEF Kno!StorePlan
  <2>2. CASE know.version # human[h].version
    BY <1>4, <1>8, <2>2 DEF Kno!StorePlan
  <2> QED BY <2>1, <2>2
<1>9. ASSUME NEW h \in Agents, NEW p \in Agenda, NEW k \in Items, Kno!Execute(h, p, k) PROVE KnowledgeInv'
  <2> DEFINE retry == know.plans[p].state = "executing" /\ know.plans[p].key = k
             allowed == IF Kno!SamePolicy(p) THEN know.policy ELSE 0
             op == [Kno!Nothing EXCEPT !.pc = "target", !.plan = p, !.key = k, !.version = know.version,
                                       !.retry = retry, !.policy = allowed]
  <2>1. allowed \in Kno!Policy
    BY <1>0 DEF Document, Kno!Policy
  <2>2. op \in Person /\ op.pc = "target" /\ op.plan = p /\ op.retry = retry
    BY ZenonT(30), <1>0, <2>1, NothingIsIdle DEF Person
  <2>3. human' = [human EXCEPT ![h] = op] /\ UNCHANGED <<know, content, applied>>
    BY <1>9 DEF Kno!Execute
  <2> HIDE DEF op, allowed
  <2>4. human'[h] = op
    BY <1>0, <2>3
  <2>5. retry \/ know.plans[p].state = "approved"
    BY <1>9 DEF Kno!Execute
  <2>6. Fits(h)'
    BY <2>2, <2>3, <2>4, <2>5 DEF Fits, Unbegun
  <2> QED BY <2>2, <2>3, <2>6, PersonStep
<1>10. ASSUME NEW h \in Agents, Kno!ReadTarget(h) PROVE KnowledgeInv'
  <2> DEFINE p == human[h].plan
             next == IF human[h].retry THEN "write" ELSE "claim"
             op == [human[h] EXCEPT !.pc = next, !.rev = content.rev]
  <2>0. p \in Agenda /\ human[h].pc = "target" /\ UNCHANGED <<know, content, applied>>
    BY <1>0, <1>10 DEF Kno!ReadTarget, Fits
  <2>1. CASE human[h].retry /\ content.of = p
    <3>1. applied[p] = 1
      BY <1>0, <2>0, <2>1 DEF AppliedIsLater
    <3> QED BY <1>5, <1>10, <2>0, <2>1, <3>1 DEF Kno!ReadTarget
  <2>2. CASE ~(human[h].retry /\ content.of = p) /\ human[h].policy = 0
    BY <1>4, <1>10, <2>2 DEF Kno!ReadTarget
  <2>3. CASE ~(human[h].retry /\ content.of = p) /\ human[h].policy # 0 /\ ~Kno!PlannedRevision(p)
    BY <1>5, <1>10, <2>0, <2>3 DEF Kno!ReadTarget
  <2>4. CASE ~(human[h].retry /\ content.of = p) /\ human[h].policy # 0 /\ Kno!PlannedRevision(p)
    <3>1. /\ op \in Person /\ op.pc = next /\ op.plan = p /\ op.retry = human[h].retry
          /\ op.rev = content.rev
      BY <1>0 DEF Person
    <3>2. human' = [human EXCEPT ![h] = op]
      BY <1>0, <1>10, <2>4 DEF Kno!ReadTarget
    <3> HIDE DEF op
    <3>3. human'[h] = op
      BY <1>0, <3>2
    <3>4. op.rev = know.plans[p].rev
      BY <2>4, <3>1 DEF Kno!PlannedRevision
    <3>5. Fits(h)'
      BY <1>0, <2>0, <3>1, <3>3, <3>4 DEF Fits
    <3> QED BY <2>0, <3>1, <3>2, <3>5, PersonStep
  <2> QED BY <2>1, <2>2, <2>3, <2>4
<1>11. ASSUME NEW h \in Agents, Kno!MarkStale(h) PROVE KnowledgeInv'
  <2> DEFINE p == human[h].plan
             row == [know.plans[p] EXCEPT !.state = "stale"]
  <2>1. CASE know.version = human[h].version
    <3>1. p \in Agenda /\ row \in AgendaPlan /\ row.state = "stale" /\ row.rev = know.plans[p].rev
      BY <1>0, <1>11 DEF Kno!MarkStale, Fits, AgendaPlan, Kno!PlanState
    <3>2. know' = [know EXCEPT !.plans = [know.plans EXCEPT ![p] = row], !.version = know.version + 1]
      BY <1>0, <1>11, <2>1, <3>1 DEF Kno!MarkStale, Kno!Replace, Document
    <3>3. Follows(know.plans[p], row)
      BY <3>1 DEF Follows, Unbegun
    <3> HIDE DEF row
    <3> QED BY <1>7, <1>11, <3>1, <3>2, <3>3 DEF Kno!MarkStale, Unbegun
  <2>2. CASE know.version # human[h].version
    BY <1>4, <1>11, <2>2 DEF Kno!MarkStale
  <2> QED BY <2>1, <2>2
<1>12. ASSUME NEW h \in Agents, Kno!Claim(h) PROVE KnowledgeInv'
  <2> DEFINE p == human[h].plan
             row == [know.plans[p] EXCEPT !.state = "executing", !.key = human[h].key]
             op == [human[h] EXCEPT !.pc = "write"]
  <2>1. CASE know.version = human[h].version
    <3>1. p \in Agenda /\ row \in AgendaPlan /\ row.state = "executing" /\ row.rev = know.plans[p].rev
      <4>1. p \in Agenda
        BY <1>0, <1>12 DEF Kno!Claim, Fits
      <4>2. know.plans[p] \in AgendaPlan /\ human[h].key \in Items \cup {None}
        BY <1>0, <4>1 DEF Person
      <4> QED BY <4>1, <4>2 DEF AgendaPlan, Kno!PlanState
    <3>2. /\ know' = [know EXCEPT !.plans = [know.plans EXCEPT ![p] = row], !.version = know.version + 1]
          /\ UNCHANGED <<content, applied>>
      BY ZenonT(30), <1>0, <1>12, <2>1, <3>1 DEF Kno!Claim, Kno!Replace, Document
    <3>3. Follows(know.plans[p], row)
      BY <3>1 DEF Follows, Unbegun
    <3>4. op \in Person /\ op.pc = "write" /\ op.plan = p /\ op.rev = human[h].rev
      BY <1>0 DEF Person
    <3>5. human' = [human EXCEPT ![h] = op]
      BY <1>0, <1>12, <2>1 DEF Kno!Claim, Kno!Then
    <3> HIDE DEF row, op
    <3>6. /\ know' \in Document /\ know'.version = know.version + 1
          /\ \A q \in Agenda : Follows(know.plans[q], know'.plans[q])
          /\ Kno!AppliedOnce'
          /\ know'.plans[p] = row
      BY <3>1, <3>2, <3>3, PlanWritten DEF Unbegun
    <3>7. human'[h] = op /\ human' \in [Agents -> Person] /\ \A g \in Agents : g # h => human'[g] = human[g]
      BY <1>0, <3>4, <3>5 DEF KnowledgeTypes
    <3>8. Fits(h)'
      BY <1>0, <1>12, <3>1, <3>4, <3>6, <3>7 DEF Fits, Unbegun, Kno!Claim
    <3> QED BY <3>2, <3>6, <3>7, <3>8, DocumentStep
  <2>2. CASE know.version # human[h].version
    BY <1>4, <1>12, <2>2 DEF Kno!Claim
  <2> QED BY <2>1, <2>2
<1>13. ASSUME NEW h \in Agents, NEW refused \in BOOLEAN, Kno!UpdateDraft(h, refused) PROVE KnowledgeInv'
  <2> DEFINE p == human[h].plan
             op == [human[h] EXCEPT !.pc = "finalize"]
  <2>1. CASE ~refused /\ content.rev = human[h].rev
    <3>1. /\ p \in Agenda /\ content.rev = know.plans[p].rev
          /\ know.plans[p].state \notin {"none", "pending", "approved", "rejected"}
      BY <1>0, <1>13, <2>1 DEF Kno!UpdateDraft, Fits, Unbegun
    <3>2. applied[p] = 0
      BY <1>0, <3>1 DEF AppliedIsLater, KnowledgeTypes, AgendaPlan
    <3>3. /\ content' = [rev |-> content.rev + 1, of |-> p]
          /\ applied' = [applied EXCEPT ![p] = 1]
          /\ human' = [human EXCEPT ![h] = op] /\ know' = know
      BY <1>0, <1>13, <2>1, <3>1, <3>2 DEF Kno!UpdateDraft, Kno!Then, KnowledgeTypes
    <3>4. op \in Person /\ op.pc = "finalize" /\ op.plan = p
      BY <1>0 DEF Person
    <3> HIDE DEF op
    <3>5. human'[h] = op /\ \A g \in Agents : g # h => human'[g] = human[g]
      BY <1>0, <3>3
    <3>6. applied'[p] = 1 /\ \A q \in Agenda : q # p => applied'[q] = applied[q]
      BY <1>0, <3>1, <3>3 DEF KnowledgeTypes
    <3>7. KnowledgeTypes'
      BY <1>0, <3>1, <3>3, <3>4 DEF KnowledgeTypes
    <3>8. AllFit'
      <4>1. Fits(h)'
        BY <3>1, <3>3, <3>4, <3>5, <3>6 DEF Fits, Unbegun
      <4>2. \A g \in Agents : g # h => Fits(g)'
        BY <1>0, <3>2, <3>3, <3>5, <3>6 DEF Fits, Unbegun
      <4> QED BY <4>1, <4>2 DEF AllFit
    <3>9. AppliedIsLater'
      <4>1. content'.rev = content.rev + 1 /\ content'.of = p
        BY <3>3
      <4>2. \A q \in Agenda : know.plans[q].rev \in Nat
        BY <1>0 DEF AgendaPlan
      <4>3. \A q \in Agenda : applied[q] # 0 => content'.rev > know.plans[q].rev
        BY <1>0, <4>1, <4>2 DEF AppliedIsLater
      <4> QED BY <1>0, <3>1, <3>3, <3>6, <4>1, <4>2, <4>3 DEF AppliedIsLater
    <3>10. Kno!AppliedOnce'
      BY <1>0, <3>1, <3>3, <3>6 DEF Kno!AppliedOnce
    <3> QED BY <3>7, <3>8, <3>9, <3>10 DEF KnowledgeInv
  <2>2. CASE ~(~refused /\ content.rev = human[h].rev)
    BY <1>5, <1>13, <2>2 DEF Kno!UpdateDraft
  <2> QED BY <2>1, <2>2
<1>14. ASSUME NEW h \in Agents, NEW conflict \in BOOLEAN, Kno!MarkFailed(h, conflict) PROVE KnowledgeInv'
  <2> DEFINE p == human[h].plan
             row == [know.plans[p] EXCEPT !.state = "failed", !.key = human[h].key]
  <2>1. CASE ~conflict
    <3>1. p \in Agenda /\ row \in AgendaPlan /\ row.state = "failed" /\ row.rev = know.plans[p].rev
      <4>1. p \in Agenda
        BY <1>0, <1>14 DEF Kno!MarkFailed, Fits
      <4>2. know.plans[p] \in AgendaPlan /\ human[h].key \in Items \cup {None}
        BY <1>0, <4>1 DEF Person
      <4> QED BY <4>1, <4>2 DEF AgendaPlan, Kno!PlanState
    <3>2. know' = [know EXCEPT !.plans = [know.plans EXCEPT ![p] = row], !.version = know.version + 1]
      BY ZenonT(30), <1>0, <1>14, <2>1, <3>1 DEF Kno!MarkFailed, Kno!Replace, Document
    <3>3. Follows(know.plans[p], row)
      BY <3>1 DEF Follows, Unbegun
    <3> HIDE DEF row
    <3> QED BY <1>7, <1>14, <3>1, <3>2, <3>3 DEF Kno!MarkFailed, Unbegun
  <2>2. CASE conflict
    BY <1>4, <1>14, <2>2 DEF Kno!MarkFailed
  <2> QED BY <2>1, <2>2
<1>15. ASSUME NEW h \in Agents, NEW conflict \in BOOLEAN, Kno!FinalizeExecution(h, conflict)
       PROVE  KnowledgeInv'
  <2> DEFINE p == human[h].plan
             row == [know.plans[p] EXCEPT !.state = "succeeded", !.key = human[h].key]
  <2>1. CASE ~(conflict \/ know.receipts[p] = human[h].key)
    <3>1. /\ p \in Agenda /\ row \in AgendaPlan /\ row.state = "succeeded" /\ row.rev = know.plans[p].rev
          /\ applied[p] = 1 /\ human[h].key \in Items \cup {None}
      <4>1. p \in Agenda /\ applied[p] = 1
        BY <1>0, <1>15 DEF Kno!FinalizeExecution, Fits
      <4>2. know.plans[p] \in AgendaPlan /\ human[h].key \in Items \cup {None}
        BY <1>0, <4>1 DEF Person
      <4> QED BY <4>1, <4>2 DEF AgendaPlan, Kno!PlanState
    <3>2. /\ know' = [[know EXCEPT !.plans[p].state = "succeeded", !.plans[p].key = human[h].key,
                                   !.receipts[p] = human[h].key] EXCEPT !.version = know.version + 1]
          /\ human' = [human EXCEPT ![h] = Kno!Nothing] /\ UNCHANGED <<content, applied>>
      BY <1>15, <2>1 DEF Kno!FinalizeExecution, Kno!Replace, Kno!Done
    <3>3. Follows(know.plans[p], row)
      BY <3>1 DEF Follows, Unbegun
    <3>4. know.receipts \in [Agenda -> Items \cup {None}] /\ know.version + 1 \in Nat
      BY <1>0 DEF Document
    <3>9. [know EXCEPT !.plans[p].state = "succeeded", !.plans[p].key = human[h].key,
                       !.receipts[p] = human[h].key]
            = [know EXCEPT !.plans = [know.plans EXCEPT ![p] = row],
                           !.receipts = [know.receipts EXCEPT ![p] = human[h].key]]
      BY <1>0, <3>1, <3>4 DEF Document
    <3> HIDE DEF row
    <3>5. /\ know' \in Document /\ know'.version = know.version + 1
          /\ know'.plans = [know.plans EXCEPT ![p] = row]
          /\ know'.receipts = [know.receipts EXCEPT ![p] = human[h].key]
      <4>1. /\ [know.plans EXCEPT ![p] = row] \in [Agenda -> AgendaPlan]
            /\ [know.receipts EXCEPT ![p] = human[h].key] \in [Agenda -> Items \cup {None}]
        BY <1>0, <3>1, <3>4
      <4>2. know' = [[know EXCEPT !.plans = [know.plans EXCEPT ![p] = row],
                                  !.receipts = [know.receipts EXCEPT ![p] = human[h].key]]
                       EXCEPT !.version = know.version + 1]
        BY <3>2, <3>9
      <4>3. know \in Document
        BY <1>0
      <4> QED BY <3>4, <4>1, <4>2, <4>3 DEF Document
    <3>6. \A q \in Agenda : Follows(know.plans[q], know'.plans[q])
      BY <1>0, <3>3, <3>5 DEF Follows
    <3>7. Kno!AppliedOnce'
      <4>1. \A q \in Agenda : q # p => know'.plans[q] = know.plans[q] /\ know'.receipts[q] = know.receipts[q]
        BY <1>0, <3>4, <3>5
      <4>2. know'.plans[p].state = "succeeded"
        BY <1>0, <3>1, <3>5
      <4> QED BY <1>0, <3>1, <3>2, <4>1, <4>2 DEF Kno!AppliedOnce
    <3> QED BY <1>0, <3>2, <3>5, <3>6, <3>7, DoneFits, DocumentStep
  <2>2. CASE conflict \/ know.receipts[p] = human[h].key
    BY <1>4, <1>15, <2>2 DEF Kno!FinalizeExecution
  <2> QED BY <2>1, <2>2
<1>16. ASSUME NEW h \in Agents, Kno!Crash(h) PROVE KnowledgeInv'
  BY <1>4, <1>16 DEF Kno!Crash
<1>17. ASSUME Kno!EditDraft PROVE KnowledgeInv'
  <2>1. content' = [rev |-> content.rev + 1, of |-> None] /\ UNCHANGED <<know, human, applied>>
    BY <1>17 DEF Kno!EditDraft
  <2>2. KnowledgeTypes' /\ AllFit' /\ Kno!AppliedOnce'
    BY <1>0, <2>1 DEF KnowledgeTypes, AllFit, Fits, Kno!AppliedOnce
  <2>3. content'.rev = content.rev + 1 /\ content'.of = None /\ \A p \in Agenda : know.plans[p].rev \in Nat
    BY <1>0, <2>1 DEF AgendaPlan
  <2>4. AppliedIsLater'
    BY <1>0, <2>1, <2>3, NoneIsNothing DEF AppliedIsLater
  <2> QED BY <2>2, <2>4 DEF KnowledgeInv
<1> QED
  BY <1>1, <1>2, <1>3, <1>6, <1>8, <1>9, <1>10, <1>11, <1>12, <1>13, <1>14, <1>15, <1>16, <1>17
  DEF Kno!Next

-----------------------------------------------------------------------------
(* Analytics (Analytics): what has a receipt was counted, and what was counted has one until       *)
(* receipts are cut off.                                                                           *)

Tally == [writes : Nat, counts : [Items -> Nat], receipts : SUBSET Items, truncated : BOOLEAN]
Counter == [pc : {"idle", "read", "save", "fan out", "complete"}, event : Items \cup {None},
            current : BOOLEAN]

AnalyticsTypes ==
  /\ counted \in Tally
  /\ occurredAt \in [Items -> Nat]
  /\ jobs \in [process : SUBSET Items, deliver : SUBSET Items, replays : Nat]
  /\ counter \in [Agents -> Counter]

\* What has a receipt was counted, and what was counted has one until receipts
\* are cut off.
ReceiptsCount ==
  /\ \A e \in counted.receipts : counted.counts[e] >= 1
  /\ ~counted.truncated => \A e \in Items : counted.counts[e] >= 1 => e \in counted.receipts

\* A worker that may save found no receipt, and one that is past the document
\* knows its event counted.
CountersKnow ==
  \A k \in Agents :
    /\ counter[k].pc # "idle" => counter[k].event \in Items
    /\ counter[k].pc = "save" /\ counter[k].current => counter[k].event \notin counted.receipts
    /\ counter[k].pc \in {"fan out", "complete"} => counted.counts[counter[k].event] >= 1

AnalyticsInv == AnalyticsTypes /\ ReceiptsCount /\ CountersKnow /\ Ana!CountedOnce

\* The instance counts as the library does.
LEMMA SameCardinality == \A S : Ana!Cardinality(S) = Cardinality(S)
BY DEF Ana!Cardinality, Cardinality

\* Nothing happened and nothing was counted.
LEMMA AnalyticsInit == Ana!Init => AnalyticsInv
<1>1. Ana!Cardinality({}) = 0 /\ 0 <= MaxReceipts
  <2>1. Ana!Cardinality({}) = Cardinality({})
    BY SameCardinality
  <2> QED BY <2>1, FS_EmptySet, Bounded
<1>2. Ana!Init => AnalyticsTypes
  <2>1. [writes |-> 0, counts |-> [e \in Items |-> 0], receipts |-> {}, truncated |-> FALSE] \in Tally
    BY DEF Tally
  <2>2. [process |-> {}, deliver |-> {}, replays |-> 0]
          \in [process : SUBSET Items, deliver : SUBSET Items, replays : Nat]
    OBVIOUS
  <2>3. [k \in Agents |-> Ana!Resting] \in [Agents -> Counter]
    BY DEF Ana!Resting, Counter
  <2> QED BY <2>1, <2>2, <2>3 DEF Ana!Init, AnalyticsTypes
<1>3. Ana!Init => ReceiptsCount /\ CountersKnow
  <2>1. SUFFICES ASSUME Ana!Init PROVE ReceiptsCount /\ CountersKnow
    OBVIOUS
  <2>2. /\ counted.receipts = {} /\ counted.counts = [e \in Items |-> 0]
        /\ \A k \in Agents : counter[k].pc = "idle"
    BY <2>1 DEF Ana!Init, Ana!Resting
  <2>3. \A e \in Items : ~(counted.counts[e] >= 1)
    BY <2>2
  <2>4. ReceiptsCount
    BY <2>2, <2>3 DEF ReceiptsCount
  <2>5. CountersKnow
    BY <2>2 DEF CountersKnow
  <2> QED BY <2>4, <2>5
<1>4. Ana!Init => Ana!CountedOnce
  <2>1. SUFFICES ASSUME Ana!Init PROVE Ana!CountedOnce
    OBVIOUS
  <2>2. /\ counted.receipts = {} /\ counted.counts = [e \in Items |-> 0]
        /\ jobs.deliver = {} /\ occurredAt = [e \in Items |-> 0]
    BY <2>1 DEF Ana!Init
  <2>3. Ana!Cardinality(counted.receipts) <= MaxReceipts
    BY <1>1, <2>2
  <2> QED BY <2>2, <2>3 DEF Ana!CountedOnce
<1> QED
  BY <1>2, <1>3, <1>4 DEF AnalyticsInv

\* A step of one worker that leaves document, times and jobs alone.
LEMMA CounterStep ==
  ASSUME AnalyticsInv, UNCHANGED <<counted, occurredAt, jobs>>,
         counter' \in [Agents -> Counter], CountersKnow'
  PROVE  AnalyticsInv'
BY DEF AnalyticsInv, AnalyticsTypes, ReceiptsCount, Ana!CountedOnce

\* Each step of a worker keeps the invariant: an event is counted where no receipt was found in
\* the document that is saved.
LEMMA AnalyticsStep ==
  ASSUME AnalyticsInv, Ana!Next
  PROVE  AnalyticsInv'
<1>0. /\ AnalyticsTypes /\ ReceiptsCount /\ CountersKnow /\ Ana!CountedOnce
      /\ counter \in [Agents -> Counter] /\ Ana!Resting \in Counter /\ Ana!Resting.pc = "idle"
      /\ counted \in Tally
  BY DEF AnalyticsInv, AnalyticsTypes, Ana!Resting, Counter
<1>1. ASSUME NEW e \in Items, Ana!ReplayJob(e) PROVE AnalyticsInv'
  <2>1. AnalyticsTypes'
    <3>1. jobs.replays + 1 \in Nat
      BY <1>0 DEF AnalyticsTypes
    <3> QED BY <1>0, <1>1, <3>1 DEF Ana!ReplayJob, AnalyticsTypes
  <2> QED
    BY <1>0, <1>1, <2>1 DEF Ana!ReplayJob, AnalyticsInv, AnalyticsTypes, ReceiptsCount, CountersKnow,
      Ana!CountedOnce
<1>2. ASSUME NEW e \in Items, Ana!Deliver(e) PROVE AnalyticsInv'
  BY <1>0, <1>2 DEF Ana!Deliver, AnalyticsInv, AnalyticsTypes, ReceiptsCount, CountersKnow, Ana!CountedOnce
<1>3. ASSUME NEW e \in Items, NEW time \in 1..MaxTime, Ana!Enqueue(e, time) PROVE AnalyticsInv'
  <2>1. AnalyticsTypes'
    BY <1>0, <1>3 DEF Ana!Enqueue, AnalyticsTypes
  <2>2. Ana!CountedOnce'
    BY <1>0, <1>3 DEF Ana!Enqueue, AnalyticsTypes, Ana!CountedOnce
  <2> QED
    BY <1>0, <1>3, <2>1, <2>2 DEF Ana!Enqueue, AnalyticsInv, ReceiptsCount, CountersKnow
<1>4. ASSUME NEW k \in Agents, Ana!ReadDocument(k) PROVE AnalyticsInv'
  <2> DEFINE pc == IF Ana!Counted(counter[k].event) THEN "fan out" ELSE "save"
             op == [counter[k] EXCEPT !.pc = pc, !.current = TRUE]
  <2>1. op \in Counter /\ op.pc = pc /\ op.event = counter[k].event
    BY <1>0 DEF Counter
  <2>2. counter' = [counter EXCEPT ![k] = op] /\ UNCHANGED <<counted, occurredAt, jobs>>
    BY <1>0, <1>4 DEF Ana!ReadDocument
  <2> HIDE DEF op
  <2>3. CountersKnow'
    BY <1>0, <1>4, <2>1, <2>2 DEF Ana!ReadDocument, Ana!Counted, CountersKnow, ReceiptsCount
  <2> QED BY <1>0, <2>1, <2>2, <2>3, CounterStep
<1>5. ASSUME NEW k \in Agents, Ana!SaveDocument(k) PROVE AnalyticsInv'
  <2> DEFINE e == counter[k].event
             all == counted.receipts \cup {e}
  <2>0. e \in Items /\ e \notin counted.receipts /\ counter[k].pc = "save"
    BY <1>0, <1>5 DEF Ana!SaveDocument, CountersKnow
  <2>1. PICK kept \in Ana!Newest(all) :
          counted' = [writes |-> counted.writes + 1, counts |-> [counted.counts EXCEPT ![e] = @ + 1],
                      receipts |-> kept, truncated |-> counted.truncated \/ kept # all]
    BY <1>5 DEF Ana!SaveDocument
  <2>2. kept \subseteq all /\ Ana!Cardinality(kept) <= MaxReceipts
    <3>1. CASE Ana!Cardinality(all) <= MaxReceipts
      BY <2>1, <3>1 DEF Ana!Newest
    <3>2. CASE ~(Ana!Cardinality(all) <= MaxReceipts)
      BY <2>1, <3>2, Bounded DEF Ana!Newest
    <3> QED BY <3>1, <3>2
  <2>3. /\ counted.counts \in [Items -> Nat] /\ counted.writes + 1 \in Nat
        /\ counted.receipts \subseteq Items /\ counted.truncated \in BOOLEAN
    BY <1>0 DEF Tally
  <2>4. /\ counted'.counts = [counted.counts EXCEPT ![e] = @ + 1]
        /\ counted'.receipts = kept
        /\ counted'.truncated = (counted.truncated \/ kept # all)
    BY <2>1
  <2>5. /\ counted'.counts[e] = counted.counts[e] + 1
        /\ counted'.counts[e] >= 1
        /\ \A f \in Items : f # e => counted'.counts[f] = counted.counts[f]
        /\ \A f \in Items : counted.counts[f] >= 1 => counted'.counts[f] >= 1
    BY <2>0, <2>3, <2>4
  <2>6. /\ \A g \in Agents : g # k => /\ counter'[g].pc = counter[g].pc
                                      /\ counter'[g].event = counter[g].event
                                      /\ counter'[g].current = FALSE
        /\ counter'[k].pc = "fan out" /\ counter'[k].event = e
        /\ counter' \in [Agents -> Counter]
        /\ UNCHANGED <<occurredAt, jobs>>
    <3>1. /\ counter' = [other \in Agents |-> IF other = k THEN [counter[k] EXCEPT !.pc = "fan out"]
                                              ELSE [counter[other] EXCEPT !.current = FALSE]]
          /\ UNCHANGED <<occurredAt, jobs>>
      BY <1>5 DEF Ana!SaveDocument
    <3>2. [counter[k] EXCEPT !.pc = "fan out"] \in Counter
      BY <1>0 DEF Counter
    <3>3. \A g \in Agents : [counter[g] EXCEPT !.current = FALSE] \in Counter
      BY <1>0 DEF Counter
    <3> QED BY <1>0, <3>1, <3>2, <3>3 DEF Counter
  <2>7. counted' \in Tally
    <3>1. kept \subseteq Items
      BY <2>0, <2>2, <2>3
    <3>2. [counted.counts EXCEPT ![e] = @ + 1] \in [Items -> Nat]
      BY <2>0, <2>3
    <3>3. (counted.truncated \/ kept # all) \in BOOLEAN
      OBVIOUS
    <3> QED BY <2>1, <2>3, <3>1, <3>2, <3>3 DEF Tally
  <2>8. AnalyticsTypes'
    BY <1>0, <2>6, <2>7 DEF AnalyticsTypes
  <2>9. ReceiptsCount'
    <3>1. \A f \in kept : counted'.counts[f] >= 1
      BY <1>0, <2>0, <2>2, <2>3, <2>5 DEF ReceiptsCount
    <3>2. ASSUME ~counted'.truncated, NEW f \in Items, counted'.counts[f] >= 1 PROVE f \in kept
      <4>1. ~counted.truncated /\ kept = all
        BY <2>4, <3>2
      <4>2. CASE f = e
        BY <4>1, <4>2
      <4>3. CASE f # e
        BY <1>0, <2>5, <3>2, <4>1, <4>3 DEF ReceiptsCount
      <4> QED BY <4>2, <4>3
    <3> QED BY <2>4, <3>1, <3>2 DEF ReceiptsCount
  <2>10. CountersKnow'
    <3>1. SUFFICES ASSUME NEW g \in Agents
                   PROVE /\ counter'[g].pc # "idle" => counter'[g].event \in Items
                         /\ counter'[g].pc = "save" /\ counter'[g].current => counter'[g].event \notin counted'.receipts
                         /\ counter'[g].pc \in {"fan out", "complete"} => counted'.counts[counter'[g].event] >= 1
      BY DEF CountersKnow
    <3>2. CASE g = k
      BY <2>0, <2>5, <2>6, <3>2
    <3>3. CASE g # k
      BY <1>0, <2>5, <2>6, <3>3 DEF CountersKnow
    <3> QED BY <3>2, <3>3
  <2>11. Ana!CountedOnce'
    <3>1. ~counted'.truncated => \A f \in Items : counted'.counts[f] <= 1
      <4>1. SUFFICES ASSUME ~counted'.truncated, NEW f \in Items PROVE counted'.counts[f] <= 1
        OBVIOUS
      <4>2. ~counted.truncated
        BY <2>4, <4>1
      <4>3. CASE f = e
        <5>1. ~(counted.counts[e] >= 1)
          BY <1>0, <2>0, <4>2 DEF ReceiptsCount
        <5> QED BY <2>0, <2>3, <2>5, <4>3, <5>1
      <4>4. CASE f # e
        BY <1>0, <2>5, <4>2, <4>4 DEF Ana!CountedOnce
      <4> QED BY <4>3, <4>4
    <3>2. Ana!Cardinality(counted'.receipts) <= MaxReceipts
      BY <2>2, <2>4
    <3>3. \A f \in Items : occurredAt'[f] # 0 /\ f \notin jobs'.process => counted'.counts[f] >= 1
      BY <1>0, <2>5, <2>6 DEF Ana!CountedOnce
    <3>4. \A f \in jobs'.deliver : counted'.counts[f] >= 1
      BY <1>0, <2>5, <2>6 DEF Ana!CountedOnce, AnalyticsTypes
    <3> QED BY <3>1, <3>2, <3>3, <3>4 DEF Ana!CountedOnce
  <2> QED BY <2>8, <2>9, <2>10, <2>11 DEF AnalyticsInv
<1>6. ASSUME NEW k \in Agents, Ana!SaveConflicts(k) PROVE AnalyticsInv'
  <2>1. counter' \in [Agents -> Counter]
    BY <1>0, <1>6 DEF Ana!SaveConflicts, Counter
  <2>2. CountersKnow'
    BY <1>0, <1>6 DEF Ana!SaveConflicts, Counter, CountersKnow
  <2> QED BY <1>6, <2>1, <2>2, CounterStep DEF Ana!SaveConflicts
<1>7. ASSUME NEW k \in Agents, Ana!FanOut(k) PROVE AnalyticsInv'
  <2>0. counter[k].event \in Items /\ counted.counts[counter[k].event] >= 1
    BY <1>0, <1>7 DEF Ana!FanOut, CountersKnow
  <2>1. /\ jobs' = [jobs EXCEPT !.deliver = @ \cup {counter[k].event}]
        /\ jobs'.process = jobs.process /\ jobs'.deliver = jobs.deliver \cup {counter[k].event}
        /\ UNCHANGED <<counted, occurredAt>>
    BY <1>0, <1>7 DEF Ana!FanOut, AnalyticsTypes
  <2>2. (jobs \in [process : SUBSET Items, deliver : SUBSET Items, replays : Nat])'
    BY <1>0, <2>0, <2>1 DEF AnalyticsTypes
  <2>3. counter' \in [Agents -> Counter]
    BY <1>0, <1>7 DEF Ana!FanOut, Counter
  <2>4. CountersKnow'
    BY <1>0, <1>7, <2>1 DEF Ana!FanOut, Counter, CountersKnow
  <2>5. Ana!CountedOnce'
    BY <1>0, <2>0, <2>1 DEF Ana!CountedOnce
  <2> QED
    BY <1>0, <2>1, <2>2, <2>3, <2>4, <2>5 DEF AnalyticsInv, AnalyticsTypes, ReceiptsCount
<1>8. ASSUME NEW k \in Agents, Ana!Complete(k) PROVE AnalyticsInv'
  <2>0. counter[k].event \in Items /\ counted.counts[counter[k].event] >= 1
    BY <1>0, <1>8 DEF Ana!Complete, CountersKnow
  <2>1. /\ jobs' = [jobs EXCEPT !.process = @ \ {counter[k].event}]
        /\ jobs'.process = jobs.process \ {counter[k].event} /\ jobs'.deliver = jobs.deliver
        /\ counter' = [counter EXCEPT ![k] = Ana!Resting]
        /\ UNCHANGED <<counted, occurredAt>>
    BY <1>0, <1>8 DEF Ana!Complete, AnalyticsTypes
  <2>2. (jobs \in [process : SUBSET Items, deliver : SUBSET Items, replays : Nat])'
    BY <1>0, <2>1 DEF AnalyticsTypes
  <2>3. counter' \in [Agents -> Counter] /\ CountersKnow'
    BY <1>0, <2>1 DEF CountersKnow
  <2>4. Ana!CountedOnce'
    BY <1>0, <2>0, <2>1 DEF Ana!CountedOnce
  <2> QED
    BY <1>0, <2>1, <2>2, <2>3, <2>4 DEF AnalyticsInv, AnalyticsTypes, ReceiptsCount
<1>9. ASSUME NEW k \in Agents, Ana!Abandon(k) PROVE AnalyticsInv'
  <2>1. counter' \in [Agents -> Counter] /\ CountersKnow'
    BY <1>0, <1>9 DEF Ana!Abandon, CountersKnow
  <2> QED BY <1>9, <2>1, CounterStep DEF Ana!Abandon
<1>10. ASSUME NEW k \in Agents, NEW e \in Items, Ana!Claim(k, e) PROVE AnalyticsInv'
  <2>1. counter' \in [Agents -> Counter]
    BY <1>0, <1>10 DEF Ana!Claim, Counter
  <2>2. CountersKnow'
    BY <1>0, <1>10 DEF Ana!Claim, Counter, CountersKnow
  <2> QED BY <1>10, <2>1, <2>2, CounterStep DEF Ana!Claim
<1> QED
  BY <1>1, <1>2, <1>3, <1>4, <1>5, <1>6, <1>7, <1>8, <1>9, <1>10 DEF Ana!Next

\* A plan is applied to the draft at most once, once where it has a receipt and never before it is
\* approved, and an event is counted once as long as no receipt was cut off: for any number of
\* people, plans, workers and events that crash and repeat each other (executePlan, #aggregate).
THEOREM AlwaysAppliedOnce == Spec => []AppliedOnce
<1> DEFINE Inv == (service = "knowledge" => KnowledgeInv) /\ (service = "analytics" => AnalyticsInv)
<1>1. Init => Inv
  BY KnowledgeInit, AnalyticsInit DEF Init
<1>2. Inv /\ [Next]_vars => Inv'
  <2>1. CASE UNCHANGED vars
    BY <2>1 DEF vars, knowledge, analytics, KnowledgeInv, KnowledgeTypes, AllFit, Fits, AppliedIsLater,
      Kno!AppliedOnce, AnalyticsInv, AnalyticsTypes, ReceiptsCount, CountersKnow, Ana!CountedOnce
  <2>2. CASE Next
    BY <2>2, KnowledgeStep, AnalyticsStep DEF Next
  <2> QED BY <2>1, <2>2
<1>3. Inv => AppliedOnce
  BY DEF KnowledgeInv, AnalyticsInv, AppliedOnce
<1> QED
  BY <1>1, <1>2, <1>3, PTL DEF Spec

-----------------------------------------------------------------------------
(* The gateway to the AI (AiGateway): what was billed for a day, and what calls still owe of       *)
(* their reservations for it, is within the books of the day.  What is owed is the number of       *)
(* pairs of a caller and a unit that it owes, since a sum over callers needs induction.            *)

CallType == [pc : {"idle", "estimate", "generate", "settle", "fail", "answered"},
             id : Items \cup {None}, prompt : Nat, cost : 0..MaxCost, actual : 0..MaxCost,
             day : Gat!Days]

GwType == [enabled : BOOLEAN, model : Gat!Models, prompts : Nat, active : Nat,
           budget : Budgets \cup {0}, used : [Gat!Days -> Nat], receipts : Seq(Gat!Receipt)]

GatewayTypes ==
  /\ gw \in GwType
  /\ today \in Gat!Days
  /\ call \in [Agents -> CallType]
  /\ \A c \in Agents : call[c].pc # "idle" => call[c].id \in Items
  /\ billed \in [Gat!Days -> Nat]

\* A call for which the provider may still charge, or whose rest is still to be refunded.
Holding(c) == call[c].pc \in {"generate", "settle"}

\* A reservation is of one call, ...
OneHolder == \A c, o \in Agents : Holding(c) /\ Holding(o) /\ call[c].id = call[o].id => c = o

\* ... which a repetition of the request finds received ...
RepeatsFind == \A c, o \in Agents :
  Holding(c) /\ call[o].pc = "estimate" /\ call[c].id = call[o].id => Gat!Received(call[c].id)

\* ... and whose receipt, while it is reserved, says what the call reserved.
SaysReserved(receipt, c) ==
  Holding(c) /\ receipt.id = call[c].id /\ receipt.status = "reserved" =>
    receipt.day = call[c].day /\ receipt.reserved = call[c].cost

ReceiptsFollow == \A c \in Agents : \A i \in DOMAIN gw.receipts : SaysReserved(gw.receipts[i], c)

\* The provider charges no more than was reserved.
WithinReserved == \A c \in Agents : call[c].pc = "settle" => call[c].actual <= call[c].cost

\* What of a day's reservations is neither billed nor given back yet, as a number of pairs.
Owed(c, d) == IF call[c].day # d THEN 0
              ELSE IF call[c].pc = "generate" THEN call[c].cost
              ELSE IF call[c].pc = "settle" THEN call[c].cost - call[c].actual
              ELSE 0

Owing(d) == [c \in Agents |-> Owed(c, d)]
Pile(f)  == {p \in Agents \X (1..MaxCost) : p[2] <= f[p[1]]}

BooksCover == \A d \in Gat!Days : billed[d] + Cardinality(Pile(Owing(d))) <= gw.used[d]

CallsAgree == OneHolder /\ RepeatsFind /\ ReceiptsFollow /\ WithinReserved
GatewayInv == GatewayTypes /\ CallsAgree /\ BooksCover

\* The pairs of one caller are as many as it owes.
LEMMA PileOfOne ==
  ASSUME NEW c \in Agents, NEW n \in 0..MaxCost
  PROVE  IsFiniteSet({c} \X (1..n)) /\ Cardinality({c} \X (1..n)) = n
<1>1. MaxCost \in Nat /\ n \in Nat
  BY Bounded
<1>2. IsFiniteSet(1..n) /\ Cardinality(1..n) = n
  BY <1>1, FS_Interval
<1>3. IsFiniteSet({c}) /\ Cardinality({c}) = 1
  BY FS_Singleton
<1>4. Cardinality({c} \X (1..n)) = 1 * n /\ IsFiniteSet({c} \X (1..n))
  BY <1>2, <1>3, FS_Product
<1> QED
  BY <1>1, <1>4

\* When what one caller owes changes, the pile changes by as much.
LEMMA PileChanges ==
  ASSUME NEW f \in [Agents -> 0..MaxCost], NEW g \in [Agents -> 0..MaxCost], NEW c \in Agents,
         \A o \in Agents \ {c} : f[o] = g[o]
  PROVE  /\ Cardinality(Pile(f)) \in Nat /\ Cardinality(Pile(g)) \in Nat
         /\ Cardinality(Pile(f)) + g[c] = Cardinality(Pile(g)) + f[c]
<1> DEFINE Rest == {p \in (Agents \ {c}) \X (1..MaxCost) : p[2] <= f[p[1]]}
<1>1. MaxCost \in Nat /\ f[c] \in 0..MaxCost /\ g[c] \in 0..MaxCost
  BY Bounded
<1>2. IsFiniteSet(Rest)
  <2>1. IsFiniteSet(Agents \ {c})
    BY Bounded, FS_RemoveElement
  <2>2. IsFiniteSet(1..MaxCost)
    BY <1>1, FS_Interval
  <2>3. IsFiniteSet((Agents \ {c}) \X (1..MaxCost))
    BY <2>1, <2>2, FS_Product
  <2> QED
    BY <2>3, FS_Subset
<1>3. ASSUME NEW h \in [Agents -> 0..MaxCost], \A o \in Agents \ {c} : h[o] = f[o]
      PROVE  Cardinality(Pile(h)) = Cardinality(Rest) + h[c]
  <2>1. h[c] \in 0..MaxCost
    OBVIOUS
  <2>2. Pile(h) = Rest \cup ({c} \X (1..h[c]))
    <3>1. ASSUME NEW p \in Pile(h) PROVE p \in Rest \cup ({c} \X (1..h[c]))
      BY <1>1, <1>3, <2>1, <3>1 DEF Pile
    <3>2. ASSUME NEW p \in Rest PROVE p \in Pile(h)
      BY <1>3, <3>2 DEF Pile
    <3>3. ASSUME NEW p \in {c} \X (1..h[c]) PROVE p \in Pile(h)
      BY <1>1, <2>1, <3>3 DEF Pile
    <3> QED
      BY <3>1, <3>2, <3>3
  <2>3. Rest \cap ({c} \X (1..h[c])) = {}
    OBVIOUS
  <2>4. IsFiniteSet({c} \X (1..h[c])) /\ Cardinality({c} \X (1..h[c])) = h[c]
    BY <2>1, PileOfOne
  <2>5. Cardinality({}) = 0
    BY FS_EmptySet
  <2>6. Cardinality(Rest) \in Nat
    BY <1>2, FS_CardinalityType
  <2>7. Cardinality(Pile(h)) = Cardinality(Rest) + h[c] - 0
    <3> HIDE DEF Rest
    <3>1. Cardinality(Rest \cup ({c} \X (1..h[c]))) =
            Cardinality(Rest) + Cardinality({c} \X (1..h[c])) - Cardinality(Rest \cap ({c} \X (1..h[c])))
      BY <1>2, <2>4, FS_Union
    <3> QED
      BY <3>1, <2>2, <2>3, <2>4, <2>5
  <2> QED
    BY <1>1, <2>1, <2>6, <2>7
<1>4. Cardinality(Rest) \in Nat
  BY <1>2, FS_CardinalityType
<1> HIDE DEF Rest
<1>5. Cardinality(Pile(f)) = Cardinality(Rest) + f[c]
  BY <1>3
<1>6. Cardinality(Pile(g)) = Cardinality(Rest) + g[c]
  BY <1>3
<1> QED
  BY <1>1, <1>4, <1>5, <1>6

\* The receipts that are kept are old ones and the new one, which is among them.
AreKept(kept, old, x) ==
  /\ kept \in Seq(Gat!Receipt)
  /\ \A j \in DOMAIN kept : kept[j] = x \/ \E i \in DOMAIN old : kept[j] = old[i]
  /\ \E j \in DOMAIN kept : kept[j] = x

\* Cutting off the oldest keeps the newest.
LEMMA ReceiptsKept ==
  ASSUME NEW old \in Seq(Gat!Receipt), NEW x \in Gat!Receipt, NEW kept,
         kept = Gat!LastOf(Append(old, x))
  PROVE  AreKept(kept, old, x)
<1> DEFINE all == Append(old, x)
           from == IF Len(all) > MaxReceipts THEN Len(all) - MaxReceipts + 1 ELSE 1
<1>0. kept = SubSeq(all, from, Len(all))
  BY DEF Gat!LastOf
<1>1. /\ MaxReceipts \in Nat \ {0} /\ all \in Seq(Gat!Receipt) /\ Len(old) \in Nat
      /\ Len(all) = Len(old) + 1
      /\ all[Len(all)] = x /\ \A i \in 1..Len(old) : all[i] = old[i]
  BY Bounded
<1>2. from \in 1..Len(all) /\ Len(all) \in Nat
  BY <1>1
<1> HIDE DEF all, from
<1>3. /\ kept \in Seq(Gat!Receipt)
      /\ Len(kept) = Len(all) - from + 1
      /\ \A j \in 1..Len(kept) : kept[j] = all[from + j - 1]
  BY <1>0, <1>1, <1>2
<1>4. ASSUME NEW j \in DOMAIN kept PROVE kept[j] = x \/ \E i \in DOMAIN old : kept[j] = old[i]
  <2>1. j \in 1..Len(kept) /\ from + j - 1 \in 1..Len(all)
    BY <1>2, <1>3, <1>4
  <2>2. CASE from + j - 1 = Len(all)
    BY <1>1, <1>3, <2>1, <2>2
  <2>3. CASE from + j - 1 # Len(all)
    BY SMTT(20), <1>1, <1>2, <1>3, <2>1, <2>3
  <2> QED
    BY <2>2, <2>3
<1>5. \E j \in DOMAIN kept : kept[j] = x
  <2>1. Len(kept) \in 1..Len(kept) /\ from + Len(kept) - 1 = Len(all)
    BY <1>2, <1>3
  <2>2. kept[Len(kept)] = x /\ Len(kept) \in DOMAIN kept
    BY <1>1, <1>3, <2>1
  <2> QED
    BY <2>2
<1> QED
  BY <1>3, <1>4, <1>5 DEF AreKept

\* What a call owes is at most what a request may cost.
LEMMA OwingType ==
  ASSUME GatewayTypes, WithinReserved, NEW d \in Gat!Days
  PROVE  /\ Owing(d) \in [Agents -> 0..MaxCost]
         /\ \A c \in Agents : Owed(c, d) \in 0..MaxCost /\ Owing(d)[c] = Owed(c, d)
<1>1. ASSUME NEW c \in Agents PROVE Owed(c, d) \in 0..MaxCost
  <2>1. /\ call[c].cost \in 0..MaxCost /\ call[c].actual \in 0..MaxCost /\ MaxCost \in Nat
        /\ call[c].pc = "settle" => call[c].actual <= call[c].cost
    BY Bounded DEF GatewayTypes, CallType, WithinReserved
  <2> QED
    BY <2>1 DEF Owed
<1> QED
  BY <1>1 DEF Owing

\* A step of one caller keeps the books covered if it takes no more off them, and bills no more,
\* than the caller owes less after it.
LEMMA BooksMove ==
  ASSUME GatewayInv, GatewayTypes', WithinReserved', NEW c \in Agents,
         \A o \in Agents \ {c} : call'[o] = call[o],
         \A d \in Gat!Days : billed'[d] + Owed(c, d)' + gw.used[d] <= billed[d] + Owed(c, d) + gw'.used[d]
  PROVE  BooksCover'
<1> SUFFICES ASSUME NEW d \in Gat!Days
             PROVE  billed'[d] + Cardinality(Pile(Owing(d)')) <= gw'.used[d]
  BY DEF BooksCover, Pile, Gat!Days
<1>1. PICK f \in [Agents -> 0..MaxCost] : f = Owing(d) /\ f[c] = Owed(c, d)
  BY OwingType DEF GatewayInv, CallsAgree
<1>2. PICK g \in [Agents -> 0..MaxCost] : g = Owing(d)' /\ g[c] = Owed(c, d)'
  <2>1. /\ Owing(d)' \in [Agents -> 0..MaxCost]
        /\ Owing(d)'[c] = Owed(c, d)'
    <3>1. ASSUME NEW o \in Agents PROVE Owed(o, d)' \in 0..MaxCost
      <4>1. /\ call'[o].cost \in 0..MaxCost /\ call'[o].actual \in 0..MaxCost /\ MaxCost \in Nat
            /\ call'[o].pc = "settle" => call'[o].actual <= call'[o].cost
        BY Bounded DEF GatewayTypes, CallType, WithinReserved
      <4> QED
        BY <4>1 DEF Owed
    <3> QED
      BY <3>1 DEF Owing
  <2> QED
    BY <2>1
<1>3. \A o \in Agents \ {c} : f[o] = g[o]
  <2>1. ASSUME NEW o \in Agents \ {c} PROVE Owed(o, d) = Owed(o, d)'
    BY DEF Owed
  <2> QED
    BY <1>1, <1>2, <2>1 DEF Owing
<1>4. /\ Cardinality(Pile(f)) \in Nat /\ Cardinality(Pile(g)) \in Nat
      /\ Cardinality(Pile(f)) + g[c] = Cardinality(Pile(g)) + f[c]
  BY <1>3, PileChanges
<1>5. billed[d] + Cardinality(Pile(f)) <= gw.used[d]
  BY <1>1 DEF GatewayInv, BooksCover
<1>6. /\ billed[d] \in Nat /\ billed'[d] \in Nat /\ gw.used[d] \in Nat /\ gw'.used[d] \in Nat
      /\ f[c] \in Nat /\ g[c] \in Nat
  <2>1. f[c] \in 0..MaxCost /\ g[c] \in 0..MaxCost /\ MaxCost \in Nat
    BY Bounded
  <2>2. billed[d] \in Nat /\ billed'[d] \in Nat /\ gw.used[d] \in Nat /\ gw'.used[d] \in Nat
    BY DEF GatewayInv, GatewayTypes, GwType, Gat!Days
  <2> QED
    BY <2>1, <2>2
<1>7. billed'[d] + g[c] + gw.used[d] <= billed[d] + f[c] + gw'.used[d]
  BY <1>1, <1>2
<1>8. billed'[d] + Cardinality(Pile(g)) <= gw'.used[d]
  BY <1>4, <1>5, <1>6, <1>7
<1> QED
  BY <1>2, <1>8

\* Nothing of the books, the receipts or the calls changes.
LEMMA QuietGateway ==
  ASSUME GatewayInv, GatewayTypes', UNCHANGED <<call, billed>>,
         gw'.used = gw.used, gw'.receipts = gw.receipts
  PROVE  GatewayInv'
<1>1. CallsAgree'
  BY DEF GatewayInv, CallsAgree, OneHolder, RepeatsFind, ReceiptsFollow, WithinReserved,
    Holding, SaysReserved, Gat!Received
<1>2. BooksCover'
  BY DEF GatewayInv, BooksCover, Pile, Owing, Owed, Gat!Days
<1> QED
  BY <1>1, <1>2 DEF GatewayInv

\* Nothing is reserved, called or billed.
LEMMA GatewayInit == Gat!Init => GatewayInv
<1> SUFFICES ASSUME Gat!Init PROVE GatewayInv
  OBVIOUS
<1>1. Gat!NoCall \in CallType /\ Gat!NoCall.pc = "idle" /\ 1 \in Gat!Days
  BY Bounded DEF Gat!NoCall, CallType, Gat!Days
<1>2. GatewayTypes
  <2>1. gw.receipts \in Seq(Gat!Receipt)
    BY DEF Gat!Init
  <2>2. gw \in GwType
    BY <2>1 DEF Gat!Init, GwType, Gat!Models
  <2> QED
    BY <1>1, <2>2 DEF Gat!Init, GatewayTypes
<1>3. CallsAgree
  BY DEF Gat!Init, Gat!NoCall, CallsAgree, OneHolder, RepeatsFind, ReceiptsFollow, WithinReserved,
    Holding, SaysReserved
<1>4. ASSUME NEW d \in Gat!Days PROVE Pile(Owing(d)) = {}
  <2>1. \A c \in Agents : Owed(c, d) = 0
    BY DEF Gat!Init, Gat!NoCall, Owed
  <2> QED
    BY <2>1, Bounded DEF Pile, Owing
<1>5. BooksCover
  <2>1. Cardinality({}) = 0
    BY FS_EmptySet
  <2>2. \A d \in Gat!Days : billed[d] = 0 /\ gw.used[d] = 0
    BY DEF Gat!Init
  <2>3. \A d \in Gat!Days : billed[d] + Cardinality(Pile(Owing(d))) = 0
    BY <1>4, <2>1, <2>2
  <2> QED
    BY <2>2, <2>3 DEF BooksCover
<1> QED
  BY <1>2, <1>3, <1>5 DEF GatewayInv

\* A step of one caller that leaves the document alone, and holds nothing it did not hold, ...
LEMMA CallMoves ==
  ASSUME GatewayInv, NEW c \in Agents, NEW new \in CallType, call' = [call EXCEPT ![c] = new],
         new.pc # "idle" => new.id \in Items, UNCHANGED <<gw, today>>, billed' \in [Gat!Days -> Nat],
         new.pc \in {"generate", "settle"} =>
           Holding(c) /\ new.id = call[c].id /\ new.day = call[c].day /\ new.cost = call[c].cost,
         new.pc = "settle" => new.actual <= new.cost,
         new.pc = "estimate" => \A o \in Agents \ {c} : Holding(o) => call[o].id # new.id,
         \A d \in Gat!Days : billed'[d] + Owed(c, d)' <= billed[d] + Owed(c, d)
  PROVE  GatewayInv'
<1>1. /\ call'[c] = new
      /\ \A o \in Agents \ {c} : call'[o] = call[o]
  BY DEF GatewayInv, GatewayTypes
<1>2. GatewayTypes'
  BY <1>1 DEF GatewayInv, GatewayTypes
<1>3. CallsAgree'
  <2>1. WithinReserved'
    BY <1>1 DEF GatewayInv, CallsAgree, WithinReserved
  <2>2. \A o \in Agents : Holding(o)' => Holding(o) /\ call'[o].id = call[o].id
    BY <1>1 DEF Holding
  <2>3. OneHolder'
    BY <2>2 DEF GatewayInv, CallsAgree, OneHolder
  <2>4. RepeatsFind'
    <3> SUFFICES ASSUME NEW h \in Agents, NEW o \in Agents, Holding(h)', call'[o].pc = "estimate",
                        call'[h].id = call'[o].id
                 PROVE  Gat!Received(call'[h].id)
      BY DEF RepeatsFind, Gat!Received
    <3>1. CASE o = c
      BY <1>1, <2>2, <3>1 DEF Holding
    <3>2. CASE o # c
      BY <1>1, <2>2, <3>2 DEF GatewayInv, CallsAgree, RepeatsFind
    <3> QED
      BY <3>1, <3>2
  <2>5. ReceiptsFollow'
    BY <1>1, <2>2 DEF GatewayInv, CallsAgree, ReceiptsFollow, SaysReserved, Holding
  <2> QED
    BY <2>1, <2>3, <2>4, <2>5 DEF CallsAgree
<1>4. BooksCover'
  <2>1. ASSUME NEW d \in Gat!Days
        PROVE  billed'[d] + Owed(c, d)' + gw.used[d] <= billed[d] + Owed(c, d) + gw'.used[d]
    <3>1. /\ billed[d] \in Nat /\ billed'[d] \in Nat /\ gw.used[d] \in Nat /\ gw'.used[d] = gw.used[d]
      BY DEF GatewayInv, GatewayTypes, GwType
    <3>2. Owed(c, d) \in Nat /\ Owed(c, d)' \in Nat
      <4>1. Owed(c, d) \in 0..MaxCost
        BY OwingType DEF GatewayInv, CallsAgree
      <4>2. Owed(c, d)' \in 0..MaxCost
        BY <1>1, Bounded DEF Owed, CallType
      <4> QED
        BY <4>1, <4>2
    <3> QED
      BY <3>1, <3>2
  <2> QED
    BY <1>1, <1>2, <1>3, <2>1, BooksMove DEF CallsAgree
<1> QED
  BY <1>2, <1>3, <1>4 DEF GatewayInv

\* ... as one that gives up, or is through.
LEMMA CallEnds ==
  ASSUME GatewayInv, NEW c \in Agents, call' = [call EXCEPT ![c] = Gat!NoCall],
         UNCHANGED <<gw, today, billed>>
  PROVE  GatewayInv'
<1>1. Gat!NoCall \in CallType /\ Gat!NoCall.pc = "idle"
  BY Bounded DEF Gat!NoCall, CallType, Gat!Days
<1>2. billed' \in [Gat!Days -> Nat]
  BY DEF GatewayInv, GatewayTypes
<1>3. ASSUME NEW d \in Gat!Days PROVE billed'[d] + Owed(c, d)' <= billed[d] + Owed(c, d)
  <2>1. Owed(c, d)' = 0
    BY <1>1 DEF Owed, GatewayInv, GatewayTypes
  <2>2. Owed(c, d) \in 0..MaxCost /\ billed[d] \in Nat /\ MaxCost \in Nat
    BY Bounded, OwingType DEF GatewayInv, CallsAgree, GatewayTypes
  <2> QED
    BY <2>1, <2>2
<1> QED
  BY <1>1, <1>2, <1>3, CallMoves

\* The provider charges a call, which owes as much less.
LEMMA GenerateStep ==
  ASSUME GatewayInv, NEW c \in Agents, NEW n \in 0..MaxCost, NEW v \in BOOLEAN, Gat!Generate(c, n, v)
  PROVE  GatewayInv'
<1> DEFINE new == [call[c] EXCEPT !.pc = IF v THEN "settle" ELSE "fail", !.actual = n]
<1>1. PICK after \in CallType : after = new
  BY DEF GatewayInv, GatewayTypes, CallType
<1>2. /\ call' = [call EXCEPT ![c] = after] /\ UNCHANGED <<gw, today>>
      /\ after.pc \in {"settle", "fail"} /\ after.id = call[c].id /\ after.day = call[c].day
      /\ after.cost = call[c].cost /\ after.actual = n /\ n <= call[c].cost
      /\ call[c].pc = "generate" /\ call[c].id \in Items
      /\ billed' = [billed EXCEPT ![call[c].day] = @ + n]
  BY <1>1 DEF Gat!Generate, GatewayInv, GatewayTypes, CallType
<1> HIDE DEF new
<1>3. n \in Nat /\ call[c].cost \in Nat /\ call[c].day \in Gat!Days /\ billed \in [Gat!Days -> Nat]
  BY Bounded DEF GatewayInv, GatewayTypes, CallType
<1>4. billed' \in [Gat!Days -> Nat]
  BY <1>2, <1>3
<1>5. ASSUME NEW d \in Gat!Days PROVE billed'[d] + Owed(c, d)' <= billed[d] + Owed(c, d)
  <2>1. call'[c] = after
    BY <1>2 DEF GatewayInv, GatewayTypes
  <2>2. CASE d = call[c].day
    <3>1. billed'[d] = billed[d] + n /\ Owed(c, d) = call[c].cost
      BY <1>2, <1>3, <2>2 DEF Owed
    <3>2. Owed(c, d)' = call[c].cost - n \/ Owed(c, d)' = 0
      BY <1>2, <2>1 DEF Owed
    <3> QED
      BY <1>2, <1>3, <3>1, <3>2
  <2>3. CASE d # call[c].day
    <3>1. billed'[d] = billed[d] /\ Owed(c, d) = 0 /\ Owed(c, d)' = 0
      BY <1>2, <1>3, <2>1, <2>3 DEF Owed
    <3> QED
      BY <1>3, <3>1
  <2> QED
    BY <2>2, <2>3
<1> QED
  BY <1>2, <1>4, <1>5, CallMoves DEF Holding

\* The receipts change nothing but their status, and none becomes reserved.
LEMMA ReceiptsSettled ==
  ASSUME CallsAgree, DOMAIN gw'.receipts = DOMAIN gw.receipts, WithinReserved',
         \A i \in DOMAIN gw.receipts :
           /\ gw'.receipts[i].id = gw.receipts[i].id /\ gw'.receipts[i].day = gw.receipts[i].day
           /\ gw'.receipts[i].reserved = gw.receipts[i].reserved
           /\ gw'.receipts[i].status = "reserved" => gw.receipts[i].status = "reserved",
         \A o \in Agents : /\ Holding(o)' => Holding(o) /\ call'[o] = call[o]
                           /\ call'[o].pc = "estimate" => call'[o] = call[o]
  PROVE  CallsAgree'
<1>1. OneHolder'
  BY DEF CallsAgree, OneHolder
<1>2. \A id \in Items \cup {None} : Gat!Received(id) => Gat!Received(id)'
  BY DEF Gat!Received
<1>3. RepeatsFind'
  <2> SUFFICES ASSUME NEW h \in Agents, NEW o \in Agents, Holding(h)', call'[o].pc = "estimate",
                      call'[h].id = call'[o].id
               PROVE  \E i \in DOMAIN gw'.receipts : gw'.receipts[i].id = call'[h].id
    BY DEF RepeatsFind, Gat!Received
  <2>1. \E i \in DOMAIN gw.receipts : gw.receipts[i].id = call[h].id
    BY DEF CallsAgree, RepeatsFind, Gat!Received
  <2> QED
    BY <2>1
<1>4. ReceiptsFollow'
  <2> SUFFICES ASSUME NEW o \in Agents, NEW i \in DOMAIN gw.receipts, Holding(o)',
                      gw'.receipts[i].id = call'[o].id, gw'.receipts[i].status = "reserved"
               PROVE  /\ gw'.receipts[i].day = call'[o].day
                      /\ gw'.receipts[i].reserved = call'[o].cost
    BY DEF ReceiptsFollow, SaysReserved
  <2> QED
    BY DEF CallsAgree, ReceiptsFollow, SaysReserved
<1> QED
  BY <1>1, <1>3, <1>4 DEF CallsAgree

\* A receipt of which only the status changes.
LEMMA StatusChanged ==
  ASSUME NEW r \in Gat!Receipt, NEW s \in {"succeeded", "failed"}, NEW new,
         new = r \/ new = [r EXCEPT !.status = s]
  PROVE  /\ new \in Gat!Receipt /\ new.id = r.id /\ new.day = r.day /\ new.reserved = r.reserved
         /\ new.status = "reserved" => r.status = "reserved"
BY DEF Gat!Receipt, Gat!Status

\* Settling: only the calls that end hold less, ids and days of receipts stay.
LEMMA FailStep ==
  ASSUME GatewayInv, NEW c \in Agents, Gat!Fail(c)
  PROVE  GatewayInv'
<1>1. /\ call' = [call EXCEPT ![c] = Gat!NoCall] /\ UNCHANGED <<today, billed>>
      /\ Gat!NoCall \in CallType /\ Gat!NoCall.pc = "idle"
  BY Bounded DEF Gat!Fail, Gat!NoCall, CallType, Gat!Days
<1>2. call'[c] = Gat!NoCall /\ \A o \in Agents \ {c} : call'[o] = call[o]
  BY <1>1 DEF GatewayInv, GatewayTypes
<1> DEFINE after == [i \in DOMAIN gw.receipts |->
              IF i \in Gat!Reserved(call[c].id) THEN [gw.receipts[i] EXCEPT !.status = "failed"]
              ELSE gw.receipts[i]]
<1>3. gw' = [gw EXCEPT !.receipts = after]
  BY DEF Gat!Fail
<1>4. gw \in GwType /\ gw.receipts \in Seq(Gat!Receipt)
  BY DEF GatewayInv, GatewayTypes, GwType
<1>5. PICK n \in Nat : DOMAIN gw.receipts = 1..n
  BY <1>4
<1>6. ASSUME NEW i \in DOMAIN gw.receipts
      PROVE  /\ after[i] \in Gat!Receipt /\ after[i].id = gw.receipts[i].id
             /\ after[i].day = gw.receipts[i].day /\ after[i].reserved = gw.receipts[i].reserved
             /\ after[i].status = "reserved" => gw.receipts[i].status = "reserved"
  <2>1. gw.receipts[i] \in Gat!Receipt
    BY <1>4
  <2>2. after[i] = gw.receipts[i] \/ after[i] = [gw.receipts[i] EXCEPT !.status = "failed"]
    OBVIOUS
  <2> HIDE DEF after
  <2> QED
    BY <2>1, <2>2, StatusChanged
<1>7. after \in Seq(Gat!Receipt) /\ DOMAIN after = DOMAIN gw.receipts
  <2>1. DOMAIN after = DOMAIN gw.receipts /\ after = [i \in DOMAIN after |-> after[i]]
    OBVIOUS
  <2> HIDE DEF after
  <2> QED
    BY <1>5, <1>6, <2>1
<1> HIDE DEF after
<1>8. gw'.receipts = after /\ gw'.used = gw.used /\ gw' \in GwType
  BY <1>3, <1>4, <1>7 DEF GwType
<1>9. GatewayTypes'
  BY <1>1, <1>2, <1>8 DEF GatewayInv, GatewayTypes
<1>10. WithinReserved'
  BY <1>1, <1>2 DEF GatewayInv, CallsAgree, WithinReserved
<1>11. CallsAgree'
  <2>1. ASSUME NEW o \in Agents
        PROVE  /\ Holding(o)' => Holding(o) /\ call'[o] = call[o]
               /\ call'[o].pc = "estimate" => call'[o] = call[o]
    BY <1>1, <1>2 DEF Holding
  <2> QED
    BY <1>6, <1>7, <1>8, <1>10, <2>1, ReceiptsSettled DEF GatewayInv
<1>12. ASSUME NEW d \in Gat!Days
       PROVE  billed'[d] + Owed(c, d)' + gw.used[d] <= billed[d] + Owed(c, d) + gw'.used[d]
  <2>1. Owed(c, d)' = 0
    BY <1>1, <1>2 DEF Owed
  <2>2. Owed(c, d) \in 0..MaxCost /\ billed[d] \in Nat /\ MaxCost \in Nat /\ gw.used[d] \in Nat
    BY Bounded, OwingType DEF GatewayInv, CallsAgree, GatewayTypes, GwType
  <2> QED
    BY <1>1, <1>8, <2>1, <2>2
<1> QED
  BY <1>2, <1>9, <1>10, <1>11, <1>12, BooksMove DEF GatewayInv

\* What is given back is what the call reserved and was not charged for, to its own day.
LEMMA SucceedStep ==
  ASSUME GatewayInv, NEW c \in Agents, Gat!Succeed(c)
  PROVE  GatewayInv'
<1>1. call[c] \in CallType /\ call[c].pc = "settle" /\ call[c].id \in Items
  BY DEF Gat!Succeed, GatewayInv, GatewayTypes
<1>2. CASE gw' = gw /\ Gat!Going(c, "fail")
  <2> DEFINE new == [call[c] EXCEPT !.pc = "fail"]
  <2>1. PICK after \in CallType : after = new
    BY <1>1 DEF CallType
  <2>2. /\ call' = [call EXCEPT ![c] = after] /\ UNCHANGED <<gw, today, billed>>
        /\ after.pc = "fail" /\ after.id \in Items
    BY <1>1, <1>2, <2>1 DEF Gat!Succeed, Gat!Going, GatewayInv, GatewayTypes, CallType
  <2>3. ASSUME NEW d \in Gat!Days PROVE billed'[d] + Owed(c, d)' <= billed[d] + Owed(c, d)
    <3>1. Owed(c, d)' = 0
      BY <2>2 DEF Owed, GatewayInv, GatewayTypes
    <3>2. Owed(c, d) \in 0..MaxCost /\ billed[d] \in Nat /\ MaxCost \in Nat
      BY Bounded, OwingType DEF GatewayInv, CallsAgree, GatewayTypes
    <3> QED
      BY <2>2, <3>1, <3>2
  <2>4. billed' \in [Gat!Days -> Nat]
    BY <2>2 DEF GatewayInv, GatewayTypes
  <2> QED
    BY <2>2, <2>3, <2>4, CallMoves
<1>3. ASSUME NEW i \in Gat!Settled(c), Gat!Going(c, "answered"),
             gw' = [gw EXCEPT
               !.used[Gat!RefundDay(gw.receipts[i])] = @ - (gw.receipts[i].reserved - call[c].actual),
               !.receipts[i].status = "succeeded"]
      PROVE  GatewayInv'
  <2>1. gw \in GwType /\ gw.receipts \in Seq(Gat!Receipt) /\ gw.used \in [Gat!Days -> Nat]
    BY DEF GatewayInv, GatewayTypes, GwType
  <2>2. /\ i \in DOMAIN gw.receipts /\ gw.receipts[i] \in Gat!Receipt
        /\ gw.receipts[i].id = call[c].id /\ gw.receipts[i].status = "reserved"
    BY <1>3, <2>1 DEF Gat!Settled, Gat!Reserved
  <2>3. gw.receipts[i].day = call[c].day /\ gw.receipts[i].reserved = call[c].cost
    BY <1>1, <2>2 DEF GatewayInv, CallsAgree, ReceiptsFollow, SaysReserved, Holding
  <2> DEFINE day  == call[c].day
             rest == call[c].cost - call[c].actual
             after == [gw.receipts EXCEPT ![i].status = "succeeded"]
             left  == [gw.used EXCEPT ![day] = @ - rest]
  <2>4. gw' = [gw EXCEPT !.used = left, !.receipts = after]
    BY <1>3, <2>1, <2>3 DEF Gat!RefundDay, GwType
  <2>5. /\ call[c].cost \in Nat /\ call[c].actual \in Nat /\ call[c].actual <= call[c].cost
        /\ day \in Gat!Days /\ rest \in Nat
    BY <1>1, Bounded DEF CallType, GatewayInv, CallsAgree, WithinReserved
  <2>6. Owed(c, day) = rest
    BY <1>1 DEF Owed
  <2>7. rest <= gw.used[day]
    <3>1. /\ Owing(day) \in [Agents -> 0..MaxCost] /\ Owing(day)[c] = rest
      BY <2>5, <2>6, OwingType DEF GatewayInv, CallsAgree
    <3>2. PICK f \in [Agents -> 0..MaxCost] : f = Owing(day) /\ f[c] = rest
      BY <3>1
    <3>3. PICK z \in [Agents -> 0..MaxCost] : z = [o \in Agents |-> IF o = c THEN 0 ELSE f[o]]
      <4>1. 0 \in 0..MaxCost
        BY Bounded
      <4> QED
        BY <4>1
    <3>4. z[c] = 0 /\ \A o \in Agents \ {c} : f[o] = z[o]
      BY <3>3
    <3>5. /\ Cardinality(Pile(f)) \in Nat /\ Cardinality(Pile(z)) \in Nat
          /\ Cardinality(Pile(f)) + z[c] = Cardinality(Pile(z)) + f[c]
      BY <3>4, PileChanges
    <3>6. billed[day] + Cardinality(Pile(f)) <= gw.used[day] /\ billed[day] \in Nat /\ gw.used[day] \in Nat
      BY <2>1, <2>5, <3>2 DEF GatewayInv, GatewayTypes, BooksCover
    <3> HIDE DEF day, rest
    <3> QED
      BY <2>5, <3>2, <3>4, <3>5, <3>6
  <2>8. left \in [Gat!Days -> Nat]
    BY <2>1, <2>5, <2>7
  <2>9. PICK n \in Nat : DOMAIN gw.receipts = 1..n
    BY <2>1
  <2>10. ASSUME NEW j \in DOMAIN gw.receipts
         PROVE  /\ after[j] \in Gat!Receipt /\ after[j].id = gw.receipts[j].id
                /\ after[j].day = gw.receipts[j].day /\ after[j].reserved = gw.receipts[j].reserved
                /\ after[j].status = "reserved" => gw.receipts[j].status = "reserved"
    <3>1. gw.receipts[j] \in Gat!Receipt
      BY <2>1
    <3>2. after[j] = gw.receipts[j] \/ after[j] = [gw.receipts[j] EXCEPT !.status = "succeeded"]
      BY <2>1
    <3> HIDE DEF after
    <3> QED
      BY <3>1, <3>2, StatusChanged
  <2>11. after \in Seq(Gat!Receipt) /\ DOMAIN after = DOMAIN gw.receipts
    <3>1. DOMAIN after = DOMAIN gw.receipts /\ after = [j \in DOMAIN after |-> after[j]]
      BY <2>1
    <3> HIDE DEF after
    <3> QED
      BY <2>9, <2>10, <3>1
  <2>12. \A d \in Gat!Days : left[d] = IF d = day THEN gw.used[d] - rest ELSE gw.used[d]
    BY <2>1
  <2> HIDE DEF after, left
  <2>13. gw'.receipts = after /\ gw'.used = left /\ gw' \in GwType
    BY <2>1, <2>4, <2>8, <2>11 DEF GwType
  <2>14. PICK new \in CallType : new = [call[c] EXCEPT !.pc = "answered"]
    BY <1>1 DEF CallType
  <2>15. /\ call' = [call EXCEPT ![c] = new] /\ UNCHANGED <<today, billed>>
         /\ new.pc = "answered" /\ new.id \in Items
    BY <1>1, <1>3, <2>14 DEF Gat!Succeed, Gat!Going, GatewayInv, GatewayTypes, CallType
  <2>16. call'[c] = new /\ \A o \in Agents \ {c} : call'[o] = call[o]
    BY <2>15 DEF GatewayInv, GatewayTypes
  <2>17. GatewayTypes'
    BY <2>13, <2>15, <2>16 DEF GatewayInv, GatewayTypes
  <2>18. WithinReserved'
    BY <2>15, <2>16 DEF GatewayInv, CallsAgree, WithinReserved
  <2>19. CallsAgree'
    <3>1. ASSUME NEW o \in Agents
          PROVE  /\ Holding(o)' => Holding(o) /\ call'[o] = call[o]
                 /\ call'[o].pc = "estimate" => call'[o] = call[o]
      BY <2>15, <2>16 DEF Holding
    <3> QED
      BY <2>10, <2>11, <2>13, <2>18, <3>1, ReceiptsSettled DEF GatewayInv
  <2>20. ASSUME NEW d \in Gat!Days
         PROVE  billed'[d] + Owed(c, d)' + gw.used[d] <= billed[d] + Owed(c, d) + gw'.used[d]
    <3>1. Owed(c, d)' = 0 /\ billed'[d] = billed[d] /\ billed[d] \in Nat /\ gw.used[d] \in Nat
      BY <2>1, <2>15, <2>16 DEF Owed, GatewayInv, GatewayTypes
    <3>2. CASE d = day
      BY <2>5, <2>6, <2>7, <2>12, <2>13, <3>1, <3>2
    <3>3. CASE d # day
      <4>1. gw'.used[d] = gw.used[d] /\ Owed(c, d) = 0
        BY <2>12, <2>13, <3>3 DEF Owed
      <4> QED
        BY <3>1, <4>1
    <3> QED
      BY <3>2, <3>3
  <2> QED
    BY <2>16, <2>17, <2>18, <2>19, <2>20, BooksMove DEF GatewayInv
<1> QED
  BY <1>2, <1>3 DEF Gat!Succeed

\* A request arrives whose id nobody holds a reservation for.
LEMMA BeginStep ==
  ASSUME GatewayInv, NEW c \in Agents, NEW id \in Items, Gat!Begin(c, id)
  PROVE  GatewayInv'
<1> DEFINE new == [Gat!NoCall EXCEPT !.pc = "estimate", !.id = id, !.prompt = gw.active]
<1>1. PICK after \in CallType : after = new
  <2>1. gw.active \in Nat /\ 1 \in Gat!Days /\ 0 \in 0..MaxCost
    BY Bounded DEF GatewayInv, GatewayTypes, GwType, Gat!Days
  <2>2. PICK base \in CallType : base = Gat!NoCall
    BY <2>1 DEF Gat!NoCall, CallType
  <2> QED
    BY <2>1, <2>2 DEF CallType
<1>2. /\ call' = [call EXCEPT ![c] = after] /\ UNCHANGED <<gw, today, billed>>
      /\ after.pc = "estimate" /\ after.id = id /\ call[c].pc = "idle"
      /\ \A o \in Agents : call[o].id = id => call[o].pc = "estimate"
  BY <1>1 DEF Gat!Begin, Gat!NoCall
<1>3. billed' \in [Gat!Days -> Nat]
  BY <1>2 DEF GatewayInv, GatewayTypes
<1>4. ASSUME NEW d \in Gat!Days PROVE billed'[d] + Owed(c, d)' <= billed[d] + Owed(c, d)
  <2>1. Owed(c, d)' = 0 /\ Owed(c, d) = 0 /\ billed[d] \in Nat
    BY <1>2 DEF Owed, GatewayInv, GatewayTypes
  <2> QED
    BY <1>2, <2>1
<1>5. \A o \in Agents \ {c} : Holding(o) => call[o].id # id
  BY <1>2 DEF Holding
<1> QED
  BY <1>2, <1>3, <1>4, <1>5, CallMoves

\* A reservation is for a request that has no receipt, and what is cut off the receipts is of no
\* repeated request.
LEMMA ReserveStep ==
  ASSUME GatewayInv, NEW c \in Agents, NEW n \in 1..MaxCost, Gat!Reserve(c, n)
  PROVE  GatewayInv'
<1> DEFINE x == [id |-> call[c].id, day |-> today, reserved |-> n, status |-> "reserved"]
           kept == Gat!LastOf(Append(gw.receipts, x))
           left == [gw.used EXCEPT ![today] = @ + n]
<1>1. /\ call[c] \in CallType /\ call[c].pc = "estimate" /\ call[c].id \in Items
      /\ today \in Gat!Days /\ UNCHANGED <<today, billed>> /\ n \in Nat /\ n \in 0..MaxCost
  BY Bounded DEF Gat!Reserve, GatewayInv, GatewayTypes
<1>2. CASE call' = [call EXCEPT ![c] = Gat!NoCall] /\ UNCHANGED gw
  BY <1>1, <1>2, CallEnds
<1>3. ASSUME ~Gat!Received(call[c].id), Gat!KeepsRepeated(kept),
             gw' = [gw EXCEPT !.used[today] = @ + n, !.receipts = kept],
             call' = [call EXCEPT ![c].pc = "generate", ![c].cost = n, ![c].day = today]
      PROVE  GatewayInv'
  <2>1. gw \in GwType /\ gw.receipts \in Seq(Gat!Receipt) /\ gw.used \in [Gat!Days -> Nat]
    BY DEF GatewayInv, GatewayTypes, GwType
  <2>2. PICK y \in Gat!Receipt : y = x
    BY <1>1 DEF Gat!Receipt, Gat!Status
  <2>3. y.id = call[c].id /\ y.day = today /\ y.reserved = n /\ y.status = "reserved"
    BY <2>2
  <2>4. /\ kept \in Seq(Gat!Receipt)
        /\ \A j \in DOMAIN kept : kept[j] = y \/ \E i \in DOMAIN gw.receipts : kept[j] = gw.receipts[i]
        /\ \E j \in DOMAIN kept : kept[j] = y
    <3>1. PICK s \in Seq(Gat!Receipt) : s = gw.receipts
      BY <2>1
    <3>2. PICK k : k = Gat!LastOf(Append(s, y))
      OBVIOUS
    <3>3. k = kept
      BY <2>2, <3>1, <3>2
    <3> HIDE DEF kept, x
    <3>4. AreKept(k, s, y)
      BY <3>2, ReceiptsKept
    <3> QED
      BY <3>1, <3>3, <3>4 DEF AreKept
  <2>5. left \in [Gat!Days -> Nat] /\ \A d \in Gat!Days : left[d] = IF d = today THEN gw.used[d] + n
                                                                   ELSE gw.used[d]
    BY <1>1, <2>1
  <2>6. gw' = [gw EXCEPT !.used = left, !.receipts = kept]
    BY <1>3, <2>1 DEF GwType
  <2> HIDE DEF x, kept, left
  <2>7. gw' \in GwType /\ gw'.receipts = kept /\ gw'.used = left
    BY <2>1, <2>4, <2>5, <2>6 DEF GwType
  <2>8. PICK new \in CallType : new = [call[c] EXCEPT !.pc = "generate", !.cost = n, !.day = today]
    BY <1>1 DEF CallType
  <2>9. /\ new.pc = "generate" /\ new.cost = n /\ new.day = today /\ new.id = call[c].id
        /\ call' = [call EXCEPT ![c] = new]
    BY <1>1, <1>3, <2>8 DEF CallType, GatewayInv, GatewayTypes
  <2>10. call'[c] = new /\ \A o \in Agents \ {c} : call'[o] = call[o]
    BY <2>9 DEF GatewayInv, GatewayTypes
  <2>11. GatewayTypes'
    BY <1>1, <2>7, <2>9, <2>10 DEF GatewayInv, GatewayTypes
  <2>12. WithinReserved'
    BY <2>9, <2>10 DEF GatewayInv, CallsAgree, WithinReserved
  <2>13. ASSUME NEW o \in Agents \ {c}, Holding(o) PROVE call[o].id # call[c].id
    BY <1>1, <1>3, <2>13 DEF GatewayInv, CallsAgree, RepeatsFind
  <2>14. \A o \in Agents : Holding(o)' <=> o = c \/ Holding(o)
    BY <2>9, <2>10 DEF Holding
  <2>15. OneHolder'
    BY <2>9, <2>10, <2>13, <2>14 DEF GatewayInv, CallsAgree, OneHolder
  <2>16. RepeatsFind'
    <3> SUFFICES ASSUME NEW h \in Agents, NEW o \in Agents, Holding(h)', call'[o].pc = "estimate",
                        call'[h].id = call'[o].id
                 PROVE  \E j \in DOMAIN kept : kept[j].id = call'[h].id
      BY <2>7 DEF RepeatsFind, Gat!Received
    <3>1. CASE h = c
      BY <2>3, <2>4, <2>9, <2>10, <3>1
    <3>2. CASE h # c
      <4>1. o # c /\ call'[o] = call[o] /\ call'[h] = call[h] /\ Holding(h)
        BY <2>9, <2>10, <2>14, <3>2
      <4>2. Gat!Received(call[o].id)
        BY <4>1 DEF GatewayInv, CallsAgree, RepeatsFind
      <4> QED
        BY <1>3, <4>1, <4>2 DEF Gat!KeepsRepeated
    <3> QED
      BY <3>1, <3>2
  <2>17. ReceiptsFollow'
    <3> SUFFICES ASSUME NEW o \in Agents, NEW j \in DOMAIN kept, Holding(o)',
                        kept[j].id = call'[o].id, kept[j].status = "reserved"
                 PROVE  kept[j].day = call'[o].day /\ kept[j].reserved = call'[o].cost
      BY <2>7 DEF ReceiptsFollow, SaysReserved
    <3>1. CASE kept[j] = y /\ o = c
      BY <2>3, <2>9, <2>10, <3>1
    <3>2. CASE kept[j] = y /\ o # c
      BY <2>3, <2>10, <2>13, <2>14, <3>2
    <3>3. ASSUME NEW i \in DOMAIN gw.receipts, kept[j] = gw.receipts[i] PROVE o # c
      BY <1>3, <2>9, <2>10, <3>3 DEF Gat!Received
    <3>4. CASE \E i \in DOMAIN gw.receipts : kept[j] = gw.receipts[i]
      BY <2>10, <2>14, <3>3, <3>4 DEF GatewayInv, CallsAgree, ReceiptsFollow, SaysReserved
    <3> QED
      BY <2>4, <3>1, <3>2, <3>4
  <2>18. ASSUME NEW d \in Gat!Days
         PROVE  billed'[d] + Owed(c, d)' + gw.used[d] <= billed[d] + Owed(c, d) + gw'.used[d]
    <3>1. /\ Owed(c, d) = 0 /\ Owed(c, d)' = IF d = today THEN n ELSE 0
          /\ billed'[d] = billed[d] /\ billed[d] \in Nat /\ gw.used[d] \in Nat
      BY <1>1, <2>1, <2>9, <2>10 DEF Owed, GatewayInv, GatewayTypes
    <3>2. gw'.used[d] = IF d = today THEN gw.used[d] + n ELSE gw.used[d]
      BY <2>5, <2>7
    <3> QED
      BY <1>1, <3>1, <3>2
  <2>19. CallsAgree'
    BY <2>12, <2>15, <2>16, <2>17 DEF CallsAgree
  <2> QED
    BY <2>10, <2>11, <2>12, <2>18, <2>19, BooksMove DEF GatewayInv
<1> QED
  <2> HIDE DEF x
  <2>1. x = [id |-> call[c].id, day |-> today, reserved |-> n, status |-> "reserved"]
    BY DEF x
  <2> QED
    BY <1>2, <1>3 DEF Gat!Reserve, Gat!Receive, x

\* Each operation of administrators and callers keeps the invariant.
LEMMA GatewayStep == GatewayInv /\ Gat!Next => GatewayInv'
<1> SUFFICES ASSUME GatewayInv, Gat!Next PROVE GatewayInv'
  OBVIOUS
<1>0. gw \in GwType /\ today \in Gat!Days
  BY DEF GatewayInv, GatewayTypes
<1>1. ASSUME NEW m \in Gat!Models, NEW b \in Budgets, Gat!UpdatePolicy(m, b) PROVE GatewayInv'
  <2>1. gw' \in GwType /\ gw'.used = gw.used /\ gw'.receipts = gw.receipts
    BY <1>0, <1>1 DEF Gat!UpdatePolicy, GwType
  <2> QED
    BY <1>1, <2>1, QuietGateway DEF Gat!UpdatePolicy, Gat!Manages, GatewayInv, GatewayTypes
<1>2. ASSUME Gat!CreatePromptVersion PROVE GatewayInv'
  <2>1. gw' \in GwType /\ gw'.used = gw.used /\ gw'.receipts = gw.receipts
    BY <1>0, <1>2 DEF Gat!CreatePromptVersion, GwType
  <2> QED
    BY <1>2, <2>1, QuietGateway DEF Gat!CreatePromptVersion, Gat!Manages, GatewayInv, GatewayTypes
<1>3. ASSUME Gat!DayPasses PROVE GatewayInv'
  <2>1. today' \in Gat!Days
    BY <1>0, <1>3, Bounded DEF Gat!DayPasses, Gat!Days
  <2> QED
    BY <1>0, <1>3, <2>1, QuietGateway DEF Gat!DayPasses, GatewayInv, GatewayTypes
<1>4. ASSUME NEW v \in 1..MaxPrompt, Gat!ActivatePrompt(v) PROVE GatewayInv'
  <2>1. v \in Nat
    BY <1>0, <1>4 DEF Gat!ActivatePrompt, GwType
  <2>2. gw' \in GwType /\ gw'.used = gw.used /\ gw'.receipts = gw.receipts
    BY <1>0, <1>4, <2>1 DEF Gat!ActivatePrompt, GwType
  <2> QED
    BY <1>4, <2>2, QuietGateway DEF Gat!ActivatePrompt, Gat!Manages, GatewayInv, GatewayTypes
<1>5. ASSUME NEW b \in BOOLEAN, Gat!SetState(b) PROVE GatewayInv'
  <2>1. gw' \in GwType /\ gw'.used = gw.used /\ gw'.receipts = gw.receipts
    BY <1>0, <1>5 DEF Gat!SetState, GwType
  <2> QED
    BY <1>5, <2>1, QuietGateway DEF Gat!SetState, Gat!Manages, GatewayInv, GatewayTypes
<1>6. ASSUME NEW c \in Agents, Gat!Abandon(c) \/ Gat!Deliver(c) PROVE GatewayInv'
  BY <1>6, CallEnds DEF Gat!Abandon, Gat!Deliver
<1> QED
  BY <1>1, <1>2, <1>3, <1>4, <1>5, <1>6, BeginStep, ReserveStep, GenerateStep, SucceedStep, FailStep
  DEF Gat!Next

\* The books of a day cover what the provider charged for the requests reserved on it, whatever
\* calls fail, are lost or settle later, for any number of callers, days and requests.
THEOREM BudgetAlwaysCovers == Spec => []BudgetCovers
<1> DEFINE Inv == service = "gateway" => GatewayInv
<1>1. Init => Inv
  BY GatewayInit DEF Init
<1>2. Inv /\ [Next]_vars => Inv'
  <2>1. CASE UNCHANGED vars
    <3>1. ASSUME GatewayInv PROVE GatewayInv'
      BY <2>1, <3>1, QuietGateway DEF vars, gateway, GatewayInv, GatewayTypes
    <3> QED
      BY <2>1, <3>1 DEF vars
  <2>2. CASE Next
    BY <2>2, GatewayStep DEF Next
  <2> QED
    BY <2>1, <2>2
<1>3. Inv => BudgetCovers
  <2>1. ASSUME GatewayInv, NEW d \in Gat!Days PROVE gw.used[d] >= billed[d]
    <3>1. PICK f \in [Agents -> 0..MaxCost] : f = Owing(d)
      BY <2>1, OwingType DEF GatewayInv, CallsAgree
    <3>2. Cardinality(Pile(f)) \in Nat
      <4>1. CASE Agents = {}
        <5>1. Pile(f) = {}
          BY <4>1 DEF Pile
        <5> QED
          BY <5>1, FS_EmptySet
      <4>2. ASSUME NEW c \in Agents PROVE Cardinality(Pile(f)) \in Nat
        BY PileChanges
      <4> QED
        BY <4>1, <4>2
    <3>3. billed[d] + Cardinality(Pile(f)) <= gw.used[d] /\ billed[d] \in Nat /\ gw.used[d] \in Nat
      BY <2>1, <3>1 DEF GatewayInv, GatewayTypes, GwType, BooksCover
    <3> QED
      BY <3>2, <3>3
  <2> QED
    BY <2>1 DEF BudgetCovers, Gat!BudgetCovers
<1> QED
  BY <1>1, <1>2, <1>3, PTL DEF Spec

-----------------------------------------------------------------------------
(* What the sets of numbers below have: a least and a greatest element.                            *)

\* A set of natural numbers has a least element.
LEMMA LeastNatural ==
  ASSUME NEW T \in SUBSET Nat, T # {}
  PROVE  \E x \in T : \A y \in T : x <= y
<1>1. PICK b \in T : TRUE
  OBVIOUS
<1> DEFINE Below == {x \in T : x <= b}
          F == {0..x : x \in Below}
<1>2. IsFiniteSet(0..b) /\ F \in SUBSET (SUBSET (0..b)) /\ F # {}
  <2>1. IsFiniteSet(0..b)
    BY <1>1, FS_Interval
  <2>2. 0..b \in F
    BY <1>1
  <2>3. F \in SUBSET (SUBSET (0..b))
    <3>1. ASSUME NEW x \in Below PROVE 0..x \in SUBSET (0..b)
      BY <1>1
    <3> QED BY <3>1
  <2> QED BY <2>1, <2>2, <2>3
<1>3. IsWellFoundedOn(StrictSubsetOrdering(0..b), FiniteSubsetsOf(0..b))
  BY <1>2, FS_StrictSubsetOrderingWellFounded
<1>4. F \subseteq FiniteSubsetsOf(0..b)
  BY <1>2, FS_Subset DEF FiniteSubsetsOf
<1>5. PICK m \in F : \A o \in F : <<o, m>> \notin StrictSubsetOrdering(0..b)
  <2> HIDE DEF F
  <2> QED BY <1>2, <1>3, <1>4, WFMin
<1>6. PICK x \in Below : m = 0..x
  BY <1>5
<1>7. ASSUME NEW y \in T, y < x PROVE FALSE
  <2>1. 0..y \in F /\ 0..y \subseteq 0..x /\ 0..y # 0..x
    BY <1>7, <1>6, <1>1
  <2> QED BY <2>1, <1>5, <1>6, <1>2 DEF StrictSubsetOrdering
<1> QED BY <1>6, <1>7

\* A set of bounded natural numbers has a greatest element.
LEMMA GreatestNatural ==
  ASSUME NEW n \in Nat, NEW T \in SUBSET (0..n), T # {}
  PROVE  \E x \in T : \A y \in T : y <= x
<1> DEFINE U == {n - x : x \in T}
<1>1. U \in SUBSET Nat
  OBVIOUS
<1>2. U # {}
  OBVIOUS
<1>3. PICK m \in U : \A y \in U : m <= y
  <2> HIDE DEF U
  <2> QED BY <1>1, <1>2, LeastNatural
<1>4. PICK x \in T : m = n - x
  OBVIOUS
<1>5. ASSUME NEW y \in T PROVE y <= x
  <2>1. n - y \in U
    OBVIOUS
  <2>2. m <= n - y /\ x \in Nat /\ y \in Nat
    BY <2>1, <1>3
  <2> QED BY <2>2, <1>4
<1> QED BY <1>5

-----------------------------------------------------------------------------
(* Assets (Assets): a record is verified after the inspection of the body that was stored, and     *)
(* from then on its object is only ever deleted.                                                   *)

CompletionType == [pc : {"idle", "inspect", "store", "save"}, body : Ass!Bodies \cup {"none"},
                   verified : BOOLEAN]
RendererType == [pc : {"idle", "rendering"}, asset : Items \cup {"none"}, record : Ass!Asset]

LibraryTypes ==
  /\ upload \in Ass!Upload
  /\ completion \in [Items -> CompletionType]
  /\ assets \in [Items -> Ass!Asset]
  /\ objects \in [Items -> Ass!Objects]
  /\ renderer \in [{"adapter"} -> RendererType]
  /\ appended \in [Items -> SUBSET (1..MaxRevisions)]

Clean(c) == objects[c] \in {"clean", "sanitized", "none"}

\* A completion ends with the first revision, so none is under way once there is one.
CompletesOnce ==
  \A c \in Items :
    /\ assets[c].exists => appended[c] # {}
    /\ completion[c].pc # "idle" => appended[c] = {}

\* What was inspected is a body that was recorded, and a verified one is not infected.
Inspected ==
  \A c \in Items :
    /\ completion[c].pc # "idle" => completion[c].body \in Ass!Bodies
    /\ completion[c].pc \in {"store", "save"} /\ completion[c].verified =>
         completion[c].body # "infected"

\* What is to be saved as verified, is saved as verified, or was when it was read.
VerifiedIsClean ==
  \A c \in Items :
    /\ completion[c].pc = "save" /\ completion[c].verified => Clean(c)
    /\ assets[c].exists /\ assets[c].verified => Clean(c)
    /\ \A r \in {"adapter"} : renderer[r].pc = "rendering" /\ renderer[r].asset = c =>
         Clean(c) /\ appended[c] # {}

LibraryInv == LibraryTypes /\ CompletesOnce /\ Inspected /\ VerifiedIsClean

\* The invariant holds at the start.
LEMMA LibraryInit == Ass!Init => LibraryInv
BY Bounded DEF Ass!Init, LibraryInv, LibraryTypes, CompletesOnce, Inspected, VerifiedIsClean, Clean,
  Ass!NoCompletion, Ass!NoAsset, Ass!Idle, Ass!Upload, Ass!Bodies, Ass!Objects, Ass!Asset,
  CompletionType, RendererType

\* Each part, call and erasure keeps the invariant.
LEMMA LibraryStep ==
  ASSUME LibraryInv, Ass!Next
  PROVE  LibraryInv'
<1> USE DEF Ass!NoCompletion, Ass!NoAsset, Ass!Idle, Ass!Upload, Ass!Bodies, Ass!Objects, Ass!Asset,
  CompletionType, RendererType
<1>0. LibraryTypes /\ CompletesOnce /\ Inspected /\ VerifiedIsClean
  BY DEF LibraryInv
<1>1. ASSUME NEW b \in Ass!Bodies, Ass!SendPart(b) PROVE LibraryInv'
  <2>1. LibraryTypes'
    BY <1>0, <1>1 DEF Ass!SendPart, LibraryTypes
  <2>2. CompletesOnce' /\ Inspected'
    BY <1>0, <1>1 DEF Ass!SendPart, LibraryTypes, CompletesOnce, Inspected
  <2>3. VerifiedIsClean'
    BY <1>0, <1>1 DEF Ass!SendPart, LibraryTypes, CompletesOnce, Inspected, VerifiedIsClean, Clean
  <2> QED BY <2>1, <2>2, <2>3 DEF LibraryInv
<1>2. ASSUME Ass!RecordPart PROVE LibraryInv'
  <2>1. LibraryTypes'
    BY <1>0, <1>2 DEF Ass!RecordPart, LibraryTypes
  <2>2. CompletesOnce' /\ Inspected'
    BY <1>0, <1>2 DEF Ass!RecordPart, LibraryTypes, CompletesOnce, Inspected
  <2>3. VerifiedIsClean'
    BY <1>0, <1>2 DEF Ass!RecordPart, LibraryTypes, CompletesOnce, Inspected, VerifiedIsClean, Clean
  <2> QED BY <2>1, <2>2, <2>3 DEF LibraryInv
<1>3. ASSUME Ass!AbortUpload PROVE LibraryInv'
  <2>1. LibraryTypes'
    BY <1>0, <1>3 DEF Ass!AbortUpload, LibraryTypes
  <2>2. CompletesOnce' /\ Inspected'
    BY <1>0, <1>3 DEF Ass!AbortUpload, LibraryTypes, CompletesOnce, Inspected
  <2>3. VerifiedIsClean'
    BY <1>0, <1>3 DEF Ass!AbortUpload, LibraryTypes, CompletesOnce, Inspected, VerifiedIsClean, Clean
  <2> QED BY <2>1, <2>2, <2>3 DEF LibraryInv
<1>4. ASSUME NEW c \in Items, Ass!BeginCompletion(c) PROVE LibraryInv'
  <2>1. LibraryTypes'
    BY <1>0, <1>4 DEF Ass!BeginCompletion, LibraryTypes
  <2>2. CompletesOnce' /\ Inspected'
    BY <1>0, <1>4 DEF Ass!BeginCompletion, LibraryTypes, CompletesOnce, Inspected
  <2>3. VerifiedIsClean'
    BY <1>0, <1>4 DEF Ass!BeginCompletion, LibraryTypes, CompletesOnce, Inspected, VerifiedIsClean, Clean
  <2> QED BY <2>1, <2>2, <2>3 DEF LibraryInv
<1>5. ASSUME NEW c \in Items, NEW b \in BOOLEAN, Ass!Inspect(c, b) PROVE LibraryInv'
  <2> DEFINE v == b /\ completion[c].body # "infected"
             x == [completion[c] EXCEPT !.pc = "store", !.verified = v]
  <2>1. x \in CompletionType /\ x.pc = "store" /\ x.body = completion[c].body /\ x.verified = v
    <3>1. completion[c] \in CompletionType /\ v \in BOOLEAN
      BY <1>0 DEF LibraryTypes
    <3> HIDE DEF v
    <3> QED BY <3>1
  <2>2. /\ completion' = [completion EXCEPT ![c] = x]
        /\ completion[c].pc = "inspect" /\ UNCHANGED <<upload, assets, objects, renderer, appended>>
    BY <1>0, <1>5 DEF Ass!Inspect, LibraryTypes
  <2>3. x.body \in Ass!Bodies
    BY <1>0, <2>1, <2>2 DEF LibraryTypes, Inspected
  <2>4. x.verified => x.body # "infected"
    BY <2>1
  <2> HIDE DEF x, v
  <2>5. LibraryTypes'
    BY <1>0, <2>1, <2>2 DEF LibraryTypes
  <2>6. CompletesOnce' /\ Inspected'
    BY <1>0, <2>1, <2>2, <2>3, <2>4 DEF LibraryTypes, CompletesOnce, Inspected
  <2>7. VerifiedIsClean'
    BY <1>0, <2>1, <2>2 DEF LibraryTypes, VerifiedIsClean, Clean
  <2> QED BY <2>5, <2>6, <2>7 DEF LibraryInv
<1>6. ASSUME NEW c \in Items, Ass!StoreObject(c) PROVE LibraryInv'
  <2>0. /\ completion[c].pc = "store" /\ completion[c].body \in Ass!Bodies
        /\ appended[c] = {} /\ ~assets[c].exists
        /\ completion[c].verified => completion[c].body # "infected"
        /\ UNCHANGED <<assets, renderer, appended>>
    BY <1>0, <1>6 DEF Ass!StoreObject, LibraryTypes, CompletesOnce, Inspected
  <2>1. CASE UNCHANGED objects /\ Ass!Refused(c) /\ UNCHANGED upload
    <3>1. completion' = [completion EXCEPT ![c] = Ass!NoCompletion]
      BY <2>1 DEF Ass!Refused
    <3> QED BY <1>0, <2>0, <2>1, <3>1
      DEF LibraryInv, LibraryTypes, CompletesOnce, Inspected, VerifiedIsClean, Clean
  <2>2. ASSUME NEW o \in Ass!Objects, objects' = [objects EXCEPT ![c] = o],
               completion[c].verified => o \in {"clean", "sanitized"},
               completion' = [completion EXCEPT ![c].pc = "save"], Ass!Consumed
        PROVE  LibraryInv'
    <3> DEFINE x == [completion[c] EXCEPT !.pc = "save"]
    <3>1. /\ x \in CompletionType /\ x.pc = "save" /\ x.body = completion[c].body
          /\ x.verified = completion[c].verified
      BY SMTT(20), <1>0 DEF LibraryTypes
    <3>2. completion' = [completion EXCEPT ![c] = x]
      BY <1>0, <2>2 DEF LibraryTypes
    <3>3. upload' \in Ass!Upload
      BY <1>0, <2>2 DEF LibraryTypes, Ass!Consumed
    <3> HIDE DEF x
    <3>4. LibraryTypes'
      BY SMTT(20), <1>0, <2>0, <2>2, <3>1, <3>2, <3>3 DEF LibraryTypes
    <3>5. CompletesOnce' /\ Inspected'
      BY <1>0, <2>0, <2>2, <3>1, <3>2 DEF LibraryTypes, CompletesOnce, Inspected
    <3>6. VerifiedIsClean'
      BY <1>0, <2>0, <2>2, <3>1, <3>2 DEF LibraryTypes, VerifiedIsClean, Clean
    <3> QED BY <3>4, <3>5, <3>6 DEF LibraryInv
  <2>3. CASE completion[c].verified /\ completion[c].body = "markup"
    BY <1>6, <2>2, <2>3 DEF Ass!StoreObject
  <2>4. CASE ~(completion[c].verified /\ completion[c].body = "markup") /\ Ass!SameStored(c)
    <3>1. upload.stored \in Ass!Objects /\ (completion[c].verified => upload.stored = "clean")
      BY <2>0, <2>4 DEF Ass!SameStored
    <3> QED BY <1>6, <2>2, <2>4, <3>1 DEF Ass!StoreObject
  <2> QED BY <1>6, <2>1, <2>3, <2>4 DEF Ass!StoreObject
<1>7. ASSUME NEW c \in Items, Ass!SaveAsset(c) PROVE LibraryInv'
  <2>1. LibraryTypes'
    <3>1. {1} \in SUBSET (1..MaxRevisions) /\ completion[c].verified \in BOOLEAN
      BY <1>0, Bounded DEF LibraryTypes
    <3> QED BY <1>0, <1>7, <3>1 DEF Ass!SaveAsset, LibraryTypes
  <2>2. CompletesOnce' /\ Inspected'
    BY <1>0, <1>7 DEF Ass!SaveAsset, LibraryTypes, CompletesOnce, Inspected
  <2>3. VerifiedIsClean'
    BY <1>0, <1>7 DEF Ass!SaveAsset, LibraryTypes, CompletesOnce, Inspected, VerifiedIsClean, Clean
  <2> QED BY <2>1, <2>2, <2>3 DEF LibraryInv
<1>8. ASSUME NEW c \in Items, NEW n \in 2..MaxRevisions, Ass!Update(c, n) PROVE LibraryInv'
  <2>1. LibraryTypes'
    <3>1. n \in 1..MaxRevisions
      BY Bounded
    <3>2. assets[c].revisions \cup {n} \in SUBSET (1..MaxRevisions)
      BY <1>0, <3>1 DEF LibraryTypes
    <3> DEFINE x == [assets[c] EXCEPT !.revisions = assets[c].revisions \cup {n}]
    <3>3. x \in Ass!Asset /\ assets' = [assets EXCEPT ![c] = x]
      <4>1. assets[c] \in Ass!Asset
        BY <1>0 DEF LibraryTypes
      <4>2. PICK m \in SUBSET (1..MaxRevisions) : m = assets[c].revisions \cup {n}
        BY <3>2
      <4>3. [assets[c] EXCEPT !.revisions = m] \in Ass!Asset
        BY <4>1
      <4> QED BY <1>8, <4>2, <4>3 DEF Ass!Update
    <3>4. appended[c] \cup {n} \in SUBSET (1..MaxRevisions)
      BY <1>0, <3>1 DEF LibraryTypes
    <3>5. assets' \in [Items -> Ass!Asset]
      <4> HIDE DEF x
      <4> QED BY <1>0, <3>3 DEF LibraryTypes
    <3>6. appended' \in [Items -> SUBSET (1..MaxRevisions)]
      BY <1>0, <1>8, <3>4 DEF Ass!Update, LibraryTypes
    <3> QED BY <1>0, <1>8, <3>5, <3>6 DEF Ass!Update, LibraryTypes
  <2>2. CompletesOnce' /\ Inspected'
    BY <1>0, <1>8 DEF Ass!Update, LibraryTypes, CompletesOnce, Inspected
  <2>3. VerifiedIsClean'
    BY <1>0, <1>8 DEF Ass!Update, LibraryTypes, CompletesOnce, Inspected, VerifiedIsClean, Clean
  <2> QED BY <2>1, <2>2, <2>3 DEF LibraryInv
<1>9. ASSUME NEW c \in Items, NEW r \in {"adapter"}, Ass!ReadForRendition(r, c) PROVE LibraryInv'
  <2>1. LibraryTypes'
    BY <1>0, <1>9 DEF Ass!ReadForRendition, LibraryTypes
  <2>2. CompletesOnce' /\ Inspected'
    BY <1>0, <1>9 DEF Ass!ReadForRendition, LibraryTypes, CompletesOnce, Inspected
  <2>3. VerifiedIsClean'
    BY <1>0, <1>9 DEF Ass!ReadForRendition, LibraryTypes, CompletesOnce, Inspected, VerifiedIsClean, Clean
  <2> QED BY <2>1, <2>2, <2>3 DEF LibraryInv
<1>10. ASSUME NEW r \in {"adapter"}, NEW b \in BOOLEAN, Ass!SaveRendition(r, b) PROVE LibraryInv'
  <2>1. LibraryTypes'
    BY ZenonT(30), <1>0, <1>10 DEF Ass!SaveRendition, LibraryTypes
  <2>2. CompletesOnce' /\ Inspected'
    BY <1>0, <1>10 DEF Ass!SaveRendition, LibraryTypes, CompletesOnce, Inspected, VerifiedIsClean
  <2>3. VerifiedIsClean'
    BY <1>0, <1>10 DEF Ass!SaveRendition, LibraryTypes, CompletesOnce, Inspected, VerifiedIsClean, Clean
  <2> QED BY <2>1, <2>2, <2>3 DEF LibraryInv
<1>11. ASSUME NEW c \in Items, Ass!EraseObjects(c) PROVE LibraryInv'
  <2>1. LibraryTypes'
    BY <1>0, <1>11 DEF Ass!EraseObjects, LibraryTypes
  <2>2. CompletesOnce' /\ Inspected'
    BY <1>0, <1>11 DEF Ass!EraseObjects, LibraryTypes, CompletesOnce, Inspected
  <2>3. VerifiedIsClean'
    BY <1>0, <1>11 DEF Ass!EraseObjects, LibraryTypes, CompletesOnce, Inspected, VerifiedIsClean, Clean
  <2> QED BY <2>1, <2>2, <2>3 DEF LibraryInv
<1>12. ASSUME NEW c \in Items, Ass!EraseRecord(c) PROVE LibraryInv'
  <2>1. LibraryTypes'
    BY <1>0, <1>12 DEF Ass!EraseRecord, LibraryTypes
  <2>2. CompletesOnce' /\ Inspected'
    BY <1>0, <1>12 DEF Ass!EraseRecord, LibraryTypes, CompletesOnce, Inspected
  <2>3. VerifiedIsClean'
    BY <1>0, <1>12 DEF Ass!EraseRecord, LibraryTypes, CompletesOnce, Inspected, VerifiedIsClean, Clean
  <2> QED BY <2>1, <2>2, <2>3 DEF LibraryInv
<1> QED
  BY <1>1, <1>2, <1>3, <1>4, <1>5, <1>6, <1>7, <1>8, <1>9, <1>10, <1>11, <1>12 DEF Ass!Next

\* A verified asset has no object that failed or escaped the inspection, for any number of
\* completions of an upload and revisions of an asset.
THEOREM DeliveredAlwaysInspected == Spec => []DeliveredWasInspected
<1> DEFINE Inv == service = "library" => LibraryInv
<1>1. Init => Inv
  BY LibraryInit DEF Init
<1>2. Inv /\ [Next]_vars => Inv'
  <2>1. CASE UNCHANGED vars
    BY <2>1 DEF vars, library, LibraryInv, LibraryTypes, CompletesOnce, Inspected, VerifiedIsClean, Clean
  <2>2. CASE Next
    <3>1. service' = service /\ (service = "library" => Ass!Next)
      BY <2>2 DEF Next
    <3> QED
      BY <2>2, <3>1, LibraryStep
  <2> QED
    BY <2>1, <2>2
<1>3. Inv => DeliveredWasInspected
  BY DEF DeliveredWasInspected, Ass!DeliveredWasInspected, LibraryInv, VerifiedIsClean, Clean
<1> QED
  BY <1>1, <1>2, <1>3, PTL DEF Spec

-----------------------------------------------------------------------------
(* Sign-in (Identity), with the users U of a directory and the answers L to one login: sessions    *)
(* are numbered as they are issued, only their user's or the account's standing and their limit    *)
(* decide which of them live, and one answer consumes the login.                                   *)

AccountType == [state : {"none", "active", "used", "revoked"}, failed : Nat]

PolicyType(U) == [limit : 1..MaxConcurrent, granted : [U -> 1..MaxConcurrent]]

IdentityTypes(U, L) ==
  /\ users \in [U -> Ide(U, L)!UserState]
  /\ linked \in U \cup {None}
  /\ sessions \in [1..MaxSessions -> Ide(U, L)!Session]
  /\ login \in [L -> {"started", "consumed", "done", "denied"}]
  /\ account \in AccountType
  /\ policy \in PolicyType(U)

\* A session lives while its user is active.
UsersActive(U) ==
  \A s \in 1..MaxSessions :
    sessions[s].state = "live" /\ sessions[s].of \in U => users[sessions[s].of] = "active"

\* The next session is the one after those that were issued.
IssuedUpTo(n) ==
  \A s \in 1..MaxSessions : /\ sessions[s].state # "none" <=> s <= n
                            /\ sessions[s].state = "none" => sessions[s].of = None
InOrder == \E n \in 0..MaxSessions : IssuedUpTo(n)

Current(h) == {s \in 1..MaxSessions : /\ sessions[s].of = h /\ sessions[s].state = "live"
                                      /\ ~sessions[s].expired}
Limited(U) == \A u \in U : Cardinality(Current(u)) <= policy.granted[u]

\* The emergency account has a session after its one use only.
AccountOnce ==
  /\ \A s, t \in 1..MaxSessions : sessions[s].of = "account" /\ sessions[t].of = "account" => s = t
  /\ \A s \in 1..MaxSessions : sessions[s].of = "account" =>
       /\ account.state \in {"used", "revoked"}
       /\ sessions[s].state = "live" => account.state = "used"

Answered(l) == login[l] \in {"consumed", "done"}
LoginOnce(L) == \A l, m \in L : Answered(l) /\ Answered(m) => l = m

IdentityInv(U, L) ==
  /\ IdentityTypes(U, L) /\ UsersActive(U) /\ InOrder /\ Limited(U) /\ AccountOnce /\ LoginOnce(L)

\* The invariant holds at the start.
LEMMA IdentityInit ==
  ASSUME NEW U, NEW L, None \notin U \cup {"account"}, Ide(U, L)!Init
  PROVE  IdentityInv(U, L)
<1>1. IdentityTypes(U, L) /\ UsersActive(U) /\ AccountOnce /\ LoginOnce(L)
  BY Bounded DEF Ide!Init, Ide!UserState, Ide!Session, Ide!Sessions, Ide!Strength, Ide!NoSession, AccountType, PolicyType, IdentityTypes,
    UsersActive, AccountOnce, LoginOnce, Answered
<1>2. IssuedUpTo(0)
  BY DEF Ide!Init, Ide!Sessions, Ide!NoSession, IssuedUpTo
<1>3. InOrder
  BY <1>2, Bounded DEF InOrder
<1>4. ASSUME NEW u \in U PROVE Cardinality(Current(u)) <= policy.granted[u]
  <2>1. Current(u) = {}
    BY DEF Current, Ide!Init, Ide!Sessions, Ide!NoSession
  <2>2. policy.granted[u] = 1
    BY DEF Ide!Init
  <2> QED BY <2>1, <2>2, FS_EmptySet
<1> QED BY <1>1, <1>3, <1>4 DEF IdentityInv, Limited

\* The cardinality that the instance knows.
LEMMA IdentityCounts == ASSUME NEW U, NEW L, NEW T PROVE Ide(U, L)!Cardinality(T) = Cardinality(T)
BY DEF Ide!Cardinality, Cardinality

\* Of the sessions that have fewer than k later ones, there are k at most.
LEMMA NewestFew ==
  ASSUME NEW S, IsFiniteSet(S), S \subseteq Nat, NEW k \in Nat \ {0},
         NEW R, R = {s \in S : Cardinality({t \in S : t > s}) < k}
  PROVE  Cardinality(R) <= k
<1>1. IsFiniteSet(R) /\ Cardinality(R) \in Nat
  BY FS_Subset, FS_CardinalityType
<1>2. CASE R = {}
  <2>1. Cardinality(R) = 0
    BY <1>2, FS_EmptySet
  <2> QED BY <2>1
<1>3. CASE R # {}
  <2>1. PICK m \in R : \A y \in R : m <= y
    BY <1>3, LeastNatural
  <2> DEFINE Later == {t \in S : t > m}
  <2>2. ASSUME NEW x \in R \ {m} PROVE x \in Later
    BY <2>1, m <= x
  <2>3. IsFiniteSet(Later) /\ Cardinality(Later) < k
    BY <2>1, FS_Subset
  <2>4. Cardinality(R \ {m}) <= Cardinality(Later) /\ Cardinality(Later) \in Nat
    <3> HIDE DEF Later
    <3> QED BY <2>2, <2>3, FS_Subset, FS_CardinalityType
  <2>5. Cardinality(R \ {m}) = Cardinality(R) - 1
    BY <1>1, <2>1, FS_RemoveElement
  <2> QED BY <1>1, <2>3, <2>4, <2>5
<1> QED BY <1>2, <1>3

\* Sessions only end or expire.
Fades ==
  \A s \in 1..MaxSessions :
    /\ sessions'[s].of = sessions[s].of
    /\ sessions'[s].state = "none" <=> sessions[s].state = "none"
    /\ sessions'[s].state = "live" =>
         sessions[s].state = "live" /\ (~sessions'[s].expired => ~sessions[s].expired)

\* The sessions that a holder has are finitely many.
LEMMA CurrentFinite ==
  ASSUME NEW h
  PROVE  Current(h) \subseteq 1..MaxSessions /\ IsFiniteSet(Current(h)) /\ Cardinality(Current(h)) \in Nat
<1>1. IsFiniteSet(1..MaxSessions) /\ Current(h) \subseteq 1..MaxSessions
  BY Bounded, FS_Interval DEF Current
<1> QED BY <1>1, FS_Subset, FS_CardinalityType

\* Sessions that only end or expire keep to the limit and to their numbers.
LEMMA FadingKeeps ==
  ASSUME NEW U, InOrder, Limited(U), Fades, policy \in PolicyType(U), policy'.granted = policy.granted
  PROVE  InOrder' /\ Limited(U)'
<1>1. InOrder'
  BY DEF InOrder, IssuedUpTo, Fades
<1>2. ASSUME NEW u \in U PROVE Cardinality(Current(u)') <= policy'.granted[u]
  <2>1. Current(u)' \subseteq Current(u)
    BY DEF Current, Fades
  <2>2. Cardinality(Current(u)') <= Cardinality(Current(u)) /\ Cardinality(Current(u)') \in Nat
    BY <2>1, CurrentFinite, FS_Subset, FS_CardinalityType
  <2>3. Cardinality(Current(u)) <= policy'.granted[u] /\ policy'.granted[u] \in Nat
    BY Bounded DEF Limited, PolicyType
  <2> QED BY <2>2, <2>3, CurrentFinite
<1> QED BY <1>1, <1>2 DEF Limited

\* What ends sessions keeps their types and lets them fade.
LEMMA RevokingFades ==
  ASSUME NEW U, NEW L, IdentityTypes(U, L), NEW chosen, sessions' = Ide(U, L)!Revoking(chosen)
  PROVE  /\ sessions' \in [1..MaxSessions -> Ide(U, L)!Session]
         /\ Fades
         /\ \A s \in 1..MaxSessions : s \in chosen => sessions'[s].state # "live"
<1>1. ASSUME NEW s \in 1..MaxSessions
      PROVE  /\ sessions'[s] \in Ide(U, L)!Session
             /\ sessions'[s].of = sessions[s].of
             /\ sessions'[s].state = "none" <=> sessions[s].state = "none"
             /\ sessions'[s].state = "live" => sessions'[s] = sessions[s] /\ s \notin chosen
  BY <1>1 DEF IdentityTypes, Ide!Revoking, Ide!Sessions, Ide!NoSession, Ide!Session, Ide!Strength, Ide!Holders
<1>2. sessions' = [s \in 1..MaxSessions |-> sessions'[s]]
  BY DEF Ide!Revoking, Ide!Sessions
<1> QED BY <1>1, <1>2 DEF Fades

\* A session that is issued is the next one, lives, and leaves its user no more than the policy
\* allows by now; it ends older ones of the user only.
LEMMA IssueKeeps ==
  ASSUME NEW U, NEW L, "account" \notin U, IdentityTypes(U, L), InOrder, Limited(U),
         NEW h \in U \cup {"account"}, NEW strength \in Ide(U, L)!Strength,
         Ide(U, L)!IssueSession(h, strength)
  PROVE  /\ sessions' \in [1..MaxSessions -> Ide(U, L)!Session]
         /\ InOrder' /\ Limited(U)' /\ policy' \in PolicyType(U)
         /\ \E s \in 1..MaxSessions :
              /\ sessions[s].of = None /\ sessions'[s].of = h
              /\ \A t \in 1..MaxSessions \ {s} :
                   /\ sessions'[t].of = sessions[t].of
                   /\ sessions'[t].state = "live" => sessions[t].state = "live"
<1> DEFINE s == Ide(U, L)!NextSession
           live == Current(h) \cup {s}
           old == Ide(U, L)!Oldest(live)
           new == [state |-> "live", of |-> h, strength |-> strength, expired |-> FALSE]
<1>1. PICK n \in 0..MaxSessions : IssuedUpTo(n)
  BY DEF InOrder
<1>2. n \in Nat /\ MaxSessions \in Nat
  BY Bounded
<1>3. s = n + 1
  <2>1. Ide(U, L)!Issued = 1..n
    BY <1>1, <1>2 DEF Ide!Issued, Ide!Sessions, IssuedUpTo
  <2>2. Cardinality(1..n) = n
    BY <1>2, FS_Interval
  <2> QED BY <2>1, <2>2, IdentityCounts DEF Ide!NextSession
<1>4. s \in 1..MaxSessions /\ sessions[s].state = "none" /\ sessions[s].of = None
  <2>1. s \in 1..MaxSessions
    BY DEF Ide!IssueSession, Ide!Sessions
  <2> HIDE DEF s
  <2> QED BY <1>1, <1>2, <1>3, <2>1 DEF IssuedUpTo
<1>5. {t \in Ide(U, L)!SessionsOf(h) : sessions[t].state = "live" /\ ~sessions[t].expired} = Current(h)
  BY DEF Current, Ide!SessionsOf, Ide!Sessions
<1>6. sessions' = [(IF h = "account" THEN sessions ELSE Ide(U, L)!Revoking(old)) EXCEPT ![s] = new]
  BY <1>5 DEF Ide!IssueSession
<1>7. new \in Ide(U, L)!Session
  BY DEF Ide!Session, Ide!Holders
<1> HIDE DEF s, new
<1>8. new.state = "live" /\ new.of = h
  BY DEF new
<1>9. ASSUME NEW t \in 1..MaxSessions, t # s
      PROVE  /\ sessions'[t] \in Ide(U, L)!Session
             /\ sessions'[t].of = sessions[t].of
             /\ sessions'[t].state = "none" <=> sessions[t].state = "none"
             /\ sessions'[t].state = "live" =>
                  sessions'[t] = sessions[t] /\ (h \in U => t \notin old)
  <2>1. CASE h = "account"
    BY <1>6, <1>9, <2>1 DEF IdentityTypes
  <2>2. CASE h # "account"
    <3>1. sessions'[t] = Ide(U, L)!Revoking(old)[t]
      BY <1>6, <1>9, <2>2 DEF Ide!Revoking, Ide!Sessions
    <3> HIDE DEF old
    <3> QED BY <3>1, <1>9, <2>2
        DEF IdentityTypes, Ide!Revoking, Ide!Sessions, Ide!NoSession, Ide!Session, Ide!Strength, Ide!Holders
  <2> QED BY <2>1, <2>2
<1>10. sessions'[s] = new /\ sessions' = [t \in 1..MaxSessions |-> sessions'[t]]
  BY <1>4, <1>6 DEF IdentityTypes, Ide!Revoking, Ide!Sessions
<1>11. sessions' \in [1..MaxSessions -> Ide(U, L)!Session]
  BY <1>7, <1>9, <1>10
<1>12. InOrder'
  <2>1. IssuedUpTo(n + 1)'
    <3> SUFFICES ASSUME NEW t \in 1..MaxSessions
                 PROVE  /\ sessions'[t].state # "none" <=> t <= n + 1
                        /\ sessions'[t].state = "none" => sessions'[t].of = None
      BY DEF IssuedUpTo
    <3>1. CASE t = s
      BY <1>2, <1>3, <1>8, <1>10, <3>1
    <3>2. CASE t # s
      BY <1>1, <1>2, <1>3, <1>9, <3>2 DEF IssuedUpTo
    <3> QED BY <3>1, <3>2
  <2>2. n + 1 \in 0..MaxSessions
    BY <1>2, <1>3, <1>4
  <2> QED BY <2>1, <2>2 DEF InOrder
<1>p. /\ policy' \in PolicyType(U) /\ policy.limit \in Nat \ {0}
      /\ \A u \in U : policy'.granted[u] = IF u = h THEN policy.limit ELSE policy.granted[u]
  <2>1. policy' = IF h = "account" THEN policy ELSE [policy EXCEPT !.granted[h] = policy.limit]
    BY DEF Ide!IssueSession
  <2>2. policy \in PolicyType(U) /\ policy.limit \in Nat \ {0}
    BY Bounded DEF IdentityTypes, PolicyType
  <2>3. CASE h = "account"
    BY <2>1, <2>2, <2>3
  <2>4. CASE h \in U
    BY <2>1, <2>2, <2>4 DEF PolicyType
  <2> QED BY <2>2, <2>3, <2>4
<1>13. ASSUME NEW u \in U, u # h PROVE Cardinality(Current(u)') <= policy'.granted[u]
  <2>1. Current(u)' \subseteq Current(u)
    BY <1>8, <1>9, <1>10, <1>13 DEF Current
  <2>2. Cardinality(Current(u)') <= Cardinality(Current(u)) /\ Cardinality(Current(u)') \in Nat
    BY <2>1, CurrentFinite, FS_Subset, FS_CardinalityType
  <2>3. Cardinality(Current(u)) <= policy'.granted[u] /\ policy'.granted[u] \in Nat
    BY <1>p, <1>13, Bounded DEF Limited, IdentityTypes, PolicyType
  <2> QED BY <2>2, <2>3, CurrentFinite
<1>14. ASSUME h \in U PROVE Cardinality(Current(h)') <= policy'.granted[h]
  <2> DEFINE R == {t \in live : Cardinality({x \in live : x > t}) < policy.limit}
  <2>1. IsFiniteSet(live) /\ live \subseteq 1..MaxSessions
    BY <1>4, CurrentFinite, FS_AddElement
  <2>2. Cardinality(R) <= policy.limit
    <3>1. live \subseteq Nat
      BY <2>1
    <3> HIDE DEF live
    <3> QED BY <2>1, <3>1, NewestFew, <1>p
  <2>3. ASSUME NEW t \in Current(h)' PROVE t \in R
    <3>1. t \in 1..MaxSessions /\ sessions'[t].state = "live" /\ ~sessions'[t].expired /\ sessions'[t].of = h
      BY <2>3 DEF Current
    <3>2. CASE t = s
      <4>1. {x \in live : x > t} = {}
        <5> SUFFICES ASSUME NEW x \in live PROVE ~(x > t)
          OBVIOUS
        <5>1. CASE x = s
          BY <3>1, <3>2, <5>1
        <5>2. CASE x \in Current(h)
          BY <1>1, <1>2, <1>3, <3>2, <5>2 DEF Current, IssuedUpTo
        <5> QED BY <5>1, <5>2
      <4> QED BY <3>2, <4>1, FS_EmptySet, <1>p
    <3>3. CASE t # s
      <4>1. t \in Current(h) /\ t \notin old
        BY <1>9, <1>14, <3>1, <3>3 DEF Current
      <4>2. Cardinality({x \in live : x > t}) \in Nat
        BY <2>1, FS_Subset, FS_CardinalityType
      <4>3. old = {y \in live : Cardinality({x \in live : x > y}) >= policy.limit}
        BY IdentityCounts DEF Ide!Oldest
      <4>4. t \in live /\ ~(Cardinality({x \in live : x > t}) >= policy.limit)
        BY <4>1, <4>3
      <4> QED BY <4>2, <4>4, <1>p
    <3> QED BY <3>2, <3>3
  <2>4. IsFiniteSet(R)
    BY <2>1, FS_Subset
  <2>5. Cardinality(Current(h)') <= Cardinality(R) /\ Cardinality(Current(h)') \in Nat /\ Cardinality(R) \in Nat
    <3> HIDE DEF R
    <3> QED BY <2>3, <2>4, FS_Subset, FS_CardinalityType
  <2> QED BY <1>p, <1>14, <2>2, <2>5
<1>15. Limited(U)'
  BY <1>13, <1>14 DEF Limited
<1> QED BY <1>4, <1>8, <1>9, <1>10, <1>11, <1>12, <1>15, <1>p

\* Every operation of the directory, of logins and of passkeys keeps the invariant.
LEMMA DirectoryStep ==
  ASSUME NEW U, NEW L, None \notin U \cup {"account"}, "account" \notin U, IdentityInv(U, L),
         Ide(U, L)!Directory
  PROVE  IdentityInv(U, L)'
<1>0. /\ IdentityTypes(U, L) /\ UsersActive(U) /\ InOrder /\ Limited(U) /\ AccountOnce /\ LoginOnce(L)
      /\ None # "account" /\ None \notin U
  BY DEF IdentityInv
\* Where no session is issued, and who is no longer active has none that lives.
<1>1. ASSUME users' \in [U -> Ide(U, L)!UserState], linked' \in U \cup {None},
             sessions' \in [1..MaxSessions -> Ide(U, L)!Session], Fades,
             \A s \in 1..MaxSessions :
               /\ sessions'[s].state = "live" /\ sessions[s].of \in U
               /\ users[sessions[s].of] = "active"
               => users'[sessions[s].of] = "active",
             login' \in [L -> {"started", "consumed", "done", "denied"}], LoginOnce(L)',
             account' = account, policy' \in PolicyType(U), policy'.granted = policy.granted
      PROVE  IdentityInv(U, L)'
  <2>1. InOrder' /\ Limited(U)'
    BY <1>0, <1>1, FadingKeeps DEF IdentityTypes
  <2>2. UsersActive(U)'
    BY <1>0, <1>1 DEF UsersActive, Fades
  <2>3. AccountOnce'
    BY <1>0, <1>1 DEF AccountOnce, Fades
  <2>4. IdentityTypes(U, L)'
    BY <1>0, <1>1 DEF IdentityTypes
  <2> QED BY <1>1, <2>1, <2>2, <2>3, <2>4 DEF IdentityInv
<1>2. ASSUME UNCHANGED sessions PROVE Fades /\ sessions' \in [1..MaxSessions -> Ide(U, L)!Session]
  BY <1>0, <1>2 DEF Fades, IdentityTypes
<1>3. ASSUME UNCHANGED login
      PROVE  LoginOnce(L)' /\ login' \in [L -> {"started", "consumed", "done", "denied"}]
  BY <1>0, <1>3 DEF LoginOnce, Answered, IdentityTypes
<1>4. ASSUME UNCHANGED <<users, linked, sessions, account, policy>>,
             login' \in [L -> {"started", "consumed", "done", "denied"}], LoginOnce(L)'
      PROVE  IdentityInv(U, L)'
  BY <1>0, <1>1, <1>2, <1>4 DEF IdentityTypes
<1>5. ASSUME NEW chosen, sessions' = Ide(U, L)!Revoking(chosen), UNCHANGED <<users, linked, login, account, policy>>
      PROVE  IdentityInv(U, L)'
  BY <1>0, <1>1, <1>3, <1>5, RevokingFades DEF IdentityTypes
<1>6. ASSUME NEW u \in U, NEW state \in Ide(U, L)!UserState, users' = [users EXCEPT ![u] = state],
             NEW chosen, sessions' = Ide(U, L)!Revoking(chosen),
             state = "active" \/ Ide(U, L)!SessionsOf(u) \subseteq chosen,
             linked' \in U \cup {None}, UNCHANGED <<login, account, policy>>
      PROVE  IdentityInv(U, L)'
  <2>1. ASSUME NEW s \in 1..MaxSessions, sessions'[s].state = "live", sessions[s].of \in U,
               users[sessions[s].of] = "active"
        PROVE  users'[sessions[s].of] = "active"
    BY <1>0, <1>6, <2>1, RevokingFades DEF IdentityTypes, Ide!SessionsOf, Ide!Sessions
  <2>2. users' \in [U -> Ide(U, L)!UserState]
    BY <1>0, <1>6 DEF IdentityTypes
  <2>3. policy' \in PolicyType(U)
    BY <1>0, <1>6 DEF IdentityTypes
  <2> QED BY <1>0, <1>1, <1>3, <1>6, <2>1, <2>2, <2>3, RevokingFades
<1>7. ASSUME NEW p, Ide(U, L)!ConfigureProvider(p) PROVE IdentityInv(U, L)'
  BY <1>3, <1>4, <1>7 DEF Ide!ConfigureProvider
<1>8. ASSUME NEW u \in U, NEW b \in BOOLEAN, Ide(U, L)!UpsertUser(u, b) PROVE IdentityInv(U, L)'
  BY <1>0, <1>6, <1>8 DEF Ide!UpsertUser, Ide!RevokedBy, Ide!UserState, IdentityTypes
<1>9. ASSUME NEW u \in U, Ide(U, L)!DeprovisionUser(u) PROVE IdentityInv(U, L)'
  BY <1>0, <1>6, <1>9 DEF Ide!DeprovisionUser, Ide!UserState, IdentityTypes
<1>10. ASSUME NEW u \in U, Ide(U, L)!AnonymizeUser(u) PROVE IdentityInv(U, L)'
  BY <1>0, <1>6, <1>10 DEF Ide!AnonymizeUser, Ide!UserState, IdentityTypes
<1>11. ASSUME Ide(U, L)!CreateTransaction PROVE IdentityInv(U, L)'
  <2>1. login' \in [L -> {"started", "consumed", "done", "denied"}] /\ LoginOnce(L)'
    BY <1>11 DEF Ide!CreateTransaction, LoginOnce, Answered
  <2> QED BY <1>4, <1>11, <2>1 DEF Ide!CreateTransaction
<1>12. ASSUME NEW l \in L, Ide(U, L)!ConsumeTransaction(l) PROVE IdentityInv(U, L)'
  <2>1. login' \in [L -> {"started", "consumed", "done", "denied"}] /\ LoginOnce(L)'
    BY <1>0, <1>12 DEF Ide!ConsumeTransaction, Ide!NotReplayed, LoginOnce, Answered, IdentityTypes
  <2> QED BY <1>4, <1>12, <2>1 DEF Ide!ConsumeTransaction
<1>13. ASSUME NEW l \in L, Ide(U, L)!FederationFails(l) PROVE IdentityInv(U, L)'
  <2>1. login' \in [L -> {"started", "consumed", "done", "denied"}] /\ LoginOnce(L)'
    BY <1>0, <1>13 DEF Ide!FederationFails, LoginOnce, Answered, IdentityTypes
  <2> QED BY <1>4, <1>13, <2>1 DEF Ide!FederationFails
<1>14. ASSUME NEW l \in L, NEW u \in U, Ide(U, L)!CompleteFederation(l, u) PROVE IdentityInv(U, L)'
  <2>1. /\ sessions' \in [1..MaxSessions -> Ide(U, L)!Session] /\ InOrder' /\ Limited(U)'
        /\ policy' \in PolicyType(U)
        /\ \E s \in 1..MaxSessions :
             /\ sessions[s].of = None /\ sessions'[s].of = u
             /\ \A t \in 1..MaxSessions \ {s} :
                  /\ sessions'[t].of = sessions[t].of
                  /\ sessions'[t].state = "live" => sessions[t].state = "live"
    BY <1>0, <1>14, IssueKeeps DEF Ide!CompleteFederation, Ide!Strength
  <2>2. /\ users' \in [U -> Ide(U, L)!UserState] /\ linked' \in U \cup {None}
        /\ users'[u] = "active" /\ \A v \in U : users[v] = "active" => users'[v] = "active"
    BY <1>0, <1>14 DEF Ide!CompleteFederation, Ide!UserState, IdentityTypes
  <2>3. UsersActive(U)'
    BY <1>0, <2>1, <2>2 DEF UsersActive
  <2>4. AccountOnce'
    BY <1>0, <1>14, <2>1 DEF AccountOnce, Ide!CompleteFederation
  <2>5. login' \in [L -> {"started", "consumed", "done", "denied"}] /\ LoginOnce(L)'
    BY <1>0, <1>14 DEF Ide!CompleteFederation, LoginOnce, Answered, IdentityTypes
  <2>6. IdentityTypes(U, L)'
    BY <1>0, <1>14, <2>1, <2>2, <2>5 DEF IdentityTypes, Ide!CompleteFederation
  <2> QED BY <2>1, <2>3, <2>4, <2>5, <2>6 DEF IdentityInv
<1>15. ASSUME NEW s \in 1..MaxSessions, Ide(U, L)!SessionExpires(s) PROVE IdentityInv(U, L)'
  <2>1. sessions' \in [1..MaxSessions -> Ide(U, L)!Session] /\ Fades
    BY <1>0, <1>15 DEF Ide!SessionExpires, IdentityTypes, Ide!Session, Ide!Sessions, Fades
  <2> QED BY <1>0, <1>1, <1>3, <1>15, <2>1 DEF Ide!SessionExpires, IdentityTypes
<1>16. ASSUME NEW s \in 1..MaxSessions, Ide(U, L)!AuthenticateExpired(s) \/ Ide(U, L)!RevokeSession(s)
       PROVE  IdentityInv(U, L)'
  BY <1>5, <1>16 DEF Ide!AuthenticateExpired, Ide!RevokeSession
<1>17. ASSUME NEW s \in 1..MaxSessions, NEW k, Ide(U, L)!CreateChallenge(s, k) PROVE IdentityInv(U, L)'
  BY <1>3, <1>4, <1>17 DEF Ide!CreateChallenge
<1>18. ASSUME Ide(U, L)!CompleteRegistration PROVE IdentityInv(U, L)'
  BY <1>3, <1>4, <1>18 DEF Ide!CompleteRegistration
<1>19. ASSUME Ide(U, L)!CompleteAuthentication PROVE IdentityInv(U, L)'
  <2> DEFINE c == passkey.challenge.session
  <2>1. sessions' = [sessions EXCEPT ![c].strength = "phishing-resistant"]
    BY <1>19 DEF Ide!CompleteAuthentication
  <2> HIDE DEF c
  <2>2. ASSUME NEW s \in 1..MaxSessions
        PROVE  /\ sessions'[s] \in Ide(U, L)!Session /\ sessions'[s].of = sessions[s].of
               /\ sessions'[s].state = sessions[s].state /\ sessions'[s].expired = sessions[s].expired
    <3>1. CASE s = c
      BY <1>0, <2>1, <3>1 DEF IdentityTypes, Ide!Session, Ide!Strength
    <3>2. CASE s # c
      BY <1>0, <2>1, <3>2 DEF IdentityTypes
    <3> QED BY <3>1, <3>2
  <2>3. sessions' = [s \in 1..MaxSessions |-> sessions'[s]]
    BY <1>0, <2>1 DEF IdentityTypes
  <2>4. sessions' \in [1..MaxSessions -> Ide(U, L)!Session] /\ Fades
    BY <2>2, <2>3 DEF Fades
  <2> QED BY <1>0, <1>1, <1>3, <1>19, <2>4 DEF Ide!CompleteAuthentication, IdentityTypes
<1>20. ASSUME NEW u \in U, Ide(U, L)!RevokeCredential(u) PROVE IdentityInv(U, L)'
  BY <1>3, <1>4, <1>20 DEF Ide!RevokeCredential
<1> QED
  BY <1>7, <1>8, <1>9, <1>10, <1>11, <1>12, <1>13, <1>14, <1>15, <1>16, <1>17, <1>18, <1>19, <1>20
  DEF Ide!Directory, Ide!Sessions

\* The operations of the emergency account keep the invariant as well.
LEMMA AccountStep ==
  ASSUME NEW U, NEW L, None \notin U \cup {"account"}, "account" \notin U, IdentityInv(U, L),
         Ide(U, L)!Next
  PROVE  IdentityInv(U, L)'
<1>0. /\ IdentityTypes(U, L) /\ UsersActive(U) /\ InOrder /\ Limited(U) /\ AccountOnce /\ LoginOnce(L)
      /\ None # "account" /\ None \notin U
  BY DEF IdentityInv
<1>1. ASSUME sessions' \in [1..MaxSessions -> Ide(U, L)!Session], UsersActive(U)', InOrder', Limited(U)',
             account' \in AccountType, AccountOnce', policy' \in PolicyType(U),
             UNCHANGED <<users, linked, login>>
      PROVE  IdentityInv(U, L)'
  BY <1>0, <1>1 DEF IdentityInv, IdentityTypes, LoginOnce, Answered
<1>2. ASSUME UNCHANGED sessions, policy'.granted = policy.granted
      PROVE  /\ sessions' \in [1..MaxSessions -> Ide(U, L)!Session] /\ InOrder' /\ Limited(U)'
             /\ UNCHANGED users => UsersActive(U)'
  BY <1>0, <1>2 DEF IdentityTypes, UsersActive, InOrder, IssuedUpTo, Limited, Current
<1>3. CASE Ide(U, L)!CreateAccount
  <2>1. account' \in AccountType /\ AccountOnce'
    BY <1>0, <1>3 DEF Ide!CreateAccount, IdentityTypes, AccountType, AccountOnce
  <2> QED BY <1>0, <1>1, <1>2, <1>3, <2>1 DEF Ide!CreateAccount, IdentityTypes
<1>4. CASE Ide(U, L)!FailBreakGlass
  <2>1. account' \in AccountType /\ AccountOnce'
    BY <1>0, <1>4 DEF Ide!FailBreakGlass, Ide!Ended, IdentityTypes, AccountType, AccountOnce
  <2> QED BY <1>0, <1>1, <1>2, <1>4, <2>1 DEF Ide!FailBreakGlass, IdentityTypes
<1>5. CASE Ide(U, L)!RevokeAccount
  <2>1. /\ sessions' \in [1..MaxSessions -> Ide(U, L)!Session] /\ Fades
        /\ \A s \in 1..MaxSessions : sessions[s].of = "account" => sessions'[s].state # "live"
    BY <1>0, <1>5, RevokingFades DEF Ide!RevokeAccount, Ide!SessionsOf, Ide!Sessions
  <2>2. account' \in AccountType /\ AccountOnce'
    BY <1>0, <1>5, <2>1 DEF Ide!RevokeAccount, Ide!Ended, AccountType, AccountOnce, Fades
  <2>3. UsersActive(U)' /\ InOrder' /\ Limited(U)'
    BY <1>0, <1>5, <2>1, FadingKeeps DEF UsersActive, Fades, Ide!RevokeAccount, IdentityTypes
  <2> QED BY <1>0, <1>1, <1>5, <2>1, <2>2, <2>3 DEF Ide!RevokeAccount, IdentityTypes
<1>6. CASE Ide(U, L)!ActivateBreakGlass
  <2>1. /\ sessions' \in [1..MaxSessions -> Ide(U, L)!Session] /\ InOrder' /\ Limited(U)'
        /\ policy' \in PolicyType(U)
        /\ \E s \in 1..MaxSessions :
             /\ sessions[s].of = None /\ sessions'[s].of = "account"
             /\ \A t \in 1..MaxSessions \ {s} :
                  /\ sessions'[t].of = sessions[t].of
                  /\ sessions'[t].state = "live" => sessions[t].state = "live"
    BY <1>0, <1>6, IssueKeeps DEF Ide!ActivateBreakGlass, Ide!Strength
  <2>2. UsersActive(U)'
    BY <1>0, <1>6, <2>1 DEF UsersActive, Ide!ActivateBreakGlass
  <2>3. account' \in AccountType /\ account'.state = "used" /\ account.state = "active"
    BY <1>6 DEF Ide!ActivateBreakGlass, Ide!Ended, AccountType
  <2>4. AccountOnce'
    BY <1>0, <2>1, <2>3 DEF AccountOnce
  <2> QED BY <1>1, <1>6, <2>1, <2>2, <2>3, <2>4 DEF Ide!ActivateBreakGlass
<1>7. ASSUME NEW n \in 1..MaxConcurrent, Ide(U, L)!SetSessionPolicy(n) PROVE IdentityInv(U, L)'
  <2>1. policy' \in PolicyType(U) /\ policy'.granted = policy.granted
    BY <1>0, <1>7 DEF Ide!SetSessionPolicy, IdentityTypes, PolicyType
  <2>2. account' \in AccountType /\ AccountOnce'
    BY <1>0, <1>7 DEF Ide!SetSessionPolicy, IdentityTypes, AccountOnce
  <2> QED BY <1>1, <1>2, <1>7, <2>1, <2>2 DEF Ide!SetSessionPolicy
<1> QED
  BY <1>3, <1>4, <1>5, <1>6, <1>7, DirectoryStep DEF Ide!Next

\* What the invariant says is what was promised.
LEMMA IdentityKept ==
  ASSUME NEW U, NEW L, IdentityInv(U, L)
  PROVE  Ide(U, L)!AccessFollowsDirectory
<1>1. ASSUME NEW u \in U PROVE {s \in Ide(U, L)!Live(u) : ~sessions[s].expired} = Current(u)
  BY DEF Ide!Live, Ide!SessionsOf, Ide!Sessions, Current
<1>2. ASSUME NEW T, \A s, t \in T : s = t PROVE Cardinality(T) <= 1
  <2>1. CASE T = {}
    <3>1. Cardinality(T) = 0
      BY <2>1, FS_EmptySet
    <3> QED BY <3>1
  <2>2. CASE T # {}
    <3>1. PICK t \in T : T = {t}
      BY <1>2, <2>2
    <3>2. Cardinality({t}) = 1
      BY FS_Singleton
    <3> QED BY <3>1, <3>2
  <2> QED BY <2>1, <2>2
<1>3. Cardinality(Ide(U, L)!SessionsOf("account")) <= 1
  <2>1. \A s, t \in Ide(U, L)!SessionsOf("account") : s = t
    BY DEF IdentityInv, AccountOnce, Ide!SessionsOf, Ide!Sessions
  <2> QED BY <1>2, <2>1
<1>4. Cardinality({l \in L : login[l] \in {"consumed", "done"}}) <= 1
  <2>1. \A l, m \in {x \in L : login[x] \in {"consumed", "done"}} : l = m
    BY DEF IdentityInv, LoginOnce, Answered
  <2> QED BY <1>2, <2>1
<1>5. ASSUME NEW u \in U, Ide(U, L)!Live(u) # {} PROVE users[u] = "active"
  BY <1>5 DEF Ide!Live, Ide!SessionsOf, Ide!Sessions, IdentityInv, UsersActive
<1>6. Ide(U, L)!Live("account") # {} => account.state = "used"
  BY DEF Ide!Live, Ide!SessionsOf, Ide!Sessions, IdentityInv, AccountOnce, IdentityTypes
<1> QED BY <1>1, <1>3, <1>4, <1>5, <1>6, IdentityCounts DEF Ide!AccessFollowsDirectory, IdentityInv, Limited

\* Live sessions are of active users or of the emergency account after its one use, a user has no
\* more of them than the policy allowed when the last one began, and a login gives one at most, for any number of users,
\* logins and sessions, and every policy.
THEOREM AccessAlwaysFollows == Spec => []AccessFollowsDirectory
<1> DEFINE Inv == /\ service = "identity" => IdentityInv(Items, Agents)
                  /\ service = "emergency" => IdentityInv({"user"}, {"login"})
<1>0. /\ None \notin Items \cup {"account"} /\ "account" \notin Items
      /\ None \notin {"user"} \cup {"account"} /\ "account" \notin {"user"}
  BY NoneIsNothing, AccountApart
<1>1. Init => Inv
  BY <1>0, IdentityInit DEF Init
<1>2. Inv /\ [Next]_vars => Inv'
  <2>1. CASE UNCHANGED vars
    <3>1. ASSUME NEW U, NEW L, IdentityInv(U, L), UNCHANGED identity PROVE IdentityInv(U, L)'
      BY <3>1 DEF identity, IdentityInv, IdentityTypes, UsersActive, InOrder, IssuedUpTo, Limited,
        Current, AccountOnce, LoginOnce, Answered
    <3>2. UNCHANGED <<service, identity>>
      BY <2>1 DEF vars
    <3> QED BY <3>1, <3>2
  <2>2. CASE Next
    <3>1. /\ service' = service
          /\ service = "identity" => Ide(Items, Agents)!Directory
          /\ service = "emergency" => Ide({"user"}, {"login"})!Next
      BY <2>2 DEF Next
    <3> QED BY <1>0, <3>1, DirectoryStep, AccountStep
  <2> QED BY <2>1, <2>2
<1>3. Inv => AccessFollowsDirectory
  BY IdentityKept DEF AccessFollowsDirectory
<1> QED BY <1>1, <1>2, <1>3, PTL DEF Spec

-----------------------------------------------------------------------------
(* Collaboration (Collaboration): the operations form an order, in which what is resolved comes    *)
(* after everything on its branch; the main branch has one open conflict, which holds what         *)
(* competes there.                                                                                 *)

Used(graph) == {o \in Col!Ops : graph[o].value # 0}

\* An operation depends on operations that are there, on theirs, and never on itself.
WellFormed(graph) ==
  /\ graph \in [Col!Ops -> Col!Operation]
  /\ \A o \in Col!Ops : graph[o].deps \subseteq Used(graph) \ {o}
  /\ \A o \in Col!Ops : \A d \in graph[o].deps : graph[d].deps \subseteq graph[o].deps

RecordedOn(b, graph, members, list) ==
  /\ \A i, j \in Col!OpenOn(b, list) : i = j
  /\ members # {} /\ Col!Variants(graph, members) # {} =>
       \E i \in Col!OpenOn(b, list) : list[i].variants = Col!Variants(graph, members)

CollaborationInv ==
  /\ WellFormed(ops)
  /\ branches \in [Col!Branches -> Col!Branch]
  /\ \A b \in Col!Branches : branches[b].members \subseteq Used(ops)
  /\ suggestion \in Col!Suggestion
  /\ suggestion.status # "none" => suggestion.value \in Col!Values
  /\ conflicts \in Seq(Col!Conflict)
  /\ \A i \in DOMAIN conflicts : conflicts[i].variants \subseteq Used(ops)
  /\ RecordedOn("main", ops, branches["main"].members, conflicts)

\* The invariant holds at the start.
LEMMA CollaborationInit == Col!Init => CollaborationInv
<1> SUFFICES ASSUME Col!Init PROVE CollaborationInv
  OBVIOUS
<1>1. WellFormed(ops)
  BY DEF Col!Init, WellFormed, Used, Col!Operation
<1>2. branches \in [Col!Branches -> Col!Branch] /\ \A b \in Col!Branches : branches[b].members = {}
  BY DEF Col!Init, Col!Branches, Col!Branch
<1>3. conflicts = <<>> /\ suggestion \in Col!Suggestion /\ suggestion.status = "none"
  BY DEF Col!Init, Col!Suggestion
<1>4. RecordedOn("main", ops, branches["main"].members, conflicts)
  BY <1>2, <1>3 DEF RecordedOn, Col!OpenOn, Col!Branches
<1> QED BY <1>1, <1>2, <1>3, <1>4 DEF CollaborationInv

\* The winner is one of the live operations, where there are any.
LEMMA WinnerLives ==
  ASSUME NEW members \in SUBSET Col!Ops, members # {}
  PROVE  Col!Winner(members) \in members
<1>1. \E o \in members : \A other \in members : other <= o
  <2>1. members \in SUBSET (0..MaxOps) /\ MaxOps \in Nat
    BY Bounded DEF Col!Ops
  <2> QED BY <2>1, GreatestNatural
<1> QED BY <1>1 DEF Col!Winner

\* What competes is on the branch.
LEMMA VariantsMembers ==
  ASSUME NEW graph, NEW members \in SUBSET Col!Ops
  PROVE  Col!Variants(graph, members) \subseteq members
<1> DEFINE live == Col!Live(graph, members)
           differing == {o \in live : graph[o].value # graph[Col!Winner(live)].value}
<1>1. live \subseteq members
  BY DEF Col!Live
<1>2. Col!Variants(graph, members) = IF differing = {} THEN {} ELSE {Col!Winner(live)} \cup differing
  BY DEF Col!Variants
<1>3. differing # {} => Col!Winner(live) \in live
  <2> HIDE DEF live
  <2> QED BY <1>1, WinnerLives
<1> QED BY <1>1, <1>2, <1>3

\* What competes on a branch depends on its members alone.
LEMMA VariantsLocal ==
  ASSUME NEW graph, NEW later, NEW members \in SUBSET Col!Ops,
         \A x \in members : later[x] = graph[x]
  PROVE  Col!Variants(later, members) = Col!Variants(graph, members)
<1> DEFINE live == Col!Live(graph, members)
<1>1. Col!Live(later, members) = live
  BY DEF Col!Live, Col!IsAncestor
<1>2. live \in SUBSET Col!Ops /\ live \subseteq members
  BY DEF Col!Live
<1>3. {o \in live : later[o].value # later[Col!Winner(live)].value}
      = {o \in live : graph[o].value # graph[Col!Winner(live)].value}
  <2> HIDE DEF live
  <2>1. CASE live = {}
    BY <2>1
  <2>2. CASE live # {}
    BY <1>2, <2>2, WinnerLives
  <2> QED BY <2>1, <2>2
<1> HIDE DEF live
<1> QED BY <1>1, <1>3 DEF Col!Variants, live

\* Every operation of a branch is one of its heads or precedes one.
LEMMA HeadsCover ==
  ASSUME NEW graph, WellFormed(graph), NEW members \in SUBSET Col!Ops, NEW m \in members
  PROVE  \E h \in Col!Live(graph, members) : Col!IsAncestor(graph, m, h)
<1> DEFINE Above == {x \in members : Col!IsAncestor(graph, m, x)}
           Size(x) == Cardinality(graph[x].deps)
<1>1. ASSUME NEW x \in Col!Ops
      PROVE  IsFiniteSet(graph[x].deps) /\ Size(x) \in 0..MaxOps
  <2>1. IsFiniteSet(Col!Ops) /\ Cardinality(Col!Ops) = MaxOps /\ MaxOps \in Nat
    BY Bounded, FS_Interval DEF Col!Ops
  <2>2. graph[x].deps \subseteq Col!Ops
    BY DEF WellFormed, Col!Operation
  <2> QED BY <2>1, <2>2, FS_Subset, FS_CardinalityType
<1>2. m \in Above
  BY DEF Col!IsAncestor
<1>3. PICK h \in Above : \A x \in Above : Size(x) <= Size(h)
  <2> DEFINE Sizes == {Size(x) : x \in Above}
  <2>1. Sizes \in SUBSET (0..MaxOps)
    BY <1>1
  <2>2. Sizes # {}
    BY <1>2
  <2>3. PICK n \in Sizes : \A k \in Sizes : k <= n
    <3> HIDE DEF Sizes
    <3> QED BY <2>1, <2>2, GreatestNatural, Bounded
  <2> QED BY <2>3
<1>4. ASSUME NEW other \in members \ {h}, Col!IsAncestor(graph, h, other) PROVE FALSE
  <2>1. h \in graph[other].deps /\ h \in Col!Ops /\ other \in Col!Ops
    BY <1>4 DEF Col!IsAncestor
  <2>2. graph[h].deps \subseteq graph[other].deps \ {h}
    BY <2>1 DEF WellFormed
  <2>3. other \in Above
    BY <2>1, <2>2 DEF Col!IsAncestor
  <2>4. Size(h) <= Cardinality(graph[other].deps \ {h})
    BY <1>1, <2>1, <2>2, FS_Subset, FS_RemoveElement
  <2>5. Cardinality(graph[other].deps \ {h}) = Size(other) - 1
    BY <1>1, <2>1, FS_RemoveElement
  <2>6. Size(other) <= Size(h)
    BY <1>3, <2>3
  <2> HIDE DEF Size
  <2> QED BY <1>1, <2>1, <2>4, <2>5, <2>6
<1> QED BY <1>4 DEF Col!Live

Grown(o, value, deps) == [ops EXCEPT ![o] = [value |-> value, deps |-> Col!Closure(deps)]]

\* A new operation, with the closure of its dependencies, keeps the order.
LEMMA GraphGrows ==
  ASSUME WellFormed(ops), NEW o \in Col!Ops, ops[o].value = 0, NEW value \in Col!Values,
         NEW deps \in SUBSET Used(ops)
  PROVE  /\ WellFormed(Grown(o, value, deps)) /\ Used(Grown(o, value, deps)) = Used(ops) \cup {o}
         /\ Grown(o, value, deps)[o].deps = Col!Closure(deps)
         /\ \A x \in Col!Ops \ {o} : Grown(o, value, deps)[x] = ops[x]
<1> DEFINE closure == Col!Closure(deps)
           graph == Grown(o, value, deps)
<1>0. graph = [ops EXCEPT ![o] = [value |-> value, deps |-> closure]]
  BY DEF Grown
<1>1. closure \subseteq Used(ops) /\ deps \subseteq closure
      /\ \A d \in closure : ops[d].deps \subseteq closure
  BY DEF WellFormed, Col!Closure, Used
<1> HIDE DEF closure, graph
<1>2. value # 0 /\ value \in Col!Values \cup {0}
  BY DEF Col!Values
<1>3. graph[o] = [value |-> value, deps |-> closure] /\ \A x \in Col!Ops \ {o} : graph[x] = ops[x]
  BY <1>0 DEF WellFormed
<1>4. Used(graph) = Used(ops) \cup {o}
  BY <1>2, <1>3 DEF Used
<1>5. closure \in SUBSET Col!Ops /\ o \notin Used(ops)
  BY <1>1 DEF Used
<1>6. graph \in [Col!Ops -> Col!Operation]
  BY <1>0, <1>2, <1>5 DEF WellFormed, Col!Operation
<1>7. ASSUME NEW x \in Col!Ops
      PROVE  /\ graph[x].deps \subseteq Used(graph) \ {x}
             /\ \A d \in graph[x].deps : graph[d].deps \subseteq graph[x].deps
  <2>1. CASE x = o
    <3>1. graph[x].deps = closure /\ closure \subseteq Used(ops) \ {x}
      BY <1>1, <1>3, <1>5, <2>1
    <3>2. ASSUME NEW d \in closure PROVE graph[d].deps \subseteq closure
      BY <1>1, <1>3, <1>5, <3>1, <2>1
    <3> QED BY <1>4, <3>1, <3>2
  <2>2. CASE x # o
    <3>1. graph[x] = ops[x] /\ ops[x].deps \subseteq Used(ops) \ {x}
      BY <1>3, <2>2 DEF WellFormed
    <3>2. ASSUME NEW d \in ops[x].deps PROVE graph[d].deps \subseteq ops[x].deps
      BY <1>3, <1>5, <3>1, <3>2 DEF WellFormed, Used
    <3> QED BY <1>4, <3>1, <3>2
  <2> QED BY <2>1, <2>2
<1> QED BY <1>3, <1>4, <1>6, <1>7 DEF WellFormed, closure, graph

\* Resolving conflicts changes their status only.
LEMMA ResolvingKeeps ==
  ASSUME NEW list \in Seq(Col!Conflict), NEW chosen
  PROVE  /\ Col!Resolving(list, chosen) \in Seq(Col!Conflict)
         /\ Len(Col!Resolving(list, chosen)) = Len(list)
         /\ \A i \in 1..Len(list) :
              /\ Col!Resolving(list, chosen)[i].branch = list[i].branch
              /\ Col!Resolving(list, chosen)[i].variants = list[i].variants
              /\ Col!Resolving(list, chosen)[i].status = IF i \in chosen THEN "resolved" ELSE list[i].status
<1> DEFINE new == Col!Resolving(list, chosen)
<1>1. new = [i \in 1..Len(list) |-> IF i \in chosen THEN [list[i] EXCEPT !.status = "resolved"] ELSE list[i]]
  BY DEF Col!Resolving
<1>2. ASSUME NEW i \in 1..Len(list)
      PROVE  /\ new[i] \in Col!Conflict
             /\ new[i].branch = list[i].branch /\ new[i].variants = list[i].variants
             /\ new[i].status = IF i \in chosen THEN "resolved" ELSE list[i].status
  <2>1. list[i] \in Col!Conflict
    BY <1>2
  <2> HIDE DEF new
  <2> QED BY <1>1, <1>2, <2>1 DEF Col!Conflict
<1> HIDE DEF new
<1>3. new \in Seq(Col!Conflict) /\ Len(new) = Len(list)
  BY <1>1, <1>2
<1> QED BY <1>2, <1>3 DEF new

KeptFor(b, list, new, members) ==
  /\ new \in Seq(Col!Conflict) /\ Len(list) <= Len(new)
  /\ \A i \in 1..Len(list) :
       /\ new[i].branch = list[i].branch /\ new[i].variants = list[i].variants
       /\ new[i].status = "open" => list[i].status = "open"
       /\ list[i].branch # b => new[i].status = list[i].status
  /\ \A i \in 1..Len(new) : i > Len(list) => new[i].branch = b /\ new[i].variants \subseteq members

\* Synchronizing a branch keeps the conflicts that there are, with what they hold, and leaves those
\* of other branches as they are.
LEMMA SynchronizedKeeps ==
  ASSUME NEW list \in Seq(Col!Conflict), NEW graph, NEW members \in SUBSET Col!Ops,
         NEW b \in Col!Branches, NEW new, new = Col!Synchronized(graph, members, b, list)
  PROVE  KeptFor(b, list, new, members)
<1> DEFINE variants == Col!Variants(graph, members)
           added == [branch |-> b, variants |-> variants, status |-> "open"]
           Kept == KeptFor(b, list, new, members)
<1>1. added \in Col!Conflict /\ variants \subseteq members
  BY VariantsMembers DEF Col!Conflict
<1>2. ASSUME new = list PROVE Kept
  BY <1>2 DEF KeptFor
<1>3. ASSUME NEW chosen \in SUBSET Col!OpenOn(b, list), new = Col!Resolving(list, chosen) PROVE Kept
  <2>1. \A i \in chosen : list[i].branch = b
    BY DEF Col!OpenOn
  <2> QED BY <1>3, <2>1, ResolvingKeeps DEF KeptFor
<1>4. ASSUME new = Append(Col!Resolving(list, Col!OpenOn(b, list)), added) PROVE Kept
  <2> DEFINE old == Col!Resolving(list, Col!OpenOn(b, list))
  <2>1. /\ old \in Seq(Col!Conflict) /\ Len(old) = Len(list)
        /\ \A i \in 1..Len(list) :
              /\ old[i].branch = list[i].branch /\ old[i].variants = list[i].variants
              /\ old[i].status = IF i \in Col!OpenOn(b, list) THEN "resolved" ELSE list[i].status
    BY ResolvingKeeps
  <2>2. \A i \in Col!OpenOn(b, list) : list[i].branch = b
    BY DEF Col!OpenOn
  <2> HIDE DEF old, added
  <2>3. /\ new \in Seq(Col!Conflict) /\ Len(new) = Len(list) + 1
        /\ \A i \in 1..Len(list) : new[i] = old[i]
        /\ new[Len(list) + 1] = added
    BY <1>1, <1>4, <2>1 DEF old
  <2>4. added.branch = b /\ added.variants = variants
    BY DEF added
  <2>5. ASSUME NEW i \in 1..Len(new), i > Len(list) PROVE i = Len(list) + 1
    BY <2>3, <2>5
  <2> QED BY <1>1, <2>1, <2>2, <2>3, <2>4, <2>5 DEF KeptFor
<1>5. CASE members = {}
  BY <1>2, <1>5 DEF Col!Synchronized
<1>6. CASE members # {} /\ variants = {}
  <2>1. new = Col!Settled(graph, members, b, list)
    BY <1>6 DEF Col!Synchronized
  <2>2. PICK chosen \in SUBSET Col!OpenOn(b, list) : new = Col!Resolving(list, chosen)
    BY <2>1 DEF Col!Settled
  <2> QED BY <1>3, <2>2
<1>7. CASE members # {} /\ variants # {}
  <2>1. new = Col!Recorded(b, list, variants)
    BY <1>7 DEF Col!Synchronized
  <2> QED BY <1>2, <1>4, <2>1 DEF Col!Recorded
<1> QED BY <1>5, <1>6, <1>7

\* Synchronizing a branch with one open conflict at most records there what competes.
LEMMA SynchronizedRecords ==
  ASSUME NEW list \in Seq(Col!Conflict), NEW graph, NEW members \in SUBSET Col!Ops,
         NEW b \in Col!Branches, \A i, j \in Col!OpenOn(b, list) : i = j,
         NEW new, new = Col!Synchronized(graph, members, b, list)
  PROVE  RecordedOn(b, graph, members, new)
<1> DEFINE variants == Col!Variants(graph, members)
           added == [branch |-> b, variants |-> variants, status |-> "open"]
<1>1. ASSUME new = list, members # {} /\ variants # {} =>
                           \E i \in Col!OpenOn(b, list) : list[i].variants = variants
      PROVE  RecordedOn(b, graph, members, new)
  BY <1>1 DEF RecordedOn
<1>2. ASSUME members = {} \/ variants = {}, NEW chosen, new = Col!Resolving(list, chosen)
      PROVE  RecordedOn(b, graph, members, new)
  <2>1. Col!OpenOn(b, new) \subseteq Col!OpenOn(b, list)
    BY <1>2, ResolvingKeeps DEF Col!OpenOn
  <2> QED BY <1>2, <2>1 DEF RecordedOn
<1>3. ASSUME new = Append(Col!Resolving(list, Col!OpenOn(b, list)), added)
      PROVE  RecordedOn(b, graph, members, new)
  <2> DEFINE old == Col!Resolving(list, Col!OpenOn(b, list))
  <2>1. /\ old \in Seq(Col!Conflict) /\ Len(old) = Len(list)
        /\ \A i \in 1..Len(list) : ~(old[i].branch = b /\ old[i].status = "open")
    BY ResolvingKeeps DEF Col!OpenOn
  <2> HIDE DEF old, added
  <2>2. /\ DOMAIN new = 1..(Len(list) + 1)
        /\ \A i \in 1..Len(list) : new[i] = old[i]
        /\ new[Len(list) + 1] = added
    BY <1>3, <2>1 DEF old
  <2>3. added.branch = b /\ added.variants = variants /\ added.status = "open"
    BY DEF added
  <2>4. ASSUME NEW i \in 1..(Len(list) + 1), i # Len(list) + 1 PROVE i \in 1..Len(list)
    BY <2>4
  <2>5. Len(list) + 1 \in 1..(Len(list) + 1)
    OBVIOUS
  <2>6. Col!OpenOn(b, new) = {Len(list) + 1}
    BY <2>1, <2>2, <2>3, <2>4, <2>5 DEF Col!OpenOn
  <2> QED BY <2>2, <2>3, <2>6 DEF RecordedOn
<1>4. CASE members = {}
  BY <1>1, <1>4 DEF Col!Synchronized
<1>5. CASE members # {} /\ variants = {}
  BY <1>2, <1>5 DEF Col!Synchronized, Col!Settled
<1>6. CASE members # {} /\ variants # {}
  <2>1. new = Col!Recorded(b, list, variants)
    BY <1>6 DEF Col!Synchronized
  <2>2. CASE Col!SameVariants(b, list, variants) # {}
    BY <1>1, <2>1, <2>2 DEF Col!Recorded, Col!SameVariants
  <2>3. CASE Col!SameVariants(b, list, variants) = {}
    BY <1>3, <2>1, <2>3 DEF Col!Recorded
  <2> QED BY <2>2, <2>3
<1> QED BY <1>4, <1>5, <1>6

\* Branches that are marked as merged keep their members.
LEMMA BranchesKeep ==
  ASSUME NEW bs \in [Col!Branches -> Col!Branch], NEW ms, NEW list
  PROVE  /\ Col!BranchesAfter(bs, ms, list) \in [Col!Branches -> Col!Branch]
         /\ \A b \in Col!Branches : Col!BranchesAfter(bs, ms, list)[b].members = bs[b].members
<1> DEFINE new == Col!BranchesAfter(bs, ms, list)
           Merges(b) == \E k \in DOMAIN ms : ms[k].source = b /\ Col!Finished(list, ms[k])
<1>1. new = [b \in Col!Branches |-> IF Merges(b) THEN [bs[b] EXCEPT !.status = "merged"] ELSE bs[b]]
  BY DEF Col!BranchesAfter
<1> HIDE DEF new, Merges
<1>2. ASSUME NEW b \in Col!Branches PROVE new[b] \in Col!Branch /\ new[b].members = bs[b].members
  <2>1. bs[b] \in Col!Branch
    OBVIOUS
  <2>2. /\ [bs[b] EXCEPT !.status = "merged"] \in Col!Branch
        /\ [bs[b] EXCEPT !.status = "merged"].members = bs[b].members
    BY <2>1 DEF Col!Branch
  <2> QED BY <1>1, <2>1, <2>2
<1>3. new \in [Col!Branches -> Col!Branch]
  BY <1>1, <1>2
<1> QED BY <1>2, <1>3 DEF new

\* Whatever a branch is given, synchronizing it leaves the main branch recorded.
LEMMA Synchronization ==
  ASSUME CollaborationInv, NEW graph, WellFormed(graph), Used(ops) \subseteq Used(graph),
         \A x \in Used(ops) : graph[x] = ops[x],
         NEW b \in Col!Branches, NEW members \in SUBSET Used(graph),
         NEW list, list = Col!Synchronized(graph, members, b, conflicts)
  PROVE  /\ list \in Seq(Col!Conflict) /\ Len(conflicts) <= Len(list)
         /\ \A i \in 1..Len(list) : list[i].variants \subseteq Used(graph)
         /\ \A i \in 1..Len(conflicts) : list[i].branch = conflicts[i].branch
         /\ RecordedOn("main", graph, IF b = "main" THEN members ELSE branches["main"].members, list)
<1>0. /\ conflicts \in Seq(Col!Conflict) /\ members \in SUBSET Col!Ops /\ DOMAIN conflicts = 1..Len(conflicts)
      /\ branches["main"].members \in SUBSET Used(ops) /\ Used(ops) \in SUBSET Col!Ops
      /\ RecordedOn("main", ops, branches["main"].members, conflicts)
      /\ \A i \in 1..Len(conflicts) : conflicts[i].variants \subseteq Used(ops)
  BY DEF CollaborationInv, Used, Col!Branches
<1>1. /\ list \in Seq(Col!Conflict) /\ Len(conflicts) <= Len(list)
      /\ \A i \in 1..Len(conflicts) :
              /\ list[i].branch = conflicts[i].branch /\ list[i].variants = conflicts[i].variants
              /\ list[i].status = "open" => conflicts[i].status = "open"
              /\ conflicts[i].branch # b => list[i].status = conflicts[i].status
      /\ \A i \in 1..Len(list) : i > Len(conflicts) => list[i].branch = b /\ list[i].variants \subseteq members
  <2>1. KeptFor(b, conflicts, list, members)
    BY <1>0, SynchronizedKeeps
  <2> QED BY <2>1 DEF KeptFor
<1>2. ASSUME NEW i \in 1..Len(list) PROVE i \in 1..Len(conflicts) \/ i > Len(conflicts)
  BY <1>0, <1>1
<1>3. \A i \in 1..Len(list) : list[i].variants \subseteq Used(graph)
  BY <1>0, <1>1, <1>2
<1>4. CASE b = "main"
  <2>1. \A i, j \in Col!OpenOn(b, conflicts) : i = j
    BY <1>0, <1>4 DEF RecordedOn
  <2>2. RecordedOn(b, graph, members, list)
    BY <1>0, <2>1, SynchronizedRecords
  <2> QED BY <1>1, <1>3, <1>4, <2>2
<1>5. CASE b # "main"
  <2>1. Col!OpenOn("main", list) = Col!OpenOn("main", conflicts)
    BY <1>0, <1>1, <1>2, <1>5 DEF Col!OpenOn
  <2>2. \A i \in Col!OpenOn("main", conflicts) : list[i].variants = conflicts[i].variants
    BY <1>0, <1>1 DEF Col!OpenOn
  <2>3. Col!Variants(graph, branches["main"].members) = Col!Variants(ops, branches["main"].members)
    BY <1>0, VariantsLocal
  <2>4. RecordedOn("main", graph, branches["main"].members, list)
    BY <1>0, <2>1, <2>2, <2>3 DEF RecordedOn
  <2> QED BY <1>1, <1>3, <1>5, <2>4
<1> QED BY <1>4, <1>5

\* A new operation on a branch, and the synchronization that goes with it, keep the invariant.
LEMMA ApplyStep ==
  ASSUME CollaborationInv, NEW o \in Col!Ops, NEW b \in Col!Branches, NEW value \in Col!Values,
         NEW deps, Col!Apply(o, b, value, deps), suggestion' \in Col!Suggestion,
         suggestion'.status # "none" => suggestion'.value \in Col!Values
  PROVE  CollaborationInv'
<1> DEFINE graph == Grown(o, value, deps)
           bs == [branches EXCEPT ![b].members = @ \cup {o}]
           members == branches[b].members \cup {o}
           list == Col!Synchronized(graph, bs[b].members, b, conflicts)
<1>0. /\ WellFormed(ops) /\ branches \in [Col!Branches -> Col!Branch]
      /\ \A x \in Col!Branches : branches[x].members \subseteq Used(ops)
  BY DEF CollaborationInv
<1>1. /\ ops[o].value = 0 /\ deps \subseteq branches[b].members /\ ops' = graph
      /\ conflicts' = list /\ branches' = Col!BranchesAfter(bs, merges, list)
  BY DEF Col!Apply, Col!Synchronize, Grown
<1>2. deps \in SUBSET Used(ops)
  BY <1>0, <1>1
<1>3. /\ WellFormed(graph) /\ Used(graph) = Used(ops) \cup {o}
      /\ \A x \in Col!Ops \ {o} : graph[x] = ops[x]
  BY <1>0, <1>1, <1>2, GraphGrows
<1>4. o \notin Used(ops) /\ Used(ops) \subseteq Col!Ops
  BY <1>1 DEF Used
<1> HIDE DEF graph
<1>5. /\ bs \in [Col!Branches -> Col!Branch] /\ bs[b].members = members
      /\ \A x \in Col!Branches \ {b} : bs[x] = branches[x]
  <2>1. /\ [branches[b] EXCEPT !.members = members] \in Col!Branch
        /\ [branches[b] EXCEPT !.members = members].members = members
    <3>1. branches[b] \in Col!Branch /\ members \in SUBSET Col!Ops
      BY <1>0, <1>4
    <3> HIDE DEF members
    <3> QED BY <3>1 DEF Col!Branch
  <2> QED BY <1>0, <2>1
<1> HIDE DEF bs
<1>6. members \in SUBSET Used(graph)
  BY <1>0, <1>3
<1>7. /\ list \in Seq(Col!Conflict)
      /\ \A i \in 1..Len(list) : list[i].variants \subseteq Used(graph)
      /\ RecordedOn("main", graph, IF b = "main" THEN members ELSE branches["main"].members, list)
  BY <1>3, <1>4, <1>5, <1>6, Synchronization
<1> HIDE DEF list
<1>8. /\ branches' \in [Col!Branches -> Col!Branch]
      /\ \A x \in Col!Branches : branches'[x].members = bs[x].members
  BY <1>1, <1>5, BranchesKeep
<1>9. "main" \in Col!Branches /\ branches'["main"].members = IF b = "main" THEN members ELSE branches["main"].members
  BY <1>5, <1>8 DEF Col!Branches
<1>10. \A x \in Col!Branches : branches'[x].members \subseteq Used(graph)
  BY <1>0, <1>3, <1>5, <1>8
<1>11. RecordedOn("main", graph, branches'["main"].members, list)
  BY <1>7, <1>9
<1>12. /\ WellFormed(ops') /\ Used(ops') = Used(graph)
       /\ RecordedOn("main", ops', branches'["main"].members, conflicts')
  BY <1>1, <1>3, <1>11
<1>13. (\A i \in DOMAIN conflicts : conflicts[i].variants \subseteq Used(ops))'
  BY <1>1, <1>7
<1> QED BY <1>1, <1>7, <1>8, <1>10, <1>12, <1>13 DEF CollaborationInv

\* A merge keeps the invariant.
LEMMA MergeStep ==
  ASSUME CollaborationInv, NEW source1 \in Col!Branches, NEW into \in Col!Branches,
         Col!MergeBranches(source1, into)
  PROVE  CollaborationInv'
<1> DEFINE only == branches[source1].members \ branches[into].members
           bs == [branches EXCEPT ![into].members = @ \cup only]
           members == branches[into].members \cup only
           list == IF only = {} THEN conflicts
                   ELSE Col!Synchronized(ops, bs[into].members, into, conflicts)
           ms == Col!MergesAfter(merges, list)
           done == Col!BranchesAfter(bs, merges, list)
<1>0. /\ WellFormed(ops) /\ branches \in [Col!Branches -> Col!Branch]
      /\ \A x \in Col!Branches : branches[x].members \subseteq Used(ops)
      /\ conflicts \in Seq(Col!Conflict) /\ DOMAIN conflicts = 1..Len(conflicts)
      /\ \A i \in 1..Len(conflicts) : conflicts[i].variants \subseteq Used(ops)
      /\ RecordedOn("main", ops, branches["main"].members, conflicts)
      /\ "main" \in Col!Branches
  BY DEF CollaborationInv, Col!Branches
<1>1. /\ conflicts' = list /\ UNCHANGED <<ops, suggestion>>
      /\ branches' = [done EXCEPT ![source1].status = "merged"] \/ branches' = done
  BY DEF Col!MergeBranches
<1>2. members \in SUBSET Used(ops) /\ Used(ops) \subseteq Col!Ops
  BY <1>0 DEF Used
<1>3. /\ bs \in [Col!Branches -> Col!Branch] /\ bs[into].members = members
      /\ \A x \in Col!Branches \ {into} : bs[x] = branches[x]
  <2>1. /\ [branches[into] EXCEPT !.members = members] \in Col!Branch
        /\ [branches[into] EXCEPT !.members = members].members = members
    <3>1. branches[into] \in Col!Branch /\ members \in SUBSET Col!Ops
      BY <1>0, <1>2
    <3> HIDE DEF members
    <3> QED BY <3>1 DEF Col!Branch
  <2> QED BY <1>0, <2>1
<1> HIDE DEF bs
<1>4. /\ list \in Seq(Col!Conflict)
      /\ \A i \in 1..Len(list) : list[i].variants \subseteq Used(ops)
      /\ RecordedOn("main", ops, IF into = "main" THEN members ELSE branches["main"].members, list)
  <2>1. CASE only = {}
    <3>1. members = branches[into].members /\ list = conflicts
      BY <2>1
    <3> HIDE DEF list, members
    <3> QED BY <1>0, <3>1
  <2>2. CASE only # {}
    <3>1. list = Col!Synchronized(ops, members, into, conflicts)
      BY <1>3, <2>2
    <3> HIDE DEF list, members
    <3> QED BY <1>0, <1>2, <3>1, Synchronization
  <2> QED BY <2>1, <2>2
<1> HIDE DEF list
<1>5. /\ done \in [Col!Branches -> Col!Branch]
      /\ \A x \in Col!Branches : done[x].members = bs[x].members
  BY <1>3, BranchesKeep
<1> HIDE DEF done
<1>6. /\ branches' \in [Col!Branches -> Col!Branch]
      /\ \A x \in Col!Branches : branches'[x].members = bs[x].members
  <2>1. CASE branches' = done
    BY <1>5, <2>1
  <2>2. CASE branches' = [done EXCEPT ![source1].status = "merged"]
    <3>1. /\ [done[source1] EXCEPT !.status = "merged"] \in Col!Branch
          /\ [done[source1] EXCEPT !.status = "merged"].members = done[source1].members
      <4>1. done[source1] \in Col!Branch
        BY <1>5
      <4> QED BY <4>1 DEF Col!Branch
    <3> QED BY <1>5, <2>2, <3>1
  <2> QED BY <1>1, <2>1, <2>2
<1>7. branches'["main"].members = IF into = "main" THEN members ELSE branches["main"].members
  BY <1>0, <1>3, <1>6
<1>8. \A x \in Col!Branches : branches'[x].members \subseteq Used(ops)
  BY <1>0, <1>2, <1>3, <1>6
<1>9. RecordedOn("main", ops, branches'["main"].members, list)
  BY <1>4, <1>7
<1>10. /\ WellFormed(ops') /\ Used(ops') = Used(ops)
       /\ RecordedOn("main", ops', branches'["main"].members, conflicts')
  BY <1>0, <1>1, <1>9
<1>11. (\A i \in DOMAIN conflicts : conflicts[i].variants \subseteq Used(ops))'
  BY <1>1, <1>4
<1> QED BY <1>1, <1>4, <1>6, <1>8, <1>10, <1>11 DEF CollaborationInv

\* An operation after every head of a branch is alone at its end, and nothing competes there.
LEMMA NothingCompetes ==
  ASSUME WellFormed(ops), NEW members \in SUBSET Used(ops), NEW o \in Col!Ops, o \notin Used(ops),
         NEW graph, \A x \in Used(ops) : graph[x] = ops[x],
         \A h \in Col!Live(ops, members) : h \in graph[o].deps /\ ops[h].deps \subseteq graph[o].deps
  PROVE  Col!Variants(graph, members \cup {o}) = {}
<1>1. ASSUME NEW m \in members PROVE m \in graph[o].deps
  <2>1. members \in SUBSET Col!Ops
    BY DEF Used
  <2>2. PICK h \in Col!Live(ops, members) : Col!IsAncestor(ops, m, h)
    BY <2>1, HeadsCover
  <2> QED BY <2>2 DEF Col!IsAncestor
<1>2. ASSUME NEW m \in members PROVE ~Col!IsAncestor(graph, o, m)
  <2>1. ops[m].deps \subseteq Used(ops) /\ graph[m] = ops[m] /\ m # o
    BY DEF WellFormed, Used
  <2> QED BY <2>1 DEF Col!IsAncestor
<1>3. Col!Live(graph, members \cup {o}) = {o}
  <2>1. o \in Col!Live(graph, members \cup {o})
    BY <1>2 DEF Col!Live
  <2>2. ASSUME NEW m \in members PROVE m \notin Col!Live(graph, members \cup {o})
    <3>1. m # o
      BY DEF Used
    <3> QED BY <1>1, <3>1 DEF Col!Live, Col!IsAncestor
  <2>3. Col!Live(graph, members \cup {o}) \subseteq members \cup {o}
    BY DEF Col!Live
  <2> QED BY <2>1, <2>2, <2>3
<1>4. Col!Winner({o}) = o
  <2>1. {o} \in SUBSET Col!Ops /\ {o} # {}
    OBVIOUS
  <2> QED BY <2>1, WinnerLives
<1>5. {x \in {o} : graph[x].value # graph[Col!Winner({o})].value} = {}
  BY <1>4
<1> QED BY <1>3, <1>5 DEF Col!Variants

\* The resolution of a conflict keeps the invariant.
LEMMA ResolveStep ==
  ASSUME CollaborationInv, NEW o \in Col!Ops, NEW i \in DOMAIN conflicts, NEW value \in Col!Values,
         Col!ResolveConflict(o, i, value)
  PROVE  CollaborationInv'
<1> DEFINE b == conflicts[i].branch
           deps == Col!Heads(b) \cup conflicts[i].variants
           graph == Grown(o, value, deps)
           bs == [branches EXCEPT ![b].members = @ \cup {o}]
           members == branches[b].members \cup {o}
           mid == Col!Synchronized(graph, bs[b].members, b, conflicts)
           list == Col!Resolving(mid, {i})
<1>0. /\ WellFormed(ops) /\ branches \in [Col!Branches -> Col!Branch]
      /\ \A x \in Col!Branches : branches[x].members \subseteq Used(ops)
      /\ conflicts \in Seq(Col!Conflict) /\ DOMAIN conflicts = 1..Len(conflicts)
      /\ \A j \in 1..Len(conflicts) : conflicts[j].variants \subseteq Used(ops)
      /\ RecordedOn("main", ops, branches["main"].members, conflicts)
      /\ "main" \in Col!Branches /\ conflicts[i] \in Col!Conflict
  BY DEF CollaborationInv, Col!Branches
<1>1. /\ ops[o].value = 0 /\ ops' = graph /\ conflicts' = list
      /\ branches' = Col!BranchesAfter(bs, merges, list) /\ UNCHANGED suggestion
  BY DEF Col!ResolveConflict, Grown
<1>2. b \in Col!Branches
  BY <1>0 DEF Col!Conflict
<1>3. Col!Heads(b) = Col!Live(ops, branches[b].members) /\ Col!Heads(b) \subseteq branches[b].members
  BY DEF Col!Heads, Col!Live
<1> HIDE DEF b
<1>4. deps \in SUBSET Used(ops) /\ branches[b].members \in SUBSET Used(ops)
  BY <1>0, <1>2, <1>3
<1> HIDE DEF deps
<1>5. /\ WellFormed(graph) /\ Used(graph) = Used(ops) \cup {o} /\ graph[o].deps = Col!Closure(deps)
      /\ \A x \in Col!Ops \ {o} : graph[x] = ops[x]
  BY <1>0, <1>1, <1>4, GraphGrows
<1>6. o \notin Used(ops) /\ Used(ops) \subseteq Col!Ops /\ \A x \in Used(ops) : graph[x] = ops[x]
  BY <1>1, <1>5 DEF Used
<1> HIDE DEF graph
<1>7. Col!Variants(graph, members) = {}
  <2>1. \A h \in Col!Live(ops, branches[b].members) :
          h \in graph[o].deps /\ ops[h].deps \subseteq graph[o].deps
    BY <1>3, <1>5 DEF Col!Closure, deps
  <2> QED BY <1>0, <1>4, <1>6, <2>1, NothingCompetes
<1>8. /\ bs \in [Col!Branches -> Col!Branch] /\ bs[b].members = members
      /\ \A x \in Col!Branches \ {b} : bs[x] = branches[x]
  <2>1. /\ [branches[b] EXCEPT !.members = members] \in Col!Branch
        /\ [branches[b] EXCEPT !.members = members].members = members
    <3>1. branches[b] \in Col!Branch /\ members \in SUBSET Col!Ops
      BY <1>0, <1>2, <1>6
    <3> HIDE DEF members
    <3> QED BY <3>1 DEF Col!Branch
  <2> QED BY <1>0, <1>2, <2>1
<1> HIDE DEF bs
<1>9. members \in SUBSET Used(graph)
  BY <1>4, <1>5
<1>10. /\ mid \in Seq(Col!Conflict) /\ Len(conflicts) <= Len(mid)
       /\ \A j \in 1..Len(mid) : mid[j].variants \subseteq Used(graph)
       /\ \A j \in 1..Len(conflicts) : mid[j].branch = conflicts[j].branch
       /\ RecordedOn("main", graph, IF b = "main" THEN members ELSE branches["main"].members, mid)
  BY <1>2, <1>5, <1>6, <1>8, <1>9, Synchronization
<1> HIDE DEF mid
<1>11. /\ list \in Seq(Col!Conflict) /\ Len(list) = Len(mid)
       /\ \A j \in 1..Len(mid) :
            /\ list[j].branch = mid[j].branch /\ list[j].variants = mid[j].variants
            /\ list[j].status = IF j \in {i} THEN "resolved" ELSE mid[j].status
  BY <1>10, ResolvingKeeps
<1> HIDE DEF list
<1>12. Col!OpenOn("main", list) \subseteq Col!OpenOn("main", mid)
  BY <1>10, <1>11 DEF Col!OpenOn
<1>13. RecordedOn("main", graph, IF b = "main" THEN members ELSE branches["main"].members, list)
  <2>1. CASE b = "main"
    BY <1>7, <1>10, <1>12, <2>1 DEF RecordedOn
  <2>2. CASE b # "main"
    <3>1. i \in 1..Len(mid) /\ mid[i].branch # "main"
      BY <1>0, <1>10, <2>2 DEF b
    <3>2. Col!OpenOn("main", list) = Col!OpenOn("main", mid)
      <4>1. DOMAIN list = 1..Len(mid) /\ DOMAIN mid = 1..Len(mid)
        BY <1>10, <1>11
      <4>2. ASSUME NEW j \in 1..Len(mid)
            PROVE  list[j].branch = "main" /\ list[j].status = "open"
                     <=> mid[j].branch = "main" /\ mid[j].status = "open"
        BY <1>11, <3>1
      <4> QED BY <4>1, <4>2 DEF Col!OpenOn
    <3>3. \A j \in Col!OpenOn("main", mid) : list[j].variants = mid[j].variants
      BY <1>10, <1>11 DEF Col!OpenOn
    <3> QED BY <1>10, <2>2, <3>2, <3>3 DEF RecordedOn
  <2> QED BY <2>1, <2>2
<1>14. /\ branches' \in [Col!Branches -> Col!Branch]
       /\ \A x \in Col!Branches : branches'[x].members = bs[x].members
  BY <1>1, <1>8, BranchesKeep
<1>15. branches'["main"].members = IF b = "main" THEN members ELSE branches["main"].members
  BY <1>0, <1>8, <1>14
<1>16. \A x \in Col!Branches : branches'[x].members \subseteq Used(graph)
  BY <1>0, <1>5, <1>8, <1>9, <1>14
<1>17. RecordedOn("main", graph, branches'["main"].members, list)
  BY <1>13, <1>15
<1>18. /\ WellFormed(ops') /\ Used(ops') = Used(graph)
       /\ RecordedOn("main", ops', branches'["main"].members, conflicts')
  BY <1>1, <1>5, <1>17
<1>19. (\A j \in DOMAIN conflicts : conflicts[j].variants \subseteq Used(ops))'
  BY <1>1, <1>10, <1>11, <1>18
<1> QED BY <1>1, <1>11, <1>14, <1>16, <1>18, <1>19 DEF CollaborationInv

\* Each call keeps the invariant.
LEMMA CollaborationStep == CollaborationInv /\ Col!Next => CollaborationInv'
<1> SUFFICES ASSUME CollaborationInv, Col!Next PROVE CollaborationInv'
  OBVIOUS
<1>1. CASE Col!CreateBranch
  <2>1. /\ branches' = [branches EXCEPT !["side"] = branches["main"]]
        /\ UNCHANGED <<ops, suggestion, merges, conflicts>>
    BY <1>1 DEF Col!CreateBranch
  <2>2. /\ branches' \in [Col!Branches -> Col!Branch] /\ branches'["main"] = branches["main"]
        /\ \A b \in Col!Branches : branches'[b].members \subseteq Used(ops)
    BY <2>1 DEF CollaborationInv, Col!Branches
  <2>3. RecordedOn("main", ops', branches'["main"].members, conflicts')
    BY <2>1, <2>2 DEF CollaborationInv
  <2> QED BY <2>1, <2>2, <2>3 DEF CollaborationInv
<1>2. ASSUME UNCHANGED <<ops, branches, merges, conflicts>>, suggestion' \in Col!Suggestion,
             suggestion'.status # "none" => suggestion'.value \in Col!Values
      PROVE  CollaborationInv'
  BY <1>2 DEF CollaborationInv
<1>3. CASE Col!RejectSuggestion
  <2>1. suggestion' \in Col!Suggestion /\ (suggestion'.status # "none" => suggestion'.value \in Col!Values)
    BY <1>3 DEF Col!RejectSuggestion, CollaborationInv, Col!Suggestion
  <2> QED BY <1>2, <1>3, <2>1 DEF Col!RejectSuggestion
<1>4. ASSUME NEW v \in Col!Values, Col!CreateSuggestion(v) PROVE CollaborationInv'
  <2>1. suggestion' \in Col!Suggestion /\ (suggestion'.status # "none" => suggestion'.value \in Col!Values)
    BY <1>4 DEF Col!CreateSuggestion, CollaborationInv, Col!Suggestion
  <2> QED BY <1>2, <1>4, <2>1 DEF Col!CreateSuggestion
<1>5. ASSUME NEW o \in Col!Ops, Col!AcceptSuggestion(o) PROVE CollaborationInv'
  <2>1. suggestion.value \in Col!Values /\ "main" \in Col!Branches
    BY <1>5 DEF Col!AcceptSuggestion, CollaborationInv, Col!Branches
  <2>2. suggestion' \in Col!Suggestion /\ suggestion'.value = suggestion.value
    BY <1>5 DEF Col!AcceptSuggestion, CollaborationInv, Col!Suggestion
  <2> QED BY <1>5, <2>1, <2>2, ApplyStep DEF Col!AcceptSuggestion
<1>6. ASSUME NEW o \in Col!Ops, NEW b \in Col!Branches, NEW v \in Col!Values, NEW deps,
             Col!SubmitOperation(o, b, v, deps)
      PROVE  CollaborationInv'
  BY <1>6, ApplyStep DEF Col!SubmitOperation, CollaborationInv
<1> QED
  BY <1>1, <1>3, <1>4, <1>5, <1>6, MergeStep, ResolveStep DEF Col!Next

\* What competes on the main branch is held by one open conflict, whatever operations, merges and
\* resolutions came before, in any order and any number.
THEOREM CompetingAlwaysRecorded == Spec => []CompetingRecorded
<1> DEFINE Inv == service = "collaboration" => CollaborationInv
<1>1. Init => Inv
  BY CollaborationInit DEF Init
<1>2. Inv /\ [Next]_vars => Inv'
  <2>1. CASE UNCHANGED vars
    BY <2>1 DEF vars, together, CollaborationInv
  <2>2. CASE Next
    <3>1. service' = service /\ (service = "collaboration" => Col!Next)
      BY <2>2 DEF Next
    <3> QED BY <3>1, CollaborationStep
  <2> QED BY <2>1, <2>2
<1>3. Inv => CompetingRecorded
  <2> SUFFICES ASSUME CollaborationInv PROVE Col!CompetingRecorded
    BY DEF CompetingRecorded
  <2> DEFINE members == branches["main"].members
             variants == Col!Variants(ops, members)
  <2>1. ASSUME members # {}, variants # {}
        PROVE  Cardinality(Col!SameVariants("main", conflicts, variants)) = 1
    <3>1. PICK i \in Col!OpenOn("main", conflicts) : conflicts[i].variants = variants
      BY <2>1 DEF CollaborationInv, RecordedOn
    <3>2. Col!SameVariants("main", conflicts, variants) = {i}
      BY <3>1 DEF CollaborationInv, RecordedOn, Col!SameVariants
    <3> QED BY <3>2, FS_Singleton
  <2> QED BY <2>1 DEF Col!CompetingRecorded, Col!Cardinality, Cardinality
<1> QED BY <1>1, <1>2, <1>3, PTL DEF Spec

-----------------------------------------------------------------------------
(* The editor (StudioEditor): revisions are only added, the draft contains the revision it is on,  *)
(* a write under way has what the draft had, and a read covers what its opening would drop.        *)

ReadType == [entry : Items, asked : Edi!Contents, got : Edi!Revision \cup {None}]
TaskType == [kind : {"save", "publish", "create", "migrate", "reload"},
             step : {"save", "saved", "history", "publish", "run"},
             entry : Items, rev : Edi!Revision, sent : Edi!Contents]
Draft == [rev : Edi!Revision, contents : [Edi!Revision -> Edi!Contents]]
Selection == [entry : Items, rev : Edi!Revision, draft : Edi!Contents, dirty : BOOLEAN]

EditorTypes ==
  /\ drafts \in [Items -> Draft]
  /\ editor \in Selection
  /\ reading # None => reading \in ReadType
  /\ task # None => task \in TaskType
  /\ edits \in 0..MaxEdits /\ tasks \in 0..MaxTasks /\ slipped \in BOOLEAN

\* The bounds leave room for every revision: a save that the server has not made has its own.
Unmade == IF task # None /\ task.step = "save" THEN 1 ELSE 0
RevisionsFit == \A e \in Items : drafts[e].rev + Unmade <= 1 + edits + tasks

\* The draft is on a revision that is there and contains it; without changes it is that revision.
DraftOnRevision ==
  /\ editor.rev <= drafts[editor.entry].rev
  /\ drafts[editor.entry].contents[editor.rev] \subseteq editor.draft
  /\ ~editor.dirty /\ ~slipped => Edi!Unsaved = {}

\* A save is of the selected entry, beside no read, and was sent what the draft contains.
TaskSound ==
  /\ task # None /\ task.step # "run" =>
       /\ reading = None /\ task.entry = editor.entry
       /\ task.sent \subseteq editor.draft /\ task.rev <= drafts[task.entry].rev
       /\ ~slipped => editor.draft = task.sent
  /\ task # None /\ task.step = "save" => drafts[task.entry].contents[task.rev] \subseteq task.sent
  /\ task # None /\ task.step \in {"saved", "history"} => drafts[task.entry].contents[task.rev] = task.sent
  /\ task # None /\ task.step = "history" => task.rev = editor.rev

\* Unless it reloads, a read was asked for with all that its opening drops.
Covered == ~slipped /\ (task = None \/ task.kind # "reload") => Edi!Unsaved \subseteq reading.asked
ReadSound ==
  reading # None => /\ reading.got # None => reading.got <= drafts[reading.entry].rev
                    /\ Covered

EditorInv ==
  /\ EditorTypes /\ RevisionsFit /\ Edi!NothingTakenBack /\ DraftOnRevision /\ TaskSound /\ ReadSound
  /\ Edi!OpeningAsks

\* Revisions are only added.
Later ==
  /\ drafts' \in [Items -> Draft]
  /\ \A e \in Items : /\ drafts[e].rev <= drafts'[e].rev
                      /\ \A r \in Edi!Revision : r <= drafts[e].rev => drafts'[e].contents[r] = drafts[e].contents[r]

\* The invariant holds at the start.
LEMMA EditorInit == Edi!Init => EditorInv
<1> SUFFICES ASSUME Edi!Init PROVE EditorInv
  OBVIOUS
<1>1. 1 \in Edi!Revision /\ {} \in Edi!Contents
  BY Bounded DEF Edi!Revision, Edi!Contents
<1>2. \A e \in Items : drafts[e].rev = 1 /\ drafts[e].contents = [r \in Edi!Revision |-> {}]
  BY DEF Edi!Init
<1>3. drafts \in [Items -> Draft]
  <2>1. [rev |-> 1, contents |-> [r \in Edi!Revision |-> {}]] \in Draft
    BY <1>1 DEF Draft
  <2> QED BY <2>1 DEF Edi!Init
<1>4. PICK e \in Items : editor = [entry |-> e, rev |-> 1, draft |-> {}, dirty |-> FALSE]
  BY <1>1, <1>2 DEF Edi!Init, Edi!Opened
<1>5. EditorTypes
  <2>1. editor \in Selection
    BY <1>1, <1>4 DEF Selection
  <2>2. reading = None /\ task = None /\ edits = 0 /\ tasks = 0 /\ slipped = FALSE
    BY DEF Edi!Init
  <2>3. edits \in 0..MaxEdits /\ tasks \in 0..MaxTasks
    BY <2>2, Bounded
  <2>4. slipped \in BOOLEAN
    BY <2>2
  <2> QED BY <1>3, <2>1, <2>2, <2>3, <2>4 DEF EditorTypes
<1>6. RevisionsFit
  BY <1>2 DEF Edi!Init, RevisionsFit, Unmade
<1>7. Edi!NothingTakenBack
  BY <1>2 DEF Edi!NothingTakenBack
<1>8. DraftOnRevision
  BY <1>1, <1>2, <1>4 DEF DraftOnRevision, Edi!Unsaved
<1> QED BY <1>5, <1>6, <1>7, <1>8 DEF EditorInv, TaskSound, ReadSound, Edi!OpeningAsks, Edi!Init

\* A write adds a revision, which contains the one before it.
LEMMA WriteKeeps ==
  ASSUME drafts \in [Items -> Draft], Edi!NothingTakenBack, NEW e \in Items, drafts[e].rev + 1 \in Edi!Revision,
         NEW contents \in Edi!Contents, drafts[e].contents[drafts[e].rev] \subseteq contents,
         drafts' = [drafts EXCEPT ![e] = Edi!Written(@, contents)]
  PROVE  /\ drafts' \in [Items -> Draft] /\ Edi!NothingTakenBack' /\ Later
         /\ drafts'[e].rev = drafts[e].rev + 1 /\ drafts'[e].contents[drafts[e].rev + 1] = contents
         /\ \A x \in Items \ {e} : drafts'[x] = drafts[x]
<1> DEFINE n == drafts[e].rev + 1
           old == drafts[e]
           new == Edi!Written(old, contents)
<1>1. old \in Draft /\ n \in Edi!Revision /\ Edi!Revision \subseteq Nat /\ drafts[e].rev \in Edi!Revision
  BY DEF Edi!Revision, Draft
<1>2. /\ new \in Draft /\ new.rev = n /\ new.contents[n] = contents
      /\ \A r \in Edi!Revision \ {n} : new.contents[r] = old.contents[r]
  <2>1. new = [old EXCEPT !.rev = n, !.contents = [old.contents EXCEPT ![n] = contents]]
    BY <1>1 DEF Edi!Written, Draft
  <2> HIDE DEF new, n, old
  <2> QED BY <1>1, <2>1 DEF Draft
<1>3. drafts'[e] = new /\ \A x \in Items \ {e} : drafts'[x] = drafts[x]
  OBVIOUS
<1>n. n = drafts[e].rev + 1 /\ old = drafts[e]
  OBVIOUS
<1> HIDE DEF new, n, old
<1>4. drafts' \in [Items -> Draft]
  BY <1>2, <1>3
<1>5. ASSUME NEW r \in Edi!Revision, r <= drafts[e].rev PROVE r # n
  <2>1. r \in Nat /\ drafts[e].rev \in Nat
    BY <1>1
  <2> QED BY <1>n, <1>5, <2>1
<1>6. Later
  <2>1. ASSUME NEW x \in Items
        PROVE  /\ drafts[x].rev <= drafts'[x].rev
               /\ \A r \in Edi!Revision : r <= drafts[x].rev => drafts'[x].contents[r] = drafts[x].contents[r]
    <3>1. CASE x = e
      <4>1. drafts'[x].rev = drafts[x].rev + 1 /\ drafts[x].rev \in Nat
        BY <1>1, <1>2, <1>3, <1>n, <3>1
      <4>2. ASSUME NEW r \in Edi!Revision, r <= drafts[x].rev
            PROVE  drafts'[x].contents[r] = drafts[x].contents[r]
        BY <1>2, <1>3, <1>5, <1>n, <3>1, <4>2
      <4> QED BY <4>1, <4>2
    <3>2. CASE x # e
      <4>1. drafts[x].rev \in Nat
        BY DEF Draft, Edi!Revision
      <4> QED BY <1>3, <3>2, <4>1
    <3> QED BY <3>1, <3>2
  <2> QED BY <1>4, <2>1 DEF Later
<1>7. ASSUME NEW x \in Items, NEW r \in 1..(drafts'[x].rev - 1)
      PROVE  drafts'[x].contents[r] \subseteq drafts'[x].contents[r + 1]
  <2>1. CASE x # e
    BY <1>3, <1>7, <2>1 DEF Edi!NothingTakenBack
  <2>2. CASE x = e
    <3>1. r \in 1..drafts[e].rev /\ drafts[e].rev \in Edi!Revision
      <4>1. drafts'[x].rev = drafts[e].rev + 1 /\ drafts[e].rev \in Nat
        BY <1>1, <1>2, <1>3, <1>n, <2>2
      <4> QED BY <1>1, <1>7, <4>1
    <3>2. r \in Edi!Revision /\ r + 1 \in Edi!Revision /\ r # n
      BY <1>1, <1>n, <3>1, Bounded DEF Edi!Revision
    <3>3. drafts'[e].contents[r] = old.contents[r]
      BY <1>2, <1>3, <3>2
    <3>4. CASE r = drafts[e].rev
      BY <1>2, <1>3, <1>n, <2>2, <3>3, <3>4
    <3>5. CASE r # drafts[e].rev
      <4>1. r \in 1..(drafts[e].rev - 1) /\ r + 1 # n
        BY <1>1, <1>n, <3>1, <3>5 DEF Edi!Revision
      <4> QED BY <1>2, <1>3, <1>n, <2>2, <3>2, <3>3, <4>1 DEF Edi!NothingTakenBack
    <3> QED BY <3>4, <3>5
  <2> QED BY <2>1, <2>2
<1>8. Edi!NothingTakenBack'
  BY <1>7 DEF Edi!NothingTakenBack
<1> QED BY <1>2, <1>3, <1>4, <1>6, <1>8, <1>n

\* Where nothing is written no revision is added.
LEMMA SameIsLater ==
  ASSUME drafts \in [Items -> Draft], UNCHANGED drafts
  PROVE  Later
BY DEF Later, Draft, Edi!Revision

\* What holds of the draft on its revision outlasts the revisions that are added.
LEMMA DraftStays ==
  ASSUME EditorInv, Later, UNCHANGED editor, slipped => slipped'
  PROVE  DraftOnRevision' /\ Edi!Unsaved' = Edi!Unsaved
<1>1. /\ editor.entry \in Items /\ editor.rev \in Edi!Revision /\ editor.rev \in Nat
      /\ drafts[editor.entry].rev \in Nat /\ editor.rev <= drafts[editor.entry].rev
  BY DEF EditorInv, EditorTypes, Selection, Draft, DraftOnRevision, Edi!Revision
<1>2. drafts'[editor.entry].contents[editor.rev] = drafts[editor.entry].contents[editor.rev]
  BY <1>1 DEF Later
<1>3. drafts[editor.entry].rev <= drafts'[editor.entry].rev
  BY <1>1 DEF Later
<1>4. Edi!Unsaved' = Edi!Unsaved
  BY <1>2 DEF Edi!Unsaved
<1>5. editor.rev <= drafts'[editor.entry].rev
  <2>1. drafts'[editor.entry].rev \in Nat
    BY <1>1 DEF Later, Draft, Edi!Revision
  <2> QED BY <1>1, <1>3, <2>1
<1> QED BY <1>2, <1>4, <1>5 DEF EditorInv, DraftOnRevision

\* What holds of the write under way outlasts them too.
LEMMA TaskStays ==
  ASSUME EditorInv, Later, UNCHANGED <<task, reading, editor>>, slipped => slipped'
  PROVE  TaskSound'
<1> SUFFICES ASSUME task # None PROVE TaskSound'
  BY DEF TaskSound
<1>1. /\ task.entry \in Items /\ task.rev \in Edi!Revision /\ task.rev \in Nat
      /\ drafts[task.entry].rev \in Nat /\ drafts'[task.entry].rev \in Nat
      /\ task.step \in {"save", "saved", "history", "publish", "run"}
  BY DEF EditorInv, EditorTypes, TaskType, Draft, Edi!Revision, Later
<1>2. drafts[task.entry].rev <= drafts'[task.entry].rev
  BY <1>1 DEF Later
<1>3. task.rev <= drafts[task.entry].rev =>
        drafts'[task.entry].contents[task.rev] = drafts[task.entry].contents[task.rev]
  BY <1>1 DEF Later
<1>4. task.rev <= drafts[task.entry].rev => task.rev <= drafts'[task.entry].rev
  BY <1>1, <1>2
<1> QED BY <1>1, <1>3, <1>4 DEF EditorInv, TaskSound

\* And what holds of the read.
LEMMA ReadStays ==
  ASSUME EditorInv, Later, UNCHANGED <<task, reading, editor>>, slipped => slipped'
  PROVE  ReadSound'
<1> SUFFICES ASSUME reading # None PROVE ReadSound'
  BY DEF ReadSound
<1>1. /\ reading.entry \in Items /\ (reading.got # None => reading.got \in Nat)
      /\ drafts[reading.entry].rev \in Nat /\ drafts'[reading.entry].rev \in Nat
  BY DEF EditorInv, EditorTypes, ReadType, Draft, Edi!Revision, Later
<1>2. drafts[reading.entry].rev <= drafts'[reading.entry].rev
  BY <1>1 DEF Later
<1>3. reading.got # None => reading.got <= drafts'[reading.entry].rev
  BY <1>1, <1>2 DEF EditorInv, ReadSound
<1> QED BY <1>3, DraftStays DEF EditorInv, ReadSound, Covered

\* Another save of an entry adds a revision, for which the bounds leave room.
LEMMA EditStays ==
  ASSUME EditorInv, NEW e \in Items, edits < MaxEdits,
         drafts' = [drafts EXCEPT ![e] = Edi!Written(@, Edi!Saved(e) \cup {edits + 1})]
  PROVE  /\ drafts' \in [Items -> Draft] /\ Edi!NothingTakenBack' /\ Later
         /\ edits \in 0..MaxEdits /\ tasks \in 0..MaxTasks /\ edits + 1 \in 0..MaxEdits
         /\ \A x \in Items : /\ drafts[x].rev \in Nat /\ drafts'[x].rev \in Nat
                             /\ drafts'[x].rev <= drafts[x].rev + 1
<1> DEFINE contents == Edi!Saved(e) \cup {edits + 1}
<1>1. /\ edits \in 0..MaxEdits /\ tasks \in 0..MaxTasks /\ drafts \in [Items -> Draft]
      /\ Edi!NothingTakenBack
  BY DEF EditorInv, EditorTypes
<1>2. drafts[e].rev \in Edi!Revision /\ drafts[e].contents[drafts[e].rev] \in Edi!Contents
  BY <1>1 DEF Draft
<1>3. drafts[e].rev \in Nat
  BY <1>2 DEF Edi!Revision
<1>4. drafts[e].rev + Unmade <= 1 + edits + tasks /\ Unmade \in {0, 1}
  BY DEF EditorInv, RevisionsFit, Unmade
<1>5. drafts[e].rev + 1 \in Edi!Revision
  BY <1>1, <1>3, <1>4, Bounded DEF Edi!Revision
<1>6. edits + 1 \in 1..MaxEdits
  BY <1>1, Bounded
<1>7. contents \in Edi!Contents /\ drafts[e].contents[drafts[e].rev] \subseteq contents
  BY <1>2, <1>6 DEF Edi!Contents, Edi!Saved
<1> HIDE DEF contents
<1>8. drafts' = [drafts EXCEPT ![e] = Edi!Written(@, contents)]
  BY DEF contents
<1>9. /\ drafts' \in [Items -> Draft] /\ Edi!NothingTakenBack' /\ Later
      /\ drafts'[e].rev = drafts[e].rev + 1 /\ \A x \in Items \ {e} : drafts'[x] = drafts[x]
  BY <1>1, <1>5, <1>7, <1>8, WriteKeeps
<1>10. ASSUME NEW x \in Items
       PROVE  drafts'[x].rev <= drafts[x].rev + 1 /\ drafts'[x].rev \in Nat /\ drafts[x].rev \in Nat
  BY <1>1, <1>9 DEF Draft, Edi!Revision
<1>11. edits + 1 \in 0..MaxEdits
  BY <1>1, <1>6
<1> QED BY <1>1, <1>9, <1>10, <1>11

\* Where nothing is written the drafts are as they were.
LEMMA DraftsStay ==
  ASSUME EditorInv, UNCHANGED drafts
  PROVE  /\ drafts' \in [Items -> Draft] /\ Edi!NothingTakenBack' /\ Later
         /\ edits \in 0..MaxEdits /\ tasks \in 0..MaxTasks
         /\ \A x \in Items : drafts[x].rev \in Nat /\ drafts'[x].rev = drafts[x].rev
<1>1. drafts \in [Items -> Draft] /\ edits \in 0..MaxEdits /\ tasks \in 0..MaxTasks /\ Edi!NothingTakenBack
  BY DEF EditorInv, EditorTypes
<1>2. Later
  BY <1>1, SameIsLater
<1>3. \A x \in Items : drafts[x].rev \in Nat
  BY <1>1 DEF Draft, Edi!Revision
<1>4. Edi!NothingTakenBack'
  BY <1>1 DEF Edi!NothingTakenBack
<1> QED BY <1>1, <1>2, <1>3, <1>4

\* A write by somebody else keeps the invariant.
LEMMA OthersStep == ASSUME EditorInv, NEW e \in Items, Edi!OtherSaves(e) PROVE EditorInv'
<1>1. /\ edits < MaxEdits /\ edits' = edits + 1
      /\ drafts' = [drafts EXCEPT ![e] = Edi!Written(@, Edi!Saved(e) \cup {edits + 1})]
      /\ UNCHANGED <<editor, reading, task, tasks, lost, slipped>>
  BY DEF Edi!OtherSaves
<1>2. /\ drafts' \in [Items -> Draft] /\ Edi!NothingTakenBack' /\ Later
      /\ edits \in 0..MaxEdits /\ tasks \in 0..MaxTasks /\ edits + 1 \in 0..MaxEdits
      /\ \A x \in Items : /\ drafts[x].rev \in Nat /\ drafts'[x].rev \in Nat
                          /\ drafts'[x].rev <= drafts[x].rev + 1
  BY <1>1, EditStays
<1>3. EditorTypes'
  BY <1>1, <1>2 DEF EditorInv, EditorTypes
<1>4. RevisionsFit'
  <2>1. Unmade' = Unmade /\ Unmade \in {0, 1}
    BY <1>1 DEF Unmade
  <2>2. ASSUME NEW x \in Items PROVE drafts'[x].rev + Unmade' <= 1 + edits' + tasks'
    <3>1. drafts[x].rev + Unmade <= 1 + edits + tasks
      BY DEF EditorInv, RevisionsFit
    <3>2. drafts[x].rev \in Nat /\ drafts'[x].rev \in Nat /\ drafts'[x].rev <= drafts[x].rev + 1
      BY <1>2
    <3> QED BY <1>1, <1>2, <2>1, <3>1, <3>2
  <2> QED BY <2>2 DEF RevisionsFit
<1> QED BY <1>1, <1>2, <1>3, <1>4, DraftStays, TaskStays, ReadStays DEF EditorInv, Edi!OpeningAsks

\* A write starts with the draft as it is, beside nothing else.
LEMMA BeginsWith ==
  ASSUME EditorInv, NEW kind \in {"save", "publish", "create", "migrate", "reload"},
         NEW step \in {"save", "publish", "run"}, Edi!Begin(kind, step)
  PROVE  /\ task = None /\ reading = None /\ Unmade = 0 /\ Unmade' \in {0, 1}
         /\ task' \in TaskType /\ task' # None /\ task'.kind = kind /\ task'.step = step
         /\ task'.entry = editor.entry /\ task'.rev = editor.rev /\ task'.sent = editor.draft
         /\ tasks' = tasks + 1 /\ tasks' \in 0..MaxTasks
<1> DEFINE new == [kind |-> kind, step |-> step, entry |-> editor.entry, rev |-> editor.rev,
                   sent |-> editor.draft]
<1>1. task = None /\ reading = None /\ tasks < MaxTasks /\ tasks' = tasks + 1 /\ task' = new
  BY DEF Edi!Begin, Edi!Inert
<1>2. editor.entry \in Items /\ editor.rev \in Edi!Revision /\ editor.draft \in Edi!Contents
  BY DEF EditorInv, EditorTypes, Selection
<1>3. new \in TaskType
  BY <1>2 DEF TaskType
<1>4. editor.rev \in Nat /\ editor.draft \in SUBSET Nat
  BY <1>2 DEF Edi!Revision, Edi!Contents
<1>5. new # None
  <2>1. new \in [kind : {"save", "publish", "create", "migrate", "reload"},
                 step : {"save", "publish", "run"}, entry : Items, rev : Nat, sent : SUBSET Nat]
    BY <1>2, <1>4
  <2> HIDE DEF new
  <2> QED BY <2>1, NoneIsNoTask
<1>6. tasks \in 0..MaxTasks
  BY DEF EditorInv, EditorTypes
<1>7. tasks' \in 0..MaxTasks
  BY <1>1, <1>6, Bounded
<1> QED BY <1>1, <1>3, <1>5, <1>7 DEF Unmade

\* A save or a publication that starts keeps the invariant.
LEMMA SaveBegins ==
  ASSUME EditorInv, NEW kind \in {"save", "publish"}, NEW step \in {"save", "publish"}, Edi!Begin(kind, step),
         UNCHANGED <<drafts, editor, reading, edits, lost, slipped>>
  PROVE  EditorInv'
<1>1. /\ task = None /\ reading = None /\ Unmade = 0 /\ Unmade' \in {0, 1}
      /\ task' \in TaskType /\ task' # None /\ task'.kind = kind /\ task'.step = step
      /\ task'.entry = editor.entry /\ task'.rev = editor.rev /\ task'.sent = editor.draft
      /\ tasks' = tasks + 1 /\ tasks' \in 0..MaxTasks
  BY BeginsWith
<1>2. /\ Edi!NothingTakenBack' /\ Later /\ edits \in 0..MaxEdits /\ tasks \in 0..MaxTasks
      /\ \A x \in Items : drafts[x].rev \in Nat /\ drafts'[x].rev = drafts[x].rev
  BY DraftsStay
<1>3. EditorTypes'
  BY <1>1 DEF EditorInv, EditorTypes
<1>4. RevisionsFit'
  BY <1>1, <1>2 DEF EditorInv, RevisionsFit
<1>5. DraftOnRevision'
  BY <1>2, DraftStays
<1>6. TaskSound'
  BY <1>1 DEF EditorInv, DraftOnRevision, TaskSound
<1> QED BY <1>1, <1>2, <1>3, <1>4, <1>5, <1>6 DEF EditorInv, ReadSound, Edi!OpeningAsks

\* A read asks for an entry with what its opening may drop.
LEMMA ReadAsks ==
  ASSUME NEW e \in Items, NEW asked \in Edi!Contents, Edi!Read(e, asked)
  PROVE  reading' \in ReadType /\ reading'.asked = asked /\ reading'.got = None
BY DEF Edi!Read, ReadType

\* A write that opens what it wrote keeps the invariant: it asked for what it drops, unless it reloads.
LEMMA RunBegins ==
  ASSUME EditorInv, NEW kind \in {"create", "migrate", "reload"}, Edi!Begin(kind, "run"),
         NEW e \in Items, NEW asked \in Edi!Contents, Edi!Read(e, asked),
         ~slipped /\ kind # "reload" => Edi!Unsaved \subseteq asked,
         UNCHANGED <<editor, lost, slipped>>,
         \/ UNCHANGED <<drafts, edits>>
         \/ /\ edits < MaxEdits /\ edits' = edits + 1
            /\ \E x \in Items : drafts' = [drafts EXCEPT ![x] = Edi!Written(@, Edi!Saved(x) \cup {edits + 1})]
  PROVE  EditorInv'
<1>1. /\ task = None /\ Unmade = 0 /\ Unmade' \in {0, 1}
      /\ task' \in TaskType /\ task' # None /\ task'.kind = kind /\ task'.step = "run"
      /\ tasks' = tasks + 1 /\ tasks' \in 0..MaxTasks
  BY BeginsWith
<1>2. reading' \in ReadType /\ reading'.asked = asked /\ reading'.got = None
  BY ReadAsks
<1>3. /\ drafts' \in [Items -> Draft] /\ Edi!NothingTakenBack' /\ Later
      /\ edits \in 0..MaxEdits /\ tasks \in 0..MaxTasks /\ edits' \in 0..MaxEdits
      /\ \A x \in Items : /\ drafts[x].rev \in Nat /\ drafts'[x].rev \in Nat
                          /\ drafts'[x].rev <= drafts[x].rev + 1
                          /\ drafts'[x].rev + edits <= drafts[x].rev + edits'
  <2>1. CASE UNCHANGED <<drafts, edits>>
    <3>1. /\ drafts' \in [Items -> Draft] /\ Edi!NothingTakenBack' /\ Later
          /\ edits \in 0..MaxEdits /\ tasks \in 0..MaxTasks
          /\ \A x \in Items : drafts[x].rev \in Nat /\ drafts'[x].rev = drafts[x].rev
      BY <2>1, DraftsStay
    <3> QED BY <2>1, <3>1
  <2>2. CASE ~UNCHANGED <<drafts, edits>>
    <3>1. edits < MaxEdits /\ edits' = edits + 1
      BY <2>2
    <3>2. PICK x \in Items : drafts' = [drafts EXCEPT ![x] = Edi!Written(@, Edi!Saved(x) \cup {edits + 1})]
      BY <2>2
    <3>3. /\ drafts' \in [Items -> Draft] /\ Edi!NothingTakenBack' /\ Later
          /\ edits \in 0..MaxEdits /\ tasks \in 0..MaxTasks /\ edits + 1 \in 0..MaxEdits
          /\ \A y \in Items : /\ drafts[y].rev \in Nat /\ drafts'[y].rev \in Nat
                              /\ drafts'[y].rev <= drafts[y].rev + 1
      BY <3>1, <3>2, EditStays
    <3> QED BY <3>1, <3>3
  <2> QED BY <2>1, <2>2
<1>4. EditorTypes'
  BY <1>1, <1>2, <1>3 DEF EditorInv, EditorTypes
<1>5. RevisionsFit'
  <2>1. ASSUME NEW x \in Items PROVE drafts'[x].rev + Unmade' <= 1 + edits' + tasks'
    <3>1. drafts[x].rev + Unmade <= 1 + edits + tasks
      BY DEF EditorInv, RevisionsFit
    <3>2. drafts[x].rev \in Nat /\ drafts'[x].rev \in Nat /\ drafts'[x].rev + edits <= drafts[x].rev + edits'
      BY <1>3
    <3> QED BY <1>1, <1>3, <3>1, <3>2
  <2> QED BY <2>1 DEF RevisionsFit
<1>6. DraftOnRevision' /\ Edi!Unsaved' = Edi!Unsaved
  BY <1>3, DraftStays
<1>7. TaskSound'
  BY <1>1 DEF TaskSound
<1>8. ReadSound'
  BY <1>1, <1>2, <1>6 DEF ReadSound, Covered
<1> QED BY <1>3, <1>4, <1>5, <1>6, <1>7, <1>8 DEF EditorInv, Edi!OpeningAsks

\* Each call and each answer keeps the invariant.
LEMMA EditorStep == ASSUME EditorInv, Edi!Next PROVE EditorInv'
<1>0. /\ EditorTypes /\ RevisionsFit /\ Edi!NothingTakenBack /\ DraftOnRevision /\ TaskSound /\ ReadSound
      /\ Edi!OpeningAsks /\ editor \in Selection
  BY DEF EditorInv, EditorTypes
<1>w. Edi!Unsaved \in Edi!Contents
  BY <1>0 DEF Selection, Edi!Unsaved, Edi!Contents
<1>a. ASSUME NEW e \in Items
      PROVE  /\ Edi!Asked(e) \in Edi!Contents
             /\ ~slipped /\ (e # editor.entry \/ ~editor.dirty) => Edi!Unsaved \subseteq Edi!Asked(e)
  <2>1. {} \in Edi!Contents
    BY DEF Edi!Contents
  <2> QED BY <1>0, <1>w, <2>1 DEF Edi!Asked, Edi!Confirmed, DraftOnRevision
<1>s. UNCHANGED drafts =>
        /\ drafts' \in [Items -> Draft] /\ Edi!NothingTakenBack' /\ Later
        /\ edits \in 0..MaxEdits /\ tasks \in 0..MaxTasks
        /\ \A x \in Items : drafts[x].rev \in Nat /\ drafts'[x].rev = drafts[x].rev
  BY DraftsStay
<1>f. UNCHANGED <<drafts, edits, tasks>> /\ (Unmade' = Unmade \/ Unmade' = 0) => RevisionsFit'
  <2> SUFFICES ASSUME UNCHANGED <<drafts, edits, tasks>>, Unmade' = Unmade \/ Unmade' = 0, NEW x \in Items
               PROVE  drafts'[x].rev + Unmade' <= 1 + edits' + tasks'
    BY DEF RevisionsFit
  <2>1. drafts[x].rev + Unmade <= 1 + edits + tasks /\ Unmade \in {0, 1}
    BY <1>0 DEF RevisionsFit, Unmade
  <2>2. drafts'[x].rev = drafts[x].rev /\ drafts[x].rev \in Nat /\ edits \in Nat /\ tasks \in Nat
    BY <1>s
  <2> QED BY <2>1, <2>2
<1>1. CASE Edi!Type \/ Edi!CopyProposal
  <2>1. /\ edits < MaxEdits /\ edits' = edits + 1
        /\ editor' = [editor EXCEPT !.draft = @ \cup {edits + 1}, !.dirty = TRUE]
        /\ UNCHANGED <<drafts, reading, task, tasks, lost>>
    BY <1>1 DEF Edi!Type, Edi!CopyProposal, Edi!Change
  <2>2. slipped' \in BOOLEAN /\ (~slipped' => ~slipped /\ task = None /\ reading = None)
    <3>1. CASE Edi!Type
      BY <1>0, <3>1 DEF Edi!Type, Edi!Inert, EditorTypes
    <3>2. CASE Edi!CopyProposal
      BY <3>2 DEF Edi!CopyProposal, Edi!Inert
    <3> QED BY <1>1, <3>1, <3>2
  <2>3. edits + 1 \in 1..MaxEdits /\ edits' \in 0..MaxEdits
    BY <1>s, <2>1, Bounded
  <2>4. /\ editor' \in Selection /\ editor'.entry = editor.entry /\ editor'.rev = editor.rev
        /\ editor.draft \subseteq editor'.draft /\ editor'.dirty = TRUE
    BY <1>0, <2>1, <2>3 DEF Selection, Edi!Contents
  <2>5. EditorTypes'
    BY <1>0, <1>s, <2>1, <2>2, <2>3, <2>4 DEF EditorTypes
  <2>6. RevisionsFit'
    <3>1. Unmade' = Unmade /\ Unmade \in {0, 1}
      BY <2>1 DEF Unmade
    <3>2. ASSUME NEW x \in Items PROVE drafts'[x].rev + Unmade' <= 1 + edits' + tasks'
      <4>1. drafts[x].rev + Unmade <= 1 + edits + tasks /\ drafts'[x].rev = drafts[x].rev /\ drafts[x].rev \in Nat
        BY <1>0, <1>s, <2>1 DEF RevisionsFit
      <4> QED BY <1>s, <2>1, <3>1, <4>1
    <3> QED BY <3>2 DEF RevisionsFit
  <2>7. DraftOnRevision'
    BY <1>0, <2>1, <2>4 DEF DraftOnRevision
  <2>8. TaskSound'
    BY <1>0, <2>1, <2>2, <2>4 DEF TaskSound
  <2>9. ReadSound'
    BY <1>0, <2>1, <2>2 DEF ReadSound, Covered
  <2> QED BY <1>0, <1>s, <2>1, <2>2, <2>5, <2>6, <2>7, <2>8, <2>9 DEF EditorInv, Edi!OpeningAsks
<1>2. ASSUME NEW e \in Items, Edi!Navigate(e) PROVE EditorInv'
  <2>1. /\ task = None /\ e # editor.entry /\ Edi!Read(e, Edi!Asked(e))
        /\ UNCHANGED <<drafts, editor, task, edits, tasks, lost, slipped>>
    BY <1>2 DEF Edi!Navigate
  <2>2. reading' \in ReadType /\ reading'.asked = Edi!Asked(e) /\ reading'.got = None
    BY <1>a, <2>1, ReadAsks
  <2>3. EditorTypes'
    BY <1>0, <2>1, <2>2 DEF EditorTypes
  <2>4. RevisionsFit'
    BY <1>f, <2>1 DEF Unmade
  <2>5. DraftOnRevision' /\ Edi!Unsaved' = Edi!Unsaved
    BY <1>s, <2>1, DraftStays
  <2>6. TaskSound' /\ ReadSound'
    BY <1>a, <2>1, <2>2, <2>5 DEF TaskSound, ReadSound, Covered
  <2> QED BY <1>0, <1>s, <2>1, <2>3, <2>4, <2>5, <2>6 DEF EditorInv, Edi!OpeningAsks
<1>3. CASE Edi!ServerReads
  <2>1. /\ reading # None /\ reading' = [reading EXCEPT !.got = drafts[reading.entry].rev]
        /\ UNCHANGED <<drafts, editor, task, edits, tasks, lost, slipped>>
    BY <1>3 DEF Edi!ServerReads
  <2>2. reading \in ReadType /\ drafts[reading.entry].rev \in Edi!Revision
    BY <1>0, <2>1 DEF EditorTypes, ReadType, Draft
  <2>3. /\ reading' \in ReadType /\ reading'.asked = reading.asked /\ reading'.entry = reading.entry
        /\ reading'.got = drafts[reading.entry].rev
    BY <2>1, <2>2 DEF ReadType
  <2>4. drafts[reading.entry].rev \in Nat
    BY <2>2 DEF Edi!Revision
  <2>5. EditorTypes'
    BY <1>0, <2>1, <2>3 DEF EditorTypes
  <2>6. RevisionsFit'
    BY <1>f, <2>1 DEF Unmade
  <2>7. DraftOnRevision' /\ Edi!Unsaved' = Edi!Unsaved
    BY <1>s, <2>1, DraftStays
  <2>8. TaskSound'
    <3>1. ~(task # None /\ task.step # "run")
      BY <1>0, <2>1 DEF TaskSound
    <3> QED BY <2>1, <3>1 DEF TaskSound
  <2>9. ReadSound'
    BY <1>0, <2>1, <2>3, <2>4, <2>7 DEF ReadSound, Covered
  <2> QED BY <1>0, <1>s, <2>1, <2>5, <2>6, <2>7, <2>8, <2>9 DEF EditorInv, Edi!OpeningAsks
<1>4. CASE Edi!ReadArrives
  <2>1. /\ reading # None /\ reading.got # None /\ editor' = Edi!Opened(reading.entry, reading.got)
        /\ lost' = IF Edi!Unsaved \subseteq reading.asked THEN lost
                   ELSE lost \cup {IF task = None THEN "navigation" ELSE task.kind}
        /\ reading' = None /\ task' = None /\ UNCHANGED <<drafts, edits, tasks, slipped>>
    BY <1>4 DEF Edi!ReadArrives
  <2>2. /\ reading.entry \in Items /\ reading.got \in Edi!Revision
        /\ drafts[reading.entry].contents[reading.got] \in Edi!Contents
    BY <1>0, <2>1 DEF EditorTypes, ReadType, Draft
  <2>3. /\ editor' \in Selection /\ editor'.entry = reading.entry /\ editor'.rev = reading.got
        /\ editor'.draft = drafts[reading.entry].contents[reading.got]
    BY <2>1, <2>2 DEF Selection, Edi!Opened
  <2>4. EditorTypes'
    BY <1>0, <2>1, <2>3 DEF EditorTypes
  <2>5. RevisionsFit'
    BY <1>f, <2>1 DEF Unmade
  <2>6. DraftOnRevision'
    BY <1>0, <2>1, <2>3 DEF DraftOnRevision, ReadSound, Edi!Unsaved
  <2>7. ~slipped => lost' \subseteq {"reload"}
    BY <1>0, <2>1 DEF ReadSound, Covered, Edi!OpeningAsks
  <2> QED BY <1>0, <1>s, <2>1, <2>4, <2>5, <2>6, <2>7 DEF EditorInv, TaskSound, ReadSound, Edi!OpeningAsks
<1>5. CASE Edi!ReadFails \/ Edi!TaskFails \/ Edi!Published
  <2>1. task' = None /\ reading' = None /\ UNCHANGED <<drafts, editor, edits, tasks, lost, slipped>>
    BY <1>0, <1>5 DEF Edi!ReadFails, Edi!TaskFails, Edi!Published, TaskSound
  <2>2. EditorTypes'
    BY <1>0, <2>1 DEF EditorTypes
  <2>3. RevisionsFit'
    BY <1>f, <2>1 DEF Unmade
  <2>4. DraftOnRevision'
    BY <1>s, <2>1, DraftStays
  <2> QED BY <1>0, <1>s, <2>1, <2>2, <2>3, <2>4 DEF EditorInv, TaskSound, ReadSound, Edi!OpeningAsks
<1>6. CASE Edi!Save
  BY <1>6, SaveBegins DEF Edi!Save
<1>7. CASE Edi!Publish
  BY <1>7, SaveBegins DEF Edi!Publish
<1>8. CASE Edi!ServerSaves
  <2>1. task # None /\ task.step = "save" /\ UNCHANGED <<editor, reading, edits, tasks, lost, slipped>>
    BY <1>8 DEF Edi!ServerSaves
  <2>2. /\ task \in TaskType /\ reading = None /\ task.entry = editor.entry
        /\ task.sent \subseteq editor.draft /\ (~slipped => editor.draft = task.sent)
        /\ drafts[task.entry].contents[task.rev] \subseteq task.sent
    BY <1>0, <2>1 DEF EditorTypes, TaskSound
  <2>3. CASE task.rev # drafts[task.entry].rev
    <3>1. task' = None /\ UNCHANGED drafts
      BY <1>8, <2>3 DEF Edi!ServerSaves
    <3>2. EditorTypes'
      BY <1>0, <2>1, <3>1 DEF EditorTypes
    <3>3. RevisionsFit'
      BY <1>f, <2>1, <3>1 DEF Unmade
    <3>4. DraftOnRevision'
      BY <1>s, <2>1, <3>1, DraftStays
    <3> QED BY <1>0, <1>s, <2>1, <2>2, <3>1, <3>2, <3>3, <3>4 DEF EditorInv, TaskSound, ReadSound, Edi!OpeningAsks
  <2>4. CASE task.rev = drafts[task.entry].rev
    <3> DEFINE next == [task EXCEPT !.step = "saved", !.rev = @ + 1]
    <3>1. /\ drafts' = [drafts EXCEPT ![task.entry] = Edi!Written(@, task.sent)] /\ task' = next
      BY <1>8, <2>4 DEF Edi!ServerSaves
    <3>2. /\ task.entry \in Items /\ task.sent \in Edi!Contents /\ task.rev \in Edi!Revision
          /\ drafts \in [Items -> Draft] /\ edits \in 0..MaxEdits /\ tasks \in 0..MaxTasks
      BY <1>0, <2>2 DEF TaskType, EditorTypes
    <3>3. /\ task.rev \in Nat
          /\ \A x \in Items : drafts[x].rev \in Nat /\ drafts[x].rev + 1 <= 1 + edits + tasks
      <4>1. task.rev \in Nat
        BY <3>2 DEF Edi!Revision
      <4>2. ASSUME NEW x \in Items PROVE drafts[x].rev \in Nat /\ drafts[x].rev + 1 <= 1 + edits + tasks
        <5>1. Unmade = 1
          BY <2>1 DEF Unmade
        <5> QED BY <1>0, <3>2, <5>1 DEF RevisionsFit, Draft, Edi!Revision
      <4> QED BY <4>1, <4>2
    <3>4. drafts[task.entry].rev + 1 \in Edi!Revision
      BY <3>2, <3>3, Bounded DEF Edi!Revision
    <3>5. /\ drafts' \in [Items -> Draft] /\ Edi!NothingTakenBack' /\ Later
          /\ drafts'[task.entry].rev = task.rev + 1
          /\ drafts'[task.entry].contents[task.rev + 1] = task.sent
          /\ \A x \in Items \ {task.entry} : drafts'[x] = drafts[x]
      <4> DEFINE n == drafts[task.entry].rev
      <4>1. /\ drafts' \in [Items -> Draft] /\ Edi!NothingTakenBack' /\ Later
            /\ drafts'[task.entry].rev = n + 1 /\ drafts'[task.entry].contents[n + 1] = task.sent
            /\ \A x \in Items \ {task.entry} : drafts'[x] = drafts[x]
        <5>1. drafts[task.entry].contents[drafts[task.entry].rev] \subseteq task.sent
          BY <2>2, <2>4
        <5> HIDE DEF next
        <5> QED BY <1>0, <3>1, <3>2, <3>4, <5>1, WriteKeeps
      <4> QED BY <2>4, <4>1
    <3>6. /\ next \in TaskType /\ next.step = "saved" /\ next.rev = task.rev + 1
          /\ next.entry = task.entry /\ next.sent = task.sent
      BY <2>2, <2>4, <3>4 DEF TaskType
    <3> HIDE DEF next
    <3>7. EditorTypes'
      BY <1>0, <2>1, <3>1, <3>5, <3>6 DEF EditorTypes
    <3>8. RevisionsFit'
      <4>1. Unmade' = 0
        BY <3>1, <3>6 DEF Unmade
      <4>2. ASSUME NEW x \in Items PROVE drafts'[x].rev <= 1 + edits + tasks /\ drafts'[x].rev \in Nat
        BY <2>4, <3>2, <3>3, <3>5
      <4> QED BY <2>1, <4>1, <4>2 DEF RevisionsFit
    <3>9. DraftOnRevision'
      BY <2>1, <3>5, DraftStays
    <3>10. TaskSound'
      <4>1. task.rev + 1 <= drafts'[task.entry].rev
        BY <3>3, <3>5
      <4> QED BY <2>1, <2>2, <3>1, <3>5, <3>6, <4>1 DEF TaskSound
    <3> QED BY <1>0, <2>1, <2>2, <3>5, <3>7, <3>8, <3>9, <3>10 DEF EditorInv, ReadSound, Edi!OpeningAsks
  <2> QED BY <2>3, <2>4
<1>9. CASE Edi!SaveAnswered
  <2>1. /\ task # None /\ task.step = "saved" /\ editor' = [editor EXCEPT !.rev = task.rev]
        /\ task' = [task EXCEPT !.step = "history"]
        /\ UNCHANGED <<drafts, reading, edits, tasks, lost, slipped>>
    BY <1>9 DEF Edi!SaveAnswered
  <2>2. /\ task \in TaskType /\ reading = None /\ task.entry = editor.entry
        /\ task.sent \subseteq editor.draft /\ task.rev <= drafts[task.entry].rev
        /\ (~slipped => editor.draft = task.sent)
        /\ drafts[task.entry].contents[task.rev] = task.sent
    BY <1>0, <2>1 DEF EditorTypes, TaskSound
  <2>3. /\ editor' \in Selection /\ editor'.entry = editor.entry /\ editor'.rev = task.rev
        /\ editor'.draft = editor.draft /\ editor'.dirty = editor.dirty
    <3>1. task.rev \in Edi!Revision
      BY <2>2 DEF TaskType
    <3> QED BY <1>0, <2>1, <3>1 DEF Selection
  <2>4. /\ task' \in TaskType /\ task'.step = "history" /\ task'.rev = task.rev /\ task'.entry = task.entry
        /\ task'.sent = task.sent
    BY <2>1, <2>2 DEF TaskType
  <2>5. EditorTypes'
    BY <1>0, <2>1, <2>3, <2>4 DEF EditorTypes
  <2>6. RevisionsFit'
    BY <1>f, <2>1, <2>4 DEF Unmade
  <2>7. DraftOnRevision'
    BY <2>1, <2>2, <2>3 DEF DraftOnRevision, Edi!Unsaved
  <2>8. TaskSound'
    BY <2>1, <2>2, <2>3, <2>4 DEF TaskSound
  <2> QED BY <1>0, <1>s, <2>1, <2>2, <2>5, <2>6, <2>7, <2>8 DEF EditorInv, ReadSound, Edi!OpeningAsks
<1>10. CASE Edi!SaveEnds
  <2>1. /\ task # None /\ task.step = "history" /\ editor' = [editor EXCEPT !.dirty = FALSE]
        /\ task' = IF task.kind = "publish" THEN [task EXCEPT !.step = "publish"] ELSE None
        /\ UNCHANGED <<drafts, reading, edits, tasks, lost, slipped>>
    BY <1>10 DEF Edi!SaveEnds
  <2>2. /\ task \in TaskType /\ reading = None /\ task.entry = editor.entry
        /\ task.sent \subseteq editor.draft /\ task.rev <= drafts[task.entry].rev
        /\ (~slipped => editor.draft = task.sent) /\ task.rev = editor.rev
        /\ drafts[task.entry].contents[task.rev] = task.sent
    BY <1>0, <2>1 DEF EditorTypes, TaskSound
  <2>3. /\ editor' \in Selection /\ editor'.entry = editor.entry /\ editor'.rev = editor.rev
        /\ editor'.draft = editor.draft
    BY <1>0, <2>1 DEF Selection
  <2>4. task' = None \/ (/\ task' \in TaskType /\ task'.step = "publish" /\ task'.rev = task.rev
                         /\ task'.entry = task.entry /\ task'.sent = task.sent)
    BY <2>1, <2>2 DEF TaskType
  <2>5. EditorTypes'
    BY <1>0, <2>1, <2>3, <2>4 DEF EditorTypes
  <2>6. RevisionsFit'
    BY <1>f, <2>1, <2>4 DEF Unmade
  <2>7. DraftOnRevision'
    BY <1>0, <2>1, <2>2, <2>3 DEF DraftOnRevision, Edi!Unsaved
  <2>8. TaskSound'
    BY <2>1, <2>2, <2>3, <2>4 DEF TaskSound
  <2> QED BY <1>0, <1>s, <2>1, <2>2, <2>5, <2>6, <2>7, <2>8 DEF EditorInv, ReadSound, Edi!OpeningAsks
<1>11. ASSUME NEW e \in Items, Edi!Create(e) PROVE EditorInv'
  BY <1>w, <1>11, RunBegins DEF Edi!Create
<1>12. ASSUME NEW e \in Items, Edi!Migrate(e) PROVE EditorInv'
  BY <1>a, <1>12, RunBegins DEF Edi!Migrate
<1>13. ASSUME NEW writes \in BOOLEAN, Edi!RunAndReload(writes) PROVE EditorInv'
  <2>1. editor.entry \in Items /\ {} \in Edi!Contents
    BY <1>0 DEF Selection, Edi!Contents
  <2>2. \/ UNCHANGED <<drafts, edits>>
        \/ /\ edits < MaxEdits /\ edits' = edits + 1
           /\ drafts' = [drafts EXCEPT ![editor.entry] = Edi!Written(@, Edi!Saved(editor.entry) \cup {edits + 1})]
    BY <1>13 DEF Edi!RunAndReload
  <2> QED BY <1>13, <2>1, <2>2, RunBegins DEF Edi!RunAndReload
<1> QED
  BY <1>1, <1>2, <1>3, <1>4, <1>5, <1>6, <1>7, <1>8, <1>9, <1>10, <1>11, <1>12, <1>13, OthersStep DEF Edi!Next

\* No save takes back what another saved, an editor without changes has none, and what an opening
\* drops was agreed to, whatever answers arrive late and whatever others save.
THEOREM EditsAlwaysSafe == Spec => []EditsSafe
<1> DEFINE Inv == service = "editor" => EditorInv
<1>1. Init => Inv
  BY EditorInit DEF Init
<1>2. Inv /\ [Next]_vars => Inv'
  <2>1. CASE UNCHANGED vars
    BY <2>1 DEF vars, editing, EditorInv, EditorTypes, RevisionsFit, Unmade, DraftOnRevision, TaskSound, ReadSound,
      Covered, Edi!NothingTakenBack, Edi!OpeningAsks, Edi!Unsaved
  <2>2. CASE Next
    <3>1. service' = service /\ (service = "editor" => Edi!Next)
      BY <2>2 DEF Next
    <3> QED BY <3>1, EditorStep
  <2> QED BY <2>1, <2>2
<1>3. Inv => EditsSafe
  BY DEF EditorInv, DraftOnRevision, EditsSafe, Edi!EditsSafe, Edi!CleanMeansSaved
<1> QED BY <1>1, <1>2, <1>3, PTL DEF Spec
=============================================================================
