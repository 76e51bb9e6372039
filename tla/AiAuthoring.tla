---------------------------- MODULE AiAuthoring ----------------------------
(***************************************************************************)
(* Authoring proposals over the AI gateway: an author asks for suggestions *)
(* on a revision of a draft; what the gateway returns is evaluated and     *)
(* kept for one review by a person.  The document is versioned: `current`  *)
(* says of an author or a reviewer that it has not been written since it   *)
(* was read.                                                               *)
(***************************************************************************)
EXTENDS Naturals

CONSTANTS Authors, Reviewers, Proposals, None,
          MaxRev      \* bound on the revisions of the draft

Policies == 0..2      \* the enabled actions; 0 disables authoring
Decided  == {"approved", "rejected", "stale"}
PStatus  == {"none", "pending", "failed"} \cup Decided

VARIABLES
  auth,       \* the authoring document: policy and proposals
  drafted,     \* the revision of the target's draft
  author,     \* per author: the proposal that is being generated
  reviewer    \* per reviewer: the review under way

avars == <<auth, drafted, author, reviewer>>

Proposal == [status : PStatus, rev : 0..MaxRev]

NoAuthor == [pc |-> "idle", id |-> None, policy |-> 0, rev |-> 0]
NoReview == [pc |-> "idle", id |-> None, verdict |-> "rejected", current |-> FALSE]

Init ==
  /\ auth = [policy |-> 0, proposals |-> [i \in Proposals |-> [status |-> "none", rev |-> 0]]]
  /\ drafted = 1
  /\ author = [a \in Authors |-> NoAuthor]
  /\ reviewer = [r \in Reviewers |-> NoReview]

Outdated == [r \in Reviewers |-> [reviewer[r] EXCEPT !.current = FALSE]]

-----------------------------------------------------------------------------
\* Prompts, fields and adapters are looked up first.
UpdatePolicy(policy) ==
  /\ auth' = [auth EXCEPT !.policy = policy]
  /\ reviewer' = Outdated
  /\ UNCHANGED <<drafted, author>>

\* createProposal, up to the call of the gateway; a request has one proposal.
CreateProposal(a, id) ==
  /\ author[a].pc = "idle" /\ auth.policy # 0
  /\ author' = [author EXCEPT ![a] = [pc |-> "generate", id |-> id, policy |-> auth.policy,
                                      rev |-> drafted]]
  /\ UNCHANGED <<auth, drafted, reviewer>>

\* The gateway refuses, or its result is incomplete or outside the contract.
GatewayFails(a) ==
  /\ author[a].pc = "generate"
  /\ author' = [author EXCEPT ![a] = NoAuthor]
  /\ UNCHANGED <<auth, drafted, reviewer>>

\* The result is evaluated and stored, if authoring is enabled and the action
\* is as it was when the request began.
Storable(a) ==
  /\ auth.policy = author[a].policy
  /\ auth.proposals[author[a].id].status = "none"

StoreProposal(a, passed) ==
  /\ author[a].pc = "generate"
  /\ IF Storable(a)
     THEN /\ auth' = [auth EXCEPT !.proposals[author[a].id] =
                [status |-> IF passed THEN "pending" ELSE "failed", rev |-> author[a].rev]]
          /\ reviewer' = Outdated
     ELSE UNCHANGED <<auth, reviewer>>
  /\ author' = [author EXCEPT ![a] = NoAuthor]
  /\ UNCHANGED drafted

-----------------------------------------------------------------------------
\* reviewProposal: the document is read, then the target of an approval, then
\* the document is replaced if it is still the one that was read.
OpenReview(r, id, decision) ==
  /\ reviewer[r].pc = "idle" /\ auth.proposals[id].status = "pending"
  /\ reviewer' = [reviewer EXCEPT ![r] =
       [pc |-> IF decision = "approved" THEN "target" ELSE "save", id |-> id,
        verdict |-> decision, current |-> TRUE]]
  /\ UNCHANGED <<auth, drafted, author>>

CheckTarget(r) ==
  /\ reviewer[r].pc = "target"
  /\ reviewer' = [reviewer EXCEPT ![r].pc = "save",
       ![r].verdict = IF auth.proposals[reviewer[r].id].rev = drafted THEN @ ELSE "stale"]
  /\ UNCHANGED <<auth, drafted, author>>

MayDecideAnyway(r) == TRUE     \* Mutant: the version is not compared.
MayDecide(r) == reviewer[r].current

ReviewProposal(r) ==
  /\ reviewer[r].pc = "save"
  /\ auth' = IF MayDecide(r)
             THEN [auth EXCEPT !.proposals[reviewer[r].id].status = reviewer[r].verdict] ELSE auth
  /\ reviewer' = [(IF MayDecide(r) THEN Outdated ELSE reviewer) EXCEPT ![r] = NoReview]
  /\ UNCHANGED <<drafted, author>>

\* Editors save the draft.
EditTarget ==
  /\ drafted < MaxRev
  /\ drafted' = drafted + 1
  /\ UNCHANGED <<auth, author, reviewer>>

Next ==
  \/ \E p \in Policies : UpdatePolicy(p)
  \/ \E a \in Authors : \/ GatewayFails(a)
                        \/ \E id \in Proposals : CreateProposal(a, id)
                        \/ \E b \in BOOLEAN : StoreProposal(a, b)
  \/ \E r \in Reviewers : \/ CheckTarget(r) \/ ReviewProposal(r)
                          \/ \E id \in Proposals, d \in {"approved", "rejected"} : OpenReview(r, id, d)
  \/ EditTarget

-----------------------------------------------------------------------------
TypeOK ==
  /\ auth \in [policy : Policies, proposals : [Proposals -> Proposal]]
  /\ drafted \in 1..MaxRev
  /\ author \in [Authors -> [pc : {"idle", "generate"}, id : Proposals \cup {None},
                             policy : Policies, rev : 0..MaxRev]]
  /\ reviewer \in [Reviewers -> [pc : {"idle", "target", "save"}, id : Proposals \cup {None},
                                 verdict : Decided, current : BOOLEAN]]

\* A proposal is decided once: two reviewers at the same time, a policy or a
\* proposal stored in between, and the same request answered twice never
\* change a decision, nor the revision that was decided on.
DecidedStays ==
  \A id \in Proposals : auth.proposals[id].status \in Decided \cup {"failed"} =>
    auth'.proposals[id] = auth.proposals[id]
=============================================================================
