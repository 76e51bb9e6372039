---------------------------- MODULE Marketplace ----------------------------
(***************************************************************************)
(* The catalog of plugin releases of one scope: a publisher proves its     *)
(* domain and is approved by another person; its releases are inspected,   *)
(* approved, rejected and yanked.  The document is written by compare-and- *)
(* swap with retries, so an action on it is atomic; the DNS query and the  *)
(* inspection of an artifact lie between a read and the write that uses it.*)
(***************************************************************************)
EXTENDS Naturals

CONSTANTS People, Releases, None,
          MaxToken     \* bound on the challenges that are issued

PubState == {"none", "pending", "verified", "suspended"}
RelState == {"none", "submitted", "reviewed", "approved", "rejected", "yanked"}
Verdict  == {"none", "passed", "blocked", "error"}

VARIABLES
  pub,         \* the publisher; challenge and proof are numbers of challenges
  rel,         \* the releases, each with its latest review
  asking,      \* the challenge that is being looked up in the DNS, 0 for none
  inspecting   \* per person: the release whose artifact is being inspected

mvars == <<pub, rel, asking, inspecting>>

Publisher == [state : PubState, by : People \cup {None}, challenge : 0..MaxToken,
              proof : 0..MaxToken]
Release   == [state : RelState, by : People \cup {None}, verdict : Verdict,
              reviewer : People \cup {None}, approver : People \cup {None}]

Init ==
  /\ pub = [state |-> "none", by |-> None, challenge |-> 0, proof |-> 0]
  /\ rel = [r \in Releases |-> [state |-> "none", by |-> None, verdict |-> "none",
                                reviewer |-> None, approver |-> None]]
  /\ asking = 0
  /\ inspecting = [x \in People |-> None]

OnlyPub == UNCHANGED <<rel, asking, inspecting>>
OnlyRel == UNCHANGED <<pub, asking, inspecting>>

-----------------------------------------------------------------------------
RegisterPublisher(x) ==
  /\ pub.state = "none"
  /\ pub' = [state |-> "pending", by |-> x, challenge |-> 0, proof |-> 0]
  /\ OnlyPub

\* A new challenge voids the proof of the one before.
IssueDomainChallenge ==
  /\ pub.state = "pending" /\ pub.challenge < MaxToken
  /\ pub' = [pub EXCEPT !.challenge = @ + 1, !.proof = 0]
  /\ OnlyPub

\* verifyPublisherDomain: the challenge is read, looked up, and compared again
\* when the answer is recorded.
AskDomain ==
  /\ asking = 0 /\ pub.state = "pending" /\ pub.challenge # 0
  /\ asking' = pub.challenge
  /\ UNCHANGED <<pub, rel, inspecting>>

SameChallenge(token) == pub.state = "pending" /\ pub.challenge = token

AnswerDomain(found) ==
  /\ asking # 0
  /\ asking' = 0
  /\ pub' = IF found /\ SameChallenge(asking) THEN [pub EXCEPT !.proof = asking] ELSE pub
  /\ UNCHANGED <<rel, inspecting>>

ApprovePublisher(x) ==
  /\ pub.state = "pending" /\ pub.proof # 0 /\ pub.by # x
  /\ pub' = [pub EXCEPT !.state = "verified", !.challenge = 0]
  /\ OnlyPub

SuspendPublisher ==
  /\ pub.state \in {"pending", "verified"}
  /\ pub' = [pub EXCEPT !.state = "suspended", !.challenge = 0]
  /\ OnlyPub

-----------------------------------------------------------------------------
SubmitRelease(x, r) ==
  /\ pub.state = "verified" /\ rel[r].state = "none"
  /\ rel' = [rel EXCEPT ![r].state = "submitted", ![r].by = x]
  /\ OnlyRel

\* reviewRelease up to the inspection of the artifact
BeginReview(x, r) ==
  /\ inspecting[x] = None /\ rel[r].state \in {"submitted", "reviewed"}
  /\ inspecting' = [inspecting EXCEPT ![x] = r]
  /\ UNCHANGED <<pub, rel, asking>>

\* The review is recorded whatever became of the release in the meantime.
ReviewedKeepingDecision(s, v) == IF s \in {"submitted", "reviewed"}  \* Mutant: a decision stays,
  THEN (IF v = "passed" THEN "reviewed" ELSE "submitted") ELSE s     \* with another review below it.
StateAfterReview(s, v) == IF v = "passed" THEN "reviewed" ELSE "submitted"

EndReview(x, v) ==
  LET r == inspecting[x]
  IN  /\ r # None
      /\ v = "passed" => pub.state = "verified"
      /\ rel' = [rel EXCEPT ![r].state = StateAfterReview(@, v),
                            ![r].verdict = v, ![r].reviewer = x]
      /\ inspecting' = [inspecting EXCEPT ![x] = None]
      /\ UNCHANGED <<pub, asking>>

\* The age of the review may refuse the approval as well.
ApproveRelease(x, r) ==
  /\ rel[r].state = "reviewed" /\ rel[r].verdict = "passed"
  /\ x \notin {rel[r].by, rel[r].reviewer}
  /\ pub.state = "verified"
  /\ rel' = [rel EXCEPT ![r].state = "approved", ![r].approver = x]
  /\ OnlyRel

RejectRelease(r) ==
  /\ rel[r].state \in {"submitted", "reviewed"}
  /\ rel' = [rel EXCEPT ![r].state = "rejected"]
  /\ OnlyRel

YankRelease(r) ==
  /\ rel[r].state = "approved"
  /\ rel' = [rel EXCEPT ![r].state = "yanked"]
  /\ OnlyRel

\* getApprovedRelease and trustedPublisher, as the installation asks for them
Eligible(r) == rel[r].state = "approved" /\ rel[r].verdict = "passed" /\ pub.state = "verified"

TrustsAny == pub.state # "none"   \* Mutant: the state of the publisher is not looked at.
Trusted   == pub.state = "verified"

Next ==
  \/ \E x \in People : \/ RegisterPublisher(x) \/ ApprovePublisher(x)
                       \/ \E r \in Releases : \/ SubmitRelease(x, r) \/ BeginReview(x, r)
                                              \/ ApproveRelease(x, r)
                       \/ \E v \in Verdict \ {"none"} : EndReview(x, v)
  \/ IssueDomainChallenge \/ AskDomain \/ SuspendPublisher
  \/ \E b \in BOOLEAN : AnswerDomain(b)
  \/ \E r \in Releases : RejectRelease(r) \/ YankRelease(r)

-----------------------------------------------------------------------------
TypeOK ==
  /\ pub \in Publisher
  /\ rel \in [Releases -> Release]
  /\ asking \in 0..MaxToken
  /\ inspecting \in [People -> Releases \cup {None}]

\* What the trust in the catalog rests on, with lookups, inspections and
\* decisions under way at once: the proof of a pending publisher is of its
\* current challenge, and an approved release carries a passing latest review
\* by someone other than the approver.
TrustIsEarned ==
  /\ pub.state = "pending" /\ pub.proof # 0 => pub.proof = pub.challenge
  /\ \A r \in Releases : rel[r].state = "approved" =>
       rel[r].verdict = "passed" /\ rel[r].approver \notin {rel[r].by, rel[r].reviewer}

\* docs/adr/0016-evidence-bound-marketplace.md:32 counts the rejection and the
\* yanking of a release among what blocks its installation in the future: a
\* withdrawn release stays withdrawn.
StaysWithdrawn ==
  \A r \in Releases : rel[r].state \in {"rejected", "yanked"} => rel'[r].state = rel[r].state
WithdrawnStays == [][StaysWithdrawn]_mvars
=============================================================================
