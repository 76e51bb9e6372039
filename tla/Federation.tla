----------------------------- MODULE Federation -----------------------------
(***************************************************************************)
(* Content federation: a producer offers published records, a consumer     *)
(* pins the offer in an agreement and mirrors what it says by plans that   *)
(* are previewed, then executed by digest.  The consumer's document is     *)
(* written by compare-and-swap: `current` says of an operator that it has  *)
(* not been written since the operator read it.                            *)
(***************************************************************************)
EXTENDS Naturals

CONSTANTS Stewards, SyncPlans, None,
          MaxSeq,        \* bound on the revisions of the source record
          MaxOffer, MaxAgreement

Actions == {"none", "create", "update", "noop", "withdraw", "blocked"}
SyncState == {"none", "preview", "executing", "completed", "failed"}

VARIABLES
  origin,    \* the producer: its offer, and the record with its revision sequence
  agreed,    \* the consumer's agreement: version, state and pinned offer
  mirror,    \* the consumer's mirror of the record
  syncs,     \* the consumer's synchronization plans
  steward    \* per operator: what is under way

fvars == <<origin, agreed, mirror, syncs, steward>>

Offering  == [offer : 1..MaxOffer, enabled : BOOLEAN, seq : 1..MaxSeq, live : BOOLEAN]
Agreement == [version : 0..MaxAgreement, state : {"none", "active", "disabled"},
              offer : 0..MaxOffer]
Mirror    == [state : {"none", "active", "withdrawn"}, seq : 0..MaxSeq]

NoEffect == [action |-> "none", seq |-> 0]
NoSync   == [state |-> "none", agreement |-> 0, effect |-> NoEffect]
AtRest   == [pc |-> "idle", plan |-> None, offer |-> 0, effect |-> NoEffect, agreement |-> 0,
             current |-> FALSE]

Init ==
  /\ origin = [offer |-> 1, enabled |-> TRUE, seq |-> 1, live |-> TRUE]
  /\ agreed = [version |-> 0, state |-> "none", offer |-> 0]
  /\ mirror = [state |-> "none", seq |-> 0]
  /\ syncs = [p \in SyncPlans |-> NoSync]
  /\ steward = [o \in Stewards |-> AtRest]

\* A write of the document makes it newer than what the others have read.
Wrote(o, mine) == [x \in Stewards |->
                     IF x = o THEN mine ELSE [steward[x] EXCEPT !.current = FALSE]]

-----------------------------------------------------------------------------
\* The producer.

UpsertOffer(enabled) ==
  /\ origin.offer < MaxOffer
  /\ origin' = [origin EXCEPT !.offer = @ + 1, !.enabled = enabled]
  /\ UNCHANGED <<agreed, mirror, syncs, steward>>

\* The record is published again, or is published no longer.
PublishRecord ==
  /\ origin.seq < MaxSeq
  /\ origin' = [origin EXCEPT !.seq = @ + 1, !.live = TRUE]
  /\ UNCHANGED <<agreed, mirror, syncs, steward>>

WithdrawRecord ==
  /\ origin.live
  /\ origin' = [origin EXCEPT !.live = FALSE]
  /\ UNCHANGED <<agreed, mirror, syncs, steward>>

-----------------------------------------------------------------------------
\* The consumer's agreement.

\* inspectAgreement: the signed offer is fetched between read and write.
ReadOffer(o) ==
  /\ steward[o].pc = "idle" /\ origin.enabled
  /\ steward' = [steward EXCEPT ![o] = [AtRest EXCEPT !.pc = "pin", !.offer = origin.offer,
                                                      !.current = TRUE]]
  /\ UNCHANGED <<origin, agreed, mirror, syncs>>

InspectAgreement(o) ==
  /\ steward[o].pc = "pin"
  /\ IF steward[o].current
     THEN /\ agreed.version < MaxAgreement
          /\ agreed' = [version |-> agreed.version + 1, state |-> "disabled",
                        offer |-> steward[o].offer]
          /\ steward' = Wrote(o, AtRest)
     ELSE steward' = [steward EXCEPT ![o] = AtRest] /\ UNCHANGED agreed
  /\ UNCHANGED <<origin, mirror, syncs>>

SetAgreementState(state) ==
  /\ state \in {"active", "disabled"}
  /\ agreed.version \in 1..(MaxAgreement - 1)
  /\ agreed' = [agreed EXCEPT !.state = state, !.version = @ + 1]
  /\ steward' = Wrote(None, AtRest)
  /\ UNCHANGED <<origin, mirror, syncs>>

-----------------------------------------------------------------------------
\* A signed snapshot of the pinned offer can be had, and what it means for the
\* mirror.
SnapshotValid == origin.enabled /\ origin.offer = agreed.offer

SyncEffect ==
  [seq |-> IF origin.live THEN origin.seq ELSE mirror.seq,
   action |-> IF ~origin.live THEN IF mirror.state = "active" THEN "withdraw" ELSE "none"
              ELSE IF mirror.state = "none" THEN "create"
              ELSE IF origin.seq < mirror.seq THEN "blocked"
              ELSE IF mirror.state # "active" \/ origin.seq # mirror.seq THEN "update" ELSE "noop"]

PlanSync(o, p) ==
  /\ steward[o].pc = "idle" /\ syncs[p].state = "none"
  /\ agreed.state = "active" /\ SnapshotValid
  /\ steward' = [steward EXCEPT ![o] = [AtRest EXCEPT !.pc = "store", !.plan = p,
                   !.effect = SyncEffect, !.agreement = agreed.version, !.current = TRUE]]
  /\ UNCHANGED <<origin, agreed, mirror, syncs>>

StoreSync(o) ==
  /\ steward[o].pc = "store"
  /\ IF steward[o].current
     THEN /\ syncs' = [syncs EXCEPT ![steward[o].plan] =
               [state |-> "preview", agreement |-> steward[o].agreement, effect |-> steward[o].effect]]
          /\ steward' = Wrote(o, AtRest)
     ELSE steward' = [steward EXCEPT ![o] = AtRest] /\ UNCHANGED syncs
  /\ UNCHANGED <<origin, agreed, mirror>>

-----------------------------------------------------------------------------
AnyAgreement(p) == TRUE    \* Mutant: the version of the agreement is not compared at the end.

\* executeSync: an expired plan is refused, a completed one has its receipt.
SameAgreement(p) == agreed.version = syncs[p].agreement

ExecuteSync(o, p) ==
  /\ steward[o].pc = "idle" /\ syncs[p].state \in {"preview", "executing"}
  /\ syncs[p].effect.action # "blocked"
  /\ agreed.state = "active" /\ agreed.version = syncs[p].agreement
  /\ steward' = [steward EXCEPT ![o] = [AtRest EXCEPT !.plan = p, !.current = TRUE,
                   !.pc = IF syncs[p].state = "preview" THEN "claim" ELSE "read"]]
  /\ UNCHANGED <<origin, agreed, mirror, syncs>>

ClaimSync(o) ==
  /\ steward[o].pc = "claim"
  /\ IF steward[o].current
     THEN /\ syncs' = [syncs EXCEPT ![steward[o].plan].state = "executing"]
          /\ steward' = Wrote(o, [steward[o] EXCEPT !.pc = "read"])
     ELSE steward' = [steward EXCEPT ![o] = AtRest] /\ UNCHANGED syncs
  /\ UNCHANGED <<origin, agreed, mirror>>

\* The second read of the source: it must have the effects of the preview.
ReadAgain(o) ==
  LET p == steward[o].plan
      same == SnapshotValid /\ SyncEffect = syncs[p].effect
  IN  /\ steward[o].pc = "read"
      /\ steward' = [steward EXCEPT ![o].pc = IF same THEN "apply" ELSE "fail"]
      /\ UNCHANGED <<origin, agreed, mirror, syncs>>

\* The effects go into the document as it is by now.
ApplySync(o) ==
  LET p == steward[o].plan
      effect == syncs[p].effect
  IN  /\ steward[o].pc = "apply"
      /\ IF syncs[p].state = "executing" /\ SameAgreement(p)
         THEN /\ mirror' = CASE effect.action = "withdraw" -> [mirror EXCEPT !.state = "withdrawn"]
                             [] effect.action \in {"create", "update"} ->
                                  [state |-> "active", seq |-> effect.seq]
                             [] OTHER -> mirror
              /\ syncs' = [syncs EXCEPT ![p].state = "completed"]
              /\ steward' = Wrote(o, AtRest)
         ELSE /\ steward' = [steward EXCEPT ![o].pc = "fail"]
              /\ UNCHANGED <<mirror, syncs>>
      /\ UNCHANGED <<origin, agreed>>

\* #markPlanFailed ignores a conflict.
MarkPlanFailed(o, conflict) ==
  LET p == steward[o].plan
  IN  /\ steward[o].pc = "fail"
      /\ IF conflict \/ syncs[p].state = "completed"
         THEN steward' = [steward EXCEPT ![o] = AtRest] /\ UNCHANGED syncs
         ELSE syncs' = [syncs EXCEPT ![p].state = "failed"] /\ steward' = Wrote(o, AtRest)
      /\ UNCHANGED <<origin, agreed, mirror>>

Crash(o) ==
  /\ steward[o].pc # "idle"
  /\ steward' = [steward EXCEPT ![o] = AtRest]
  /\ UNCHANGED <<origin, agreed, mirror, syncs>>

\* publicRecord of a mirror agreement
Served == IF agreed.state = "active" /\ mirror.state = "active" THEN mirror.seq ELSE 0

Next ==
  \/ \E b \in BOOLEAN : UpsertOffer(b)
  \/ PublishRecord \/ WithdrawRecord
  \/ \E s \in {"active", "disabled"} : SetAgreementState(s)
  \/ \E o \in Stewards :
       \/ ReadOffer(o) \/ InspectAgreement(o) \/ StoreSync(o) \/ ClaimSync(o)
       \/ ReadAgain(o) \/ ApplySync(o) \/ Crash(o)
       \/ \E p \in SyncPlans : PlanSync(o, p) \/ ExecuteSync(o, p)
       \/ \E b \in BOOLEAN : MarkPlanFailed(o, b)

-----------------------------------------------------------------------------
TypeOK ==
  /\ origin \in Offering /\ agreed \in Agreement /\ mirror \in Mirror
  /\ \A p \in SyncPlans : syncs[p].state \in SyncState /\ syncs[p].effect.action \in Actions

\* An agreement that was disabled or inspected anew keeps what it had: no
\* synchronization that was reviewed under an earlier version, however far it
\* had come, changes the mirror, or what one version of the agreement serves.
AgreementBinds ==
  mirror' # mirror \/ (Served' # Served /\ agreed'.version = agreed.version) =>
    /\ agreed.state = "active"
    /\ \E p \in SyncPlans : /\ syncs[p].state = "executing" /\ syncs'[p].state = "completed"
                            /\ syncs[p].agreement = agreed.version

\* docs/content-federation-and-syndication.md:103 says that a regression of the
\* source's revisions is blocked rather than overwriting the mirror.
SequenceAdvances == mirror'.seq >= mirror.seq
MirrorAdvances == [][SequenceAdvances]_fvars
=============================================================================
