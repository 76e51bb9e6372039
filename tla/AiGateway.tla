----------------------------- MODULE AiGateway -----------------------------
(***************************************************************************)
(* The governed gateway to an AI provider: models, prompts, a switch and a *)
(* daily budget in one versioned document per scope.  A request reserves   *)
(* what it may cost before the provider is called and settles afterwards,  *)
(* perhaps on another day, after the switch was turned, or never.          *)
(*                                                                         *)
(* Writes are compare-and-swap with retries, so an action on gw is atomic. *)
(***************************************************************************)
EXTENDS Naturals, Sequences, SequencesExt

CONSTANTS Callers, Ids, None,
          MaxDay, MaxPrompt, MaxCost, Budgets,
          MaxReceipts     \* resourceLimits.aiGateway.maximumRequestReceipts

Days   == 1..MaxDay
Status == {"reserved", "succeeded", "failed"}
Models == {"absent", "off", "on"}

VARIABLES
  gw,       \* the gateway document
  today,    \* the UTC day
  call,     \* per caller: the request under way
  billed    \* per day: what the provider charged for requests reserved on it

gvars == <<gw, today, call, billed>>

Receipt == [id : Ids, day : Days, reserved : 1..MaxCost, status : Status]

NoCall == [pc |-> "idle", id |-> None, prompt |-> 0, cost |-> 0, actual |-> 0, day |-> 1]

Init ==
  /\ gw = [enabled |-> FALSE, model |-> "absent", prompts |-> 0, active |-> 0,
           budget |-> 0, used |-> [d \in Days |-> 0], receipts |-> <<>>]
  /\ today = 1
  /\ call = [c \in Callers |-> NoCall]
  /\ billed = [d \in Days |-> 0]

Going(c, pc) == call' = [call EXCEPT ![c].pc = pc]
Manages == UNCHANGED <<today, call, billed>>

-----------------------------------------------------------------------------
\* Operations of administrators; each names the version it was shown.
UpdatePolicy(model, budget) ==
  /\ gw' = [gw EXCEPT !.model = model, !.budget = budget]
  /\ Manages

CreatePromptVersion ==
  /\ gw.prompts < MaxPrompt /\ gw.model # "absent"
  /\ gw' = [gw EXCEPT !.prompts = @ + 1]
  /\ Manages

ActivatePrompt(version) ==
  /\ version \in 1..gw.prompts
  /\ gw' = [gw EXCEPT !.active = version]
  /\ Manages

SetState(enabled) ==
  /\ enabled => gw.active # 0
  /\ gw' = [gw EXCEPT !.enabled = enabled]
  /\ Manages

-----------------------------------------------------------------------------
\* What a request must meet when it arrives, when it reserves and when it
\* settles.
ExecutionPolicy(prompt) == gw.enabled /\ gw.active = prompt /\ gw.model = "on"

Received(id) == \E i \in DOMAIN gw.receipts : gw.receipts[i].id = id

\* execute up to the estimate of the provider, which may fail or be too high.
\* A client may send a request twice at once, but does not use the id again
\* while the provider is working on it.
Begin(c, id) ==
  /\ call[c].pc = "idle"
  /\ \A other \in Callers : call[other].id = id => call[other].pc = "estimate"
  /\ ~Received(id) /\ gw.active # 0 /\ ExecutionPolicy(gw.active)
  /\ call' = [call EXCEPT ![c] = [NoCall EXCEPT !.pc = "estimate", !.id = id,
                                                !.prompt = gw.active]]
  /\ UNCHANGED <<gw, today, billed>>

\* #reserve; the oldest receipts beyond the limit are cut off.
LastOf(receipts) ==
  SubSeq(receipts, IF Len(receipts) > MaxReceipts THEN Len(receipts) - MaxReceipts + 1 ELSE 1,
         Len(receipts))

\* A thousand receipts are kept: no receipt is cut off while a repetition of
\* its request is still being estimated.
KeepsRepeated(receipts) ==
  \A c \in Callers : call[c].pc = "estimate" /\ Received(call[c].id) =>
    \E i \in DOMAIN receipts : receipts[i].id = call[c].id

Receive(receipt) == LastOf(Append(gw.receipts, receipt))

Reserve(c, cost) ==
  LET receipts == Receive([id |-> call[c].id, day |-> today, reserved |-> cost, status |-> "reserved"])
  IN
  /\ call[c].pc = "estimate"
  /\ IF ExecutionPolicy(call[c].prompt) /\ ~Received(call[c].id)
        /\ gw.used[today] + cost <= gw.budget
     THEN /\ KeepsRepeated(receipts)
          /\ gw' = [gw EXCEPT !.used[today] = @ + cost, !.receipts = receipts]
          /\ call' = [call EXCEPT ![c].pc = "generate", ![c].cost = cost, ![c].day = today]
     ELSE call' = [call EXCEPT ![c] = NoCall] /\ UNCHANGED gw
  /\ UNCHANGED <<today, billed>>

\* The provider charges no more than was reserved for a result that is kept;
\* the result may come too late, be malformed or exceed the reservation.
Generate(c, actual, valid) ==
  /\ call[c].pc = "generate" /\ actual <= call[c].cost
  /\ billed' = [billed EXCEPT ![call[c].day] = @ + actual]
  /\ call' = [call EXCEPT ![c].pc = IF valid THEN "settle" ELSE "fail", ![c].actual = actual]
  /\ UNCHANGED <<gw, today>>

RefundToday(receipt) == today   \* Mutant: the rest goes to the day of the settlement.

\* #succeed: the rest of the reservation goes back to the day it was made on.
RefundDay(receipt) == receipt.day

Reserved(id) == {i \in DOMAIN gw.receipts :
                   gw.receipts[i].id = id /\ gw.receipts[i].status = "reserved"}

\* The receipt of a call, which covers what the provider charged.
Settled(c) == {i \in Reserved(call[c].id) : call[c].actual <= gw.receipts[i].reserved}

Succeed(c) ==
  /\ call[c].pc = "settle"
  /\ IF ExecutionPolicy(call[c].prompt) /\ Settled(c) # {}
     THEN \E i \in Settled(c) :
            /\ gw' = [gw EXCEPT
                  !.used[RefundDay(gw.receipts[i])] = @ - (gw.receipts[i].reserved - call[c].actual),
                  !.receipts[i].status = "succeeded"]
            /\ Going(c, "answered")
     ELSE Going(c, "fail") /\ UNCHANGED gw
  /\ UNCHANGED <<today, billed>>

\* #fail keeps the reservation on the books.
Fail(c) ==
  /\ call[c].pc = "fail"
  /\ gw' = [gw EXCEPT !.receipts = [i \in DOMAIN @ |->
              IF i \in Reserved(call[c].id) THEN [@[i] EXCEPT !.status = "failed"] ELSE @[i]]]
  /\ call' = [call EXCEPT ![c] = NoCall]
  /\ UNCHANGED <<today, billed>>

\* The connection or the process is lost: the receipt stays reserved.
Abandon(c) ==
  /\ call[c].pc # "idle"
  /\ call' = [call EXCEPT ![c] = NoCall]
  /\ UNCHANGED <<gw, today, billed>>

DayPasses ==
  /\ today < MaxDay
  /\ today' = today + 1
  /\ UNCHANGED <<gw, call, billed>>

\* What execute returned is delivered.
Deliver(c) ==
  /\ call[c].pc = "answered"
  /\ call' = [call EXCEPT ![c] = NoCall]
  /\ UNCHANGED <<gw, today, billed>>

Next ==
  \/ \E m \in Models, b \in Budgets : UpdatePolicy(m, b)
  \/ CreatePromptVersion \/ DayPasses
  \/ \E v \in 1..MaxPrompt : ActivatePrompt(v)
  \/ \E b \in BOOLEAN : SetState(b)
  \/ \E c \in Callers : \/ Succeed(c) \/ Fail(c) \/ Abandon(c) \/ Deliver(c)
                        \/ \E id \in Ids : Begin(c, id)
                        \/ \E n \in 1..MaxCost : Reserve(c, n)
                        \/ \E n \in 0..MaxCost, v \in BOOLEAN : Generate(c, n, v)

-----------------------------------------------------------------------------
TypeOK ==
  /\ gw.enabled \in BOOLEAN /\ gw.model \in Models /\ gw.budget \in Budgets \cup {0}
  /\ gw.prompts \in 0..MaxPrompt /\ gw.active \in 0..gw.prompts
  /\ \A i \in DOMAIN gw.receipts : gw.receipts[i] \in Receipt
  /\ Len(gw.receipts) <= MaxReceipts
  /\ \A c \in Callers : call[c].pc \in {"idle", "estimate", "generate", "settle", "fail", "answered"}

\* The books of a day cover what the provider charged for the requests
\* reserved on it, whether they were settled, failed, cut off the receipts,
\* left behind by a crash or finished on the next day.
BudgetCovers == \A d \in Days : gw.used[d] >= billed[d]
=============================================================================
