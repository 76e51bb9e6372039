--------------------------- MODULE StudioHistory ---------------------------
(***************************************************************************)
(* The adapter that ties the locations of the Studio to the history of the *)
(* browser.  A traversal has moved the browser by the time the Studio is   *)
(* asked for permission, which takes a while; what it refuses is undone by *)
(* another traversal, which the browser carries out later.  Each slot that *)
(* the adapter wrote carries an index of its epoch; others carry none.     *)
(***************************************************************************)
EXTENDS Integers, Sequences

CONSTANTS
  Hashes,           \* addresses in canonical form
  MaxSlots,         \* bound on the slots of the browser's history
  MaxGoing,         \* bound on the traversals under way
  None

VARIABLES
  browser,          \* its slots, the current one, the traversals asked of it
  adapter,          \* what was accepted, written under each index and observed
  pending,          \* the request that the Studio has not answered
  overtaken         \* history: it accepted a location while one was being restored

hvars == <<browser, adapter, pending, overtaken>>

Indexes == 0..MaxSlots
Slot    == [hash : Hashes, index : Indexes \cup {None}]
NoIndex == [i \in Indexes |-> None]

\* createStudioHistory, and the replacement that follows it.
Init == \E hash \in Hashes :
  /\ browser = [slots |-> <<[hash |-> hash, index |-> 0]>>, at |-> 1, going |-> <<>>]
  /\ adapter = [accepted |-> [hash |-> hash, index |-> 0], known |-> [NoIndex EXCEPT ![0] = hash],
                compensation |-> None, seen |-> [hash |-> hash, index |-> 0]]
  /\ pending = "none"
  /\ overtaken = FALSE

Here(b) == b.slots[b.at]

\* The index of the current slot, if the adapter wrote it in this epoch and the
\* address is still the one it wrote.
Marker(b, a) ==
  LET slot == Here(b)
  IN  IF slot.index # None /\ a.known[slot.index] = slot.hash THEN slot.index ELSE None

Key(b, a) == [hash |-> Here(b).hash, index |-> Marker(b, a)]

\* A new epoch: the slots of the earlier ones are unknown from now on.
Forgotten(b) ==
  [b EXCEPT !.slots = [i \in DOMAIN b.slots |-> [b.slots[i] EXCEPT !.index = None]]]
Fresh(a) == [a EXCEPT !.known = NoIndex, !.accepted.index = 0]

Accepting(a, hash, index) ==
  [a EXCEPT !.accepted = [hash |-> hash, index |-> index], !.known[index] = hash,
            !.seen = [hash |-> hash, index |-> index]]

\* replaceState at the current slot, with an index that the caller knows.
Replacing(b, hash, index) == [b EXCEPT !.slots[b.at] = [hash |-> hash, index |-> index]]

Rewrite(a, hash, index) ==
  IF Marker(browser, adapter) = None
  THEN /\ browser' = Replacing(Forgotten(browser), hash, index)
       /\ adapter' = Accepting(Fresh(a), hash, index)
  ELSE /\ browser' = Replacing(browser, hash, index)
       /\ adapter' = Accepting(a, hash, index)

\* pushState drops the slots ahead.
Push(hash) ==
  LET marker == Marker(browser, adapter)
      b == IF marker = None THEN Forgotten(browser) ELSE browser
      a == IF marker = None THEN Fresh(adapter) ELSE adapter
      index == IF marker = None THEN 1 ELSE marker + 1
  IN  /\ browser.at < MaxSlots /\ index <= MaxSlots
      /\ browser' = [b EXCEPT !.slots = Append(SubSeq(@, 1, b.at), [hash |-> hash, index |-> index]),
                              !.at = @ + 1]
      /\ adapter' = Accepting(a, hash, index)

\* Back to the accepted slot, or its address into a slot of unknown distance.
Restore ==
  LET marker == Marker(browser, adapter)
      back == adapter.accepted.index - marker
  IN  IF marker # None /\ marker # adapter.accepted.index
      THEN /\ Len(browser.going) < MaxGoing
           /\ browser' = [browser EXCEPT !.going = Append(@, back)]
           /\ adapter' = [adapter EXCEPT !.compensation = adapter.accepted]
      ELSE Rewrite(adapter, adapter.accepted.hash, IF marker = None THEN 0 ELSE marker)

-----------------------------------------------------------------------------
\* onChange: the events of one move are taken once, and the arrival of a
\* compensation is not a request.
LeadsAnywhere(b, a) == a.compensation # None    \* Mutant: any arrival is taken for it.
LeadsBack(b, a) == a.compensation # None /\ Key(b, a) = a.compensation

Moved(b) ==
  LET key == Key(b, adapter)
  IN  /\ browser' = b /\ UNCHANGED overtaken
      /\ IF key = adapter.seen THEN UNCHANGED <<adapter, pending>>
         ELSE /\ adapter' = [adapter EXCEPT !.seen = key, !.compensation = None]
              /\ pending' = IF LeadsBack(b, adapter) THEN pending ELSE "external"

\* Back, Forward and the list of the history.
UserTraverses(slot) ==
  /\ slot \in DOMAIN browser.slots \ {browser.at}
  /\ Moved([browser EXCEPT !.at = slot])

UserTypes(hash) ==
  /\ hash # Here(browser).hash /\ browser.at < MaxSlots
  /\ Moved([browser EXCEPT !.slots = Append(SubSeq(@, 1, browser.at), [hash |-> hash, index |-> None]),
                           !.at = @ + 1])

\* A distance that leads out of the history is dropped.
BrowserGoes ==
  LET slot == browser.at + Head(browser.going)
      rest == [browser EXCEPT !.going = Tail(@)]
  IN  /\ browser.going # <<>>
      /\ IF slot \in DOMAIN browser.slots
         THEN Moved([rest EXCEPT !.at = slot])
         ELSE browser' = rest /\ UNCHANGED <<adapter, pending, overtaken>>

\* The Studio answers the last request; those before it were aborted.
Refuse ==
  /\ pending # "none"
  /\ pending' = "none" /\ UNCHANGED overtaken
  /\ IF pending = "external" \/ Here(browser).hash # adapter.accepted.hash
     THEN Restore ELSE UNCHANGED <<browser, adapter>>

Accept(hash) ==
  LET marker == Marker(browser, adapter)
  IN  /\ pending # "none"
      /\ pending' = "none" /\ UNCHANGED overtaken
      /\ \/ pending = "external" /\ Rewrite(adapter, hash, IF marker = None THEN 0 ELSE marker)
         \/ pending = "internal" /\ hash # adapter.accepted.hash /\ Push(hash)
         \/ pending = "internal" /\ hash = adapter.accepted.hash /\
              IF Here(browser).hash # hash THEN Restore ELSE UNCHANGED <<browser, adapter>>

\* Clicks are ignored while a compensation is under way.
Navigate ==
  /\ adapter.compensation = None
  /\ pending' = "internal"
  /\ UNCHANGED <<browser, adapter, overtaken>>

\* What the Studio accepted on its own: a created entry, a change of the scope.
PushAccepted(hash) ==
  /\ hash # adapter.accepted.hash
  /\ Push(hash)
  /\ overtaken' = (overtaken \/ adapter.compensation # None)
  /\ UNCHANGED pending

Reset(hash) ==
  /\ pending' = "none"
  /\ browser' = Replacing(Forgotten(browser), hash, 0)
  /\ adapter' = Accepting([Fresh(adapter) EXCEPT !.compensation = None], hash, 0)
  /\ UNCHANGED overtaken

Next ==
  \/ \E slot \in 1..MaxSlots : UserTraverses(slot)
  \/ BrowserGoes \/ Refuse \/ Navigate
  \/ \E hash \in Hashes : UserTypes(hash) \/ Accept(hash) \/ PushAccepted(hash) \/ Reset(hash)

-----------------------------------------------------------------------------
TypeOK ==
  /\ \A i \in DOMAIN browser.slots : browser.slots[i] \in Slot
  /\ browser.at \in DOMAIN browser.slots
  /\ adapter.accepted \in [hash : Hashes, index : Indexes]
  /\ adapter.known \in [Indexes -> Hashes \cup {None}]
  /\ pending \in {"none", "internal", "external"}

\* Nothing is under way: no request unanswered, no traversal asked for.
Quiet == pending = "none" /\ browser.going = <<>>

\* The address follows the Studio: with requests that supersede each other,
\* refusals undone by later traversals, and slots typed or left behind, the
\* browser comes to rest at the address of what the Studio accepted; unless the
\* Studio moved on its own while the browser was being led back.
AddressFollows ==
  Quiet /\ ~overtaken /\ adapter.compensation = None => Here(browser).hash = adapter.accepted.hash

\* docs/adr/0028-studio-locations-and-history.md says that after the refusal of
\* a typed address navigation must still work: clicks are not ignored for good.
ClicksHeard == Quiet /\ ~overtaken => adapter.compensation = None
=============================================================================
