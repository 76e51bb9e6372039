--------------------------- MODULE AtomicDocument ---------------------------
(***************************************************************************)
(* What the document of a service promises to those who change it: each    *)
(* change is applied to the whole of what the others wrote, in one step    *)
(* and once, or it is refused and leaves no trace.                         *)
(***************************************************************************)
EXTENDS Naturals

CONSTANT Writers     \* each makes one change

VARIABLES
  contents,          \* how often the change of each writer is in the document
  outcome            \* what each writer was told

dvars == <<contents, outcome>>

Init ==
  /\ contents = [w \in Writers |-> 0]
  /\ outcome = [w \in Writers |-> "open"]

Apply(w) ==
  /\ outcome[w] = "open"
  /\ contents' = [contents EXCEPT ![w] = @ + 1]
  /\ outcome' = [outcome EXCEPT ![w] = "saved"]

Refuse(w) ==
  /\ outcome[w] = "open"
  /\ outcome' = [outcome EXCEPT ![w] = "refused"]
  /\ UNCHANGED contents

Next == \E w \in Writers : Apply(w) \/ Refuse(w)

Spec == Init /\ [][Next]_dvars
=============================================================================
