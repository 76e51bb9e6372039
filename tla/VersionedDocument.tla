------------------------- MODULE VersionedDocument -------------------------
(***************************************************************************)
(* A service keeps what it knows of a scope in one document, which it      *)
(* reads, changes and saves under the version that it read.  A replacement *)
(* names the version its client had seen; a mutation tries again when the  *)
(* document changed meanwhile.  The services share this protocol, and      *)
(* ai-gateway-service.ts and its repository stand for all of them.         *)
(***************************************************************************)
EXTENDS Naturals

CONSTANTS
  Writers,          \* each makes one change
  MaxAttempts,      \* how often a mutation is tried
  None

VARIABLES
  stored,           \* the row of the document, or None
  writer            \* what each writer is doing

vars == <<stored, writer>>

\* A document is told by its version and by how often each change is in it.
Empty == [version |-> 0, changes |-> [w \in Writers |-> 0]]
OrEmpty(row) == IF row = None THEN Empty ELSE row

Changed(base, w) == [version |-> base.version + 1, changes |-> [base.changes EXCEPT ![w] = @ + 1]]

Idle == [pc |-> "idle", mutates |-> FALSE, tries |-> 0, expected |-> 0, base |-> None]

Init ==
  /\ stored = None
  /\ writer = [w \in Writers |-> Idle]

\* The client of a replacement sees the document some time before.
ClientReads(w) ==
  /\ writer[w].pc = "idle"
  /\ writer' = [writer EXCEPT ![w].pc = "read", ![w].expected = OrEmpty(stored).version]
  /\ UNCHANGED stored

MutationReads(w) ==
  /\ writer[w].pc = "idle" \/ (writer[w].pc = "again" /\ writer[w].tries < MaxAttempts)
  /\ writer' = [writer EXCEPT ![w].pc = "read", ![w].mutates = TRUE, ![w].tries = @ + 1,
                              ![w].expected = OrEmpty(stored).version]
  /\ UNCHANGED stored

Conflict(w) ==
  /\ writer' = [writer EXCEPT ![w].pc = IF writer[w].mutates THEN "again" ELSE "refused"]
  /\ UNCHANGED stored

ReplaceReads(w) ==
  /\ writer[w].pc = "read"
  /\ \/ /\ OrEmpty(stored).version = writer[w].expected
        /\ writer' = [writer EXCEPT ![w].pc = "save", ![w].base = stored]
        /\ UNCHANGED stored
     \/ OrEmpty(stored).version # writer[w].expected /\ Conflict(w)

\* Saving over null inserts the row, and otherwise updates the one of the version.
MatchesRow(base)  == (base = None) = (stored = None)   \* Mutant: any version of the row will do.
Matches(base) ==
  IF base = None THEN stored = None ELSE stored # None /\ stored.version = base.version

Save(w) ==
  /\ writer[w].pc = "save"
  /\ \/ /\ Matches(writer[w].base)
        /\ stored' = Changed(OrEmpty(writer[w].base), w)
        /\ writer' = [writer EXCEPT ![w].pc = "saved"]
     \/ ~Matches(writer[w].base) /\ Conflict(w)

\* The mutation stays busy, the change itself is refused, or the process dies.
GiveUp(w) ==
  /\ \/ writer[w].pc = "again" /\ writer[w].tries = MaxAttempts
     \/ writer[w].pc \in {"read", "save"}
  /\ writer' = [writer EXCEPT ![w].pc = "refused"]
  /\ UNCHANGED stored

Next == \E w \in Writers :
  ClientReads(w) \/ MutationReads(w) \/ ReplaceReads(w) \/ Save(w) \/ GiveUp(w)

Spec == Init /\ [][Next]_vars

-----------------------------------------------------------------------------
Document == [version : Nat, changes : [Writers -> Nat]]

TypeOK ==
  /\ stored \in Document \cup {None}
  /\ writer \in [Writers -> [pc : {"idle", "read", "save", "again", "saved", "refused"},
                             mutates : BOOLEAN, tries : Nat, expected : Nat,
                             base : Document \cup {None}]]

Told(w) == IF writer[w].pc \in {"saved", "refused"} THEN writer[w].pc ELSE "open"

Atomic == INSTANCE AtomicDocument WITH contents <- OrEmpty(stored).changes,
                                       outcome <- [w \in Writers |-> Told(w)]

\* A write is atomic although it is made of two reads and a save: each step of
\* the protocol applies a whole change once, refuses one, or changes nothing
\* that can be told.
AtomicStep   == [Atomic!Next]_(Atomic!dvars)
WritesAtomic == [][Atomic!Next]_(Atomic!dvars)
=============================================================================
