--------------------------- MODULE PreviewBridge ---------------------------
(***************************************************************************)
(* The messages of one preview session: the controller in the Studio and   *)
(* the runtime in the page of the application post to each other, and the  *)
(* runtime submits each message, in either direction, to the server before *)
(* it counts.  Both number theirs from one line, as far as they know it,   *)
(* and the server refuses a number that is not above the last.             *)
(***************************************************************************)
EXTENDS Integers, Sequences, SequencesExt

CONSTANTS
  MaxPatches,       \* bound on the changes of the draft
  MaxSends,         \* bound on the selections and navigations of the runtime
  MaxReloads,       \* bound on the reloads of the page
  MaxBootstraps,    \* bound on the handshakes
  None

VARIABLES
  bridge,           \* the session on the server: whether it is open, the last number
  controller,       \* next number, highest received, ready, the waiting patch
  runtime,          \* bootstrapped, next number, the patch shown, counts for bounds
  toRuntime, toController,      \* posted messages, in order
  queue,            \* the incoming queue of the runtime; its head is worked on
  sends,            \* messages of the runtime that the server has not answered
  missed            \* history: a message was refused; or an answer lost, the page reloaded

bvars == <<bridge, controller, runtime, toRuntime, toController, queue, sends, missed>>

Message == [type : {"bootstrap", "handshake", "patch", "ready", "select"}, nr : 0..100, patch : 0..MaxPatches]
Msg(type, nr, patch) == [type |-> type, nr |-> nr, patch |-> patch]

\* Each side has seen this number on the line.
Seen(next, nr) == IF nr + 1 > next THEN nr + 1 ELSE next

-----------------------------------------------------------------------------
\* GridStoryPreviewController.  The handshake is the same message each time.
Handshake == Msg("handshake", 0, 0)

\* start, and the timer that repeats it until the runtime is ready.
Bootstrap ==
  /\ ~controller.ready /\ controller.started < MaxBootstraps
  /\ toRuntime' = toRuntime \o <<Msg("bootstrap", 0, 0), Handshake>>
  /\ controller' = [controller EXCEPT !.started = @ + 1]
  /\ UNCHANGED <<bridge, runtime, toController, queue, sends, missed>>

\* Only the latest patch waits.
Flushed(c) ==
  IF c.waiting = 0 THEN c ELSE [c EXCEPT !.waiting = 0, !.next = @ + 1]
Flush(c) ==
  IF c.waiting = 0 THEN toRuntime ELSE Append(toRuntime, Msg("patch", c.next, c.waiting))

Patch ==
  /\ controller.latest < MaxPatches
  /\ LET c == [controller EXCEPT !.latest = @ + 1, !.waiting = controller.latest + 1]
     IN  IF c.ready THEN controller' = Flushed(c) /\ toRuntime' = Flush(c)
         ELSE controller' = c /\ UNCHANGED toRuntime
  /\ UNCHANGED <<bridge, runtime, toController, queue, sends, missed>>

\* handleMessage: what arrives twice or late is dropped.
ControllerReceives ==
  LET m == Head(toController)
      c == [controller EXCEPT !.highest = m.nr, !.next = Seen(@, m.nr),
                              !.ready = @ \/ m.type = "ready"]
  IN  /\ toController # <<>>
      /\ toController' = Tail(toController)
      /\ IF m.nr <= controller.highest THEN UNCHANGED <<controller, toRuntime>>
         ELSE IF m.type = "ready" THEN controller' = Flushed(c) /\ toRuntime' = Flush(c)
              ELSE controller' = c /\ UNCHANGED toRuntime
      /\ UNCHANGED <<bridge, runtime, queue, sends, missed>>

-----------------------------------------------------------------------------
\* PreviewSessionService.acceptMessage: the session is live, the number is new.
Fresh(nr) == bridge.open /\ nr > bridge.last
Accept(m) == bridge' = IF Fresh(m.nr) THEN [bridge EXCEPT !.last = m.nr] ELSE bridge

\* GridStoryPreviewRuntime takes messages from its controller alone, in order.
RuntimeReceives ==
  LET m == Head(toRuntime)
  IN  /\ toRuntime # <<>>
      /\ toRuntime' = Tail(toRuntime)
      /\ IF m.type = "bootstrap"
         THEN runtime' = [runtime EXCEPT !.token = TRUE] /\ UNCHANGED queue
         ELSE /\ queue' = IF runtime.token THEN Append(queue, [msg |-> m, accepted |-> None]) ELSE queue
              /\ UNCHANGED runtime
      /\ UNCHANGED <<bridge, controller, toController, sends, missed>>

\* Mutant: messages are submitted as they come, not after the one before.
Submittable(i) == i \in DOMAIN queue /\ queue[i].accepted = None
InOrder(i) == i = 1 /\ Submittable(i)

SubmitIncoming(i) ==
  /\ InOrder(i)
  /\ Accept(queue[i].msg)
  /\ queue' = [queue EXCEPT ![i].accepted = Fresh(queue[i].msg.nr)]
  /\ UNCHANGED <<controller, runtime, toRuntime, toController, sends, missed>>

\* The answer arrives.  An accepted handshake is answered by a message that is
\* submitted within the same turn of the queue.
Applied(m) ==
  [runtime EXCEPT !.next = Seen(@, m.nr) + IF m.type = "handshake" THEN 1 ELSE 0,
                  !.shown = IF m.type = "patch" THEN m.patch ELSE @,
                  !.backwards = @ \/ (m.type = "patch" /\ m.patch <= runtime.shown)]

\* Refused, or accepted and the answer lost.
Missing(accepted) == IF accepted \/ missed = "broken" THEN "broken" ELSE "refused"

IncomingAnswered(i) ==
  LET m == queue[i].msg
  IN  /\ i \in DOMAIN queue /\ queue[i].accepted # None
      /\ \/ /\ queue[i].accepted = TRUE
            /\ runtime' = Applied(m)
            /\ IF m.type = "handshake"
               THEN /\ queue' = <<[msg |-> Msg("ready", Seen(runtime.next, 0), 0),
                                   accepted |-> None]>> \o RemoveAt(queue, i)
                    /\ UNCHANGED toController
               ELSE /\ queue' = RemoveAt(queue, i)
                    /\ toController' = IF m.type = "ready" THEN Append(toController, m) ELSE toController
            /\ UNCHANGED missed
         \/ /\ queue' = RemoveAt(queue, i) /\ missed' = Missing(queue[i].accepted)
            /\ UNCHANGED <<runtime, toController>>
      /\ UNCHANGED <<bridge, controller, toRuntime, sends>>

\* A click or a navigation in the page, outside of the queue.
Send ==
  /\ runtime.token /\ runtime.sent < MaxSends
  /\ runtime' = [runtime EXCEPT !.next = @ + 1, !.sent = @ + 1]
  /\ sends' = sends \cup {[msg |-> Msg("select", runtime.next, 0), accepted |-> None]}
  /\ UNCHANGED <<bridge, controller, toRuntime, toController, queue, missed>>

SubmitSend(s) ==
  /\ s.accepted = None
  /\ Accept(s.msg)
  /\ sends' = (sends \ {s}) \cup {[s EXCEPT !.accepted = Fresh(s.msg.nr)]}
  /\ UNCHANGED <<controller, runtime, toRuntime, toController, queue, missed>>

SendAnswered(s) ==
  /\ s.accepted # None
  /\ sends' = sends \ {s}
  /\ \/ s.accepted = TRUE /\ toController' = Append(toController, s.msg) /\ UNCHANGED missed
     \/ missed' = Missing(s.accepted) /\ UNCHANGED toController
  /\ UNCHANGED <<bridge, controller, runtime, toRuntime, queue>>

-----------------------------------------------------------------------------
NewPage == [token |-> FALSE, next |-> 0, shown |-> 0, sent |-> 0, reloads |-> 0, backwards |-> FALSE]

\* The page is loaded again: the runtime begins anew, what was posted to it is
\* lost, what it submitted is not.
Reload ==
  /\ runtime.reloads < MaxReloads
  /\ runtime' = [NewPage EXCEPT !.reloads = runtime.reloads + 1, !.sent = runtime.sent]
  /\ toRuntime' = <<>> /\ queue' = <<>> /\ sends' = {} /\ missed' = "broken"
  /\ UNCHANGED <<bridge, controller, toController>>

\* The session is revoked or expires.
End ==
  /\ bridge.open
  /\ bridge' = [bridge EXCEPT !.open = FALSE] /\ missed' = "broken"
  /\ UNCHANGED <<controller, runtime, toRuntime, toController, queue, sends>>

Init ==
  /\ bridge = [open |-> TRUE, last |-> -1]
  /\ controller = [next |-> 1, highest |-> -1, ready |-> FALSE, waiting |-> 0, latest |-> 0,
                    started |-> 0]
  /\ runtime = NewPage
  /\ toRuntime = <<>> /\ toController = <<>> /\ queue = <<>> /\ sends = {}
  /\ missed = "nothing"

Next ==
  \/ Bootstrap \/ Patch \/ ControllerReceives \/ RuntimeReceives \/ Send \/ Reload \/ End
  \/ \E i \in 1..2 : SubmitIncoming(i) \/ IncomingAnswered(i)
  \/ \E s \in sends : SubmitSend(s) \/ SendAnswered(s)

-----------------------------------------------------------------------------
TypeOK ==
  /\ bridge.open \in BOOLEAN /\ bridge.last \in -1..100
  /\ \A i \in DOMAIN toRuntime : toRuntime[i] \in Message
  /\ \A i \in DOMAIN toController : toController[i] \in Message
  /\ missed \in {"nothing", "refused", "broken"}
  /\ runtime.shown \in 0..MaxPatches /\ controller.waiting \in 0..MaxPatches

Quiet == toRuntime = <<>> /\ toController = <<>> /\ queue = <<>> /\ sends = {}

\* The page never goes back to an earlier draft, however late patches are
\* accepted beside selections and repeated handshakes.
NeverBackwards == ~runtime.backwards

\* With nothing under way the page shows the latest draft of the Studio, as long
\* as nothing was refused, broken off or reloaded.
LatestDraftShown ==
  Quiet /\ controller.ready /\ missed = "nothing" => runtime.shown = controller.latest

\* docs/adr/0004-preview-session-protocol.md:28 says that patches are queued
\* until readiness, and :22 that the protocol handles reconnection; a patch and a selection
\* that take the same number lose the one that is submitted later, for good.
DraftReachesPage ==
  Quiet /\ controller.ready /\ missed # "broken" => runtime.shown = controller.latest
=============================================================================
