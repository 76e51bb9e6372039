--------------------------- MODULE StudioSession ---------------------------
(***************************************************************************)
(* What the Studio knows of its own authority.  A check of the access is   *)
(* superseded by a later one, a focus of the window checks again without   *)
(* suspending the editor, a refused call ends the authority, and another   *)
(* scope is entered after it was verified and the old one cleaned up.  The *)
(* features see a client that is bound to one lifetime; React renders what *)
(* was set some time later.                                                *)
(***************************************************************************)
EXTENDS Naturals

CONSTANTS
  Scopes,
  MaxChecks,        \* bound on the generations
  MaxSwitches,      \* bound on the clients, one for each switch of the scope
  None

VARIABLES
  server,           \* who is signed in, with what permissions, by the server
  session,          \* the references: authority, verified client, generation, ...
  wanted, shown,    \* the state that was set and the one that is rendered
  checking,         \* the check of the access under way
  switching,        \* the switch of the scope under way
  calls,            \* calls of features that have no answer yet
  held              \* history: who acted or was answered in each lifetime

svars == <<server, session, wanted, shown, checking, switching, calls, held>>

\* A principal with its capabilities; `other` is another principal.
Who     == {"author", "reader", "other"}
SamePrincipal(a, b) == (a = "other") <=> (b = "other")

Client  == [scope : Scopes, nr : 0..MaxSwitches]
Somebody == Scopes \X Who
Status  == {"checking", "ready", "failed", "signed-out", "forbidden"}

-----------------------------------------------------------------------------
\* guardStudioClient: a call goes out under a lease and its answer counts if
\* the lease is the same.  A guard knows its client and lifetime.
Leased(client, born) ==
  session.authority # None /\ born = session.lifetime /\ session.verified = client

SameLease(call) == Leased(call.client, call.born) /\ session.authority.gen = call.gen

Suspend(s) == [s EXCEPT !.authority = None]

\* refresh up to its request: a routine check keeps an authority that the
\* rendered client has verified.
Checked(s, client, denied, routine) ==
  LET keeps == routine /\ s.verified = client
  IN  /\ s.gen < MaxChecks
      /\ session' = IF keeps THEN [s EXCEPT !.gen = @ + 1] ELSE [Suspend(s) EXCEPT !.gen = @ + 1]
      /\ checking' = [client |-> client, denied |-> denied, got |-> None,
                      kept |-> IF keeps /\ s.authority # None THEN s.authority.gen ELSE None]

Refresh(routine) ==
  /\ Checked(session, shown.client, None, routine)
  /\ wanted' = IF checking'.kept # None THEN wanted ELSE [wanted EXCEPT !.status = "checking"]
  /\ UNCHANGED <<server, shown, switching, calls, held>>

Focus == switching = None /\ Refresh(TRUE)
Retry == shown.status \notin {"ready", "checking"} /\ Refresh(FALSE)

\* The server looks at the request; what it found reaches the Studio later.
ServerChecks ==
  /\ checking # None /\ checking.got = None
  /\ \E got \in {server, "failed"} :
       checking' = [checking EXCEPT !.got = got]
  /\ UNCHANGED <<server, session, wanted, shown, switching, calls, held>>

\* Mutant: a lifetime ends when an authority is replaced by another.
NewLifetimeIfReplaced(identity) == session.fingerprint \notin {None, identity}
NewLifetime(identity) == identity # session.fingerprint

Confirmed ==
  LET identity == <<checking.client.scope, checking.got>>
      new == NewLifetime(identity)
      lifetime == IF new THEN session.lifetime + 1 ELSE session.lifetime
      gen == IF identity = session.fingerprint /\ checking.kept # None
             THEN checking.kept ELSE session.gen
  IN  /\ checking # None /\ checking.got \in Who
      /\ IF identity = checking.denied
         THEN wanted' = [wanted EXCEPT !.status = "forbidden"] /\ UNCHANGED <<session, held>>
         ELSE /\ session' = [session EXCEPT !.fingerprint = identity, !.lifetime = lifetime,
                               !.verified = checking.client,
                               !.authority = [who |-> identity, gen |-> gen]]
              /\ wanted' = [wanted EXCEPT !.lifetime = lifetime, !.status = "ready", !.known = TRUE]
              /\ held' = held \cup {<<lifetime, identity>>}
      /\ checking' = None
      /\ UNCHANGED <<server, shown, switching, calls>>

\* Refused by the server, or a failure that says nothing of the access.
Unconfirmed ==
  /\ checking # None /\ checking.got \in {"nobody", "failed"}
  /\ IF checking.got = "nobody"
     THEN /\ session' = [Suspend(session) EXCEPT !.fingerprint = None]
          /\ wanted' = [wanted EXCEPT !.known = FALSE, !.status = "signed-out"]
     ELSE session' = Suspend(session) /\ wanted' = [wanted EXCEPT !.status = "failed"]
  /\ checking' = None
  /\ UNCHANGED <<server, shown, switching, calls, held>>

ChecksAnswer == Confirmed \/ Unconfirmed

-----------------------------------------------------------------------------
\* A feature of the rendered tree calls; the tree is there while it is known.
Call ==
  /\ shown.known /\ Leased(shown.client, shown.lifetime) /\ calls = {}
  /\ calls' = {[client |-> shown.client, born |-> shown.lifetime, gen |-> session.authority.gen,
                who |-> session.authority.who]}
  /\ UNCHANGED <<server, session, wanted, shown, checking, switching, held>>

Answered(call) ==
  /\ held' = IF SameLease(call)
             THEN held \cup {<<call.born, call.who>>, <<call.born, session.authority.who>>} ELSE held
  /\ calls' = calls \ {call}
  /\ UNCHANGED <<server, session, wanted, shown, checking, switching>>

\* onDenied: an answer of the lease refuses the call.  Refused for lack of a
\* permission, the access is checked again.
Denied(call, signedOut) ==
  LET s == [Suspend(session) EXCEPT !.gen = @ + 1, !.fingerprint = None, !.lifetime = @ + 1]
  IN  /\ SameLease(call)
      /\ wanted' = [wanted EXCEPT !.lifetime = s.lifetime, !.known = FALSE,
                                  !.status = IF signedOut THEN "signed-out" ELSE "checking"]
      /\ IF signedOut THEN session' = s /\ checking' = None
         ELSE Checked(s, call.client, session.fingerprint, FALSE)
      /\ calls' = calls \ {call}
      /\ UNCHANGED <<server, shown, switching, held>>

-----------------------------------------------------------------------------
\* transitionScope, from the rendered tree.
Switch(scope) ==
  /\ shown.known /\ switching = None
  /\ session.authority # None /\ session.verified = shown.client
  /\ scope # shown.client.scope /\ shown.client.nr < MaxSwitches
  /\ switching' = [to |-> [scope |-> scope, nr |-> shown.client.nr + 1], from |-> shown.client,
                   gen |-> session.authority.gen, who |-> session.authority.who[2],
                   got |-> None, step |-> "verify"]
  /\ UNCHANGED <<server, session, wanted, shown, checking, calls, held>>

ServerVerifies ==
  /\ switching # None /\ switching.got = None
  /\ switching' = [switching EXCEPT !.got = server]
  /\ UNCHANGED <<server, session, wanted, shown, checking, calls, held>>

\* The authority it began with is still the one; checked after each answer.
Unsuperseded == session.authority # None /\ session.authority.gen = switching.gen

SwitchVerified ==
  /\ switching # None /\ switching.step = "verify" /\ switching.got \in Who
  /\ Unsuperseded /\ SamePrincipal(switching.got, switching.who)
  /\ switching' = [switching EXCEPT !.step = "cleanup"]
  /\ UNCHANGED <<server, session, wanted, shown, checking, calls, held>>

\* The clean-up is over: previews, presence and uploads of the old scope.
SwitchCommits ==
  LET identity == <<switching.to.scope, switching.got>>
      lifetime == session.lifetime + 1
  IN  /\ switching # None /\ switching.step = "cleanup" /\ Unsuperseded
      /\ session.gen < MaxChecks
      /\ session' = [gen |-> session.gen + 1, fingerprint |-> identity, lifetime |-> lifetime,
                     verified |-> switching.to,
                     authority |-> [who |-> identity, gen |-> session.gen + 1]]
      /\ wanted' = [client |-> switching.to, lifetime |-> lifetime, known |-> TRUE,
                    status |-> "ready"]
      /\ held' = held \cup {<<lifetime, identity>>}
      /\ checking' = None /\ switching' = None
      /\ UNCHANGED <<server, shown, calls>>

\* A failed request or clean-up, another principal, an authority that changed.
SwitchEnds ==
  /\ switching # None /\ switching' = None
  /\ UNCHANGED <<server, session, wanted, shown, checking, calls, held>>

\* React renders; the client that a switch verified is not checked again.
Render ==
  /\ shown # wanted /\ shown' = wanted
  /\ UNCHANGED <<server, session, wanted, checking, switching, calls, held>>

\* Sessions end, permissions change and somebody else signs in.
ServerChanges(who) ==
  /\ server # who
  /\ server' = who
  /\ UNCHANGED <<session, wanted, shown, checking, switching, calls, held>>

-----------------------------------------------------------------------------
\* The first check begins when the Studio is mounted.
Init == \E scope \in Scopes :
  LET client == [scope |-> scope, nr |-> 0]
  IN  /\ server = "author"
      /\ session = [authority |-> None, verified |-> None, gen |-> 1, fingerprint |-> None,
                    lifetime |-> 0]
      /\ wanted = [client |-> client, lifetime |-> 0, known |-> FALSE, status |-> "checking"]
      /\ shown = wanted
      /\ checking = [client |-> client, denied |-> None, got |-> None, kept |-> None]
      /\ switching = None /\ calls = {} /\ held = {}

Next ==
  \/ Focus \/ Retry \/ ServerChecks \/ ChecksAnswer
  \/ Call \/ \E call \in calls : Answered(call) \/ \E out \in BOOLEAN : Denied(call, out)
  \/ \E scope \in Scopes : Switch(scope) \/ \E who \in Who \cup {"nobody"} : ServerChanges(who)
  \/ ServerVerifies \/ SwitchVerified \/ SwitchCommits \/ SwitchEnds \/ Render

-----------------------------------------------------------------------------
TypeOK ==
  /\ server \in Who \cup {"nobody"}
  /\ session.authority \in {None} \cup [who : Somebody, gen : 0..MaxChecks]
  /\ session.verified \in Client \cup {None}
  /\ session.fingerprint \in Somebody \cup {None}
  /\ {wanted, shown} \subseteq [client : Client, lifetime : Nat, known : BOOLEAN, status : Status]

\* A lifetime, with the drafts its tree holds, belongs to one identity in one
\* scope: nothing is sent or received in it in the name of another, whatever
\* answers arrive late and however checks, refusals and switches overlap.
OneIdentityPerLifetime == \A p, q \in held : p[1] = q[1] => p[2] = q[2]

\* The Studio that says it is ready shows what it verified.
ReadyShows ==
  shown = wanted /\ shown.status = "ready" /\ checking = None => session.verified = shown.client
=============================================================================
