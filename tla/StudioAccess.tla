--------------------------- MODULE StudioAccess ----------------------------
(***************************************************************************)
(* A Studio works with the operations the server projected for its         *)
(* principal in one scope, while the server decides every request anew     *)
(* with the roles and grants of that moment.  A request the server refuses *)
(* costs the Studio its session: the drafts are dropped and the access is  *)
(* checked again, once.  StudioSession has the interleavings of checks,    *)
(* switches and calls; here an answer to a check is accepted as it is      *)
(* given, and the decisions are taken apart.                               *)
(***************************************************************************)
EXTENDS Authorization, Naturals

CONSTANTS
  Principals,  \* who may sign in, with roles, assignments and grants
  Successors,  \* what an administrator may make of any of them
  Scopes,      \* the scopes the topology offers
  Types,       \* content types, "page" among them
  None,        \* no call, no refusal, no denial
  MaxChanges   \* bound on the changes by administrators

VARIABLES
  principal,   \* at the server: the principal of the session
  fresh,       \* at the server: the session need not be renewed yet
  administered,  \* changes by administrators
  studio,      \* status, scope, and the principal whose operations were projected
  denied,      \* the projection under which a call was refused, until the check after it
  call,        \* the call under way
  refused      \* the last refusal: the call, and who was refused

vars == <<principal, fresh, administered, studio, denied, call, refused>>

\* A call and the content type it is about: of its argument, of the entry it names, or none.
Calls == [method : DOMAIN RouteOf, type : Types \cup {NoType}]

\* The scopes among which a principal may choose.
Choices(who) == {scope \in Scopes : Usable(who, scope)}

\* What a route asks for; of an entry only if there is one.
Demanded(route, type) ==
  IF route \in EntryRoutes /\ type = NoType
    THEN Requires[route] \ {"content.read", "content.draft.update"} ELSE Requires[route]

\* authorize() of a session's principal, or what a route asks for instead.
Meets(route, demand, type) ==
  LET resource == IF route \in TypedRoutes THEN type ELSE NoType
  IN  CASE demand = "home" -> Projected(principal, studio.scope, "home.read")
        [] demand = "settings" -> Projected(principal, studio.scope, "settings.read")
        [] demand = "identity administration" -> HasIdentityAdministrationAccess(principal)
        [] demand = "recent sign-in" -> fresh
        [] demand \in {"directory credential", "preview token"} -> FALSE
        [] OTHER -> Decide(principal, studio.scope, demand, resource)

Accepts(c) ==
  LET route == RouteOf[c.method]
  IN  \A demand \in Demanded(route, c.type) : Meets(route, demand, c.type)

\* What a field of GraphQL asks of the session.
Resolves(field, type) ==
  \A action \in (QueryFields @@ MutationFields)[field] :
    Decide(principal, studio.scope, action, IF field \in TypedFields THEN type ELSE NoType)

\* The paths of delivery take no session: who asks is nobody.
Anonymous == [method |-> "anonymous", roles |-> {"anonymous"}, assignments |-> {}, grants |-> {}]

Delivers(route, type) ==
  \A action \in Requires[route] :
    Decide(Anonymous, studio.scope, action, IF route \in TypedRoutes THEN type ELSE NoType)

-----------------------------------------------------------------------------
(* The Studio.                                                             *)

SameAccess(projection) ==
  /\ projection # None /\ projection.scope = studio.scope
  /\ Capabilities(projection.principal, studio.scope) = Capabilities(principal, studio.scope)

\* refresh(): after a refusal the same access as before is not tried again.
Check ==
  /\ studio.status = "checking"
  /\ studio' = [studio EXCEPT !.principal = principal,
                              !.status = IF SameAccess(denied) THEN "forbidden" ELSE "ready"]
  /\ denied' = None /\ refused' = None
  /\ UNCHANGED <<principal, fresh, administered, call>>

Retry ==
  /\ studio.status = "forbidden"
  /\ studio' = [studio EXCEPT !.status = "checking"]
  /\ UNCHANGED <<principal, fresh, administered, denied, call, refused>>

\* The focus returns to the window.
Focus ==
  /\ studio.status = "ready"
  /\ studio' = [studio EXCEPT !.principal = principal]
  /\ UNCHANGED <<principal, fresh, administered, denied, call, refused>>

permits(operations) ==
  \A operation \in operations : Projected(studio.principal, studio.scope, operation)

\* guardStudioClient: a method without operations, or one of them not projected, is
\* refused before anything is sent.
Call(c) ==
  /\ studio.status = "ready" /\ call = None
  /\ c.method \in DOMAIN MethodOperations
  /\ permits(ClientOperations(c.method, c.type))
  /\ call' = c
  /\ UNCHANGED <<principal, fresh, administered, studio, denied, refused>>

Accepted ==
  /\ call # None /\ Accepts(call)
  /\ call' = None
  /\ UNCHANGED <<principal, fresh, administered, studio, denied, refused>>

\* onDenied(403): the session is left and the access checked again.
Refused ==
  /\ call # None /\ ~Accepts(call)
  /\ call' = None
  /\ refused' = [call |-> call, principal |-> principal, fresh |-> fresh]
  /\ denied' = [principal |-> studio.principal, scope |-> studio.scope]
  /\ studio' = [studio EXCEPT !.status = "checking"]
  /\ UNCHANGED <<principal, fresh, administered>>

\* transitionScope(): only to a scope that was offered; the server is asked before.
Switch(scope) ==
  /\ studio.status = "ready" /\ call = None
  /\ scope \in Choices(studio.principal) \ {studio.scope}
  /\ studio' = [studio EXCEPT !.scope = scope, !.principal = principal]
  /\ UNCHANGED <<principal, fresh, administered, denied, call, refused>>

-----------------------------------------------------------------------------
(* The server.                                                             *)

Administer(who) ==
  /\ administered < MaxChanges /\ who # principal
  /\ principal' = who /\ administered' = administered + 1
  /\ UNCHANGED <<fresh, studio, denied, call, refused>>

\* reauthenticateAt passes.
Age ==
  /\ fresh /\ fresh' = FALSE
  /\ UNCHANGED <<principal, administered, studio, denied, call, refused>>

Init ==
  /\ principal \in Principals /\ fresh = TRUE /\ administered = 0
  /\ \E scope \in Scopes :
       studio = [status |-> "checking", scope |-> scope, principal |-> principal]
  /\ denied = None /\ call = None /\ refused = None

Next ==
  \/ Check \/ Retry \/ Focus \/ Accepted \/ Refused \/ Age
  \/ \E c \in Calls : Call(c)
  \/ \E scope \in Scopes : Switch(scope)
  \/ \E who \in Successors : Administer(who)

Spec == Init /\ [][Next]_vars

-----------------------------------------------------------------------------
(* Properties.                                                             *)

\* What the Studio lets through, the server refuses only because an operation the call
\* needs is not projected any more, because an approval asks for a recent sign-in, or
\* because a semantic search came upon an entry the principal may not read: the tables
\* of the Studio, of the client library, of the projection and of the routes agree, for
\* every role, grant, scope and content type.
RefusedForCause ==
  refused # None =>
    LET c == refused.call
    IN  \/ \E operation \in ClientOperations(c.method, c.type) :
             ~Projected(refused.principal, studio.scope, operation)
        \/ "recent sign-in" \in Requires[RouteOf[c.method]] /\ ~refused.fresh
        \/ c.method = "semanticAiSearch" /\ c.type # NoType

\* A field of GraphQL is refused to whoever the same request over REST is, and only to
\* them, for every role, grant, scope and content type; of the published fields, which
\* REST answers without a session, only that nothing is given which REST does not give
\* (docs/content-queries.md:88, graphql.ts against the routes of server.ts).
SameDoors ==
  \A field \in DOMAIN TwinOf, type \in Types \cup {NoType} :
    IF "delivery.read" \in (QueryFields @@ MutationFields)[field]
      THEN Resolves(field, type) => Delivers(TwinOf[field], type)
      ELSE Resolves(field, type) <=>
             \A demand \in Requires[TwinOf[field]] : Meets(TwinOf[field], demand, type)
=============================================================================
