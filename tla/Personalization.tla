-------------------------- MODULE Personalization --------------------------
(***************************************************************************)
(* Targeting: which variant of a resource a visitor gets, and what an edge *)
(* may keep of that answer.  Authors replace the draft of a configuration  *)
(* and publish it (one versioned document for each scope, each write one   *)
(* step); visitors ask with attributes and consents; the edge keeps an     *)
(* answer that comes with a shared key, and gives it to whoever has the    *)
(* same key.  Previews are reads of the draft that no cache may keep.      *)
(***************************************************************************)
EXTENDS Naturals, FiniteSets

CONSTANTS
  Scopes,
  Configurations,  \* what authors write; the schema refuses some
  Visitors,        \* what may be asked: attributes and consents
  None,            \* nothing published, nothing kept, no key
  MaxRevision      \* bound on the revisions of a draft

VARIABLES
  targets,   \* per scope: draft and publication, each a revision and a configuration
  kept       \* the shared cache: one answer with its key

tvars == <<targets, kept>>

-----------------------------------------------------------------------------
(* What the schema accepts.                                                *)

ValidAttribute(a) ==
  /\ a.values # {}
  /\ a.personal => a.purposes # {} /\ ~a.shared
  /\ a.source = "authentication-state" => ~a.shared

ValidConfiguration(c) ==
  /\ \A key \in DOMAIN c.attributes :
       ValidAttribute(c.attributes[key]) /\ c.attributes[key].purposes \subseteq DOMAIN c.purposes
  /\ \A one, other \in DOMAIN c.audiences :
       c.audiences[one].priority = c.audiences[other].priority => one = other
  /\ \A id \in DOMAIN c.audiences :
       /\ c.audiences[id].conditions # {}
       /\ \A condition \in c.audiences[id].conditions :
            /\ condition.key \in DOMAIN c.attributes
            /\ condition.value \in c.attributes[condition.key].values
  /\ \A resource \in DOMAIN c.decisions :
       LET decision == c.decisions[resource]
       IN  /\ decision.fallback \in decision.variants
           /\ DOMAIN decision.rules \subseteq DOMAIN c.audiences
           /\ \A id \in DOMAIN decision.rules : decision.rules[id] \in decision.variants

-----------------------------------------------------------------------------
(* The decision.                                                           *)

\* What is not declared is refused.
Accepted(c, visitor) ==
  /\ \A key \in DOMAIN visitor.attributes :
       key \in DOMAIN c.attributes /\ visitor.attributes[key] \in c.attributes[key].values
  /\ visitor.granted \cup visitor.denied \subseteq DOMAIN c.purposes

\* A purpose says whether it honours the global privacy control.
consentAllows(c, key, visitor) ==
  \A purpose \in c.attributes[key].purposes :
    /\ purpose \in visitor.granted \ visitor.denied
    /\ ~(visitor.privacyControl /\ c.purposes[purpose])

\* Mutant: the consent is asked for what must be equal alone.
evaluateUnequal(c, condition, visitor) ==
  /\ condition.operator = "equals" => consentAllows(c, condition.key, visitor)
  /\ condition.key \in DOMAIN visitor.attributes
  /\ (visitor.attributes[condition.key] = condition.value) <=> (condition.operator = "equals")

\* What is not known differs from nothing.
evaluateCondition(c, condition, visitor) ==
  /\ consentAllows(c, condition.key, visitor)
  /\ condition.key \in DOMAIN visitor.attributes
  /\ (visitor.attributes[condition.key] = condition.value) <=> (condition.operator = "equals")

Matched(c, resource, visitor) ==
  {id \in DOMAIN c.decisions[resource].rules :
     \A condition \in c.audiences[id].conditions : evaluateCondition(c, condition, visitor)}

\* The rule whose audience comes first decides.
Decide(c, resource, visitor) ==
  LET matched == Matched(c, resource, visitor)
      first   == CHOOSE id \in matched :
                   \A other \in matched : c.audiences[id].priority <= c.audiences[other].priority
  IN  IF matched = {} THEN c.decisions[resource].fallback ELSE c.decisions[resource].rules[first]

-----------------------------------------------------------------------------
(* The guidance for caches.                                                *)

InputsOf(c, ids) == UNION {{condition.key : condition \in c.audiences[id].conditions} : id \in ids}

\* Mutant: the attributes of the audience that comes first.
FirstInputs(c, resource) ==
  InputsOf(c, {id \in DOMAIN c.decisions[resource].rules : c.audiences[id].priority = 1})
decisionInputs(c, resource) == InputsOf(c, DOMAIN c.decisions[resource].rules)

\* Mutant: an attribute that needs a consent is shared if it is declared so.
SharedByName(a) == ~a.personal /\ a.shared /\ a.source # "authentication-state"
Shared(a) == ~a.personal /\ a.shared /\ a.source # "authentication-state" /\ a.purposes = {}

\* The key has the scope, the revision, the resource and every input, with what is missing.
sharedCacheKey(scope, publication, resource, visitor) ==
  LET c      == publication.configuration
      inputs == decisionInputs(c, resource)
  IN  IF \E key \in inputs : ~Shared(c.attributes[key]) THEN None
      ELSE [scope |-> scope, revision |-> publication.revision, resource |-> resource,
            values |-> [key \in inputs |-> IF key \in DOMAIN visitor.attributes
                                             THEN visitor.attributes[key] ELSE "missing"]]

-----------------------------------------------------------------------------
ReplaceDraft(scope, c) ==
  /\ targets[scope].draft.revision < MaxRevision /\ ValidConfiguration(c)
  /\ targets' = [targets EXCEPT ![scope].draft = [revision |-> @.revision + 1, configuration |-> c]]
  /\ UNCHANGED kept

Publish(scope) ==
  /\ targets' = [targets EXCEPT ![scope].published = targets[scope].draft]
  /\ UNCHANGED kept

\* decidePublished, and an edge that keeps the answer.
Keep(scope, resource, visitor) ==
  LET publication == targets[scope].published
  IN  /\ publication # None
      /\ resource \in DOMAIN publication.configuration.decisions
      /\ Accepted(publication.configuration, visitor)
      /\ LET key == sharedCacheKey(scope, publication, resource, visitor)
         IN  /\ key # None
             /\ kept' = [key |-> key,
                         variant |-> Decide(publication.configuration, resource, visitor)]
      /\ UNCHANGED targets

Init ==
  /\ \E c \in Configurations : /\ ValidConfiguration(c)
       /\ targets = [scope \in Scopes |->
                       [draft |-> [revision |-> 1, configuration |-> c], published |-> None]]
  /\ kept = None

Next ==
  \E scope \in Scopes :
    \/ \E c \in Configurations : ReplaceDraft(scope, c)
    \/ Publish(scope)
    \/ \E resource \in DOMAIN targets[scope].draft.configuration.decisions, visitor \in Visitors :
         Keep(scope, resource, visitor)

Spec == Init /\ [][Next]_tvars

-----------------------------------------------------------------------------
Asked(scope, Claim(_, _)) ==
  targets[scope].published # None =>
    LET c == targets[scope].published.configuration
    IN  \A resource \in DOMAIN c.decisions, visitor \in Visitors :
          Accepted(c, visitor) => Claim(resource, visitor)

\* What the shared cache gives a visitor is what the service would decide for that
\* visitor now: no key leaves out what the decision depends on, in no scope and after no
\* publication (docs/adr/0017-consent-aware-targeting.md:36).
SharedIsOwn ==
  \A scope \in Scopes :
    LET publication == targets[scope].published
        Own(resource, visitor) ==
          kept # None /\ sharedCacheKey(scope, publication, resource, visitor) = kept.key =>
            kept.variant = Decide(publication.configuration, resource, visitor)
    IN  Asked(scope, Own)

\* Without a consent, an attribute is as good as not given, whatever the operators of
\* the conditions and the order of the audiences.
ConsentBinds ==
  \A scope \in Scopes :
    LET c == targets[scope].published.configuration
        Allowed(visitor) ==
          LET keys == {key \in DOMAIN visitor.attributes : consentAllows(c, key, visitor)}
          IN  [visitor EXCEPT !.attributes = [key \in keys |-> visitor.attributes[key]]]
        Same(resource, visitor) ==
          Decide(c, resource, visitor) = Decide(c, resource, Allowed(visitor))
    IN  Asked(scope, Same)
=============================================================================
