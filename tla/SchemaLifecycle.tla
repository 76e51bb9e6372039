-------------------------- MODULE SchemaLifecycle --------------------------
(***************************************************************************)
(* Schemas as code and their deployment: how two versions of a document    *)
(* are compared and the changes rated, what content a document accepts, and *)
(* the deployment of the source of a generation of processes while drafts   *)
(* are saved by both.  Field ids are taken as unique.                      *)
(***************************************************************************)
EXTENDS Naturals, FiniteSets

CONSTANTS
  Fields,           \* ids of fields
  Names,            \* names of fields, the keys of the content
  Generations,      \* running processes, each with its own source
  MaxEdits,         \* bound on the edits of sources
  None

VARIABLES
  source,           \* the document each generation was built with
  serving,          \* the generations that last answered that they are ready
  deployed,         \* the stored deployment
  saved,            \* the draft of the one entry
  deploying,        \* how far each generation is with a deployment
  changes,          \* count of the edits of sources
  approved, together      \* history: a plan needed approval; two deployments at once

lvars == <<source, serving, deployed, saved, deploying, approved, changes, together>>

-----------------------------------------------------------------------------
\* One content type, or none of it.  `max` stands for the constraints of a field, a
\* taxonomy for all that fields refer to by name (objects are compared like it), a
\* component for its version and the constraint of its one property, a route for its
\* slug field, which is one of the texts.
Field ==
  [name : Names, type : {"text"}, required : BOOLEAN, max : 1..2]
  \cup [name : Names, type : {"term", "tree"}, required : BOOLEAN, max : {1}]
Card     == [version : 1..2, max : 1..2]
Document == [version : 1..(MaxEdits + 1), collection : 1..2, fields : [Fields -> Field \cup {None}],
             terms : (SUBSET (1..2)) \cup {None}, card : Card \cup {None},
             route : Names \cup {None}, localized : SUBSET Names]
Declared(doc) == {f \in Fields : doc.fields[f] # None}

Typed(doc) == Declared(doc) # {}

\* contentSchemaDefinitionSchema: names are unique, what fields refer to exists.
Parses(doc) ==
  /\ \A f, g \in Declared(doc) : doc.fields[f].name = doc.fields[g].name => f = g
  /\ \A f \in Declared(doc) : doc.fields[f].type = "term" => doc.terms # None
  /\ doc.localized \subseteq {doc.fields[f].name : f \in Declared(doc)}
  /\ doc.route # None =>
       \E f \in Declared(doc) : doc.fields[f].name = doc.route /\ doc.fields[f].type = "text"

-----------------------------------------------------------------------------
\* The changes from one document to the next, each with its risk.
Change(kind, risk) == {[kind |-> kind, risk |-> risk]}
When(condition, change) == IF condition THEN change ELSE {}

\* Mutant: a field that becomes required is rated like one that becomes optional.
RequiredSafely(next) == "safe"
RequiredRisk(next) == IF next.required THEN "backfill" ELSE "safe"

FieldChanges(field, next) ==
  IF field = None /\ next = None THEN {}
  ELSE IF next = None THEN Change("field-removed", "destructive")
  ELSE IF field = None THEN Change("field-added", RequiredRisk(next))
  ELSE When(field.name # next.name, Change("field-renamed", "backfill")) \cup
       IF field.type # next.type THEN Change("field-type-changed", "destructive")
       ELSE When(field.required # next.required, Change("field-required-changed", RequiredRisk(next)))
            \cup When(field.max # next.max, Change("field-constraints-changed", "backfill"))

NamedChanges(value, next) ==
  IF value = next THEN {}
  ELSE IF next = None THEN Change("removed", "destructive")
  ELSE IF value = None THEN Change("added", "safe") ELSE Change("changed", "backfill")

Structural(before, after) ==
  When(before.collection # after.collection, Change("schema-collection-changed", "destructive"))
  \cup When(before.route # after.route, Change("schema-route-changed", "backfill"))
  \cup When(before.localized # after.localized, Change("schema-localization-changed", "backfill"))
  \cup UNION {FieldChanges(before.fields[f], after.fields[f]) : f \in Fields}
  \cup NamedChanges(before.terms, after.terms)

SchemaChanges(before, after) ==
  IF ~Typed(before) /\ ~Typed(after) THEN {}
  ELSE IF ~Typed(after) THEN Change("schema-removed", "destructive")
  ELSE IF ~Typed(before) THEN Change("schema-added", "safe")
  ELSE Structural(before, after) \cup
       IF before.version # after.version
       THEN Change("schema-version-changed",
                   IF after.version > before.version THEN "safe" ELSE "destructive")
       ELSE When(Structural(before, after) # {}, Change("schema-version-required", "destructive"))

ComponentChanges(card, next) ==
  IF card = next THEN {}
  ELSE IF next = None THEN Change("component-removed", "destructive")
  ELSE IF card = None THEN Change("component-added", "safe")
  ELSE When(card.version # next.version, Change("component-version-changed", "backfill")) \cup
       When(card.max # next.max, Change("component-contract-changed", "backfill") \cup
              When(card.version = next.version, Change("component-version-required", "destructive")))

\* createSchemaMigrationPlan: approval and the way back.
Plan(before, after) == SchemaChanges(before, after) \cup ComponentChanges(before.card, after.card)
Risks(plan) == {change.risk : change \in plan}
ApprovalRequired(plan) == Risks(plan) \cap {"backfill", "destructive"} # {}
RollbackMode(plan) ==
  IF "destructive" \in Risks(plan) THEN "unavailable"
  ELSE IF "backfill" \in Risks(plan) THEN "manual" ELSE "automatic"

-----------------------------------------------------------------------------
\* What a field can hold: a text of a size, a term, an object or a node.
Value == [type : {"text", "term"}, size : 1..2, version : {1}]
         \cup [type : {"tree"}, size : 1..2, version : 1..2]
Content == [Names -> Value \cup {None}]

Accepts(doc, field, value) ==
  IF value = None THEN ~field.required
  ELSE /\ value.type = field.type
       /\ CASE field.type = "text"   -> value.size <= field.max
            [] field.type = "term"   -> value.size \in doc.terms
            [] field.type = "tree"   -> /\ doc.card # None /\ value.version = doc.card.version
                                        /\ value.size <= doc.card.max

\* validateContent: fields that are not declared are not looked at.
Valid(doc, content) ==
  Typed(doc) /\ \A f \in Declared(doc) : Accepts(doc, doc.fields[f], content[doc.fields[f].name])

OnlyDeclared(doc, content) ==
  \A n \in Names : content[n] # None => \E f \in Declared(doc) : doc.fields[f].name = n

Accepted(doc) == {content \in Content : OnlyDeclared(doc, content) /\ Valid(doc, content)}

-----------------------------------------------------------------------------
\* The code changes and the generation is started again.
Edits(doc) ==
  {[doc EXCEPT !.fields[f] = field] : f \in Fields, field \in Field \cup {None}}
  \cup {[doc EXCEPT !.terms = t] : t \in (SUBSET (1..2)) \cup {None}}
  \cup {[doc EXCEPT !.card = c] : c \in Card \cup {None}}
  \cup {[doc EXCEPT !.collection = c] : c \in 1..2}
  \cup {[doc EXCEPT !.route = n] : n \in Names \cup {None}}
  \cup {[doc EXCEPT !.localized = some] : some \in SUBSET Names}
Numbered(doc) == {doc, [doc EXCEPT !.version = @ + 1]}

Develop(g) ==
  /\ changes < MaxEdits /\ changes' = changes + 1 /\ deploying[g] = None
  /\ \E doc \in UNION {Numbered(d) : d \in Edits(source[g])} :
       doc # source[g] /\ Parses(doc) /\ source' = [source EXCEPT ![g] = doc]
  /\ serving' = serving \ {g}
  /\ UNCHANGED <<deployed, saved, deploying, approved, together>>

\* GET /ready: traffic is sent to generations without drift, as last asked.
Probe(g) ==
  /\ serving' = IF deployed = source[g] THEN serving \cup {g} ELSE serving \ {g}
  /\ UNCHANGED <<source, deployed, saved, deploying, approved, changes, together>>

\* createEntry and updateDraft of the content service, under its own source.
SaveDraft(g) ==
  /\ g \in serving
  /\ \E content \in Accepted(source[g]) : content # saved /\ saved' = content
  /\ UNCHANGED <<source, serving, deployed, deploying, approved, changes, together>>

\* deploySource: the deployment is read, then the drafts, then the source is
\* saved.  Who asks may name the plan they approved.
Deploy(g) ==
  /\ deploying[g] = None /\ deployed # source[g]
  /\ \E plan \in {None, <<deployed, source[g]>>} :
       deploying' = [deploying EXCEPT ![g] = [plan |-> plan, from |-> None, fits |-> FALSE]]
  /\ together' = (together \/ \E h \in Generations : deploying[h] # None)
  /\ UNCHANGED <<source, serving, deployed, saved, approved, changes>>

\* assess reads the deployment ...
ReadDeployment(g) ==
  /\ deploying[g] # None /\ deploying[g].from = None
  /\ deploying' = [deploying EXCEPT ![g].from = deployed]
  /\ UNCHANGED <<source, serving, deployed, saved, approved, changes, together>>

Permitted(g) ==
  LET from == deploying[g].from
  IN  /\ saved # None => Valid(source[g], saved)
      /\ ApprovalRequired(Plan(from, source[g])) => deploying[g].plan = <<from, source[g]>>

\* ... and then the drafts.
Assess(g) ==
  /\ deploying[g] # None /\ deploying[g].from # None /\ ~deploying[g].fits
  /\ deploying' = [deploying EXCEPT ![g] = IF Permitted(g) THEN [@ EXCEPT !.fits = TRUE] ELSE None]
  /\ UNCHANGED <<source, serving, deployed, saved, approved, changes, together>>

SaveDeployment(g) ==
  /\ deploying[g] # None /\ deploying[g].fits
  /\ deployed' = source[g]
  /\ approved' = (approved \/ ApprovalRequired(Plan(deploying[g].from, source[g])))
  /\ deploying' = [deploying EXCEPT ![g] = None]
  /\ UNCHANGED <<source, serving, saved, changes, together>>

-----------------------------------------------------------------------------
\* The type `page` with one field is deployed by all.
Base(first, field) ==
  [version |-> 1, collection |-> 1,
   fields |-> [f \in Fields |-> IF f = first THEN field ELSE None],
   terms |-> {1}, card |-> [version |-> 1, max |-> 1],
   route |-> None, localized |-> {}]

Init ==
  /\ \E first \in Fields, field \in Field :
       /\ field.name = CHOOSE n \in Names : TRUE
       /\ field.max = 1
       /\ deployed = Base(first, field)
  /\ source = [g \in Generations |-> deployed] /\ serving = Generations
  /\ saved = None
  /\ deploying = [g \in Generations |-> None]
  /\ changes = 0 /\ approved = FALSE /\ together = FALSE

\* The code alone, for the comparison of documents.
Developing == \E g \in Generations : Develop(g)

Next == \E g \in Generations :
  Develop(g) \/ Probe(g) \/ SaveDraft(g) \/ Deploy(g)
  \/ ReadDeployment(g) \/ Assess(g) \/ SaveDeployment(g)

-----------------------------------------------------------------------------
TypeOK ==
  /\ deployed \in Document /\ source \in [Generations -> Document]
  /\ serving \subseteq Generations /\ saved \in Content \cup {None}

\* A plan that needs no approval leaves all content valid that could be saved.
UnapprovedKeepsValid ==
  \A g \in Generations :
    /\ Typed(source[g])
    /\ ~ApprovalRequired(Plan(deployed, source[g]))
    => Accepted(deployed) \subseteq {content \in Content : Valid(source[g], content)}

\* As long as nobody approved anything, every draft fits what is deployed, though
\* both generations save; two deployments at once may undo each other.
DraftsFit == ~approved /\ ~together /\ saved # None /\ Typed(deployed) => Valid(deployed, saved)

EvolutionSound == UnapprovedKeepsValid /\ DraftsFit

\* lifecycle.ts:562 says that after safe changes alone all changes are metadata-only
\* or additive and the rollback is automatic; a field that became optional is safe.
RollbackKeepsValid ==
  \A g \in Generations :
    RollbackMode(Plan(deployed, source[g])) = "automatic" /\ Typed(deployed) /\ Typed(source[g])
    => Accepted(source[g]) \subseteq {content \in Content : Valid(deployed, content)}
=============================================================================
