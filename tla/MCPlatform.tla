----------------------------- MODULE MCPlatform -----------------------------
(***************************************************************************)
(* The services that readers and visitors go through, the storage and the  *)
(* fleet, and the parts of the Studio, for TLC.  They share no state that  *)
(* their models keep, so a run follows one of them at a time: `service` is *)
(* chosen in the initial state and the others stand still.  A run is       *)
(* thereby the union of their state spaces, not the product.  Agents act   *)
(* at the same time, items are what they act on.                           *)
(***************************************************************************)
EXTENDS PlatformParts, FiniteSets, TLC

CONSTANTS Services          \* the services that are followed

VARIABLES
  service,
  history, draft, commands,
  principal, fresh, administered, studio, denied, call, refused

composing == <<history, draft, commands>>
access    == <<principal, fresh, administered, studio, denied, call, refused>>

\* A section has a body for two and an aside for exactly one card; cards have no slots.
RootRule == [accepts |-> {"section", "card"}, min |-> 1, max |-> 2]
SlotRule(kind, slot) ==
  IF kind # "section" THEN None
  ELSE IF slot = "body" THEN [accepts |-> {"section", "card"}, min |-> 0, max |-> 2]
  ELSE [accepts |-> {"card"}, min |-> 1, max |-> 1]

Com == INSTANCE CompositionEditor WITH Nodes <- Agents \cup {"third"}, Kinds <- {"section", "card"},
         Slots <- {"body", "aside"}, Limit <- 1, MaxCommands <- 2, Root <- <<>>

\* Principals for the access of the Studio: one with the operations of a single method for
\* every method, scoped roles, and the limits that content types draw.
Caps == INSTANCE Authorization

Covering(scopes, types) == [scopes |-> scopes, typed |-> types # {}, types |-> types]
Granted(actions, types) == Covering(Agents, types) @@ [actions |-> actions]
Assigned(role, scopes, types) == Covering(scopes, types) @@ [role |-> role]
Person(roles, assignments, granted) ==
  [method |-> "session", roles |-> roles, assignments |-> assignments, grants |-> granted]

Narrow ==
  LET Actions(method) == {Caps!checks(some).action : some \in Caps!MethodOperations[method]}
  IN  {Person({}, {}, {Granted(Actions(method), {})}) : method \in DOMAIN Caps!MethodOperations}
Scoped ==
  {Person({}, {Assigned(role, {scope}, {})}, {}) :
     role \in {"viewer", "author", "publisher"}, scope \in Agents}
Developer == [Person({"admin"}, {}, {}) EXCEPT !.method = "development"]
PageEditor == Person({}, {}, {Granted({"content.read", "content.create"}, {"page"})})
Columnist == Person({}, {Assigned("publisher", Agents, {"article"})}, {Granted({"ai.read"}, {})})

Acc == INSTANCE StudioAccess WITH
         Principals <- Narrow \cup Scoped \cup
           {Developer, Person({"identity-admin"}, {}, {}), PageEditor, Columnist},
         Successors <- {Person({}, {}, {}), Columnist}, Scopes <- Agents,
         Types <- {"page", "article"}, MaxChanges <- 1

-----------------------------------------------------------------------------
\* The variables of a part that is not followed are None throughout.
StudioInit ==
  /\ IF service = "studio" THEN His!Init
     ELSE browser = None /\ adapter = None /\ pending = None /\ overtaken = None
  /\ IF service = "session" THEN Ses!Init
     ELSE /\ server = None /\ session = None /\ wanted = None /\ shown = None
          /\ checking = None /\ switching = None /\ calls = None /\ held = None
  /\ IF service = "grants" THEN Gra!Init
     ELSE /\ grants = None /\ page = None /\ window = None /\ start = None
          /\ closing = None /\ unrevoked = None /\ overlapped = None
  /\ IF service = "bridge" THEN Bri!Init
     ELSE /\ bridge = None /\ controller = None /\ runtime = None /\ toRuntime = None
          /\ toController = None /\ queue = None /\ sends = None /\ missed = None
  /\ IF service = "composition" THEN Com!Init
     ELSE history = None /\ draft = None /\ commands = None
  /\ IF service = "access" THEN Acc!Init
     ELSE /\ principal = None /\ fresh = None /\ administered = None /\ studio = None
          /\ denied = None /\ call = None /\ refused = None

Still(name, theirs) == IF service = name THEN TRUE ELSE UNCHANGED theirs

StudioStill ==
  /\ Still("studio", locations) /\ Still("session", authority)
  /\ Still("grants", popups) /\ Still("bridge", messages)
  /\ Still("composition", composing) /\ Still("access", access)

StudioNext ==
  \/ service = "studio" /\ His!Next
  \/ service = "session" /\ Ses!Next
  \/ service = "grants" /\ Gra!Next
  \/ service = "bridge" /\ Bri!Next
  \/ service = "composition" /\ Com!Next
  \/ service = "access" /\ Acc!Next

-----------------------------------------------------------------------------
\* Each is evaluated where its part is followed; elsewhere nothing moves.

\* docs/adr/0028-studio-locations-and-history.md:68 says that after the refusal
\* of a typed address navigation must still work; navigate ignores clicks until
\* a traversal arrives that may lead nowhere.
ClicksHeard == service = "studio" => His!ClicksHeard

\* What answers late in the Studio does no harm.  The address in the browser comes to
\* rest at the location the Studio accepted (refusals are undone by traversals that the
\* browser carries out later); a lifetime of the Studio, with the drafts its tree holds,
\* sends and receives in the name of one identity only (checks, refusals and switches
\* of the scope); the preview leaves no session open behind it, and its page never goes
\* back to an older draft nor rests on one (startExternalPreview, cleanupExternalPreview,
\* the message numbers of both ends).
StudioSound ==
  /\ service = "studio" => His!AddressFollows
  /\ service = "session" => Ses!OneIdentityPerLifetime
  /\ service = "grants" => Gra!NoSessionLeftOpen
  /\ service = "bridge" => Bri!NeverBackwards /\ Bri!LatestDraftShown

\* What the Studio offers is refused by the server only for a cause it could not know
\* (the operations of studio-capabilities.ts against the routes behind them); GraphQL
\* decides like the routes, which depends on the principal and the scope alone and is
\* looked at once for both, when the Studio checks its access.
AccessSound ==
  service = "access" => Acc!RefusedForCause /\ (studio.status = "checking" => Acc!SameDoors)

\* Whatever commands, drags, undos and redos follow each other, the trees keep their
\* form and the rules of slots, a move lands where it was aimed, and what is saved
\* is what is shown.
CompositionSound == service = "composition" => Com!CompositionSound

-----------------------------------------------------------------------------
(* The other services.                                                     *)

VARIABLES
  source, serving, deployed, saved, deploying, changes, approved, together,
  rows, reader, fallbacks, variants, request, translation, touched, writes

schemas       == <<source, serving, deployed, saved, deploying, changes, approved, together>>
pages         == <<rows, reader>>
locales       == <<fallbacks, variants, request, translation>>
reads         == <<touched, writes>>

Lif == INSTANCE SchemaLifecycle WITH Fields <- {"field"}, Names <- {"title", "body"},
                                     Generations <- Agents, MaxEdits <- 1
\* One generation that edits two fields, for the comparison of documents.
Cmp == INSTANCE SchemaLifecycle WITH Fields <- Items, Names <- {"title", "body"},
                                     Generations <- {"next"}, MaxEdits <- 2

\* Values in one order as numbers and in the other as texts; a query that lists all,
\* one that leaves out a value, one with a bound.
Number(n) == [type |-> "number", number |-> n, text |-> 3 - n]
Ask(operator, expected, direction, nulls) ==
  [filter |-> [operator |-> operator, expected |-> expected],
   sort   |-> [direction |-> direction, nulls |-> nulls]]
Que == INSTANCE ContentQuery WITH Ids <- 1..3, Values <- {Number(1), Number(2)},
         Queries <- {Ask("any", None, "desc", "last"), Ask("ne", Number(1), "asc", "first"),
                     Ask("lte", Number(2), "asc", "last")},
         PageSize <- 1, MaxWrites <- 2

\* A default without fallbacks and one that has some; beside these, all chains of three
\* locales with up to two fallbacks each, and two translators of one page.
Codes == {"en", "de", "at"}
Chained == {[en |-> <<>>, de |-> <<>>, at |-> <<"de">>], [en |-> <<"de">>, de |-> <<>>, at |-> <<"en">>]}
Loc == INSTANCE Localization WITH Locales <- Codes, Default <- "en", Groups <- Items,
         Translators <- {}, MaxWrites <- 3, Configurations <- Chained
Cha == INSTANCE Localization WITH Locales <- Codes, Default <- "en", Groups <- {},
         Translators <- {}, MaxWrites <- 3, Configurations <- [Codes -> SeqOf(Codes, 2)]
Tra == INSTANCE Localization WITH Locales <- Codes, Default <- "en", Groups <- {"page"},
         Translators <- Agents, MaxWrites <- 3, Configurations <- Chained

\* Who writes a document at the same time.
Everybody == Agents \cup Items

\* The market a visitor is in, and a campaign that may need a consent.
Attribute(from, values, purposes) ==
  [values |-> values, purposes |-> purposes, personal |-> FALSE, source |-> from, shared |-> TRUE]
Is(key, operator, value) == [key |-> key, operator |-> operator, value |-> value]
European   == {Is("market", "equals", "eu")}
NotOnSale  == {Is("campaign", "not-equals", "sale")}
SaleThere  == {Is("campaign", "equals", "sale"), Is("market", "equals", "us")}
Aim(first, second, purposes) ==
  [purposes   |-> [ads |-> TRUE],
   attributes |-> [market   |-> Attribute("market", {"eu", "us"}, {}),
                   campaign |-> Attribute("campaign", {"sale", "none"}, purposes)],
   audiences  |-> [one   |-> [priority |-> 1, conditions |-> first],
                   other |-> [priority |-> 2, conditions |-> second]],
   decisions  |-> [hero |-> [variants |-> {"x", "y", "z"}, fallback |-> "z",
                             rules |-> [one |-> "x", other |-> "y"]]]]
Given ==
  [{} -> {}] \cup [{"market"} -> {"eu", "us"}] \cup [{"campaign"} -> {"sale", "none"}] \cup
  {[market |-> market, campaign |-> campaign] : market \in {"eu", "us"}, campaign \in {"sale", "none"}}
Campaigns == {Aim(European, NotOnSale, {"ads"}), Aim(NotOnSale, SaleThere, {"ads"}),
              Aim(European, NotOnSale, {})}
Visiting ==
  {[attributes |-> given, granted |-> consent[1], denied |-> {}, privacyControl |-> consent[2]] :
     given \in Given, consent \in {<<{}, FALSE>>, <<{"ads"}, FALSE>>, <<{"ads"}, TRUE>>}}

-----------------------------------------------------------------------------
Localized  == {"locales", "chains", "translations"}
Transacted == {"statements", "rollback"}

\* The variables of a service that is not followed are None throughout.
Init ==
  /\ service \in Services
  /\ IF service = "search" THEN Sea!Init
     ELSE entry = None /\ open = None /\ indexer = None /\ index = None /\ semantic = None
  /\ IF service = "experiments" THEN Exp!Init
     ELSE targeting = None /\ trials = None /\ owed = None
  /\ IF service = "document" THEN Doc!Init
     ELSE stored = None /\ writer = None
  /\ IF service = "schemas" THEN Lif!Init
     ELSE IF service = "comparison" THEN Cmp!Init
     ELSE /\ source = None /\ serving = None /\ deployed = None /\ saved = None
          /\ deploying = None /\ changes = None /\ approved = None /\ together = None
  /\ IF service \in Transacted THEN Pgs!Init
     ELSE tables = None /\ minted = None /\ lock = None /\ tx = None
  /\ IF service = "pages" THEN Que!Init ELSE rows = None /\ reader = None
  /\ IF service = "locales" THEN Loc!Init
     ELSE IF service = "chains" THEN Cha!Init
     ELSE IF service = "translations" THEN Tra!Init
     ELSE fallbacks = None /\ variants = None /\ request = None /\ translation = None
  /\ service \notin {"pages"} \cup Localized => touched = None /\ writes = None
  /\ IF service = "fleet" THEN Fle!Init ELSE fleet = None /\ check = None /\ lives = None
  /\ IF service = "recovery" THEN Rec!Init
     ELSE /\ database = None /\ live = None /\ archive = None /\ manifest = None
          /\ target = None /\ running = None /\ restored = None
  /\ IF service = "visits" THEN Per!Init ELSE targets = None /\ kept = None
  /\ StudioInit

OthersStill ==
  /\ Still("search", search)
  /\ Still("experiments", experiments)
  /\ Still("document", document)
  /\ IF service = "comparison" THEN TRUE ELSE Still("schemas", schemas)
  /\ IF service \in Transacted THEN TRUE ELSE UNCHANGED statements
  /\ Still("pages", pages)
  /\ IF service \in Localized THEN TRUE ELSE UNCHANGED locales
  /\ IF service \in {"pages"} \cup Localized THEN TRUE ELSE UNCHANGED reads
  /\ Still("fleet", members)
  /\ Still("recovery", backups)
  /\ Still("visits", visits)
  /\ StudioStill

Next ==
  /\ UNCHANGED service
  /\ \/ service = "search" /\ Sea!Next
     \/ service = "experiments" /\ Exp!Next
     \/ service = "document" /\ Doc!Next
     \/ service = "schemas" /\ Lif!Next
     \/ service = "comparison" /\ Cmp!Developing
     \/ service = "statements" /\ Pgs!Working(Items, 3)
     \/ service = "rollback" /\ Pgs!Working({"entry"}, MaxRows)
     \/ service = "pages" /\ Que!Next
     \/ service = "locales" /\ Loc!Next
     \/ service = "chains" /\ Cha!Resolving
     \/ service = "translations" /\ Tra!Writing
     \/ service = "fleet" /\ Fle!Next
     \/ service = "recovery" /\ Rec!Next
     \/ service = "visits" /\ Per!Next
     \/ StudioNext
  /\ OthersStill

vars == <<service, search, experiments, document,
          schemas, statements, pages, locales, reads, members, backups, visits,
          locations, authority, popups, messages, composing, access>>

Spec == Init /\ [][Next]_vars

Alike == Permutations(Agents) \cup Permutations(Items)

-----------------------------------------------------------------------------
\* Each is evaluated where its service is followed; elsewhere nothing moves.

\* What is read is what is stored: the pages of a list have each entry nobody wrote
\* once (query), and a route leads to the best published variant (resolveRoute).
ReadsSound ==
  /\ service = "pages" => Que!PagesComplete
  /\ service = "locales" => Loc!RouteAnswered
  /\ service = "chains" => Cha!ChainOrdered

\* What is recorded of something else is true of it: a search index that reports itself
\* ready holds what is stored however the jobs overtook each other (processJob), evidence
\* of a fleet member is about its settings (snapshot), and what a backup vouches for or a
\* restore reports is a whole database (verifyBackup).
RecordsSound ==
  /\ service = "search" => Sea!ReadyMeansFresh
  /\ service = "fleet" => Fle!EvidenceCurrent
  /\ service = "recovery" => Rec!RecoverySound

\* A visitor of a placement is in one experiment at most (transition and allocate, with
\* targeting that is edited and published in between); an answer that a shared cache
\* keeps is the one the service would give to whoever has its key, and without a consent
\* an attribute decides nothing (sharedCacheGuidance, evaluatePersonalizationDecision).
TargetingSound ==
  /\ service = "experiments" => Exp!OneTrialPerPlacement
  /\ service = "visits" => Per!SharedIsOwn /\ Per!ConsentBinds

\* A write is one step of the state it was decided on: each step of the writers of a
\* document applies a whole change once, refuses one or changes nothing (save), the
\* transactions of PostgreSQL commit what ContentStore has as one step (their row
\* locks), one of two translations is created, and a fleet member that changed while
\* it was checked gets nothing.
WritesAtomic ==
  /\ [][service = "document" => Doc!AtomicStep]_vars
  /\ [][(service \in Transacted) => Pgs!AtomicStep]_vars
  /\ [][service = "translations" => Tra!NeverReplaced]_vars
  /\ [][service = "fleet" => Fle!EvidenceInTime]_vars

\* A document that is deployed without approval keeps the content valid that could be
\* saved, and the drafts of two generations fit it (diffFields, validateContent,
\* assess and deploySource with drafts saved in between).
EvolutionSound ==
  /\ service = "schemas" => Lif!EvolutionSound
  /\ service = "comparison" => Cmp!EvolutionSound

\* docs/experiments.md:75 says that an experiment paused by a guardrail needs a
\* later snapshot that passes; transition looks at the last one only.
GuardrailHolds == [][service = "experiments" => ~Exp!ResumesUnproven]_vars

-----------------------------------------------------------------------------
(* Theorems.  The parts that they are about keep their invariants by the   *)
(* lemmas of PlatformParts, and stand still when another is followed.      *)

\* A visitor of a placement is in one experiment at most, whatever is published, paused and
\* resumed in between; an answer that a shared cache keeps is the one the service would give,
\* and without a consent an attribute decides nothing: for any number of trials.
THEOREM TargetingAlwaysSound == Spec => []TargetingSound
<1> DEFINE Inv == /\ service = "experiments" => ExperimentInv
                  /\ service = "visits" => TargetingInv
<1>1. Init => Inv
  BY ExperimentInit, TargetingInit DEF Init
<1>2. Inv /\ [Next]_vars => Inv'
  <2>1. SUFFICES ASSUME Inv, [Next]_vars PROVE Inv'
    OBVIOUS
  <2>2. CASE UNCHANGED vars
    BY <2>1, <2>2 DEF vars, experiments, visits, ExperimentInv, ExperimentTypes, OneActive, PinnedIsPublished,
      Exp!Active, TargetingInv, NotRewritten, KeptWasDecided, KeptFor, WasPublished
  <2>3. CASE Next
    <3>1. /\ service' = service
          /\ service = "experiments" => Exp!Next
          /\ service = "visits" => Per!Next
      BY <2>3 DEF Next, StudioNext
    <3> QED BY <2>1, <3>1, ExperimentStep, TargetingStep
  <2> QED BY <2>1, <2>2, <2>3
<1>3. Inv => TargetingSound
  BY ExperimentSound, KeptIsOwn, ConsentDecides DEF TargetingSound
<1> QED BY <1>1, <1>2, <1>3, PTL DEF Spec

\* The browser comes to rest at the address of what the Studio accepted, whatever was typed,
\* traversed, refused or left behind: for any set of addresses.
THEOREM AddressAlwaysFollows == Spec => [](service = "studio" => His!AddressFollows)
<1> DEFINE Inv == service = "studio" => HistoryInv
<1>1. Init => Inv
  BY HistoryInit DEF Init, StudioInit
<1>2. Inv /\ [Next]_vars => Inv'
  <2>1. SUFFICES ASSUME Inv, [Next]_vars PROVE Inv'
    OBVIOUS
  <2>2. CASE UNCHANGED vars
    <3>1. service' = service /\ UNCHANGED locations
      BY <2>2 DEF vars
    <3>2. HistoryInv => HistoryInv'
      BY <3>1 DEF locations, HistoryInv, HistoryTypes, Led, His!Key, His!Here, His!Marker
    <3> QED BY <2>1, <3>1, <3>2
  <2>3. CASE Next
    <3>1. service' = service /\ (service = "studio" => His!Next)
      BY <2>3 DEF Next, StudioNext
    <3> QED BY <2>1, <3>1, HistoryStep
  <2> QED BY <2>1, <2>2, <2>3
<1>3. Inv => (service = "studio" => His!AddressFollows)
  BY DEF His!AddressFollows, His!Quiet, HistoryInv, Led
<1> QED BY <1>1, <1>2, <1>3, PTL DEF Spec

\* The preview leaves no session behind it that is neither the one shown nor known not to have been
\* revoked, and its page never goes back to an older draft nor rests on one: for any number of
\* openings, entries, patches, selections and reloads.
THEOREM PreviewAlwaysSound ==
  Spec => [](/\ service = "grants" => Gra!NoSessionLeftOpen
             /\ service = "bridge" => Bri!NeverBackwards /\ Bri!LatestDraftShown)
<1> DEFINE Inv == /\ service = "grants" => GrantsInv
                  /\ service = "bridge" => BridgeInv
<1>1. Init => Inv
  BY GrantsInit, BridgeInit DEF Init, StudioInit
<1>2. Inv /\ [Next]_vars => Inv'
  <2>1. SUFFICES ASSUME Inv, [Next]_vars PROVE Inv'
    OBVIOUS
  <2>2. CASE UNCHANGED vars
    <3>1. service' = service /\ UNCHANGED popups /\ UNCHANGED messages
      BY <2>2 DEF vars
    <3>2. GrantsInv => GrantsInv'
      BY <3>1 DEF popups, GrantsInv, GrantsKept, GrantTypes, OneOpening, PageGrant, LiveInHand, InHand,
        CleanedBy, RevokedBy, Waiting, Gra!Running
    <3>3. BridgeInv => BridgeInv'
      BY <3>1 DEF messages, BridgeInv, BridgeTypes, HeadOnly, Known, Waits, Arrives, Posted
    <3> QED BY <2>1, <3>1, <3>2, <3>3
  <2>3. CASE Next
    <3>1. /\ service' = service
          /\ service = "grants" => Gra!Next
          /\ service = "bridge" => Bri!Next
      BY <2>3 DEF Next, StudioNext
    <3> QED BY <2>1, <3>1, GrantsStep, BridgeStep
  <2> QED BY <2>1, <2>2, <2>3
<1>3. Inv => /\ service = "grants" => Gra!NoSessionLeftOpen
             /\ service = "bridge" => Bri!NeverBackwards /\ Bri!LatestDraftShown
  BY GrantsSound, BridgeSound
<1> QED BY <1>1, <1>2, <1>3, PTL DEF Spec

\* The variants and the translations that are being created.
TranslationInv ==
  /\ variants \in [{"page"} -> [Codes -> Tra!State]]
  /\ translation \in [Agents -> {None} \cup [group : {"page"}, locale : Codes]]

\* One of two translations of a page into a locale is created, and none of those that are published
\* becomes a draft.
LEMMA TranslationStep ==
  ASSUME TranslationInv, Tra!Writing
  PROVE  TranslationInv' /\ Tra!NeverReplaced
<1> USE DEF TranslationInv, Tra!NeverReplaced, Tra!Published, Tra!State
<1>1. ASSUME NEW g \in {"page"}, NEW l \in Codes, NEW state \in Tra!State, Tra!Publish(g, l, state)
      PROVE  TranslationInv' /\ Tra!NeverReplaced
  BY <1>1 DEF Tra!Publish
<1>2. ASSUME NEW g \in {"page"}, NEW l \in Codes, Tra!Delete(g, l)
      PROVE  TranslationInv' /\ Tra!NeverReplaced
  BY <1>2 DEF Tra!Delete
<1>3. ASSUME NEW g \in {"page"}, NEW l \in Codes, NEW t \in Agents, Tra!CheckTranslation(t, g, l)
      PROVE  TranslationInv' /\ Tra!NeverReplaced
  BY <1>3 DEF Tra!CheckTranslation
<1>4. ASSUME NEW t \in Agents, Tra!CreateTranslation(t)
      PROVE  TranslationInv' /\ Tra!NeverReplaced
  <2>1. translation[t] \in [group : {"page"}, locale : Codes]
    BY <1>4 DEF Tra!CreateTranslation
  <2>2. translation' \in [Agents -> {None} \cup [group : {"page"}, locale : Codes]]
    BY <1>4 DEF Tra!CreateTranslation
  <2>3. CASE Tra!KeyFree(translation[t].group, translation[t].locale)
    <3>1. variants' = [variants EXCEPT ![translation[t].group][translation[t].locale] = "draft"]
      BY <1>4, <2>3 DEF Tra!CreateTranslation
    <3> QED BY <2>1, <2>2, <2>3, <3>1 DEF Tra!KeyFree
  <2>4. CASE ~Tra!KeyFree(translation[t].group, translation[t].locale)
    <3>1. UNCHANGED variants
      BY <1>4, <2>4 DEF Tra!CreateTranslation
    <3> QED BY <2>2, <3>1
  <2> QED BY <2>3, <2>4
<1> QED BY <1>1, <1>2, <1>3, <1>4 DEF Tra!Writing

\* Each step of those who write a document, of the transactions of PostgreSQL, of two translators and
\* of the checks of a fleet is one step of the state that it was decided on: for any number of writers
\* and tries, of agents and entries, of members and operators.
THEOREM WritesAlwaysAtomic == Spec => WritesAtomic
<1> DEFINE Inv == /\ service = "document" => DocumentInv
                  /\ service \in Transacted => StatementsInv
                  /\ service = "translations" => TranslationInv
                  /\ service = "fleet" => FleetInv
<1>1. Init => Inv
  <2>1. SUFFICES ASSUME Init PROVE Inv
    OBVIOUS
  <2>2. service = "document" => DocumentInv
    BY <2>1, DocumentTypes DEF Init, Doc!Init, DocumentInv, CopiesAreOld, Doc!Idle
  <2>3. service \in Transacted => StatementsInv
    BY <2>1, StatementsInit DEF Init, Transacted
  <2>4. service = "translations" => TranslationInv
    BY <2>1 DEF Init, Tra!Init, TranslationInv, Tra!State
  <2>5. service = "fleet" => FleetInv
    BY <2>1, FleetInit DEF Init
  <2> QED BY <2>2, <2>3, <2>4, <2>5
<1>2. ASSUME Inv, [Next]_vars
      PROVE  /\ Inv'
             /\ service = "document" => Doc!AtomicStep
             /\ service \in Transacted => Pgs!AtomicStep
             /\ service = "translations" => [Tra!NeverReplaced]_vars
             /\ service = "fleet" => Fle!EvidenceInTime
  <2>1. /\ service' = service
        /\ service = "document" => [Doc!Next]_(Doc!vars)
        /\ service = "statements" => [Pgs!Working(Items, 3)]_statements
        /\ service = "rollback" => [Pgs!Working({"entry"}, MaxRows)]_statements
        /\ service = "translations" => Tra!Writing \/ UNCHANGED vars
        /\ service = "fleet" => [Fle!Next]_members
    BY <1>2 DEF Next, StudioNext, vars, document, Doc!vars
  <2>2. service = "document" => DocumentInv' /\ Doc!AtomicStep
    <3>1. None \notin Doc!Document
      BY NoneApart DEF Doc!Document
    <3> QED BY <1>2, <2>1, <3>1, DocumentStep
  <2>3. service \in Transacted => StatementsInv' /\ Pgs!AtomicStep
    <3>1. Items \in SUBSET Stored /\ {"entry"} \in SUBSET Stored
      BY DEF Stored
    <3>2. CASE service = "statements"
      BY <1>2, <2>1, <3>1, <3>2, StatementsStep, StatementsAtomic DEF Transacted
    <3>3. CASE service = "rollback"
      BY <1>2, <2>1, <3>1, <3>3, StatementsStep, StatementsAtomic DEF Transacted
    <3> QED BY <3>2, <3>3 DEF Transacted
  <2>4. service = "translations" => TranslationInv' /\ [Tra!NeverReplaced]_vars
    <3>1. CASE UNCHANGED vars
      BY <1>2, <3>1 DEF vars, locales, TranslationInv
    <3> QED BY <1>2, <2>1, <3>1, TranslationStep
  <2>5. service = "fleet" => FleetInv' /\ Fle!EvidenceInTime
    <3>1. CASE UNCHANGED members
      BY <1>2, <2>1, <3>1, FleetInTime, FleetStill
    <3> QED BY <1>2, <2>1, <3>1, FleetStep, FleetInTime
  <2> QED BY <2>1, <2>2, <2>3, <2>4, <2>5
<1>3. Inv /\ [Next]_vars =>
        /\ Inv'
        /\ [service = "document" => Doc!AtomicStep]_vars
        /\ [(service \in Transacted) => Pgs!AtomicStep]_vars
        /\ [service = "translations" => Tra!NeverReplaced]_vars
        /\ [service = "fleet" => Fle!EvidenceInTime]_vars
  BY <1>2
<1> QED BY <1>1, <1>3, PTL DEF Spec, WritesAtomic

\* A lifetime of the Studio is of one identity, whatever answers arrive late and however checks,
\* refusals and switches overlap: for any number of scopes, checks and switches.
THEOREM IdentityPerLifetime == Spec => [](service = "session" => Ses!OneIdentityPerLifetime)
<1> DEFINE Inv == service = "session" => SessionInv
<1>1. Init => Inv
  BY SessionInit DEF Init, StudioInit
<1>2. Inv /\ [Next]_vars => Inv'
  <2>1. SUFFICES ASSUME Inv, [Next]_vars PROVE Inv'
    OBVIOUS
  <2>2. CASE UNCHANGED vars
    <3>1. service' = service /\ UNCHANGED authority
      BY <2>2 DEF vars
    <3>2. SessionInv => SessionInv'
      BY <3>1 DEF authority, SessionInv, Around, Owned, Kept, OfLifetime, Ses!OneIdentityPerLifetime
    <3> QED BY <2>1, <3>1, <3>2
  <2>3. CASE Next
    <3>1. service' = service /\ (service = "session" => Ses!Next)
      BY <2>3 DEF Next, StudioNext
    <3> QED BY <2>1, <3>1, SessionStep
  <2> QED BY <2>1, <2>2, <2>3
<1>3. Inv => (service = "session" => Ses!OneIdentityPerLifetime)
  BY DEF SessionInv, Kept
<1> QED BY <1>1, <1>2, <1>3, PTL DEF Spec

\* What answers late in the Studio does no harm.
THEOREM StudioAlwaysSound == Spec => []StudioSound
BY AddressAlwaysFollows, IdentityPerLifetime, PreviewAlwaysSound, PTL DEF StudioSound

\* A search index that reports itself ready is fresh, evidence of the fleet is current, a backup that is
\* vouched for is whole, and so is what a restore reported: for any number of revisions, members,
\* operators and recovery commands.
THEOREM RecordsAlwaysSound == Spec => []RecordsSound
<1> DEFINE Inv == /\ service = "search" => IndexInv
                  /\ service = "fleet" => FleetInv
                  /\ service = "recovery" => FilesInv
<1>1. Init => Inv
  BY IndexInit, FleetInit, FilesInit DEF Init
<1>2. Inv /\ [Next]_vars => Inv'
  <2>1. SUFFICES ASSUME Inv, [Next]_vars PROVE Inv'
    OBVIOUS
  <2>2. CASE UNCHANGED vars
    BY <2>1, <2>2, IndexStill, FleetStill, FilesStill DEF vars
  <2>3. CASE Next
    <3>1. /\ service' = service
          /\ service = "search" => Sea!Next
          /\ service = "fleet" => Fle!Next
          /\ service = "recovery" => Rec!Next
      BY <2>3 DEF Next, StudioNext
    <3> QED BY <2>1, <3>1, IndexStep, FleetStep, FilesStep
  <2> QED BY <2>1, <2>2, <2>3
<1>3. Inv => RecordsSound
  BY IndexFresh, FleetShown, FilesSound DEF RecordsSound
<1> QED BY <1>1, <1>2, <1>3, PTL DEF Spec
=============================================================================
