---------------------------- MODULE Localization ----------------------------
(***************************************************************************)
(* Locales, their fallback chains, and the variants of translated content: *)
(* how a route is resolved to a variant, query by query, while variants    *)
(* are translated, published, moved and deleted.  Of all paths, one is     *)
(* followed.                                                               *)
(***************************************************************************)
EXTENDS Naturals, Sequences, SequencesExt

CONSTANTS
  Locales, Default,   \* the enabled locales of a site
  Configurations,     \* the fallbacks of each locale that a site may be given
  Groups,             \* translation groups
  Translators,
  None,
  MaxWrites           \* bound on the writes

VARIABLES
  fallbacks,   \* the configured fallbacks of each locale, in order
  variants,    \* the variant of each group in each locale
  request,     \* a route that is being resolved
  translation, \* a translation that is being created, by each translator
  touched,     \* history: the groups that were written since the request began
  writes

lvars == <<fallbacks, variants, request, translation, touched, writes>>

\* What a variant is delivered at: the path that is followed, or another one.
State == {"none", "draft", "elsewhere", "here"}

Published(variant) == variant \in {"elsewhere", "here"}

-----------------------------------------------------------------------------
(* LocaleRegistry *)

\* append: depth first, each locale once.
Visit[chain \in Seq(Locales), code \in Locales] ==
  IF code \in ToSet(chain) THEN chain
  ELSE FoldLeft(LAMBDA c, next : Visit[c, next], Append(chain, code), fallbacks[code])

\* Mutant: a default that is a fallback is added again.
ChainWithDefault(requested) == Append(Visit[<<>>, requested], Default)

FallbackChain(requested) == Visit[Visit[<<>>, requested], Default]

\* The locales that are some number of fallbacks away.
Reached[codes \in SUBSET Locales, steps \in Nat] ==
  IF steps = 0 THEN codes
  ELSE Reached[codes \cup UNION {ToSet(fallbacks[c]) : c \in codes}, steps - 1]

\* The configuration is refused where a locale is its own fallback by any path.
Valid(configured) ==
  \A l \in Locales :
    LET step(codes) == UNION {ToSet(configured[c]) : c \in codes}
    IN  l \notin step({l}) \cup step(step({l})) \cup step(step(step({l})))

-----------------------------------------------------------------------------
(* resolveRoute *)

NoRequest == [step |-> "idle", locale |-> None, todo |-> <<>>, group |-> None,
              answer |-> None]

Resolve(locale) ==
  /\ request.step = "idle"
  /\ request' = [NoRequest EXCEPT !.step = "list", !.locale = locale,
                                  !.todo = FallbackChain(locale)]
  /\ touched' = {}
  /\ UNCHANGED <<fallbacks, variants, translation, writes>>

Answered(answer) ==
  request' = [request EXCEPT !.step = "answered", !.todo = <<>>, !.answer = answer]

\* The published entries of the next locale of the chain.
List ==
  /\ request.step = "list"
  /\ IF request.todo = <<>> THEN Answered(None)
     ELSE LET found == {g \in Groups : variants[g][Head(request.todo)] = "here"}
          IN  IF found = {} THEN request' = [request EXCEPT !.todo = Tail(@)]
              ELSE \E g \in found : request' = [request EXCEPT !.step = "group", !.group = g]
  /\ UNCHANGED <<fallbacks, variants, translation, touched, writes>>

\* getTranslationGroup: an entry that is gone is passed over.
Group ==
  /\ request.step = "group"
  /\ request' =
       IF variants[request.group][Head(request.todo)] = "none"
       THEN [request EXCEPT !.step = "list", !.group = None, !.todo = Tail(@)]
       ELSE [request EXCEPT !.step = "variants"]
  /\ UNCHANGED <<fallbacks, variants, translation, touched, writes>>

\* Mutant: the variants are read in the draft perspective.
AnyVariant(group, locale) == variants[group][locale] # "none"
Deliverable(group, locale) == Published(variants[group][locale])

\* The first locale of the chain that has a published variant.
Best(group, locale) ==
  LET available == SelectSeq(FallbackChain(locale), LAMBDA l : Deliverable(group, l))
  IN  IF available = <<>> THEN None ELSE Head(available)

\* resolve
Variants ==
  /\ request.step = "variants"
  /\ LET best == Best(request.group, request.locale)
     IN  Answered(IF best = None THEN None ELSE [group |-> request.group, locale |-> best])
  /\ UNCHANGED <<fallbacks, variants, translation, touched, writes>>

Deliver ==
  /\ request.step = "answered"
  /\ request' = NoRequest
  /\ touched' = {}
  /\ UNCHANGED <<fallbacks, variants, translation, writes>>

-----------------------------------------------------------------------------
(* What happens to the variants *)

Writes(group) ==
  /\ writes < MaxWrites
  /\ writes' = writes + 1
  /\ touched' = IF request.step = "idle" THEN {} ELSE touched \cup {group}

\* A publication, at a path that no entry of the locale holds; a deletion.
Publish(group, locale, state) ==
  /\ variants[group][locale] # "none"
  /\ state \in {"elsewhere", "here"}
  /\ state = "here" => \A g \in Groups \ {group} : variants[g][locale] # "here"
  /\ variants' = [variants EXCEPT ![group][locale] = state]
  /\ Writes(group)
  /\ UNCHANGED <<fallbacks, request, translation>>

Delete(group, locale) ==
  /\ variants[group][locale] # "none"
  /\ variants' = [variants EXCEPT ![group][locale] = "none"]
  /\ Writes(group)
  /\ UNCHANGED <<fallbacks, request, translation>>

\* createTranslation looks for a variant, then creates one; the second of two is
\* refused by the unique key of the variants.
CheckTranslation(t, group, locale) ==
  /\ writes < MaxWrites
  /\ translation[t] = None
  /\ \E source \in Locales : variants[group][source] # "none"
  /\ variants[group][locale] = "none"
  /\ translation' = [translation EXCEPT ![t] = [group |-> group, locale |-> locale]]
  /\ UNCHANGED <<fallbacks, variants, request, touched, writes>>

\* Mutant: the variants have no unique key.
NoKey(group, locale) == TRUE
KeyFree(group, locale) == variants[group][locale] = "none"

CreateTranslation(t) ==
  /\ translation[t] # None
  /\ translation' = [translation EXCEPT ![t] = None]
  /\ LET g == translation[t].group
         l == translation[t].locale
     IN  IF KeyFree(g, l)
         THEN /\ variants' = [variants EXCEPT ![g][l] = "draft"]
              /\ Writes(g)
         ELSE UNCHANGED <<variants, touched, writes>>
  /\ UNCHANGED <<fallbacks, request>>

Init ==
  /\ fallbacks \in Configurations /\ Valid(fallbacks)
  /\ variants \in [Groups -> {v \in [Locales -> {"none", "draft"}] : v[Default] = "draft"}]
  /\ request = NoRequest
  /\ translation = [t \in Translators |-> None]
  /\ touched = {}
  /\ writes = 0

Resolving ==
  \/ \E l \in Locales : Resolve(l)
  \/ List \/ Group \/ Variants \/ Deliver

Writing ==
  \/ \E g \in Groups, l \in Locales :
       \/ \E state \in State : Publish(g, l, state)
       \/ Delete(g, l)
       \/ \E t \in Translators : CheckTranslation(t, g, l)
  \/ \E t \in Translators : CreateTranslation(t)

Next == Resolving \/ Writing

Spec == Init /\ [][Next]_lvars

-----------------------------------------------------------------------------
\* The chain of a locale starts with it and has each of its fallbacks, theirs,
\* the default and its fallbacks once, each after one it is a fallback of.
ChainOrdered ==
  \A l \in Locales :
    LET chain == FallbackChain(l) IN
    /\ Head(chain) = l
    /\ ToSet(chain) = Reached[{l, Default}, 3]
    /\ \A i, j \in DOMAIN chain : chain[i] = chain[j] => i = j
    /\ \A i \in 2..Len(chain) :
         chain[i] = Default \/ \E j \in 1..(i - 1) : chain[i] \in ToSet(fallbacks[chain[j]])

\* The walk misses no page: when it comes to the end of the chain, no page holds the
\* path that nobody wrote since the request began, whatever happened to others between
\* the queries.  It ends without an answer before that only where the page it had
\* picked was written after the request began: resolve then throws, and no later
\* locale is tried.  A page that nobody wrote is delivered as its best published variant.
RouteAnswered ==
  LET answer == request.answer
      chain  == ToSet(FallbackChain(request.locale))
      holds(g) == \E l \in chain : variants[g][l] = "here"
  IN
  request.step = "answered" =>
    /\ answer = None /\ request.group = None => \A g \in Groups \ touched : ~holds(g)
    /\ answer = None /\ request.group # None => request.group \in touched
    /\ answer # None /\ answer.group \notin touched =>
         /\ holds(answer.group)
         /\ Published(variants[answer.group][answer.locale])
         /\ answer.locale = Best(answer.group, request.locale)

\* Refuted (README): a page that holds the path all along is found.  It is not when
\* the walk picked another page before, which was deleted or unpublished under it.
PageFound ==
  request.step = "answered" /\ request.answer = None =>
    \A g \in Groups \ touched, l \in ToSet(FallbackChain(request.locale)) : variants[g][l] # "here"

\* A variant that exists is never replaced by a new translation of it: a draft
\* again is a variant that was deleted in between (the unique key of the variants).
NeverReplaced ==
  \A g \in Groups, l \in Locales :
    Published(variants[g][l]) => variants'[g][l] # "draft"
=============================================================================
