--------------------------- MODULE Collaboration ---------------------------
(***************************************************************************)
(* The causal collaboration document of one entry, for one target (field   *)
(* or block): operations with their dependencies, branches as sets of      *)
(* operations, suggestions, merges, and the conflicts that hold the values *)
(* that compete.  Each call is one compare-and-swap of the document, which *)
(* recomputes what it decides when it is retried.                          *)
(***************************************************************************)
EXTENDS Naturals, Sequences, FiniteSets, FiniteSetsExt, SequencesExt

CONSTANTS MaxOps,       \* operations; a client chooses the id, so they come in any order
          MaxMerges     \* bound on the merges of branches

Ops      == 1..MaxOps     \* in the order of actor sequence, actor and id
Values   == {1, 2}
Branches == {"main", "side"}

VARIABLES
  ops,           \* per operation its value and its dependencies; value 0 for none
  branches,      \* per branch: status and member operations
  suggestion,    \* a proposed value for the main branch
  merges, conflicts

lvars == <<ops, branches, suggestion, merges, conflicts>>

Operation  == [value : Values \cup {0}, deps : SUBSET Ops]
Branch     == [status : {"none", "open", "merged"}, members : SUBSET Ops]
Suggestion == [status : {"none", "open", "accepted", "rejected"}, value : Values \cup {0}]
Merge      == [source : Branches, into : Branches, status : {"conflicted", "merged"},
               conflicts : SUBSET (1..MaxOps * 2)]
Conflict   == [branch : Branches, variants : SUBSET Ops, status : {"open", "resolved"}]

Init ==
  /\ ops = [o \in Ops |-> [value |-> 0, deps |-> {}]]
  /\ branches = [main |-> [status |-> "open", members |-> {}],
                 side |-> [status |-> "none", members |-> {}]]
  /\ suggestion = [status |-> "none", value |-> 0]
  /\ merges = <<>>
  /\ conflicts = <<>>

-----------------------------------------------------------------------------
\* Operations are stored with the closure of their dependencies.
IsAncestor(graph, a, o) == a = o \/ a \in graph[o].deps

Live(graph, members) ==
  {o \in members : \A other \in members \ {o} : ~IsAncestor(graph, o, other)}

Winner(live) == CHOOSE o \in live : \A other \in live : other <= o

\* branchState: the winner, and the live operations that differ from it
Variants(graph, members) ==
  LET live == Live(graph, members)
      differing == {o \in live : graph[o].value # graph[Winner(live)].value}
  IN  IF differing = {} THEN {} ELSE {Winner(live)} \cup differing

Heads(b) == Live(ops, branches[b].members)

-----------------------------------------------------------------------------
\* synchronizeConflicts on branch b, whose members are given
OpenOn(b, list) == {i \in DOMAIN list : list[i].branch = b /\ list[i].status = "open"}

Resolving(list, chosen) ==
  [i \in DOMAIN list |-> IF i \in chosen THEN [list[i] EXCEPT !.status = "resolved"] ELSE list[i]]

Settled(graph, members, b, list) ==
  LET w == Winner(Live(graph, members))
  IN  Resolving(list, {i \in OpenOn(b, list) :
                         \A o \in list[i].variants : IsAncestor(graph, o, w)})

SameVariants(b, list, variants) == {i \in OpenOn(b, list) : list[i].variants = variants}

KeepsOld(b, list, variants) ==   \* Mutant: any open conflict will do.
  IF OpenOn(b, list) # {} THEN list
  ELSE Append(list, [branch |-> b, variants |-> variants, status |-> "open"])
Recorded(b, list, variants) ==
  IF SameVariants(b, list, variants) # {} THEN list
  ELSE Append(Resolving(list, OpenOn(b, list)),
              [branch |-> b, variants |-> variants, status |-> "open"])

Synchronized(graph, members, b, list) ==
  LET variants == Variants(graph, members)
  IN  IF members = {} THEN list
      ELSE IF variants = {} THEN Settled(graph, members, b, list)
      ELSE Recorded(b, list, variants)

\* updateMergeStatuses: a conflicted merge whose conflicts are all resolved is
\* done, and so is its source.
Finished(list, m) ==
  m.status = "conflicted" /\ \A i \in m.conflicts : list[i].status = "resolved"

MergesAfter(ms, list) ==
  [k \in DOMAIN ms |-> IF Finished(list, ms[k]) THEN [ms[k] EXCEPT !.status = "merged"] ELSE ms[k]]

BranchesAfter(bs, ms, list) ==
  [b \in Branches |->
     IF \E k \in DOMAIN ms : ms[k].source = b /\ Finished(list, ms[k])
     THEN [bs[b] EXCEPT !.status = "merged"] ELSE bs[b]]

Synchronize(graph, bs, b) ==
  LET list == Synchronized(graph, bs[b].members, b, conflicts)
  IN  /\ conflicts' = list
      /\ merges' = MergesAfter(merges, list)
      /\ branches' = BranchesAfter(bs, merges, list)

-----------------------------------------------------------------------------
\* applyOperation: the dependencies are on the branch; an id in use is refused,
\* or is the same operation again, which changes nothing.
Closure(deps) == deps \cup UNION {ops[d].deps : d \in deps}

Apply(o, b, value, deps) ==
  LET graph == [ops EXCEPT ![o] = [value |-> value, deps |-> Closure(deps)]]
  IN  /\ branches[b].status = "open" /\ ops[o].value = 0
      /\ deps \subseteq branches[b].members
      /\ ops' = graph
      /\ Synchronize(graph, [branches EXCEPT ![b].members = @ \cup {o}], b)

SubmitOperation(o, b, value, deps) ==
  /\ Apply(o, b, value, deps)
  /\ UNCHANGED suggestion

CreateBranch ==
  /\ branches["side"].status = "none" /\ branches["main"].status = "open"
  /\ branches' = [branches EXCEPT !["side"] = branches["main"]]
  /\ UNCHANGED <<ops, suggestion, merges, conflicts>>

CreateSuggestion(value) ==
  /\ suggestion.status = "none" /\ branches["main"].status = "open"
  /\ suggestion' = [status |-> "open", value |-> value]
  /\ UNCHANGED <<ops, branches, merges, conflicts>>

AcceptSuggestion(o) ==
  /\ suggestion.status = "open"
  /\ Apply(o, "main", suggestion.value, Heads("main"))
  /\ suggestion' = [suggestion EXCEPT !.status = "accepted"]

RejectSuggestion ==
  /\ suggestion.status = "open"
  /\ suggestion' = [suggestion EXCEPT !.status = "rejected"]
  /\ UNCHANGED <<ops, branches, merges, conflicts>>

MergeBranches(source, into) ==
  LET only == branches[source].members \ branches[into].members
      bs   == [branches EXCEPT ![into].members = @ \cup only]
      list == IF only = {} THEN conflicts
              ELSE Synchronized(ops, bs[into].members, into, conflicts)
      mine == IF only = {} THEN {} ELSE OpenOn(into, list)
      ms   == MergesAfter(merges, list)
      done == BranchesAfter(bs, merges, list)
  IN  /\ source # into /\ Len(merges) < MaxMerges
      /\ branches[source].status = "open" /\ branches[into].status = "open"
      /\ conflicts' = list
      /\ IF Variants(ops, bs[into].members) = {} \/ only = {}
         THEN /\ merges' = Append(ms, [source |-> source, into |-> into, status |-> "merged",
                                       conflicts |-> {}])
              /\ branches' = [done EXCEPT ![source].status = "merged"]
         ELSE /\ merges' = Append(ms, [source |-> source, into |-> into, status |-> "conflicted",
                                       conflicts |-> mine])
              /\ branches' = done
      /\ UNCHANGED <<ops, suggestion>>

\* One of the variants, or a value of one's own, after every head and variant.
ResolveConflict(o, i, value) ==
  LET c == conflicts[i]
      deps == Heads(c.branch) \cup c.variants
      graph == [ops EXCEPT ![o] = [value |-> value, deps |-> Closure(deps)]]
      bs == [branches EXCEPT ![c.branch].members = @ \cup {o}]
      list == Resolving(Synchronized(graph, bs[c.branch].members, c.branch, conflicts), {i})
  IN  /\ i \in DOMAIN conflicts /\ c.status = "open"
      /\ branches[c.branch].status = "open" /\ ops[o].value = 0
      /\ ops' = graph
      /\ conflicts' = list
      /\ merges' = MergesAfter(merges, list)
      /\ branches' = BranchesAfter(bs, merges, list)
      /\ UNCHANGED suggestion

Next ==
  \/ CreateBranch \/ RejectSuggestion
  \/ \E v \in Values : CreateSuggestion(v)
  \/ \E s \in Branches, t \in Branches : MergeBranches(s, t)
  \/ \E o \in Ops :
       \/ AcceptSuggestion(o)
       \/ \E v \in Values, i \in DOMAIN conflicts : ResolveConflict(o, i, v)
       \/ \E b \in Branches, v \in Values : \E deps \in SUBSET branches[b].members :
            SubmitOperation(o, b, v, deps)

-----------------------------------------------------------------------------
TypeOK ==
  /\ ops \in [Ops -> Operation]
  /\ branches \in [Branches -> Branch]
  /\ suggestion \in Suggestion
  /\ \A k \in DOMAIN merges : merges[k] \in Merge
  /\ \A i \in DOMAIN conflicts : conflicts[i] \in Conflict

\* Nothing that competes is hidden: the values that compete on the main branch
\* are the variants of one open conflict, whatever came before it, in any order
\* of arrival.
CompetingRecorded ==
  LET variants == Variants(ops, branches["main"].members)
  IN  branches["main"].members # {} /\ variants # {} =>
        Cardinality(SameVariants("main", conflicts, variants)) = 1

\* docs/authoring-and-collaboration.md:44 says that a merge stays conflicted
\* until every variant of the target is resolved.
MergeHasNoVariants ==
  \A k \in DOMAIN merges :
    merges[k].status = "conflicted" /\ merges'[k].status = "merged" =>
      Variants(ops', branches'[merges[k].into].members) = {}
MergeWaits == [][MergeHasNoVariants]_lvars
=============================================================================
