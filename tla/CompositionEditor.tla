------------------------- MODULE CompositionEditor -------------------------
(***************************************************************************)
(* The visual composition editor: commands on the tree of components, the   *)
(* rules of slots they keep, and the history of the trees with undo and     *)
(* redo.  A tree says which nodes stand at each place, in order; a place is *)
(* the root or a slot of a node.                                            *)
(***************************************************************************)
EXTENDS Integers, SequencesExt

CONSTANTS
  Nodes,            \* ids that createId may give
  Kinds, Slots,
  SlotRule(_, _),   \* of a kind's slot: accepts, min and max; None if not declared
  RootRule,         \* accepts, min and max of the root
  Limit,            \* bound of the history in the code
  MaxCommands,      \* bound on the commands
  Root, None

VARIABLES
  history,          \* past, present, future, selected
  draft,            \* the tree in the draft that is saved
  commands          \* counted for the bound

cvars == <<history, draft, commands>>

Place == {Root} \cup (Nodes \X Slots)
Tree  == [at : [Place -> Seq(Nodes)], kind : [Nodes -> Kinds \cup {None}], prop : [Nodes -> 0..1]]

Present(tree) == {n \in Nodes : tree.kind[n] # None}
Standing(tree, p) == tree.at[p]
Where(tree, n) == CHOOSE p \in Place : Contains(tree.at[p], n)
IndexIn(tree, p, n) == CHOOSE i \in DOMAIN tree.at[p] : tree.at[p][i] = n

\* The node and what stands below it.
Below(tree, n) ==
  LET down[k \in 0..Cardinality(Nodes)] ==
        IF k = 0 THEN {n}
        ELSE down[k - 1] \cup UNION {ToSet(tree.at[<<m, s>>]) : m \in down[k - 1], s \in Slots}
  IN  down[Cardinality(Nodes)]

Rule(tree, p) == IF p = Root THEN RootRule ELSE SlotRule(tree.kind[p[1]], p[2])
Exists(tree, p) == p # Root => p[1] \in Present(tree) /\ Rule(tree, p) # None

-----------------------------------------------------------------------------
\* targetError: what moves within a place is not counted twice.
Admits(tree, kind, p, from) ==
  /\ Exists(tree, p)
  /\ kind \in Rule(tree, p).accepts
  /\ Len(tree.at[p]) - (IF from = p THEN 1 ELSE 0) < Rule(tree, p).max

\* sourceError
Releases(tree, p, to) == p = to \/ Len(tree.at[p]) > Rule(tree, p).min

Clamp(i, max) == IF i < 0 THEN 0 ELSE IF i > max THEN max ELSE i

\* The node is put behind `index` others.
Inserted(seq, index, n) == InsertAt(seq, Clamp(index, Len(seq)) + 1, n)

\* addNode
CanAdd(tree, n, kind, p) == n \notin Present(tree) /\ Admits(tree, kind, p, None)
Added(tree, n, kind, p, index) ==
  [tree EXCEPT !.at[p] = Inserted(@, index, n), !.kind[n] = kind, !.prop[n] = 0]

\* removeNode: the subtree goes with the node.
CanRemove(tree, n) == n \in Present(tree) /\ Releases(tree, Where(tree, n), None)
Removed(tree, n) ==
  LET gone == Below(tree, n)
  IN  [at   |-> [p \in Place |-> IF p # Root /\ p[1] \in gone THEN <<>> ELSE Remove(tree.at[p], n)],
       kind |-> [m \in Nodes |-> IF m \in gone THEN None ELSE tree.kind[m]],
       prop |-> [m \in Nodes |-> IF m \in gone THEN 0 ELSE tree.prop[m]]]

\* moveNode: not into itself; the index counts the place as it was.
CanMove(tree, n, p) ==
  /\ n \in Present(tree) /\ (p # Root => p[1] \notin Below(tree, n))
  /\ Releases(tree, Where(tree, n), p)
  /\ Admits(tree, tree.kind[n], p, Where(tree, n))

\* Mutant: the gap that the node leaves is not counted.
UnadjustedIndex(tree, n, p, index) == index
AdjustedIndex(tree, n, p, index) ==
  IF Where(tree, n) = p /\ IndexIn(tree, p, n) - 1 < index THEN index - 1 ELSE index

Moved(tree, n, p, index) ==
  LET without == [tree EXCEPT !.at[Where(tree, n)] = Remove(@, n)]
  IN  [without EXCEPT !.at[p] = Inserted(@, AdjustedIndex(tree, n, p, index), n)]

-----------------------------------------------------------------------------
\* commitComposition, undoComposition and redoComposition.
Selection(tree, n) == IF n \in Present(tree) THEN n ELSE None

\* A tree that a command makes is a step that can be undone.
Committed(h, tree, n) ==
  LET past == Append(h.past, h.present)
  IN  [past |-> SubSeq(past, IF Len(past) > Limit THEN Len(past) - Limit + 1 ELSE 1, Len(past)),
       present |-> tree, future |-> <<>>, selected |-> Selection(tree, n)]

Undone(h) == [past |-> Front(h.past), present |-> Last(h.past), future |-> <<h.present>> \o h.future,
              selected |-> Selection(Last(h.past), h.selected)]
Redone(h) == [past |-> Append(h.past, h.present), present |-> Head(h.future),
              future |-> Tail(h.future), selected |-> Selection(Head(h.future), h.selected)]

\* applyComposition and commitBlocks, while the editor takes changes: the history
\* and the draft are set together.
Set(h) == history' = h /\ draft' = h.present
Command(tree, n) ==
  /\ commands < MaxCommands /\ commands' = commands + 1
  /\ Set(Committed(history, tree, n))

Tree0 == history.present
Index == -1..(Cardinality(Nodes))

\* From the palettes, at the end of a place.
Add(n, kind, p) ==
  /\ CanAdd(Tree0, n, kind, p)
  /\ Command(Added(Tree0, n, kind, p, Len(Tree0.at[p])), n)

\* addTemplateAtRoot: the nodes are added one by one, all or none.
AddTemplate(n, m, kind) ==
  /\ n # m /\ CanAdd(Tree0, n, kind, Root)
  /\ LET first == Added(Tree0, n, kind, Root, Len(Tree0.at[Root]))
     IN  /\ CanAdd(first, m, kind, Root)
         /\ Command(Added(first, m, kind, Root, Len(first.at[Root])), n)

RemoveCommand(n) ==
  CanRemove(Tree0, n) /\ Command(Removed(Tree0, n), history.selected)

\* A node that is moved where it stands leaves the array as it is: no step.
Move(n, p, index) ==
  /\ CanMove(Tree0, n, p) /\ Moved(Tree0, n, p, index) # Tree0
  /\ Command(Moved(Tree0, n, p, index), n)

\* moveByKeyboard: one up, one down, out behind the parent, into the node before.
Keyboard(n) ==
  LET p == Where(Tree0, n)
      i == IndexIn(Tree0, p, n) - 1
  IN  /\ n \in Present(Tree0)
      /\ \/ Move(n, p, i - 1)
         \/ Move(n, p, i + 2)
         \/ p # Root /\ LET over == Where(Tree0, p[1])
                        IN  Move(n, over, IndexIn(Tree0, over, p[1]))
         \/ i > 0 /\ \E s \in Slots : LET into == <<Tree0.at[p][i], s>>
                                      IN  Exists(Tree0, into) /\ Move(n, into, Len(Tree0.at[into]))

\* A layer is dragged onto another one, takes its place, or to the end of a place.
Drag(n) ==
  \/ \E over \in Present(Tree0) \ {n} :
       LET p == Where(Tree0, over) IN Move(n, p, IndexIn(Tree0, p, over) - 1)
  \/ \E p \in Place : Move(n, p, Len(Tree0.at[p]))

\* updateNodeProps makes every node anew: a step, even with equal props.
EditProp(n) ==
  /\ n \in Present(Tree0)
  /\ \E v \in 0..1 : Command([Tree0 EXCEPT !.prop[n] = v], n)

Select(n) ==
  /\ n \in Present(Tree0) /\ history' = [history EXCEPT !.selected = n]
  /\ UNCHANGED <<draft, commands>>

Undo == history.past # <<>> /\ Set(Undone(history)) /\ UNCHANGED commands
Redo == history.future # <<>> /\ Set(Redone(history)) /\ UNCHANGED commands

-----------------------------------------------------------------------------
\* The saved draft of an entry, with one component in it.
Empty == [at |-> [p \in Place |-> <<>>], kind |-> [n \in Nodes |-> None],
          prop |-> [n \in Nodes |-> 0]]

Init ==
  /\ \E n \in Nodes, kind \in Kinds : draft = Added(Empty, n, kind, Root, 0)
  /\ history = [past |-> <<>>, present |-> draft, future |-> <<>>, selected |-> None]
  /\ commands = 0

Next ==
  \/ \E n \in Nodes :
       \/ RemoveCommand(n) \/ Keyboard(n) \/ Drag(n) \/ EditProp(n) \/ Select(n)
       \/ \E kind \in Kinds : \/ \E p \in Place : Add(n, kind, p)
                              \/ \E m \in Nodes : AddTemplate(n, m, kind)
  \/ Undo \/ Redo

-----------------------------------------------------------------------------
TypeOK ==
  /\ {history.present, draft} \subseteq Tree
  /\ history.selected \in Nodes \cup {None}

\* Every node stands at one place, below the root, where its kind is accepted and
\* there is room for it.
WellFormed(tree) ==
  LET all == UNION {ToSet(tree.at[p]) : p \in Place}
  IN  /\ all = Present(tree)
      /\ UNION {Below(tree, n) : n \in ToSet(tree.at[Root])} = Present(tree)
      /\ \A p \in Place :
           /\ Len(tree.at[p]) = Cardinality(ToSet(tree.at[p]))
           /\ \A q \in Place : q # p => ToSet(tree.at[p]) \cap ToSet(tree.at[q]) = {}
           /\ tree.at[p] # <<>> => /\ Exists(tree, p) /\ Len(tree.at[p]) <= Rule(tree, p).max
                                   /\ \A n \in ToSet(tree.at[p]) :
                                        tree.kind[n] \in Rule(tree, p).accepts

\* A move to an index puts the node between those that stood before and behind it;
\* nothing else moves, no place falls below its minimum, and the tree stays one.
Lands(tree, n, p, index) ==
  LET moved  == Moved(tree, n, p, index)
      before == SubSeq(tree.at[p], 1, Clamp(index, Len(tree.at[p])))
      after  == SubSeq(tree.at[p], Clamp(index, Len(tree.at[p])) + 1, Len(tree.at[p]))
  IN  /\ WellFormed(moved) /\ moved.at[p] = Remove(before, n) \o <<n>> \o Remove(after, n)
      /\ \A q \in Place \ {p} : moved.at[q] = Remove(tree.at[q], n)
      /\ \A q \in Place : Exists(tree, q) /\ Len(tree.at[q]) >= Rule(tree, q).min
                          => Len(moved.at[q]) >= Rule(tree, q).min

MovesLand ==
  \A n \in Present(Tree0), p \in Place, index \in Index :
    CanMove(Tree0, n, p) => Lands(Tree0, n, p, index)

\* What is saved is what is shown, and what can be undone leads back step by step:
\* a command is undone by one step, and undone steps can be taken again.
HistorySound ==
  /\ draft = history.present
  /\ history.selected # None => history.selected \in Present(history.present)
  /\ Len(history.past) <= Limit
  /\ history.past # <<>> => Redone(Undone(history)).present = history.present

\* Whatever commands, drags, undos and redos follow each other.
CompositionSound ==
  /\ \A tree \in {draft, history.present} \cup ToSet(history.past) \cup ToSet(history.future) :
       WellFormed(tree)
  /\ MovesLand /\ HistorySound
=============================================================================
