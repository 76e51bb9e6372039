---------------------------- MODULE ContentQuery ----------------------------
(***************************************************************************)
(* The pages of a content query: a client reads a filtered, sorted list    *)
(* page by page with the cursor of the last row it got, while entries are  *)
(* written and deleted.  Nothing of the list is kept between two pages: a  *)
(* cursor holds the sort values and the id of a row, and the fingerprint   *)
(* of the query, signed.                                                   *)
(***************************************************************************)
EXTENDS Naturals, Sequences, SequencesExt, FiniteSets

CONSTANTS
  Ids,        \* entry ids, as numbers in their order
  Values,     \* what the sorted field may hold, besides nothing
  Queries,    \* the queries clients ask
  PageSize,   \* first
  None,
  MaxWrites   \* bound on the writes while a client reads

VARIABLES
  rows,       \* the field of each entry; Absent where there is no entry
  reader,     \* the query, the cursor, the ids read so far
  touched,    \* history: entries written since the client began
  writes

qvars == <<rows, reader, touched, writes>>

\* An entry without the field, and no entry.
Null   == [type |-> "null"]
Absent == [type |-> "absent"]

NoCursor == [query |-> None, value |-> Null, id |-> 0]

-----------------------------------------------------------------------------
(* Order of the rows *)

\* compareValues: numbers by size, else by their text.
ValueBefore(a, b) ==
  IF a.type = "number" /\ b.type = "number" THEN a.number < b.number
  ELSE a.text < b.text

\* Mutant: rows of one value are not told apart.
TupleBeforeByValue(sort, a, b) ==
  IF a.value = Null \/ b.value = Null
  THEN a.value # b.value /\ (sort.nulls = "first") = (a.value = Null)
  ELSE IF sort.direction = "desc" THEN ValueBefore(b.value, a.value)
       ELSE ValueBefore(a.value, b.value)

\* compareTuple: nulls are placed whatever the direction, and the id is last.
TupleBefore(sort, a, b) ==
  IF a.value = b.value THEN a.id < b.id
  ELSE IF a.value = Null \/ b.value = Null THEN (sort.nulls = "first") = (a.value = Null)
  ELSE IF sort.direction = "desc" THEN ValueBefore(b.value, a.value)
  ELSE ValueBefore(a.value, b.value)

\* predicateMatches: a comparison does not match what is not there.
Matches(filter, value) ==
  CASE filter.operator = "any"    -> TRUE
    [] filter.operator = "exists" -> (value # Null) = filter.expected
    [] filter.operator = "ne"     -> value # filter.expected
    [] filter.operator = "gt"     -> value # Null /\ ValueBefore(filter.expected, value)
    [] filter.operator = "lte"    -> value # Null /\ ~ValueBefore(filter.expected, value)

Tuple(id) == [value |-> rows[id], id |-> id]

Listed(query) == {id \in Ids : rows[id] # Absent /\ Matches(query.filter, rows[id])}

Rows(query) ==
  SetToSortSeq({Tuple(id) : id \in Listed(query)},
               LAMBDA a, b : TupleBefore(query.sort, a, b))

\* The cursor belongs to the query: its filter and its sort.
Accepts(cursor, query) == cursor = NoCursor \/ cursor.query = query

Available(cursor, query) ==
  SelectSeq(Rows(query), LAMBDA row : cursor = NoCursor \/ TupleBefore(query.sort, cursor, row))

Page(available) == SubSeq(available, 1, IF Len(available) < PageSize THEN Len(available) ELSE PageSize)

-----------------------------------------------------------------------------
Begin(query) ==
  /\ reader.state = "idle"
  /\ reader' = [state |-> "reading", query |-> query, after |-> NoCursor, got |-> <<>>]
  /\ touched' = {}
  /\ UNCHANGED <<rows, writes>>

\* A client may send a cursor with another query; it is refused and nothing changes.
Query(query) ==
  /\ reader.state = "reading"
  /\ Accepts(reader.after, query)
  /\ LET available == Available(reader.after, query)
         page == Page(available)
     IN  reader' = [state |-> IF Len(available) > PageSize THEN "reading" ELSE "done",
                    query |-> query,
                    got |-> reader.got \o [i \in DOMAIN page |-> page[i].id],
                    after |-> IF page = <<>> THEN reader.after
                              ELSE [query |-> query, value |-> page[Len(page)].value,
                                    id |-> page[Len(page)].id]]
  /\ UNCHANGED <<rows, touched, writes>>

Finish ==
  /\ reader.state = "done"
  /\ reader' = [state |-> "idle", query |-> None, after |-> NoCursor, got |-> <<>>]
  /\ touched' = {}
  /\ UNCHANGED <<rows, writes>>

\* create, updateDraft or deleteEntry, by anyone.
Write(id, value) ==
  /\ writes < MaxWrites
  /\ writes' = writes + 1
  /\ rows[id] # value
  /\ rows' = [rows EXCEPT ![id] = value]
  /\ touched' = IF reader.state = "idle" THEN {} ELSE touched \cup {id}
  /\ UNCHANGED reader

Init ==
  /\ rows \in [Ids -> Values \cup {Null, Absent}]
  /\ reader = [state |-> "idle", query |-> None, after |-> NoCursor, got |-> <<>>]
  /\ touched = {}
  /\ writes = 0

Next ==
  \/ \E query \in Queries : Begin(query) \/ Query(query)
  \/ Finish
  \/ \E id \in Ids, value \in Values \cup {Null, Absent} : Write(id, value)

Spec == Init /\ [][Next]_qvars

-----------------------------------------------------------------------------
\* Pages are a reading of the list: of the entries that nobody wrote meanwhile,
\* a finished reading has each that the query matches, once and in the order of
\* the query, whatever came, went or moved between the pages.
PagesComplete ==
  LET still == {id \in Ids \ touched : id \in Listed(reader.query)}
      read  == SelectSeq(reader.got, LAMBDA id : id \notin touched)
      order == SelectSeq([i \in DOMAIN Rows(reader.query) |-> Rows(reader.query)[i].id],
                         LAMBDA id : id \notin touched)
  IN
  /\ reader.state = "reading" /\ reader.after # NoCursor => IsPrefix(read, order)
  /\ reader.state = "done" => read = order /\ ToSet(read) = still
=============================================================================
