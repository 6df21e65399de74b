----------------------------- MODULE Pagination -----------------------------
(***************************************************************************)
(* Keyset pagination of records: resolveRecordConnection and the timeline  *)
(* and search resolvers (graphql/schema/builder.go) over sortedRecordsPage,*)
(* GetRecordTimeline and Search (repositories/records.go).  A client walks *)
(* through a connection page by page while other writers change the table. *)
(*                                                                         *)
(* A URI is a number, as URIs are ordered; so is the value of the sort     *)
(* field.  A row that the filters of the query hide is an absent row.      *)
(***************************************************************************)
EXTENDS Integers, FiniteSets, Sequences

CONSTANTS
  Uris, Keys,    \* the records, and the values of the sort field
  Postgres,      \* the dialect: PostgreSQL or SQLite
  Fields,        \* the sort fields in use, of AllFields
  PageSize,      \* first, or last
  Undecodable,   \* records whose JSON makes no node
  Matching,      \* records a timeline's where, or the text of a search, selects
  MaxWrites      \* bound: changes of the table

(* The sort fields of a connection; the timeline sorts by creation date and *)
(* the search by indexed_at.                                                *)
AllFields == {"indexed_at", "record_created_at", "json", "timeline", "search"}

ASSUME PaginationAssumption ==
  /\ Uris \subseteq Nat \ {0} /\ IsFiniteSet(Uris)
  /\ Keys \subseteq Nat \ {0} /\ IsFiniteSet(Keys) /\ Keys # {}
  /\ Postgres \in BOOLEAN
  /\ Fields \subseteq AllFields
  /\ PageSize \in Nat \ {0}
  /\ Undecodable \subseteq Uris
  /\ Matching \subseteq Uris
  /\ MaxWrites \in Nat

Null == 0        \* a NULL sort field; "" in a cursor
Absent == -1
NoCursor == <<>>

Reverse(dir) == IF dir = "ASC" THEN "DESC" ELSE "ASC"

VARIABLES
  record,   \* the sort field of each row
  writes,   \* changes so far
  query,    \* the walk: sort field, its direction, forward or backward, its arguments
  pc,       \* where the walk is, of PCs
  cursor,   \* the cursor the client has come to
  segment,  \* the segment to read next
  rows,     \* the rows read for this page, as <<sort field, uri>>
  \* what an observer remembers
  seen,     \* the records the client has got
  steady    \* the records that have not changed since the walk began

vars == <<record, writes, query, pc, cursor, segment, rows, seen, steady>>

Rows == (Keys \union {Null}) \X Uris

PCs == {"idle", "request", "read", "reply", "done", "stranded", "refused"}

(* Only created-at and JSON values may be NULL; the timeline and the search *)
(* have no direction of their own and no way back.  The arguments may be    *)
(* refused, or ask for the timeline of nobody.                              *)
Queries ==
  {q \in [field : Fields, dir : {"ASC", "DESC"}, way : {"forward", "backward"},
          args : {"good", "nobody", "refused"}] :
     /\ q.field \in {"timeline", "search"} => q.dir = "DESC" /\ q.way = "forward"
     /\ q.args = "nobody" => q.field = "timeline"}

Values(field) ==
  {Absent} \union Keys \union (IF field \in {"indexed_at", "search"} THEN {} ELSE {Null})

(* A page is at most one row longer than the client asked for. *)
TypeOK ==
  /\ record \in [Uris -> Values(query.field)]
  /\ writes \in 0..MaxWrites
  /\ query \in Queries
  /\ pc \in PCs
  /\ cursor \in Rows \union {NoCursor}
  /\ segment \in 1..3
  /\ rows \subseteq Rows /\ Cardinality(rows) <= PageSize + 1
  /\ seen \subseteq Uris /\ steady \subseteq Uris

Init ==
  /\ query \in Queries
  /\ record \in [Uris -> Values(query.field)]
  /\ writes = 0
  /\ pc = "idle" /\ cursor = NoCursor /\ segment = 1 /\ rows = {}
  /\ seen = {} /\ steady = Uris

-----------------------------------------------------------------------------
(* The statement of a page. *)

(* A backward page is a forward page of the opposite sort. *)
ReadDirection == IF query.way = "backward" THEN Reverse(query.dir) ELSE query.dir

Less(dir, a, b) == IF dir = "ASC" THEN a < b ELSE a > b

(* Where ORDER BY puts NULL: record_created_at says so itself, as the       *)
(* oldest; otherwise PostgreSQL takes it for the greatest value and SQLite  *)
(* for the least.                                                           *)
Rank(key) ==
  IF key = Null /\ query.field = "json" /\ Postgres
    THEN 1 + (CHOOSE k \in Keys : \A j \in Keys : j <= k)
    ELSE key

(* buildSortExpr: the field, then the uri in the same direction. *)
Precedes(dir, a, b) ==
  \/ Less(dir, Rank(a[1]), Rank(b[1]))
  \/ Rank(a[1]) = Rank(b[1]) /\ Less(dir, a[2], b[2])

Row(u) == <<record[u], u>>

(* recordTimelineQuery: dated records of the collections and authors asked  *)
(* for; SQLite also leaves out what is not JSON.                            *)
TimelineShows(u) ==
  /\ record[u] # Null
  /\ Postgres \/ u \notin Undecodable
  /\ u \in Matching
  /\ query.args # "nobody"

(* Search: records whose text contains what is looked for. *)
SearchShows(u) == u \in Matching

(* The rows of the table that the query selects. *)
Listed ==
  {Row(u) : u \in {v \in Uris : /\ record[v] # Absent
                                /\ query.field = "timeline" => TimelineShows(v)
                                /\ query.field = "search" => SearchShows(v)}}

(* The keyset comparison of SQL, which NULL never meets. *)
Follows(dir, row) ==
  /\ row[1] # Null
  /\ \/ Less(dir, cursor[1], row[1])
     \/ cursor[1] = row[1] /\ Less(dir, cursor[2], row[2])

Undated == {r \in Listed : r[1] = Null}
Dated == Listed \ Undated

(* Mutant of CreatedAtSegments: descending ends with the dated rows. *)
SegmentsWithoutNulls(dir) ==
  IF cursor[1] = Null
    THEN LET rest == {r \in Undated : Less(dir, cursor[2], r[2])}
         IN  IF dir = "ASC" THEN <<rest, Dated>> ELSE <<rest>>
    ELSE <<{r \in Dated : Follows(dir, r)}>>

(* recordCreatedAtKeysetSegments: what follows the cursor, NULL being the   *)
(* oldest, range by range.                                                  *)
CreatedAtSegments(dir) ==
  IF cursor[1] = Null
    THEN LET rest == {r \in Undated : Less(dir, cursor[2], r[2])}
         IN  IF dir = "ASC" THEN <<rest, Dated>> ELSE <<rest>>
    ELSE LET rest == {r \in Dated : Follows(dir, r)}
         IN  IF dir = "ASC" THEN <<rest>> ELSE <<rest, Undated>>

(* The segments of the page, as the table is now. *)
Segments(dir) ==
  CASE cursor = NoCursor -> <<Listed>>
    [] cursor # NoCursor /\ query.field = "record_created_at" -> CreatedAtSegments(dir)
    [] OTHER -> <<{r \in Listed : Follows(dir, r)}>>

(* ORDER BY ... LIMIT n. *)
FirstOf(n, dir, set) == {r \in set : Cardinality({s \in set : Precedes(dir, s, r)}) < n}

(* A segment is asked for what the page, of one row more than the client    *)
(* wants, still lacks.                                                      *)
Shortfall == PageSize + 1 - Cardinality(rows)

-----------------------------------------------------------------------------

(* A writer inserts, changes, hides or deletes a row.  A stored creation    *)
(* date stays what it is as long as the row exists.                         *)
Write(u, key) ==
  /\ writes < MaxWrites
  /\ key # record[u]
  /\ query.field \in {"record_created_at", "timeline"} /\ record[u] \in Keys => key = Absent
  /\ writes' = writes + 1
  /\ record' = [record EXCEPT ![u] = key]
  /\ steady' = IF pc = "idle" THEN steady ELSE steady \ {u}
  /\ UNCHANGED <<query, pc, cursor, segment, rows, seen>>

StartWalk ==
  /\ pc = "idle"
  /\ pc' = "request"
  /\ UNCHANGED <<record, writes, query, cursor, segment, rows, seen, steady>>

(* The resolver has checked the arguments and decoded the cursor, and       *)
(* builds the page.                                                         *)
BeginPage ==
  /\ pc = "request"
  /\ query.args = "good"
  /\ pc' = "read"
  /\ segment' = 1
  /\ rows' = {}
  /\ UNCHANGED <<record, writes, query, cursor, seen, steady>>

RecordsRequest == query.field \notin {"timeline", "search"} /\ BeginPage
TimelineRequest == query.field = "timeline" /\ BeginPage
SearchRequest == query.field = "search" /\ BeginPage

(* A timeline for an empty list of authors is empty, without a statement. *)
EmptyTimeline ==
  /\ pc = "request"
  /\ query.args = "nobody"
  /\ pc' = "done"
  /\ UNCHANGED <<record, writes, query, cursor, segment, rows, seen, steady>>

(* No collection, too many or malformed values, a page size out of range,   *)
(* too short a text: an error and no page.                                  *)
RefuseArguments ==
  /\ pc = "request"
  /\ query.args = "refused"
  /\ pc' = "refused"
  /\ UNCHANGED <<record, writes, query, cursor, segment, rows, seen, steady>>

Request ==
  RecordsRequest \/ TimelineRequest \/ SearchRequest \/ EmptyTimeline \/ RefuseArguments

(* readSegments: one statement.  The first always runs, a later one only    *)
(* while the page is short.                                                 *)
ReadSegment ==
  /\ pc = "read"
  /\ segment <= Len(Segments(ReadDirection))
  /\ segment > 1 => Shortfall > 0
  /\ rows' = rows \union FirstOf(Shortfall, ReadDirection, Segments(ReadDirection)[segment])
  /\ segment' = segment + 1
  /\ UNCHANGED <<record, writes, query, pc, cursor, seen, steady>>

(* Mutant of EndRead: only a full page ends. *)
EndWhenFull ==
  /\ pc = "read"
  /\ segment > 1
  /\ Shortfall <= 0
  /\ pc' = "reply"
  /\ UNCHANGED <<record, writes, query, cursor, segment, rows, seen, steady>>

EndRead ==
  /\ pc = "read"
  /\ segment > 1
  /\ segment > Len(Segments(ReadDirection)) \/ Shortfall <= 0
  /\ pc' = "reply"
  /\ UNCHANGED <<record, writes, query, cursor, segment, rows, seen, steady>>

(* hasNextPage, or hasPreviousPage: the extra row was there. *)
HasMore == Cardinality(rows) > PageSize

(* The extra row is cut off, and what does not decode skipped. *)
Edges == {r \in FirstOf(PageSize, ReadDirection, rows) : r[2] \notin Undecodable}

(* Mutant of FarEdge: the cursor of the wrong end. *)
NearEdge(edge) == \A e \in Edges \ {edge} : Precedes(ReadDirection, edge, e)

(* endCursor going forward and startCursor going backward. *)
FarEdge(edge) == \A e \in Edges \ {edge} : Precedes(ReadDirection, e, edge)

(* The client takes the edges and asks for the next page from the cursor    *)
(* of the last of them, as it was when it was read.  A page whose rows are  *)
(* all skipped has more after it and no cursor: the client cannot go on.    *)
Reply ==
  /\ pc = "reply"
  /\ seen' = seen \union {e[2] : e \in Edges}
  /\ pc' = CASE ~HasMore -> "done"
             [] HasMore /\ Edges # {} -> "request"
             [] OTHER -> "stranded"
  /\ IF Edges = {} THEN UNCHANGED cursor ELSE \E e \in Edges : FarEdge(e) /\ cursor' = e
  /\ UNCHANGED <<record, writes, query, segment, rows, steady>>

Walk == StartWalk \/ Request \/ ReadSegment \/ EndRead \/ Reply

Next == Walk \/ \E u \in Uris : \E key \in Values(query.field) : Write(u, key)

(* A client that keeps asking, and requests that return. *)
Spec == Init /\ [][Next]_vars
FairSpec == Spec /\ WF_vars(Walk)

-----------------------------------------------------------------------------
(* Properties. *)

(* Whatever is written meanwhile, and between the statements of one page,   *)
(* a record that has not changed since the walk began is delivered at most  *)
(* once and in its place: it comes after all such records delivered before. *)
UnchangedOnceInOrder ==
  pc = "reply" =>
    \A e \in Edges : e[2] \in steady =>
      \A u \in seen \intersect steady : Precedes(ReadDirection, Row(u), e)

(* "Whether there are more items after the last edge" (PageInfoType): when  *)
(* the resolver says there is nothing more, every record that was there all *)
(* along and has a node has been delivered.                                 *)
NothingLeftBehind ==
  pc = "done" =>
    \A r \in Listed : r[2] \in steady \ Undecodable => r[2] \in seen

(* A client that follows the cursors gets to the end once the writes stop,  *)
(* unless a page leaves it without a cursor.                                *)
WalkEnds == <>(pc \in {"done", "stranded", "refused"})
=============================================================================
