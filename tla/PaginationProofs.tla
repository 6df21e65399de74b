-------------------------- MODULE PaginationProofs --------------------------
(***************************************************************************)
(* For every table, page size and interleaving of writes, a walk delivers  *)
(* an unchanged record at most once and in its place, and leaves none      *)
(* behind, whichever field but a JSON one it is sorted by.                 *)
(***************************************************************************)
EXTENDS Pagination, FiniteSetTheorems, WellFoundedInduction, TLAPS

Types ==
  /\ record \in [Uris -> Keys \union {Null, Absent}]
  /\ query \in Queries
  /\ pc \in PCs
  /\ cursor \in Rows \union {NoCursor}
  /\ segment \in Nat \ {0}
  /\ rows \subseteq Rows
  /\ seen \subseteq Uris /\ steady \subseteq Uris

(* Before the walk nothing has been read. *)
Untouched == pc = "idle" => rows = {} /\ seen = {} /\ cursor = NoCursor

(* While it goes on, the client has no cursor only on the first page, and   *)
(* has got nothing unchanged beyond its cursor.                             *)
AtOrBefore(row) == row = cursor \/ Precedes(ReadDirection, row, cursor)

CursorOK ==
  pc \in {"request", "read", "reply"} =>
    IF cursor = NoCursor THEN seen = {} ELSE \A u \in seen \intersect steady : AtOrBefore(Row(u))

(* What has been read lies beyond the cursor and, where nothing changed, is *)
(* what the table says.                                                     *)
RowsOK ==
  pc \in {"read", "reply"} =>
    \A r \in rows :
      /\ cursor # NoCursor => Precedes(ReadDirection, cursor, r)
      /\ r[2] \in steady => r = Row(r[2])

Inv == Types /\ Untouched /\ CursorOK /\ RowsOK

-----------------------------------------------------------------------------

(* A sort other than by a JSON field ranks NULL as the least value, so that *)
(* the order is the one of pairs of numbers.                                *)
LEMMA RankIsKey ==
  ASSUME "json" \notin Fields, query \in Queries, NEW k
  PROVE  Rank(k) = k
  BY DEF Rank, Queries

LEMMA RowIsPair ==
  ASSUME NEW r \in Rows
  PROVE  r[1] \in Nat /\ r[2] \in Nat /\ r[2] \in Uris
<1>1. PICK k \in Keys \union {Null}, u \in Uris : r = <<k, u>>
  BY DEF Rows
<1>2. k \in Nat /\ u \in Nat
  BY PaginationAssumption DEF Null
<1> QED BY <1>1, <1>2

(* Rows, and what the table has at a URI, are pairs of numbers. *)
LEMMA PairsOfNumbers ==
  /\ \A r \in Rows : r \in Int \X Int
  /\ Types => \A u \in Uris : Row(u) \in Int \X Int
<1>1. Uris \subseteq Int /\ Keys \subseteq Int
  BY PaginationAssumption
<1>2. Keys \union {Null} \subseteq Int /\ Keys \union {Null, Absent} \subseteq Int
  BY <1>1 DEF Null, Absent
<1>3. \A r \in Rows : r \in Int \X Int
  BY <1>1, <1>2 DEF Rows
<1>4. ASSUME Types, NEW u \in Uris PROVE Row(u) \in Int \X Int
  <2>1. record[u] \in Keys \union {Null, Absent}
    BY <1>4 DEF Types
  <2> QED BY <2>1, <1>1, <1>2 DEF Row
<1> QED BY <1>3, <1>4

(* Precedes is transitive. *)
LEMMA PrecedesTransitive ==
  ASSUME "json" \notin Fields, query \in Queries,
         NEW dir, NEW a \in Int \X Int, NEW b \in Int \X Int, NEW c \in Int \X Int,
         Precedes(dir, a, b), Precedes(dir, b, c)
  PROVE  Precedes(dir, a, c)
<1>1. Rank(a[1]) = a[1] /\ Rank(b[1]) = b[1] /\ Rank(c[1]) = c[1]
  BY RankIsKey
<1> QED BY <1>1 DEF Precedes, Less

(* A row of the table is a row. *)
LEMMA ListedAreRows ==
  ASSUME Types
  PROVE  \A r \in Listed : r \in Rows /\ r = Row(r[2])
<1> SUFFICES ASSUME NEW r \in Listed PROVE r \in Rows /\ r = Row(r[2])
  OBVIOUS
<1>1. PICK u \in Uris : record[u] # Absent /\ r = <<record[u], u>>
  BY DEF Listed, Row
<1>2. record[u] \in Keys \union {Null}
  BY <1>1 DEF Types
<1> QED BY <1>1, <1>2 DEF Rows, Row

(* Every segment of a page lies beyond the cursor: the keyset comparison    *)
(* agrees with the order, and so do the ranges of a created-at page.        *)
LEMMA SegmentsFollow ==
  ASSUME "json" \notin Fields, Types, NEW dir \in {"ASC", "DESC"},
         NEW i \in Nat \ {0}, i <= Len(Segments(dir)),
         NEW r \in Segments(dir)[i]
  PROVE  r \in Listed /\ (cursor # NoCursor => Precedes(dir, cursor, r))
<1> DEFINE S == Segments(dir)
<1>0. \A x \in Rows : Rank(x[1]) = x[1]
  BY RankIsKey DEF Types
<1>1. CASE cursor = NoCursor
  <2>1. S = <<Listed>>
    BY <1>1 DEF Segments
  <2>2. i = 1
    BY <2>1
  <2> QED BY <2>1, <2>2, <1>1
<1>2. CASE cursor # NoCursor /\ query.field = "record_created_at"
  <2>1. cursor \in Rows
    BY <1>2 DEF Types
  <2>2. S = CreatedAtSegments(dir)
    BY <1>2 DEF Segments
  <2>3. Undated \subseteq Listed /\ Dated \subseteq Listed
    BY DEF Undated, Dated
  <2>4. \A x \in Undated : x[1] = 0
    BY DEF Undated, Null
  <2>5. \A x \in Dated : x \in Rows /\ x[1] \in Nat \ {0} /\ x[2] \in Nat
    BY ListedAreRows, RowIsPair DEF Dated, Undated, Null
  <2>6. \A x \in Undated : x \in Rows /\ x[2] \in Nat
    BY ListedAreRows, RowIsPair DEF Undated
  <2>7. cursor[1] \in Nat /\ cursor[2] \in Nat
    BY <2>1, RowIsPair
  <2>8. CASE cursor[1] = Null
    <3> DEFINE rest == {x \in Undated : Less(dir, cursor[2], x[2])}
    <3>1. S = IF dir = "ASC" THEN <<rest, Dated>> ELSE <<rest>>
      BY <2>2, <2>8 DEF CreatedAtSegments
    <3>2. CASE r \in rest
      <4>1. r \in Undated /\ Less(dir, cursor[2], r[2])
        BY <3>2
      <4>2. Precedes(dir, cursor, r)
        BY <4>1, <2>1, <2>4, <2>6, <2>8, <1>0 DEF Precedes, Null
      <4> QED BY <4>1, <4>2, <2>3
    <3>3. CASE dir = "ASC" /\ r \in Dated
      BY <3>3, <2>1, <2>3, <2>5, <2>8, <1>0 DEF Precedes, Less, Null
    <3>4. CASE dir = "ASC"
      <4>1. S = <<rest, Dated>>
        BY <3>1, <3>4
      <4> HIDE DEF rest, S
      <4>2. i = 1 \/ i = 2
        BY <4>1 DEF S
      <4>3. r \in rest \/ r \in Dated
        BY <4>1, <4>2 DEF S
      <4> QED BY <4>3, <3>2, <3>3, <3>4
    <3>5. CASE dir # "ASC"
      <4>1. S = <<rest>>
        BY <3>1, <3>5
      <4> HIDE DEF rest, S
      <4>2. i = 1
        BY <4>1 DEF S
      <4>3. r \in rest
        BY <4>1, <4>2 DEF S
      <4> QED BY <4>3, <3>2
    <3> QED BY <3>4, <3>5
  <2>9. CASE cursor[1] # Null
    <3> DEFINE rest == {x \in Dated : Follows(dir, x)}
    <3>1. S = IF dir = "ASC" THEN <<rest>> ELSE <<rest, Undated>>
      BY <2>2, <2>9 DEF CreatedAtSegments
    <3>2. CASE r \in rest
      BY <3>2, <2>1, <2>3, <2>5, <2>7, <1>0 DEF Precedes, Follows
    <3>3. CASE dir # "ASC" /\ r \in Undated
      BY <3>3, <2>1, <2>3, <2>4, <2>6, <2>7, <2>9, <1>0 DEF Precedes, Less, Null
    <3>4. CASE dir = "ASC"
      <4>1. S = <<rest>>
        BY <3>1, <3>4
      <4> HIDE DEF rest, S
      <4>2. i = 1
        BY <4>1 DEF S
      <4>3. r \in rest
        BY <4>1, <4>2 DEF S
      <4> QED BY <4>3, <3>2
    <3>5. CASE dir # "ASC"
      <4>1. S = <<rest, Undated>>
        BY <3>1, <3>5
      <4> HIDE DEF rest, S
      <4>2. i = 1 \/ i = 2
        BY <4>1 DEF S
      <4>3. r \in rest \/ r \in Undated
        BY <4>1, <4>2 DEF S
      <4> QED BY <4>3, <3>2, <3>3, <3>5
    <3> QED BY <3>4, <3>5
  <2> QED BY <2>8, <2>9
<1>3. CASE cursor # NoCursor /\ query.field # "record_created_at"
  <2> DEFINE rest == {x \in Listed : Follows(dir, x)}
  <2>1. S = <<rest>>
    BY <1>3 DEF Segments
  <2>2. r \in rest
    <3> HIDE DEF rest, S
    <3>1. i = 1
      BY <2>1 DEF S
    <3> QED BY <2>1, <3>1 DEF S
  <2>3. r \in Rows /\ cursor \in Rows
    BY <2>2, <1>3, ListedAreRows DEF Types
  <2> QED BY <2>2, <2>3, <1>0 DEF Precedes, Follows
<1> QED BY <1>1, <1>2, <1>3

-----------------------------------------------------------------------------

LEMMA InitInv == Init => Inv
<1> SUFFICES ASSUME Init PROVE Inv
  OBVIOUS
<1>1. Values(query.field) \subseteq Keys \union {Null, Absent}
  BY DEF Values
<1> QED BY <1>1 DEF Init, Inv, Types, PCs, Untouched, CursorOK, RowsOK

LEMMA NextInv ==
  ASSUME "json" \notin Fields, Inv, [Next]_vars
  PROVE  Inv'
<1> USE DEF Inv
<1>0. query' = query /\ ReadDirection' = ReadDirection
  BY DEF Next, Walk, Write, StartWalk, Request, RecordsRequest, TimelineRequest, SearchRequest,
         BeginPage, EmptyTimeline, RefuseArguments, ReadSegment, EndRead, Reply, vars,
         ReadDirection
<1>a. \A dir, a, b : Precedes(dir, a, b)' <=> Precedes(dir, a, b)
  BY <1>0 DEF Precedes, Rank
<1>b. ReadDirection \in {"ASC", "DESC"}
  BY DEF Types, Queries, ReadDirection, Reverse
<1>1. ASSUME NEW u \in Uris, NEW key \in Values(query.field), Write(u, key)
      PROVE  Inv'
  <2>1. Types'
    BY <1>1, <1>0 DEF Types, Write, Values
  <2>2. \A v \in steady' : pc # "idle" => v \in steady /\ Row(v)' = Row(v)
    BY <1>1 DEF Write, Types, Row
  <2>3. Untouched'
    BY <1>1 DEF Write, Untouched
  <2>4. CursorOK'
    BY <1>1, <1>0, <1>a, <2>2 DEF Write, CursorOK, AtOrBefore
  <2>5. RowsOK'
    BY <1>1, <1>0, <1>a, <2>2 DEF Write, RowsOK
  <2> QED BY <2>1, <2>3, <2>4, <2>5
<1>2. CASE StartWalk
  <2>1. Types'
    BY <1>2 DEF StartWalk, Types, PCs
  <2> QED BY <1>2, <2>1 DEF StartWalk, Untouched, CursorOK, RowsOK
<1>3. CASE BeginPage
  <2>1. Types'
    BY <1>3 DEF BeginPage, Types, PCs
  <2>2. CursorOK'
    BY <1>3, <1>0, <1>a DEF BeginPage, CursorOK, AtOrBefore, Row
  <2> QED BY <1>3, <2>1, <2>2 DEF BeginPage, Untouched, RowsOK
<1>8. CASE EmptyTimeline \/ RefuseArguments
  <2>1. Types'
    BY <1>8 DEF EmptyTimeline, RefuseArguments, Types, PCs
  <2> QED BY <1>8, <2>1 DEF EmptyTimeline, RefuseArguments, Untouched, CursorOK, RowsOK
<1>4. CASE ReadSegment
  <2> DEFINE dir == ReadDirection
             new == FirstOf(Shortfall, dir, Segments(dir)[segment])
  <2>1. \A r \in new : r \in Segments(dir)[segment]
    BY DEF FirstOf
  <2>2. \A r \in new : r \in Listed /\ (cursor # NoCursor => Precedes(dir, cursor, r))
    BY <2>1, <1>4, <1>b, SegmentsFollow DEF ReadSegment, Types
  <2>3. \A r \in new : r \in Rows /\ r = Row(r[2])
    BY <2>2, ListedAreRows
  <2>4. rows' = rows \union new /\ segment' = segment + 1
    BY <1>4 DEF ReadSegment
  <2> HIDE DEF new
  <2>5. Types'
    BY <1>4, <2>3, <2>4 DEF ReadSegment, Types
  <2>6. CursorOK'
    BY <1>4, <1>0, <1>a DEF ReadSegment, CursorOK, AtOrBefore, Row
  <2>7. \A v : Row(v)' = Row(v)
    BY <1>4 DEF ReadSegment, Row
  <2>8. RowsOK'
    BY <1>4, <1>0, <1>a, <2>2, <2>3, <2>4, <2>7 DEF ReadSegment, RowsOK
  <2> QED BY <1>4, <2>5, <2>6, <2>8 DEF ReadSegment, Untouched
<1>5. CASE EndRead
  <2>1. Types'
    BY <1>5 DEF EndRead, Types, PCs
  <2>2. CursorOK' /\ RowsOK'
    BY <1>5, <1>0, <1>a DEF EndRead, CursorOK, RowsOK, AtOrBefore, Row
  <2> QED BY <1>5, <2>1, <2>2 DEF EndRead, Untouched
<1>6. CASE Reply
  <2> DEFINE E == Edges
  <2>1. \A e \in E : e \in rows /\ e \in Rows /\ e[2] \in Uris
    BY RowIsPair DEF Edges, FirstOf, Types
  <2>2. seen' = seen \union {e[2] : e \in E}
    BY <1>6 DEF Reply
  <2>3. UNCHANGED <<record, writes, query, segment, rows, steady>>
    BY <1>6 DEF Reply
  <2>4. pc' \in {"done", "request", "stranded"}
    BY <1>6 DEF Reply
  <2>5. CASE E = {}
    <3>1. cursor' = cursor /\ pc' # "request"
      BY <1>6, <2>5 DEF Reply
    <3>2. Types'
      BY <2>1, <2>2, <2>3, <2>4, <3>1 DEF Types, PCs
    <3> QED BY <2>3, <2>4, <3>1, <3>2 DEF Untouched, CursorOK, RowsOK
  <2>6. CASE E # {}
    <3>1. PICK e \in E : FarEdge(e) /\ cursor' = e
      BY <1>6, <2>6 DEF Reply
    <3>2. Types'
      BY <2>1, <2>2, <2>3, <2>4, <3>1 DEF Types, PCs
    <3>3. pc = "reply"
      BY <1>6 DEF Reply
    <3>4. \A f \in E : f # e => Precedes(ReadDirection, f, e)
      BY <3>1 DEF FarEdge
    <3>5. ASSUME NEW u \in seen' \intersect steady'
          PROVE  Row(u) = e \/ Precedes(ReadDirection, Row(u), e)
      <4>1. CASE u \in seen
        <5>1. cursor # NoCursor /\ AtOrBefore(Row(u))
          BY <4>1, <2>3, <3>3, <3>5 DEF CursorOK
        <5>2. Precedes(ReadDirection, cursor, e)
          BY <5>1, <2>1, <3>1, <3>3 DEF RowsOK
        <5>3. cursor \in Rows
          BY <5>1 DEF Types
        <5>4. CASE Row(u) = cursor
          BY <5>2, <5>4
        <5>5. CASE Precedes(ReadDirection, Row(u), cursor)
          <6>1. u \in Uris
            BY <4>1 DEF Types
          <6>2. Row(u) \in Int \X Int /\ cursor \in Int \X Int /\ e \in Int \X Int
            BY <6>1, <5>3, <2>1, PairsOfNumbers
          <6> QED BY <6>2, <5>2, <5>5, PrecedesTransitive DEF Types
        <5> QED BY <5>1, <5>4, <5>5 DEF AtOrBefore
      <4>2. CASE u \notin seen
        <5>1. PICK f \in E : u = f[2]
          BY <2>2, <3>5, <4>2
        <5>2. f = Row(u)
          BY <5>1, <2>1, <2>3, <3>3, <3>5 DEF RowsOK
        <5> QED BY <5>1, <5>2, <3>4
      <4> QED BY <4>1, <4>2
    <3>6. cursor' # NoCursor
      BY <3>1, <2>1 DEF Rows, NoCursor
    <3>7. \A u : Row(u)' = Row(u)
      BY <2>3 DEF Row
    <3>8. CursorOK'
      BY <3>1, <3>5, <3>6, <3>7, <1>0, <1>a DEF CursorOK, AtOrBefore
    <3> QED BY <2>4, <3>2, <3>8 DEF Untouched, RowsOK
  <2> QED BY <2>5, <2>6
<1>7. CASE UNCHANGED vars
  <2>1. Types' /\ Untouched'
    BY <1>7 DEF vars, Types, Untouched
  <2> QED BY <1>7, <1>0, <1>a, <2>1 DEF vars, CursorOK, RowsOK, AtOrBefore, Row
<1> QED
  BY <1>1, <1>2, <1>3, <1>4, <1>5, <1>6, <1>7, <1>8
     DEF Next, Walk, Request, RecordsRequest, TimelineRequest, SearchRequest

(* UnchangedOnceInOrder for every table, page size and number of writes,    *)
(* for all sorts but those by a JSON field, whose NULL rows the cursor of   *)
(* resolveRecordConnection cannot tell from an empty string.                *)
THEOREM DeliversOnceInOrder ==
  ASSUME "json" \notin Fields
  PROVE  Spec => []UnchangedOnceInOrder
<1>1. Inv => UnchangedOnceInOrder
  <2> SUFFICES ASSUME Inv, pc = "reply", NEW e \in Edges, e[2] \in steady,
                      NEW u \in seen \intersect steady
               PROVE  Precedes(ReadDirection, Row(u), e)
    BY DEF UnchangedOnceInOrder
  <2>1. e \in rows /\ e \in Rows
    BY DEF Edges, FirstOf, Inv, Types
  <2>2. cursor # NoCursor /\ AtOrBefore(Row(u))
    BY DEF Inv, CursorOK
  <2>3. Precedes(ReadDirection, cursor, e)
    BY <2>1, <2>2 DEF Inv, RowsOK
  <2>4. CASE Precedes(ReadDirection, Row(u), cursor)
    <3>1. cursor \in Rows /\ u \in Uris
      BY <2>2 DEF Inv, Types
    <3>2. Row(u) \in Int \X Int /\ cursor \in Int \X Int /\ e \in Int \X Int
      BY <3>1, <2>1, PairsOfNumbers DEF Inv
    <3> QED BY <3>2, <2>3, <2>4, PrecedesTransitive DEF Inv, Types
  <2> QED BY <2>2, <2>3, <2>4 DEF AtOrBefore
<1>2. Inv /\ [Next]_vars => Inv'
  BY NextInv
<1> QED BY <1>1, <1>2, InitInv, PTL DEF Spec
-----------------------------------------------------------------------------
(* Nothing is left behind.                                                  *)

(* The rows that have been there unchanged since the walk began *)
Lasting == {r \in Listed : r[2] \in steady}

Beyond(r) == cursor = NoCursor \/ Precedes(ReadDirection, cursor, r)

(* The number of segments of a page, and the one that a row beyond the      *)
(* cursor is in: neither depends on the table.                              *)
InTwo == cursor # NoCursor /\ query.field = "record_created_at"
SegmentCount == IF InTwo /\ (cursor[1] = Null <=> ReadDirection = "ASC") THEN 2 ELSE 1
SegmentOf(r) == IF InTwo /\ ~(cursor[1] = Null <=> r[1] = Null) THEN 2 ELSE 1

(* The client has got what lies up to its cursor. *)
Delivered ==
  pc \in {"request", "read", "reply"} /\ cursor # NoCursor =>
    \A r \in Lasting : AtOrBefore(r) /\ r[2] \notin Undecodable => r[2] \in seen

(* A row that a page leaves out comes after all it has read, and is in a    *)
(* segment still to be read unless the page is full.                        *)
PageOK ==
  pc \in {"read", "reply"} =>
    /\ \A e \in rows : SegmentOf(e) < segment
    /\ \A r \in Lasting : Beyond(r) /\ r \notin rows =>
         /\ \A e \in rows : Precedes(ReadDirection, e, r)
         /\ HasMore \/ segment <= SegmentOf(r)
    /\ pc = "reply" => HasMore \/ SegmentCount < segment

FieldOK == record \in [Uris -> Values(query.field)]

LeftInv == FieldOK /\ Delivered /\ PageOK /\ NothingLeftBehind

-----------------------------------------------------------------------------
(* The order, and the first rows of a set by it.                            *)

LEMMA PrecedesTotal ==
  ASSUME "json" \notin Fields, query \in Queries, NEW dir \in {"ASC", "DESC"},
         NEW a \in Int \X Int, NEW b \in Int \X Int
  PROVE  /\ Precedes(dir, a, b) \/ Precedes(dir, b, a) \/ a = b
         /\ ~ (Precedes(dir, a, b) /\ Precedes(dir, b, a))
         /\ ~ Precedes(dir, a, a)
<1>1. Rank(a[1]) = a[1] /\ Rank(b[1]) = b[1]
  BY RankIsKey
<1>2. PICK i \in Int, j \in Int : a = <<i, j>>
  OBVIOUS
<1>3. PICK k \in Int, l \in Int : b = <<k, l>>
  OBVIOUS
<1> QED BY <1>1, <1>2, <1>3 DEF Precedes, Less

LEMMA RowsAreFinite ==
  ASSUME NEW S, S \subseteq Rows
  PROVE  IsFiniteSet(S)
<1>1. IsFiniteSet(Keys \union {Null}) /\ IsFiniteSet(Uris)
  BY PaginationAssumption, FS_Union, FS_Singleton
<1>2. IsFiniteSet(Rows)
  BY <1>1, FS_Product DEF Rows
<1> QED BY <1>2, FS_Subset

LEMMA LeastOf ==
  ASSUME NEW S, S \subseteq Nat, S # {}
  PROVE  \E x \in S : \A y \in S : x <= y
<1>1. \E x \in S : \A y \in S : ~ (<<y, x>> \in OpToRel(<, Nat))
  BY NatLessThanWellFounded, WFMin
<1>2. PICK x \in S : \A y \in S : ~ (<<y, x>> \in OpToRel(<, Nat))
  BY <1>1
<1>3. ASSUME NEW y \in S PROVE x <= y
  <2>1. <<y, x>> \notin {ss \in Nat \X Nat : ss[1] < ss[2]}
    BY <1>2 DEF OpToRel
  <2>2. <<y, x>> \in Nat \X Nat /\ <<y, x>>[1] = y /\ <<y, x>>[2] = x
    OBVIOUS
  <2>3. ~ (y < x)
    BY <2>1, <2>2, Zenon
  <2> QED BY <2>3
<1> QED BY <1>3

(* The rows of a set before one of them; those before an earlier one are    *)
(* among them, and fewer.                                                   *)
Ahead(dir, set, r) == {s \in set : Precedes(dir, s, r)}

LEMMA AheadGrows ==
  ASSUME "json" \notin Fields, query \in Queries, NEW dir \in {"ASC", "DESC"},
         NEW S, S \subseteq Rows, NEW x \in S, NEW y \in S, Precedes(dir, y, x)
  PROVE  /\ Cardinality(Ahead(dir, S, x)) \in Nat /\ Cardinality(Ahead(dir, S, y)) \in Nat
         /\ Cardinality(Ahead(dir, S, y)) < Cardinality(Ahead(dir, S, x))
<1>1. \A s \in S : s \in Int \X Int
  BY PairsOfNumbers
<1>2. ASSUME NEW s \in S, Precedes(dir, s, y) PROVE Precedes(dir, s, x)
  BY <1>1, <1>2, PrecedesTransitive
<1>3. Ahead(dir, S, y) \subseteq Ahead(dir, S, x)
  BY <1>2, Zenon DEF Ahead
<1>4. y \in Ahead(dir, S, x) /\ y \notin Ahead(dir, S, y)
  BY <1>1, PrecedesTotal DEF Ahead
<1>5. Ahead(dir, S, x) \subseteq Rows
  BY DEF Ahead
<1>6. IsFiniteSet(Ahead(dir, S, x))
  BY <1>5, RowsAreFinite
<1>7. /\ Cardinality(Ahead(dir, S, y)) <= Cardinality(Ahead(dir, S, x))
      /\ Cardinality(Ahead(dir, S, y)) = Cardinality(Ahead(dir, S, x)) =>
           Ahead(dir, S, y) = Ahead(dir, S, x)
      /\ IsFiniteSet(Ahead(dir, S, y))
  BY <1>3, <1>6, FS_Subset
<1>8. Cardinality(Ahead(dir, S, x)) \in Nat /\ Cardinality(Ahead(dir, S, y)) \in Nat
  BY <1>6, <1>7, FS_CardinalityType
<1>9. Cardinality(Ahead(dir, S, y)) # Cardinality(Ahead(dir, S, x))
  BY <1>4, <1>7
<1> QED BY <1>7, <1>8, <1>9

(* ORDER BY ... LIMIT leaves out only rows after all it takes, and none     *)
(* unless it has taken as many as it may.                                   *)
LEMMA FirstOfIsFull ==
  ASSUME "json" \notin Fields, query \in Queries, NEW dir \in {"ASC", "DESC"},
         NEW S, S \subseteq Rows, NEW n \in Int, NEW r \in S, r \notin FirstOf(n, dir, S)
  PROVE  /\ \A e \in FirstOf(n, dir, S) : Precedes(dir, e, r)
         /\ Cardinality(FirstOf(n, dir, S)) >= n
<1> DEFINE F == FirstOf(n, dir, S)
<1>0. \A x \in S : x \in F <=> Cardinality(Ahead(dir, S, x)) < n
  BY DEF FirstOf, Ahead
<1>1. F \subseteq S
  BY DEF FirstOf
<1> HIDE DEF F
<1>2. \A s \in S : s \in Int \X Int
  BY PairsOfNumbers
<1>3. ASSUME NEW x \in S
      PROVE  Cardinality(Ahead(dir, S, x)) \in Nat /\ IsFiniteSet(Ahead(dir, S, x))
  <2>1. Ahead(dir, S, x) \subseteq Rows
    BY DEF Ahead
  <2> QED BY <2>1, RowsAreFinite, FS_CardinalityType
<1>4. ASSUME NEW e \in F PROVE Precedes(dir, e, r)
  <2>1. e \in S /\ e # r
    BY <1>1 DEF F
  <2>2. CASE Precedes(dir, r, e)
    <3>1. Cardinality(Ahead(dir, S, r)) < Cardinality(Ahead(dir, S, e))
      BY <2>1, <2>2, AheadGrows
    <3>2. Cardinality(Ahead(dir, S, e)) < n /\ ~ (Cardinality(Ahead(dir, S, r)) < n)
      BY <2>1, <1>0 DEF F
    <3> QED BY <2>1, <3>1, <3>2, <1>3
  <2> QED BY <2>1, <2>2, <1>2, PrecedesTotal
<1>5. Cardinality(F) >= n
  <2> DEFINE out == {x \in S : x \notin F}
             sizes == {Cardinality(Ahead(dir, S, x)) : x \in out}
  <2>1. r \in out
    BY DEF F
  <2>2. sizes \subseteq Nat /\ sizes # {}
    BY <2>1, <1>3
  <2>3. PICK m \in sizes : \A k \in sizes : m <= k
    BY <2>2, LeastOf
  <2>4. PICK x \in out : m = Cardinality(Ahead(dir, S, x))
    BY <2>3
  <2>5. x \in S /\ x \notin F
    BY <2>4
  <2>6. ASSUME NEW y \in Ahead(dir, S, x) PROVE y \in F
    <3>1. y \in S /\ Precedes(dir, y, x)
      BY DEF Ahead
    <3>2. /\ Cardinality(Ahead(dir, S, y)) < m /\ Cardinality(Ahead(dir, S, y)) \in Nat
          /\ m \in Nat
      BY <3>1, <2>4, <2>5, AheadGrows
    <3>3. CASE y \notin F
      <4>1. y \in out
        BY <3>1, <3>3
      <4>2. m <= Cardinality(Ahead(dir, S, y))
        BY <2>3, <4>1
      <4> QED BY <3>2, <4>2
    <3> QED BY <3>3
  <2>7. Ahead(dir, S, x) \subseteq F
    BY <2>6
  <2>8. F \subseteq Rows
    BY <1>1
  <2>9. IsFiniteSet(F)
    BY <2>8, RowsAreFinite
  <2>10. Cardinality(Ahead(dir, S, x)) <= Cardinality(F) /\ Cardinality(F) \in Nat
    BY <2>7, <2>9, FS_Subset, FS_CardinalityType
  <2>11. ~ (Cardinality(Ahead(dir, S, x)) < n)
    BY <2>5, <1>0
  <2>12. Cardinality(Ahead(dir, S, x)) \in Nat
    BY <2>5, <1>3
  <2> HIDE DEF out, sizes
  <2> QED BY <2>10, <2>11, <2>12
<1> QED BY <1>4, <1>5 DEF F

(* ... and never more. *)
LEMMA FirstOfIsShort ==
  ASSUME "json" \notin Fields, query \in Queries, NEW dir \in {"ASC", "DESC"},
         NEW S, S \subseteq Rows, NEW n \in Nat
  PROVE  Cardinality(FirstOf(n, dir, S)) <= n
<1> DEFINE F == FirstOf(n, dir, S)
           room(x) == n - Cardinality(Ahead(dir, S, x))
<1>0. F \subseteq S /\ \A x \in F : Cardinality(Ahead(dir, S, x)) < n
  BY DEF FirstOf, Ahead
<1>1. ASSUME NEW x \in S
      PROVE  Cardinality(Ahead(dir, S, x)) \in Nat /\ IsFiniteSet(Ahead(dir, S, x))
  <2>1. Ahead(dir, S, x) \subseteq Rows
    BY DEF Ahead
  <2> QED BY <2>1, RowsAreFinite, FS_CardinalityType
<1> HIDE DEF F
<1>2. CASE F = {}
  BY <1>2, FS_EmptySet DEF F
<1>3. CASE F # {}
  <2> DEFINE rooms == {room(x) : x \in F}
  <2>1. ASSUME NEW x \in F PROVE room(x) \in Nat
    BY <1>0, <1>1
  <2>2. rooms \subseteq Nat /\ rooms # {}
    BY <1>3, <2>1
  <2>3. PICK m \in rooms : \A k \in rooms : m <= k
    BY <2>2, LeastOf
  <2>4. PICK x \in F : m = room(x)
    BY <2>3
  <2>5. ASSUME NEW y \in F, y # x PROVE y \in Ahead(dir, S, x)
    <3>1. y \in S /\ x \in S
      BY <1>0, <2>4
    <3>2. y \in Int \X Int /\ x \in Int \X Int
      BY <3>1, PairsOfNumbers
    <3>3. ~ Precedes(dir, x, y)
      <4>1. room(x) <= room(y)
        BY <2>3, <2>4
      <4>2. CASE Precedes(dir, x, y)
        <5>1. Cardinality(Ahead(dir, S, x)) < Cardinality(Ahead(dir, S, y))
          BY <3>1, <4>2, AheadGrows
        <5> QED BY <1>1, <3>1, <4>1, <5>1
      <4> QED BY <4>2
    <3> QED BY <2>5, <3>1, <3>2, <3>3, PrecedesTotal DEF Ahead
  <2>6. F \subseteq Ahead(dir, S, x) \union {x}
    BY <2>5
  <2>7. x \notin Ahead(dir, S, x)
    <3>1. x \in Int \X Int
      BY <1>0, <2>4, PairsOfNumbers
    <3> QED BY <3>1, PrecedesTotal DEF Ahead
  <2>8. x \in S /\ Cardinality(Ahead(dir, S, x)) < n
    BY <1>0, <2>4
  <2>9. /\ IsFiniteSet(Ahead(dir, S, x) \union {x})
        /\ Cardinality(Ahead(dir, S, x) \union {x}) = Cardinality(Ahead(dir, S, x)) + 1
    BY <1>1, <2>7, <2>8, FS_AddElement
  <2>10. Cardinality(F) <= Cardinality(Ahead(dir, S, x) \union {x}) /\ IsFiniteSet(F)
    BY <2>6, <2>9, FS_Subset
  <2>11. Cardinality(F) \in Nat /\ Cardinality(Ahead(dir, S, x)) \in Nat
    BY <1>1, <2>8, <2>10, FS_CardinalityType
  <2>12. Cardinality(F) <= n
    BY <2>8, <2>9, <2>10, <2>11
  <2> QED BY <2>12 DEF F
<1> QED BY <1>2, <1>3

-----------------------------------------------------------------------------
(* The segments of a page.                                                  *)

LEMMA ReadDirections ==
  ASSUME query \in Queries
  PROVE  ReadDirection \in {"ASC", "DESC"}
  BY DEF Queries, ReadDirection, Reverse

(* Where only one segment is read, no row of the table has a NULL.          *)
LEMMA OneSegmentHasNoNull ==
  ASSUME "json" \notin Fields, Types, FieldOK, query.field # "record_created_at",
         NEW r \in Listed
  PROVE  r[1] # Null
<1>1. PICK u \in Uris : /\ r = <<record[u], u>>
                        /\ query.field = "timeline" => TimelineShows(u)
  BY DEF Listed, Row
<1>2. query.field \in {"indexed_at", "timeline", "search"}
  BY PaginationAssumption DEF Types, Queries, AllFields
<1>3. CASE query.field = "timeline"
  BY <1>1, <1>3 DEF TimelineShows
<1>4. CASE query.field \in {"indexed_at", "search"}
  <2>1. record[u] \in {Absent} \union Keys
    BY <1>4 DEF FieldOK, Values
  <2>2. record[u] # Null
    BY <2>1, PaginationAssumption DEF Absent, Null
  <2> QED BY <1>1, <2>2
<1> QED BY <1>2, <1>3, <1>4

(* A sequence that divides what lies beyond the cursor as SegmentOf says *)
Divides(S) ==
  /\ Len(S) = SegmentCount
  /\ \A i \in 1..SegmentCount : \A r \in S[i] : SegmentOf(r) = i
  /\ \A r \in Listed : Beyond(r) =>
       SegmentOf(r) \in 1..SegmentCount /\ r \in S[SegmentOf(r)]

LEMMA DividesOne ==
  ASSUME NEW A, SegmentCount = 1, \A r \in A : SegmentOf(r) = 1,
         \A r \in Listed : Beyond(r) => SegmentOf(r) = 1 /\ r \in A
  PROVE  Divides(<<A>>)
<1> DEFINE S == <<A>>
<1>1. Len(S) = 1 /\ S[1] = A
  OBVIOUS
<1> HIDE DEF S
<1>2. \A i \in 1..SegmentCount : i = 1
  OBVIOUS
<1> QED BY <1>1, <1>2 DEF Divides, S

LEMMA DividesTwo ==
  ASSUME NEW A, NEW B, SegmentCount = 2,
         \A r \in A : SegmentOf(r) = 1, \A r \in B : SegmentOf(r) = 2,
         \A r \in Listed : Beyond(r) => \/ SegmentOf(r) = 1 /\ r \in A
                                        \/ SegmentOf(r) = 2 /\ r \in B
  PROVE  Divides(<<A, B>>)
<1> DEFINE S == <<A, B>>
<1>1. Len(S) = 2 /\ S[1] = A /\ S[2] = B
  OBVIOUS
<1> HIDE DEF S
<1>2. \A i \in 1..SegmentCount : i = 1 \/ i = 2
  OBVIOUS
<1>3. \A i \in 1..SegmentCount : \A r \in S[i] : SegmentOf(r) = i
  BY <1>1, <1>2
<1>4. \A r \in Listed : Beyond(r) => SegmentOf(r) \in 1..SegmentCount /\ r \in S[SegmentOf(r)]
  BY <1>1
<1> QED BY <1>1, <1>3, <1>4 DEF Divides, S

LEMMA SegmentsDivide ==
  ASSUME "json" \notin Fields, Types, FieldOK
  PROVE  Divides(Segments(ReadDirection))
<1> DEFINE dir == ReadDirection
<1>0. dir \in {"ASC", "DESC"}
  BY ReadDirections DEF Types
<1>a. ASSUME NEW x \in Rows, cursor \in Rows
      PROVE  /\ Precedes(dir, cursor, x) <=> \/ Less(dir, cursor[1], x[1])
                                             \/ cursor[1] = x[1] /\ Less(dir, cursor[2], x[2])
             /\ x[1] \in Nat /\ x[2] \in Nat /\ cursor[1] \in Nat /\ cursor[2] \in Nat
  BY <1>a, RankIsKey, RowIsPair DEF Types, Precedes
<1>b. \A x \in Listed : x \in Rows
  BY ListedAreRows
<1>c. /\ Undated = {x \in Listed : x[1] = Null} /\ Dated = {x \in Listed : x[1] # Null}
  BY DEF Undated, Dated
<1> HIDE DEF dir
<1>1. CASE cursor = NoCursor
  <2>1. Segments(dir) = <<Listed>>
    BY <1>1 DEF Segments
  <2>2. SegmentCount = 1 /\ \A r : SegmentOf(r) = 1
    BY <1>1 DEF SegmentCount, SegmentOf, InTwo
  <2>3. Divides(<<Listed>>)
    BY <2>2, DividesOne
  <2> QED BY <2>1, <2>3 DEF dir
<1>2. CASE cursor # NoCursor /\ query.field # "record_created_at"
  <2> DEFINE rest == {x \in Listed : Follows(dir, x)}
  <2>1. Segments(dir) = <<rest>>
    BY <1>2 DEF Segments
  <2>2. SegmentCount = 1 /\ \A r : SegmentOf(r) = 1
    BY <1>2 DEF SegmentCount, SegmentOf, InTwo
  <2>3. cursor \in Rows
    BY <1>2 DEF Types
  <2>4. ASSUME NEW r \in Listed, Beyond(r) PROVE r \in rest
    <3>1. Precedes(dir, cursor, r)
      BY <1>2, <2>4 DEF Beyond, dir
    <3>2. r[1] # Null
      BY <1>2, OneSegmentHasNoNull
    <3> QED BY <1>a, <1>b, <2>3, <3>1, <3>2 DEF Follows
  <2> HIDE DEF rest
  <2>5. Divides(<<rest>>)
    BY <2>2, <2>4, DividesOne
  <2> QED BY <2>1, <2>5 DEF dir
<1>3. CASE cursor # NoCursor /\ query.field = "record_created_at" /\ cursor[1] = Null
  <2> DEFINE rest == {x \in Undated : Less(dir, cursor[2], x[2])}
  <2>1. cursor \in Rows
    BY <1>3 DEF Types
  <2>2. Segments(dir) = IF dir = "ASC" THEN <<rest, Dated>> ELSE <<rest>>
    BY <1>3 DEF Segments, CreatedAtSegments
  <2>3. /\ SegmentCount = IF dir = "ASC" THEN 2 ELSE 1
        /\ \A r : SegmentOf(r) = IF r[1] = Null THEN 1 ELSE 2
    BY <1>3 DEF SegmentCount, SegmentOf, InTwo, dir
  <2>4. ASSUME NEW r \in Listed, Beyond(r)
        PROVE  (r[1] = Null /\ r \in rest) \/ (r[1] # Null /\ r \in Dated /\ dir = "ASC")
    <3>1. Precedes(dir, cursor, r)
      BY <1>3, <2>4 DEF Beyond, dir
    <3> QED BY <1>0, <1>3, <1>a, <1>b, <1>c, <2>1, <3>1 DEF Less, Null
  <2>5. (\A r \in rest : r[1] = Null) /\ \A r \in Dated : r[1] # Null
    BY <1>c
  <2> HIDE DEF rest
  <2>6. CASE dir = "ASC"
    <3>1. Divides(<<rest, Dated>>)
      BY <2>3, <2>4, <2>5, <2>6, DividesTwo
    <3> QED BY <2>2, <2>6, <3>1 DEF dir
  <2>7. CASE dir # "ASC"
    <3>1. Divides(<<rest>>)
      BY <2>3, <2>4, <2>5, <2>7, DividesOne
    <3> QED BY <2>2, <2>7, <3>1 DEF dir
  <2> QED BY <2>6, <2>7
<1>4. CASE cursor # NoCursor /\ query.field = "record_created_at" /\ cursor[1] # Null
  <2> DEFINE rest == {x \in Dated : Follows(dir, x)}
  <2>1. cursor \in Rows
    BY <1>4 DEF Types
  <2>2. Segments(dir) = IF dir = "ASC" THEN <<rest>> ELSE <<rest, Undated>>
    BY <1>4 DEF Segments, CreatedAtSegments
  <2>3. /\ SegmentCount = IF dir = "ASC" THEN 1 ELSE 2
        /\ \A r : SegmentOf(r) = IF r[1] # Null THEN 1 ELSE 2
    BY <1>4 DEF SegmentCount, SegmentOf, InTwo, dir
  <2>4. ASSUME NEW r \in Listed, Beyond(r)
        PROVE  (r[1] # Null /\ r \in rest) \/ (r[1] = Null /\ r \in Undated /\ dir # "ASC")
    <3>1. Precedes(dir, cursor, r)
      BY <1>4, <2>4 DEF Beyond, dir
    <3> QED BY <1>0, <1>4, <1>a, <1>b, <1>c, <2>1, <3>1 DEF Less, Null, Follows
  <2>5. (\A r \in rest : r[1] # Null) /\ \A r \in Undated : r[1] = Null
    BY <1>c
  <2> HIDE DEF rest
  <2>6. CASE dir = "ASC"
    <3>1. Divides(<<rest>>)
      BY <2>3, <2>4, <2>5, <2>6, DividesOne
    <3> QED BY <2>2, <2>6, <3>1 DEF dir
  <2>7. CASE dir # "ASC"
    <3>1. Divides(<<rest, Undated>>)
      BY <2>3, <2>4, <2>5, <2>7, DividesTwo
    <3> QED BY <2>2, <2>7, <3>1 DEF dir
  <2> QED BY <2>6, <2>7
<1> QED BY <1>1, <1>2, <1>3, <1>4

(* The rows of a segment come before those of the next. *)
LEMMA SegmentsAreInOrder ==
  ASSUME "json" \notin Fields, Types, NEW y \in Rows, NEW r \in Rows,
         Beyond(y), Beyond(r), SegmentOf(y) < SegmentOf(r)
  PROVE  Precedes(ReadDirection, y, r)
<1> DEFINE dir == ReadDirection
<1>1. dir \in {"ASC", "DESC"}
  BY ReadDirections DEF Types
<1>2. /\ cursor # NoCursor /\ cursor \in Rows
      /\ cursor[1] = Null <=> y[1] = Null
      /\ ~ (cursor[1] = Null <=> r[1] = Null)
  BY DEF SegmentOf, InTwo, Types
<1>3. \A x \in Rows : x[1] \in Nat /\ x[2] \in Nat /\ Rank(x[1]) = x[1]
  BY RowIsPair, RankIsKey DEF Types
<1>4. Precedes(dir, cursor, r)
  BY <1>2 DEF Beyond
<1> HIDE DEF dir
<1>5. Less(dir, cursor[1], r[1])
  BY <1>1, <1>2, <1>3, <1>4 DEF Precedes, Less, Null
<1>6. Less(dir, y[1], r[1])
  BY <1>1, <1>2, <1>3, <1>5 DEF Less, Null
<1> QED BY <1>3, <1>6 DEF Precedes, dir

-----------------------------------------------------------------------------
(* The steps of a walk and of the writers.                                  *)

LEMMA LastingAreRows ==
  ASSUME Types
  PROVE  \A r \in Lasting : r \in Listed /\ r \in Rows /\ r[2] \in steady
  BY ListedAreRows DEF Lasting

(* A row is beyond the cursor, or the cursor's or before it. *)
LEMMA BeyondOrNot ==
  ASSUME "json" \notin Fields, Types, NEW r \in Rows, ~ Beyond(r)
  PROVE  cursor # NoCursor /\ AtOrBefore(r)
<1>1. cursor # NoCursor /\ cursor \in Rows /\ ~ Precedes(ReadDirection, cursor, r)
  BY DEF Beyond, Types
<1>2. cursor \in Int \X Int /\ r \in Int \X Int
  BY <1>1, PairsOfNumbers
<1>3. Precedes(ReadDirection, r, cursor) \/ r = cursor
  BY <1>1, <1>2, PrecedesTotal, ReadDirections DEF Types
<1> QED BY <1>1, <1>3 DEF AtOrBefore

(* A step that leaves the walk alone, and makes no row last that did not. *)
LEMMA LeftKept ==
  ASSUME LeftInv, FieldOK', UNCHANGED <<query, pc, cursor, segment, rows, seen>>,
         pc = "idle" \/ \A r \in Lasting' : r \in Lasting
  PROVE  LeftInv'
<1>0. ReadDirection' = ReadDirection /\ SegmentCount' = SegmentCount /\ HasMore' = HasMore
  BY DEF ReadDirection, SegmentCount, InTwo, HasMore
<1>1. \A dir, a, b : Precedes(dir, a, b)' <=> Precedes(dir, a, b)
  BY DEF Precedes, Rank
<1>2. /\ \A r : SegmentOf(r)' = SegmentOf(r)
      /\ \A r : Beyond(r)' <=> Beyond(r)
      /\ \A r : AtOrBefore(r)' <=> AtOrBefore(r)
  BY <1>0, <1>1 DEF SegmentOf, InTwo, Beyond, AtOrBefore
<1>3. CASE pc = "idle"
  BY <1>3 DEF LeftInv, Delivered, PageOK, NothingLeftBehind
<1>4. CASE \A r \in Lasting' : r \in Lasting
  <2>1. Delivered'
    BY <1>2, <1>4 DEF LeftInv, Delivered
  <2>2. PageOK'
    BY <1>0, <1>1, <1>2, <1>4 DEF LeftInv, PageOK
  <2>3. NothingLeftBehind'
    <3> SUFFICES ASSUME pc' = "done", NEW r \in Listed', r[2] \in steady' \ Undecodable
                 PROVE  r[2] \in seen'
      BY DEF NothingLeftBehind
    <3>1. r \in Lasting
      BY <1>4 DEF Lasting
    <3>2. r \in Listed /\ r[2] \in steady
      BY <3>1 DEF Lasting
    <3> QED BY <3>2 DEF LeftInv, NothingLeftBehind
  <2> QED BY <2>1, <2>2, <2>3 DEF LeftInv
<1> QED BY <1>3, <1>4

(* A page that has no more to come has all that lasts in it. *)
LEMMA ShortPageHasAll ==
  ASSUME "json" \notin Fields, Types, ~ HasMore, NEW r \in rows
  PROVE  r \in FirstOf(PageSize, ReadDirection, rows)
<1> DEFINE F == FirstOf(PageSize, ReadDirection, rows)
<1>1. rows \subseteq Rows /\ IsFiniteSet(rows) /\ PageSize \in Nat
  BY RowsAreFinite, PaginationAssumption DEF Types
<1>2. F \subseteq rows
  BY DEF FirstOf
<1>3. CASE r \notin F
  <2>1. Cardinality(F) >= PageSize
    BY <1>1, <1>3, FirstOfIsFull, ReadDirections DEF Types
  <2> HIDE DEF F
  <2>2. IsFiniteSet(F)
    BY <1>1, <1>2, FS_Subset
  <2>3. Cardinality(F \union {r}) = Cardinality(F) + 1
    BY <1>3, <2>2, FS_AddElement
  <2>4. F \union {r} \subseteq rows
    BY <1>2
  <2>5. Cardinality(F \union {r}) <= Cardinality(rows)
    BY <1>1, <2>4, FS_Subset
  <2>6. Cardinality(F) \in Nat /\ Cardinality(rows) \in Nat
    BY <1>1, <2>2, FS_CardinalityType
  <2>7. Cardinality(rows) > PageSize
    BY <1>1, <2>1, <2>3, <2>5, <2>6
  <2> QED BY <2>7 DEF HasMore
<1> QED BY <1>3

LEMMA WriteLeavesNothing ==
  ASSUME Inv, LeftInv, NEW u \in Uris, NEW key \in Values(query.field), Write(u, key)
  PROVE  LeftInv'
<1>1. /\ UNCHANGED <<query, pc, cursor, segment, rows, seen>>
      /\ record' = [record EXCEPT ![u] = key]
      /\ pc # "idle" => steady' = steady \ {u}
  BY DEF Write
<1>2. FieldOK'
  BY <1>1 DEF LeftInv, FieldOK, Values
<1>3. ASSUME pc # "idle", NEW r \in Lasting' PROVE r \in Lasting
  <2>1. r \in Listed' /\ r[2] \in steady'
    BY DEF Lasting
  <2>2. PICK v \in Uris : /\ r = <<record'[v], v>> /\ record'[v] # Absent
                          /\ query.field = "timeline" => TimelineShows(v)'
                          /\ query.field = "search" => SearchShows(v)
    BY <1>1, <2>1 DEF Listed, Row, SearchShows
  <2>3. v \in steady /\ v # u
    BY <1>1, <1>3, <2>1, <2>2
  <2>4. record'[v] = record[v]
    BY <1>1, <2>3 DEF LeftInv, FieldOK
  <2>5. TimelineShows(v)' <=> TimelineShows(v)
    BY <1>1, <2>4 DEF TimelineShows
  <2>6. r \in Listed
    BY <2>2, <2>4, <2>5 DEF Listed, Row
  <2>7. r[2] = v
    BY <2>2
  <2> QED BY <2>3, <2>6, <2>7 DEF Lasting
<1> QED BY <1>1, <1>2, <1>3, LeftKept

LEMMA ReadSegmentLeavesNothing ==
  ASSUME "json" \notin Fields, Inv, LeftInv, ReadSegment
  PROVE  LeftInv'
<1> DEFINE dir == ReadDirection
           S == Segments(dir)[segment]
           new == FirstOf(Shortfall, dir, S)
<1>t. Types /\ FieldOK /\ query \in Queries /\ dir \in {"ASC", "DESC"}
  BY ReadDirections DEF Inv, Types, LeftInv
<1>1. /\ pc = "read" /\ rows' = rows \union new /\ segment' = segment + 1
      /\ segment > 1 => Shortfall > 0
      /\ UNCHANGED <<record, writes, query, pc, cursor, seen, steady>>
  BY DEF ReadSegment
<1>2. Divides(Segments(dir)) /\ segment \in 1..SegmentCount
  <2>1. Divides(Segments(dir))
    BY <1>t, SegmentsDivide
  <2>2. segment <= SegmentCount /\ SegmentCount \in Nat
    BY <2>1 DEF ReadSegment, Divides, SegmentCount
  <2>3. segment \in Nat \ {0}
    BY <1>t DEF Types
  <2> QED BY <2>1, <2>2, <2>3
<1>3. ASSUME NEW e \in S
      PROVE  e \in Listed /\ e \in Rows /\ Beyond(e) /\ SegmentOf(e) = segment
  <2>1. e \in Listed /\ (cursor # NoCursor => Precedes(dir, cursor, e))
    BY <1>t, SegmentsFollow DEF ReadSegment, Types
  <2>2. e \in Rows
    BY <1>t, <2>1, ListedAreRows
  <2>3. SegmentOf(e) = segment
    BY <1>2 DEF Divides
  <2> QED BY <2>1, <2>2, <2>3 DEF Beyond
<1>4. ASSUME NEW r \in Listed, Beyond(r)
      PROVE  SegmentOf(r) \in 1..SegmentCount /\ (SegmentOf(r) = segment => r \in S)
  BY <1>2, <1>4 DEF Divides
<1>5. S \subseteq Rows /\ new \subseteq S
  BY <1>3 DEF FirstOf
<1>6. \A r \in S : r \notin new => /\ \A e \in new : Precedes(dir, e, r)
                                   /\ Cardinality(new) >= Shortfall
  <2>1. Shortfall \in Int
    <3>1. rows \subseteq Rows
      BY <1>t DEF Types
    <3>2. Cardinality(rows) \in Nat
      BY <3>1, RowsAreFinite, FS_CardinalityType
    <3> QED BY <3>2, PaginationAssumption DEF Shortfall
  <2> HIDE DEF S, dir
  <2> QED BY <1>t, <1>5, <2>1, FirstOfIsFull
<1>7. /\ segment \in Nat \ {0} /\ PageSize \in Nat
      /\ IsFiniteSet(rows) /\ IsFiniteSet(new)
      /\ Cardinality(rows) \in Nat /\ Cardinality(new) \in Nat
  <2>1. rows \subseteq Rows /\ new \subseteq Rows
    BY <1>t, <1>5 DEF Types
  <2> HIDE DEF new
  <2> QED BY <1>t, <2>1, RowsAreFinite, FS_CardinalityType, PaginationAssumption DEF Types
<1> HIDE DEF new, S
<1>8. /\ ReadDirection' = dir
      /\ \A a, b : Precedes(dir, a, b)' <=> Precedes(dir, a, b)
      /\ \A r : SegmentOf(r)' = SegmentOf(r)
  BY <1>1 DEF ReadDirection, Precedes, Rank, SegmentOf, InTwo
<1>9. /\ \A r : Beyond(r)' <=> Beyond(r)
      /\ \A r : AtOrBefore(r)' <=> AtOrBefore(r)
      /\ Lasting' = Lasting
  BY <1>1, <1>8 DEF Beyond, AtOrBefore, Lasting, Listed, Row, TimelineShows, SearchShows
<1>10. \A e \in rows : SegmentOf(e) < segment
  BY <1>1 DEF LeftInv, PageOK
<1>11. ASSUME NEW r \in Lasting, Beyond(r), r \notin rows'
       PROVE  /\ \A e \in rows' : Precedes(dir, e, r)
              /\ Cardinality(rows') > PageSize \/ segment + 1 <= SegmentOf(r)
  <2>1. r \in Listed /\ r \in Rows /\ r \notin rows /\ r \notin new
    BY <1>1, <1>11, <1>t, LastingAreRows
  <2>2. /\ \A e \in rows : Precedes(dir, e, r)
        /\ Cardinality(rows) > PageSize \/ segment <= SegmentOf(r)
    BY <1>1, <1>11, <2>1 DEF LeftInv, PageOK, HasMore
  <2>3. SegmentOf(r) \in Nat \ {0}
    BY DEF SegmentOf
  <2>4. segment <= SegmentOf(r)
    <3>1. segment > 1 => ~ (Cardinality(rows) > PageSize)
      BY <1>1, <1>7 DEF Shortfall
    <3> QED BY <1>7, <2>2, <2>3, <3>1
  <2>5. CASE SegmentOf(r) = segment
    <3>1. r \in S
      BY <1>4, <1>11, <2>1, <2>5
    <3>2. (\A e \in new : Precedes(dir, e, r)) /\ Cardinality(new) >= Shortfall
      BY <1>6, <2>1, <3>1
    <3>3. rows \intersect new = {}
      <4>1. \A e \in new : SegmentOf(e) = segment
        BY <1>3, <1>5
      <4>2. \A e \in rows : SegmentOf(e) # segment
        BY <1>7, <1>10
      <4> QED BY <4>1, <4>2
    <3>4. Cardinality(rows \union new) = Cardinality(rows) + Cardinality(new) - 0
      BY <1>7, <3>3, FS_Union, FS_EmptySet
    <3>5. Cardinality(rows') > PageSize
      BY <1>1, <1>7, <3>2, <3>4 DEF Shortfall
    <3> QED BY <1>1, <2>2, <3>2, <3>5
  <2>6. CASE SegmentOf(r) # segment
    <3>1. segment < SegmentOf(r) /\ segment + 1 <= SegmentOf(r)
      BY <1>7, <2>3, <2>4, <2>6
    <3>2. ASSUME NEW e \in new PROVE Precedes(dir, e, r)
      <4>1. e \in Rows /\ Beyond(e) /\ SegmentOf(e) < SegmentOf(r)
        BY <1>3, <1>5, <3>1
      <4> QED BY <1>t, <1>11, <2>1, <4>1, SegmentsAreInOrder
    <3> QED BY <1>1, <2>2, <3>1, <3>2
  <2> QED BY <2>5, <2>6
<1>12. \A e \in rows' : SegmentOf(e) < segment'
  <2>1. ASSUME NEW e \in rows' PROVE SegmentOf(e) < segment + 1
    <3>1. e \in rows \/ e \in S
      BY <1>1, <1>5
    <3>2. SegmentOf(e) \in Nat
      BY DEF SegmentOf
    <3> QED BY <1>3, <1>7, <1>10, <3>1, <3>2
  <2> QED BY <1>1, <2>1
<1>13. PageOK'
  BY <1>1, <1>8, <1>9, <1>11, <1>12 DEF PageOK, HasMore
<1>14. Delivered'
  BY <1>1, <1>9 DEF LeftInv, Delivered
<1>15. FieldOK' /\ NothingLeftBehind'
  BY <1>1 DEF LeftInv, FieldOK, Values, NothingLeftBehind
<1> QED BY <1>13, <1>14, <1>15 DEF LeftInv

LEMMA ReplyLeavesNothing ==
  ASSUME "json" \notin Fields, Inv, LeftInv, Reply
  PROVE  LeftInv'
<1> DEFINE dir == ReadDirection
<1>t. Types /\ FieldOK /\ query \in Queries /\ dir \in {"ASC", "DESC"}
  BY ReadDirections DEF Inv, Types, LeftInv
<1>1. /\ pc = "reply" /\ seen' = seen \union {e[2] : e \in Edges}
      /\ UNCHANGED <<record, writes, query, segment, rows, steady>>
  BY DEF Reply
<1>2. FieldOK' /\ Lasting' = Lasting
  BY <1>1 DEF LeftInv, FieldOK, Values, Lasting, Listed, Row, TimelineShows, SearchShows
<1>3. \A r : r \in Edges <=> /\ r \in FirstOf(PageSize, dir, rows)
                            /\ r[2] \notin Undecodable
  BY DEF Edges
<1>4. rows \subseteq Rows
  BY <1>t DEF Types
<1>5. ASSUME NEW r \in Lasting, r[2] \notin Undecodable, ~ Beyond(r)
      PROVE  r[2] \in seen'
  <2>1. r \in Rows
    BY <1>t, LastingAreRows
  <2>2. cursor # NoCursor /\ AtOrBefore(r)
    BY <1>t, <1>5, <2>1, BeyondOrNot
  <2>3. r[2] \in seen
    BY <1>1, <1>5, <2>2 DEF LeftInv, Delivered
  <2> QED BY <1>1, <2>3
<1>6. CASE ~ HasMore
  <2>1. pc' = "done"
    BY <1>6 DEF Reply
  <2>2. ASSUME NEW r \in Lasting, r[2] \notin Undecodable PROVE r[2] \in seen'
    <3>1. CASE Beyond(r)
      <4>1. SegmentCount < segment
        BY <1>1, <1>6 DEF LeftInv, PageOK
      <4>2. SegmentOf(r) \in 1..SegmentCount
        BY <1>t, <3>1, SegmentsDivide, LastingAreRows DEF Divides
      <4>3. ~ (segment <= SegmentOf(r))
        <5>1. SegmentCount \in Nat /\ segment \in Nat
          BY <1>t DEF SegmentCount, Types
        <5> QED BY <4>1, <4>2, <5>1
      <4>4. r \in rows
        BY <1>1, <1>6, <3>1, <4>3 DEF LeftInv, PageOK
      <4>5. r \in Edges
        BY <1>3, <1>6, <1>t, <2>2, <4>4, ShortPageHasAll
      <4> QED BY <1>1, <4>5
    <3> QED BY <1>5, <2>2, <3>1
  <2>3. NothingLeftBehind'
    <3> SUFFICES ASSUME NEW r \in Listed', r[2] \in steady' \ Undecodable
                 PROVE  r[2] \in seen'
      BY DEF NothingLeftBehind
    <3>1. r \in Lasting
      BY <1>2 DEF Lasting
    <3> QED BY <2>2, <3>1
  <2> QED BY <1>2, <2>1, <2>3 DEF LeftInv, Delivered, PageOK
<1>7. CASE HasMore /\ Edges # {}
  <2>1. pc' = "request"
    BY <1>7 DEF Reply
  <2>2. PICK c \in Edges : FarEdge(c) /\ cursor' = c
    BY <1>7 DEF Reply
  <2>3. c \in FirstOf(PageSize, dir, rows) /\ c \in rows /\ c \in Rows
    BY <1>3, <1>4, <2>2 DEF FirstOf
  <2>4. ASSUME NEW r \in Lasting, r[2] \notin Undecodable, r = c \/ Precedes(dir, r, c)
        PROVE  r[2] \in seen'
    <3>1. r \in Rows
      BY <1>t, LastingAreRows
    <3>2. ~ Precedes(dir, c, r)
      <4>1. r \in Int \X Int /\ c \in Int \X Int
        BY <2>3, <3>1, PairsOfNumbers
      <4> QED BY <1>t, <2>4, <4>1, PrecedesTotal
    <3>3. CASE Beyond(r)
      <4>1. r \in rows
        BY <1>1, <2>3, <3>2, <3>3 DEF LeftInv, PageOK
      <4>2. r \in FirstOf(PageSize, dir, rows)
        BY <1>4, <1>t, <2>3, <3>2, <4>1, FirstOfIsFull, PaginationAssumption
      <4>3. r \in Edges
        BY <1>3, <2>4, <4>2
      <4> QED BY <1>1, <4>3
    <3> QED BY <1>5, <2>4, <3>3
  <2>5. \A r : AtOrBefore(r)' <=> (r = c \/ Precedes(dir, r, c))
    BY <1>1, <2>2 DEF AtOrBefore, ReadDirection, Precedes, Rank
  <2>6. Delivered'
    BY <1>2, <2>4, <2>5 DEF Delivered
  <2> QED BY <1>2, <2>1, <2>6 DEF LeftInv, PageOK, NothingLeftBehind
<1>8. CASE HasMore /\ Edges = {}
  <2>1. pc' = "stranded"
    BY <1>8 DEF Reply
  <2> QED BY <1>2, <2>1 DEF LeftInv, Delivered, PageOK, NothingLeftBehind
<1> QED BY <1>6, <1>7, <1>8

LEMMA NextLeftInv ==
  ASSUME "json" \notin Fields, Inv, LeftInv, [Next]_vars
  PROVE  LeftInv'
<1>1. ASSUME NEW u \in Uris, NEW key \in Values(query.field), Write(u, key)
      PROVE  LeftInv'
  BY <1>1, WriteLeavesNothing
<1>2. CASE StartWalk
  <2>1. pc' = "request" /\ cursor' = NoCursor /\ UNCHANGED <<record, query>>
    BY <1>2 DEF StartWalk, Inv, Untouched
  <2> QED BY <2>1 DEF LeftInv, FieldOK, Values, Delivered, PageOK, NothingLeftBehind
<1>3. CASE BeginPage
  <2>1. /\ pc = "request" /\ pc' = "read" /\ segment' = 1 /\ rows' = {}
        /\ UNCHANGED <<record, query, cursor, seen, steady>>
    BY <1>3 DEF BeginPage
  <2>2. Delivered'
    <3>1. Lasting' = Lasting /\ \A r : AtOrBefore(r)' <=> AtOrBefore(r)
      BY <2>1 DEF Lasting, Listed, Row, TimelineShows, SearchShows, AtOrBefore, ReadDirection,
                  Precedes, Rank
    <3> QED BY <2>1, <3>1 DEF LeftInv, Delivered
  <2>3. \A r : 1 <= SegmentOf(r)'
    BY DEF SegmentOf
  <2>4. PageOK'
    BY <2>1, <2>3 DEF PageOK
  <2> QED BY <2>1, <2>2, <2>4 DEF LeftInv, FieldOK, Values, NothingLeftBehind
<1>4. CASE EmptyTimeline
  <2>1. /\ pc' = "done" /\ query.args = "nobody"
        /\ UNCHANGED <<record, query>>
    BY <1>4 DEF EmptyTimeline
  <2>2. query.field = "timeline"
    BY <2>1 DEF Inv, Types, Queries
  <2>3. Listed' = {}
    BY <2>1, <2>2 DEF Listed, TimelineShows
  <2> QED BY <2>1, <2>3 DEF LeftInv, FieldOK, Values, Delivered, PageOK, NothingLeftBehind
<1>5. CASE RefuseArguments
  <2>1. pc' = "refused" /\ UNCHANGED <<record, query>>
    BY <1>5 DEF RefuseArguments
  <2> QED BY <2>1 DEF LeftInv, FieldOK, Values, Delivered, PageOK, NothingLeftBehind
<1>6. CASE ReadSegment
  BY <1>6, ReadSegmentLeavesNothing
<1>7. CASE EndRead
  <2>1. /\ pc = "read" /\ pc' = "reply"
        /\ UNCHANGED <<record, query, cursor, segment, rows, seen, steady>>
    BY <1>7 DEF EndRead
  <2>2. HasMore \/ SegmentCount < segment
    <3>1. Len(Segments(ReadDirection)) = SegmentCount
      BY SegmentsDivide DEF Divides, Inv, LeftInv
    <3>2. SegmentCount \in Nat /\ segment \in Nat
      BY DEF SegmentCount, Inv, Types
    <3>3. rows \subseteq Rows
      BY DEF Inv, Types
    <3>4. Cardinality(rows) \in Nat /\ PageSize \in Nat
      BY <3>3, RowsAreFinite, FS_CardinalityType, PaginationAssumption
    <3>5. SegmentCount < segment \/ Shortfall <= 0
      BY <1>7, <3>1, <3>2 DEF EndRead
    <3> QED BY <3>4, <3>5 DEF Shortfall, HasMore
  <2>3. /\ ReadDirection' = ReadDirection /\ SegmentCount' = SegmentCount
        /\ HasMore' = HasMore /\ Lasting' = Lasting
        /\ \A dir, a, b : Precedes(dir, a, b)' <=> Precedes(dir, a, b)
        /\ \A r : SegmentOf(r)' = SegmentOf(r)
    BY <2>1 DEF ReadDirection, SegmentCount, InTwo, HasMore, Lasting, Listed, Row,
                TimelineShows, SearchShows, Precedes, Rank, SegmentOf
  <2>4. \A r : (Beyond(r)' <=> Beyond(r)) /\ (AtOrBefore(r)' <=> AtOrBefore(r))
    BY <2>1, <2>3 DEF Beyond, AtOrBefore
  <2>5. Delivered'
    BY <2>1, <2>3, <2>4 DEF LeftInv, Delivered
  <2>6. PageOK'
    <3>1. \A e \in rows : SegmentOf(e) < segment
      BY <2>1 DEF LeftInv, PageOK
    <3>2. \A r \in Lasting : Beyond(r) /\ r \notin rows =>
            /\ \A e \in rows : Precedes(ReadDirection, e, r)
            /\ HasMore \/ segment <= SegmentOf(r)
      BY <2>1 DEF LeftInv, PageOK
    <3>3. \A e \in rows' : SegmentOf(e)' < segment'
      BY <2>1, <2>3, <3>1
    <3>4. ASSUME NEW r \in Lasting', Beyond(r)', r \notin rows'
          PROVE  /\ \A e \in rows' : Precedes(ReadDirection, e, r)'
                 /\ HasMore' \/ segment' <= SegmentOf(r)'
      <4>1. /\ \A e \in rows : Precedes(ReadDirection, e, r)
            /\ HasMore \/ segment <= SegmentOf(r)
        BY <2>1, <2>3, <2>4, <3>2, <3>4
      <4> QED BY <2>1, <2>3, <4>1
    <3>5. HasMore' \/ SegmentCount' < segment'
      BY <2>1, <2>2, <2>3
    <3> QED BY <3>3, <3>4, <3>5 DEF PageOK
  <2> QED BY <2>1, <2>5, <2>6 DEF LeftInv, FieldOK, Values, NothingLeftBehind
<1>8. CASE Reply
  BY <1>8, ReplyLeavesNothing
<1>9. CASE UNCHANGED vars
  <2>1. UNCHANGED <<record, query, pc, cursor, segment, rows, seen, steady>>
    BY <1>9 DEF vars
  <2>2. FieldOK' /\ Lasting' = Lasting
    BY <2>1 DEF LeftInv, FieldOK, Values, Lasting, Listed, Row, TimelineShows, SearchShows
  <2> QED BY <2>1, <2>2, LeftKept
<1> QED
  BY <1>1, <1>2, <1>3, <1>4, <1>5, <1>6, <1>7, <1>8, <1>9
     DEF Next, Walk, Request, RecordsRequest, TimelineRequest, SearchRequest

(* NothingLeftBehind for every table, page size and number of writes: when  *)
(* the resolver says that there is nothing more, the keyset segments of     *)
(* recordCreatedAtKeysetSegments and the other comparisons have left out no *)
(* record that was there all along.  A JSON sort is left out: its NULL rows *)
(* are lost once the cursor has a value (PageNull).                         *)
THEOREM NothingIsLeftBehind ==
  ASSUME "json" \notin Fields
  PROVE  Spec => []NothingLeftBehind
<1>1. Init => LeftInv
  BY DEF Init, LeftInv, FieldOK, Delivered, PageOK, NothingLeftBehind
<1>2. (Inv /\ LeftInv) /\ [Next]_vars => (Inv /\ LeftInv)'
  BY NextInv, NextLeftInv
<1>3. Inv /\ LeftInv => NothingLeftBehind
  BY DEF LeftInv
<1> QED BY <1>1, <1>2, <1>3, InitInv, PTL DEF Spec

-----------------------------------------------------------------------------
(* The type invariant, with the bound on a page.                            *)

Bounds ==
  /\ writes \in 0..MaxWrites
  /\ segment \in 1..3
  /\ Cardinality(rows) <= PageSize + 1
  /\ pc = "read" /\ segment = 1 => rows = {}

LEMMA NextBounds ==
  ASSUME "json" \notin Fields, Inv, LeftInv, Bounds, [Next]_vars
  PROVE  Bounds'
<1>1. ASSUME NEW u \in Uris, NEW key \in Values(query.field), Write(u, key)
      PROVE  Bounds'
  BY <1>1, PaginationAssumption DEF Write, Bounds
<1>2. CASE BeginPage
  BY <1>2, FS_EmptySet, PaginationAssumption DEF BeginPage, Bounds
<1>3. CASE ReadSegment
  <2> DEFINE dir == ReadDirection
             S == Segments(dir)[segment]
             new == FirstOf(Shortfall, dir, S)
  <2>t. Types /\ FieldOK /\ query \in Queries /\ dir \in {"ASC", "DESC"}
    BY ReadDirections DEF Inv, Types, LeftInv
  <2>1. segment \in Nat \ {0} /\ segment <= Len(Segments(dir)) /\ segment <= SegmentCount
    BY <1>3, <2>t, SegmentsDivide DEF ReadSegment, Divides, Types
  <2>2. segment + 1 \in 2..3
    BY <2>1 DEF SegmentCount
  <2>3. S \subseteq Rows
    <3>1. \A r \in S : r \in Listed
      BY <2>t, <2>1, SegmentsFollow
    <3> QED BY <2>t, <3>1, ListedAreRows
  <2>4. rows \subseteq Rows /\ new \subseteq Rows
    BY <2>t, <2>3 DEF Types, FirstOf
  <2>5. /\ IsFiniteSet(rows) /\ Cardinality(rows) \in Nat
        /\ PageSize \in Nat
    BY <2>4, RowsAreFinite, FS_CardinalityType, PaginationAssumption
  <2>6. Shortfall \in Nat
    BY <2>5 DEF Shortfall, Bounds
  <2> HIDE DEF S, dir
  <2>7. Cardinality(new) <= Shortfall
    BY <2>t, <2>3, <2>6, FirstOfIsShort
  <2> HIDE DEF new
  <2>8. /\ IsFiniteSet(new) /\ Cardinality(new) \in Nat
        /\ IsFiniteSet(rows \intersect new) /\ Cardinality(rows \intersect new) \in Nat
    <3>1. rows \intersect new \subseteq Rows
      BY <2>4
    <3> QED BY <2>4, <3>1, RowsAreFinite, FS_CardinalityType
  <2>9. Cardinality(rows \union new) =
          Cardinality(rows) + Cardinality(new) - Cardinality(rows \intersect new)
    BY <2>5, <2>8, FS_Union
  <2>10. Cardinality(rows \union new) <= PageSize + 1
    BY <2>5, <2>7, <2>8, <2>9 DEF Shortfall
  <2>11. rows' = rows \union new /\ segment' = segment + 1 /\ writes' = writes
    BY <1>3 DEF ReadSegment, new, S, dir
  <2> QED BY <2>2, <2>10, <2>11 DEF Bounds
<1>4. CASE StartWalk \/ EmptyTimeline \/ RefuseArguments \/ EndRead \/ Reply \/ UNCHANGED vars
  <2>1. UNCHANGED <<writes, segment, rows>> /\ (pc' = "read" => pc = "read")
    BY <1>4 DEF StartWalk, EmptyTimeline, RefuseArguments, EndRead, Reply, vars
  <2> QED BY <2>1 DEF Bounds
<1> QED
  BY <1>1, <1>2, <1>3, <1>4
     DEF Next, Walk, Request, RecordsRequest, TimelineRequest, SearchRequest

(* TypeOK, and with it the LIMIT of readSegments: however many segments a   *)
(* page is read from, and whatever is written between their statements, it  *)
(* is at most one row longer than the client asked for.                     *)
THEOREM PaginationTypes ==
  ASSUME "json" \notin Fields
  PROVE  Spec => []TypeOK
<1>1. Init => Inv /\ LeftInv /\ Bounds
  <2> SUFFICES ASSUME Init PROVE LeftInv /\ Bounds
    BY InitInv
  <2>1. LeftInv
    BY DEF Init, LeftInv, FieldOK, Delivered, PageOK, NothingLeftBehind
  <2> QED BY <2>1, FS_EmptySet, PaginationAssumption DEF Init, Bounds
<1>2. (Inv /\ LeftInv /\ Bounds) /\ [Next]_vars => (Inv /\ LeftInv /\ Bounds)'
  BY NextInv, NextLeftInv, NextBounds
<1>3. Inv /\ LeftInv /\ Bounds => TypeOK
  BY DEF Inv, LeftInv, Bounds, TypeOK, Types, FieldOK
<1> QED BY <1>1, <1>2, <1>3, PTL DEF Spec
=============================================================================
