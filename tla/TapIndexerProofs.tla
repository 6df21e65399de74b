------------------------- MODULE TapIndexerProofs -------------------------
(***************************************************************************)
(* Theorems about TapIndexer, for every set of repositories, records,      *)
(* bodies, Lexicon snapshots and events.                                   *)
(***************************************************************************)
EXTENDS TapIndexer, TLAPS


-----------------------------------------------------------------------------
(* The statements on one row. *)

Metadata(row) == [status |-> row.status, hash |-> row.hash]

(* What holds of every stored row: the CID is that of the body, and the     *)
(* metadata is the classification of the body by the snapshot it names and  *)
(* by some validator.                                                       *)
RowSound(u, row) ==
  row # NoRow =>
    /\ row.cid # NoCID => row.cid = row.body
    /\ row.hash # NoHash => ClassifyRecord(row.hash, u, row.body) = Metadata(row)
    /\ row.checked => \E v \in Validators : ClassifyRecord(v, u, row.body) = Metadata(row)

RowCurrent(v, u, row) ==
  row # NoRow => row.checked /\ ClassifyRecord(v, u, row.body) = Metadata(row)

(* A classification has a status and a fingerprint that fit the columns,    *)
(* and a fingerprint is always that of the snapshot that classified.        *)
LEMMA ClassifyType ==
  ASSUME NEW v \in Validators, NEW u \in Uris, NEW b \in Bodies
  PROVE  /\ ClassifyRecord(v, u, b) \in [status: Statuses, hash: Snapshots \union {NoHash}]
         /\ ClassifyRecord(v, u, b).hash # NoHash => ClassifyRecord(v, u, b).hash = v
  BY RowsAssumption DEF ClassifyRecord, Statuses, Validators

(* The full upsert stores a sound row that carries the writer's verdict. *)
LEMMA UpsertRowSound ==
  ASSUME NEW old \in Row \union {NoRow}, NEW u \in Uris, NEW b \in Bodies,
         NEW cid \in {NoCID, b}, NEW v \in Validators
  PROVE  LET new == UpsertRow(old, b, cid, ClassifyRecord(v, u, b))
         IN  new \in Row /\ RowSound(u, new) /\ RowCurrent(v, u, new)
<1> DEFINE c == ClassifyRecord(v, u, b)
           new == UpsertRow(old, b, cid, c)
<1>1. c \in [status: Statuses, hash: Snapshots \union {NoHash}] /\ (c.hash # NoHash => c.hash = v)
  BY ClassifyType
<1>2. c = [status |-> c.status, hash |-> c.hash]
  BY <1>1
<1> HIDE DEF c
<1>3. new \in Row
  BY <1>1 DEF UpsertRow, Row
<1>4. /\ new.cid = cid /\ new.body = b /\ new.status = c.status
      /\ new.hash = c.hash /\ new.checked = TRUE
  BY DEF UpsertRow
<1>5. Metadata(new) = c
  BY <1>2, <1>4 DEF Metadata
<1> HIDE DEF new
<1>6. ClassifyRecord(v, u, new.body) = Metadata(new)
  BY <1>4, <1>5 DEF c
<1>7. new.hash # NoHash => ClassifyRecord(new.hash, u, new.body) = Metadata(new)
  BY <1>1, <1>4, <1>6
<1> QED
  BY <1>3, <1>4, <1>6, <1>7 DEF RowSound, RowCurrent, new, c

(* The same-CID repair keeps the content, and its verdict is on that        *)
(* content: the CID it is conditional on is the CID of the event's body.    *)
LEMMA RepairRowSound ==
  ASSUME NEW row \in Row, NEW u \in Uris, NEW b \in Bodies, NEW v \in Validators,
         row.body = b, row.cid # NoCID => row.cid = row.body
  PROVE  LET new == RepairRow(row, b, ClassifyRecord(v, u, b))
         IN  new \in Row /\ RowSound(u, new) /\ RowCurrent(v, u, new)
<1> DEFINE c == ClassifyRecord(v, u, b)
           new == RepairRow(row, b, c)
<1>1. c \in [status: Statuses, hash: Snapshots \union {NoHash}] /\ (c.hash # NoHash => c.hash = v)
  BY ClassifyType
<1>2. c = [status |-> c.status, hash |-> c.hash]
  BY <1>1
<1> HIDE DEF c
<1>3. new \in Row
  BY <1>1 DEF RepairRow, WithMetadata, Row
<1>4. /\ new.cid = row.cid /\ new.body = b /\ new.status = c.status
      /\ new.hash = c.hash /\ new.checked = TRUE
  BY DEF RepairRow, WithMetadata, Row
<1>5. Metadata(new) = c
  BY <1>2, <1>4 DEF Metadata
<1> HIDE DEF new
<1>6. ClassifyRecord(v, u, new.body) = Metadata(new)
  BY <1>4, <1>5 DEF c
<1>7. new.hash # NoHash => ClassifyRecord(new.hash, u, new.body) = Metadata(new)
  BY <1>1, <1>4, <1>6
<1> QED
  BY <1>3, <1>4, <1>6, <1>7 DEF RowSound, RowCurrent, new, c

(* Storing a classification of the row's own body. *)
LEMMA WithMetadataSound ==
  ASSUME NEW row \in Row, NEW u \in Uris, NEW v \in Validators,
         row.cid # NoCID => row.cid = row.body
  PROVE  LET new == WithMetadata(row, ClassifyRecord(v, u, row.body))
         IN  new \in Row /\ RowSound(u, new) /\ RowCurrent(v, u, new)
<1> DEFINE c == ClassifyRecord(v, u, row.body)
           new == WithMetadata(row, c)
<1>0. row.body \in Bodies
  BY DEF Row
<1>1. c \in [status: Statuses, hash: Snapshots \union {NoHash}] /\ (c.hash # NoHash => c.hash = v)
  BY <1>0, ClassifyType
<1>2. c = [status |-> c.status, hash |-> c.hash]
  BY <1>1
<1> HIDE DEF c
<1>3. new \in Row
  BY <1>1 DEF WithMetadata, Row
<1>4. /\ new.cid = row.cid /\ new.body = row.body /\ new.status = c.status
      /\ new.hash = c.hash /\ new.checked = TRUE
  BY DEF WithMetadata, Row
<1>5. Metadata(new) = c
  BY <1>2, <1>4 DEF Metadata
<1> HIDE DEF new
<1>6. ClassifyRecord(v, u, new.body) = Metadata(new)
  BY <1>4, <1>5 DEF c
<1>7. new.hash # NoHash => ClassifyRecord(new.hash, u, new.body) = Metadata(new)
  BY <1>1, <1>4, <1>6
<1> QED
  BY <1>3, <1>4, <1>6, <1>7 DEF RowSound, RowCurrent, new, c

(* The startup refresh leaves a sound row that carries the verdict of the   *)
(* refreshing snapshot, also when it decides to leave the row alone.        *)
LEMMA RefreshRowSound ==
  ASSUME NEW s \in Snapshots, NEW u \in Uris, NEW row \in Row \union {NoRow},
         RowSound(u, row)
  PROVE  /\ RefreshRow(s, u, row) \in Row \union {NoRow}
         /\ RowSound(u, RefreshRow(s, u, row))
         /\ RowCurrent(s, u, RefreshRow(s, u, row))
<1>1. CASE row = NoRow
  BY <1>1 DEF RefreshRow, RowSound, RowCurrent
<1>2. CASE row # NoRow
  <2>0. row \in Row /\ s \in Validators /\ s # Disabled /\ s # NoHash
    BY <1>2, RowsAssumption DEF Validators
  <2>1. row.cid # NoCID => row.cid = row.body
    BY <1>2 DEF RowSound
  <2> DEFINE fresh == WithMetadata(row, ClassifyRecord(s, u, row.body))
  <2>2. fresh \in Row /\ RowSound(u, fresh) /\ RowCurrent(s, u, fresh)
    BY <2>0, <2>1, WithMetadataSound
  <2>3. CASE <<s, u>> \notin Covered
    <3>1. ClassifyRecord(s, u, row.body) = [status |-> "unknown_schema", hash |-> NoHash]
      BY <2>0, <2>3 DEF ClassifyRecord
    <3>2. RefreshRow(s, u, row) = fresh
      BY <1>2, <2>3, <3>1 DEF RefreshRow
    <3> QED
      BY <2>2, <3>2
  <2>4. CASE <<s, u>> \in Covered /\ NeedsValidation(s, row)
    <3>1. RefreshRow(s, u, row) = fresh
      BY <1>2, <2>4 DEF RefreshRow
    <3> QED
      BY <2>2, <3>1
  <2>5. CASE <<s, u>> \in Covered /\ ~NeedsValidation(s, row)
    <3>1. RefreshRow(s, u, row) = row
      BY <1>2, <2>5 DEF RefreshRow
    <3>2. row.hash = s /\ row.checked
      BY <2>5 DEF NeedsValidation
    <3>3. RowCurrent(s, u, row)
      BY <1>2, <2>0, <3>2 DEF RowSound, RowCurrent
    <3> QED
      BY <2>0, <3>1, <3>3
  <2> QED
    BY <2>3, <2>4, <2>5
<1> QED
  BY <1>1, <1>2

(* Version rows fit their table. *)
LEMMA AppendVersionType ==
  ASSUME NEW vs \in SUBSET Version, NEW b \in Bodies, NEW cid \in Bodies \union {NoCID}
  PROVE  AppendVersion(vs, b, cid) \in SUBSET Version
<1>1. VersionKey(b, cid) \in VersionKeys
  BY DEF VersionKey, VersionKeys
<1> QED
  BY <1>1 DEF AppendVersion, InsertVersion, Version

LEMMA SeedVersionType ==
  ASSUME NEW vs \in SUBSET Version, NEW row \in Row \union {NoRow}
  PROVE  SeedVersion(vs, row) \in SUBSET Version
<1>1. CASE row = NoRow \/ vs # {}
  BY <1>1 DEF SeedVersion
<1>2. CASE row \in Row /\ vs = {}
  <2>1. row.body \in Bodies /\ row.cid \in Bodies \union {NoCID}
    BY <1>2 DEF Row
  <2>2. VersionKey(row.body, row.cid) \in VersionKeys
    BY <2>1 DEF VersionKey, VersionKeys
  <2> DEFINE key == IF row.cid # NoCID THEN VersionKey(row.body, row.cid)
                    ELSE [by |-> "baseline", of |-> NoBody]
             new == [key |-> key, cid |-> row.cid, body |-> row.body]
  <2>3. key \in VersionKeys
    BY <2>2 DEF VersionKeys
  <2>4. new \in Version
    BY <2>1, <2>3 DEF Version
  <2>5. SeedVersion(vs, row) = InsertVersion(vs, new)
    BY <1>2, NoRowAssumption DEF SeedVersion
  <2> QED
    BY <2>4, <2>5 DEF InsertVersion
<1> QED
  BY <1>1, <1>2

-----------------------------------------------------------------------------
(* The inductive invariant. *)

(* Inside a handler there is a message, and it is of the kind that the      *)
(* handler is for.                                                          *)
HandlerHasEvent ==
  /\ pc \notin {"off", "read"} => cur \in Message
  /\ pc \in {"ensure", "append", "readRow", "repair", "upsert", "publish"} =>
       cur.ev.kind = "write" /\ cur.ev.body \in Bodies

RowsOK ==
  \A u \in Uris :
    /\ RowSound(u, record[u])
    /\ pc # "off" /\ validator # Disabled => RowCurrent(validator, u, record[u])

Inv == TypeOK /\ HandlerHasEvent /\ RowsOK

(* The event in a handler is one Tap may emit. *)
LEMMA EventInHandler ==
  ASSUME TypeOK, HandlerHasEvent, pc \notin {"off", "read"}
  PROVE  /\ cur \in Message /\ cur.id \in Nat
         /\ cur.ev \in Events /\ cur.ev.repo \in Repos /\ cur.ev.uri \in Uris
         /\ cur.ev.kind \in Kinds
         /\ cur.ev.handle \in Handles \union {NoHandle}
         /\ cur.ev.cid \in Bodies \union {NoCID}
         /\ cur.ev.cid \in {NoCID, cur.ev.body}
<1>1. cur \in Message
  BY DEF HandlerHasEvent
<1>2. cur.id \in Nat /\ cur.ev \in Events
  BY <1>1 DEF Message
<1>3. cur.ev \in Event
  BY <1>2, TapAssumption
<1> QED
  BY <1>1, <1>2, <1>3, TapAssumption DEF Event

(* The stored rows at a start: sound, and current for the new validator. *)
LEMMA InitInv == Init => Inv
<1> SUFFICES ASSUME Init PROVE Inv
  OBVIOUS
<1>1. \A b \in Bodies : \A cid \in {NoCID, b} :
        LegacyRow(b, cid) \in Row /\ \A u \in Uris : RowSound(u, LegacyRow(b, cid))
  BY DEF LegacyRow, Row, Statuses, RowSound
<1>2. \A u \in Uris : record[u] \in Row \union {NoRow} /\ RowSound(u, record[u])
  <2>1. record \in [Uris -> {NoRow} \union LegacyRows]
    BY DEF Init
  <2> QED
    BY <1>1, <2>1 DEF RowSound, LegacyRows
<1>3. record \in [Uris -> Row \union {NoRow}]
  BY <1>2 DEF Init
<1>4. TypeOK
  <2>1. /\ seq \in [Repos -> Nat] /\ head \in [Repos -> Events \union {NoEvent}]
        /\ conn \in BOOLEAN /\ pc \in PCs
        /\ cur \in Message \union {NoEvent} /\ wasValid \in BOOLEAN
    BY DEF Init, PCs
  <2>4. known \in [Repos -> Handles \union {NoHandle}]
    BY DEF Init
  <2>0. inbox \in Seq(Message)
    BY DEF Init
  <2>2. /\ validator \in Validators /\ history \in SUBSET Uris /\ resetting \in BOOLEAN
        /\ versions \in [Uris -> SUBSET Version]
        /\ actor \in [Repos -> Handles \union {NoHandle, NoActor}]
    BY DEF Init, Validators
  <2>3. /\ done \in [Repos -> BOOLEAN] /\ heard \in [Repos -> BOOLEAN]
        /\ typedDeletes \in [Uris -> 0..2] /\ removed \in SUBSET Repos
        /\ after \in Nat /\ job \in [Repos -> Handles \union {"idle", "listed"}]
    BY DEF Init
  <2> QED
    BY <1>3, <2>0, <2>1, <2>2, <2>3, <2>4 DEF TypeOK
<1>5. HandlerHasEvent
  BY DEF Init, HandlerHasEvent
<1> QED
  BY <1>2, <1>4, <1>5 DEF Inv, RowsOK, Init

(* What the writing steps leave in the table `record`. *)
LEMMA RepairStep ==
  ASSUME Inv, RepairSameCID
  PROVE  record' \in [Uris -> Row \union {NoRow}] /\ RowsOK'
<1>1. /\ cur.ev.uri \in Uris /\ cur.ev.body \in Bodies
      /\ cur.ev.cid \in {NoCID, cur.ev.body}
  BY EventInHandler DEF RepairSameCID, Inv, HandlerHasEvent
<1>2. record \in [Uris -> Row \union {NoRow}] /\ validator \in Validators
  BY DEF Inv, TypeOK
<1>3. CASE SameCID(record[cur.ev.uri], cur.ev.cid)
  <2> DEFINE u == cur.ev.uri
             new == RepairRow(record[u], cur.ev.body, Classified)
  <2>1. record[u] \in Row /\ record[u].cid # NoCID /\ record[u].cid = cur.ev.cid
    BY <1>1, <1>2, <1>3 DEF SameCID
  <2>2. record[u].cid = record[u].body /\ record[u].body = cur.ev.body
    BY <1>1, <2>1, NoRowAssumption DEF Inv, RowsOK, RowSound
  <2>3. new \in Row /\ RowSound(u, new) /\ RowCurrent(validator, u, new)
    BY <1>1, <1>2, <2>1, <2>2, RepairRowSound DEF Classified
  <2>4. /\ record' = [record EXCEPT ![u] = new] /\ validator' = validator
        /\ pc # "off"
    BY <1>3 DEF RepairSameCID, process
  <2> HIDE DEF new
  <2> QED
    BY <1>1, <1>2, <2>3, <2>4 DEF Inv, RowsOK
<1>4. CASE ~SameCID(record[cur.ev.uri], cur.ev.cid)
  BY <1>2, <1>4 DEF RepairSameCID, process, Inv, RowsOK
<1> QED
  BY <1>3, <1>4

LEMMA UpsertStep ==
  ASSUME Inv, Upsert
  PROVE  record' \in [Uris -> Row \union {NoRow}] /\ RowsOK'
<1> DEFINE u == cur.ev.uri
           new == UpsertRow(record[u], cur.ev.body, cur.ev.cid, Classified)
<1>1. /\ u \in Uris /\ cur.ev.body \in Bodies
      /\ cur.ev.cid \in {NoCID, cur.ev.body}
  BY EventInHandler DEF Upsert, Inv, HandlerHasEvent
<1>2. record \in [Uris -> Row \union {NoRow}] /\ validator \in Validators
  BY DEF Inv, TypeOK
<1>3. new \in Row /\ RowSound(u, new) /\ RowCurrent(validator, u, new)
  BY <1>1, <1>2, UpsertRowSound DEF Classified
<1>4. record' = [record EXCEPT ![u] = new] /\ validator' = validator /\ pc # "off"
  BY DEF Upsert, process
<1> HIDE DEF new
<1> QED
  BY <1>1, <1>2, <1>3, <1>4 DEF Inv, RowsOK

LEMMA StartRows ==
  ASSUME Inv, NEW v \in Validators, NEW h \in SUBSET Uris, StartProcess(v, h)
  PROVE  record' \in [Uris -> Row \union {NoRow}] /\ RowsOK'
<1>1. record \in [Uris -> Row \union {NoRow}] /\ \A u \in Uris : RowSound(u, record[u])
  BY DEF Inv, TypeOK, RowsOK
<1>2. validator' = v
  BY DEF StartProcess
<1>3. CASE v = Disabled
  BY <1>1, <1>2, <1>3 DEF StartProcess, RowsOK
<1>4. CASE v # Disabled
  <2>1. v \in Snapshots
    BY <1>4 DEF Validators
  <2>2. \A u \in Uris : /\ RefreshRow(v, u, record[u]) \in Row \union {NoRow}
                        /\ RowSound(u, RefreshRow(v, u, record[u]))
                        /\ RowCurrent(v, u, RefreshRow(v, u, record[u]))
    BY <1>1, <2>1, RefreshRowSound
  <2>3. record' = [u \in Uris |-> RefreshRow(v, u, record[u])]
    BY <1>4 DEF StartProcess
  <2> QED
    BY <1>2, <2>2, <2>3 DEF RowsOK
<1> QED
  BY <1>3, <1>4

LEMMA InterruptedRows ==
  ASSUME Inv, NEW v \in Validators, NEW part \in SUBSET Uris, InterruptedStart(v, part)
  PROVE  record' \in [Uris -> Row \union {NoRow}] /\ RowsOK'
<1>1. record \in [Uris -> Row \union {NoRow}] /\ \A u \in Uris : RowSound(u, record[u])
  BY DEF Inv, TypeOK, RowsOK
<1>2. v \in Snapshots
  BY DEF InterruptedStart, Validators
<1>3. \A u \in Uris : /\ RefreshRow(v, u, record[u]) \in Row \union {NoRow}
                      /\ RowSound(u, RefreshRow(v, u, record[u]))
  BY <1>1, <1>2, RefreshRowSound
<1>4. /\ record' = [u \in Uris |-> IF u \in part THEN RefreshRow(v, u, record[u]) ELSE record[u]]
      /\ pc' = "off"
  BY DEF InterruptedStart
<1> QED
  BY <1>1, <1>3, <1>4 DEF RowsOK

(* No step leaves the types, and a handler is only entered with a message   *)
(* it is for.                                                               *)
LEMMA TypeStep ==
  ASSUME Inv, [Next]_vars
  PROVE  TypeOK' /\ HandlerHasEvent'
<1>0. <<>> \in Seq(Message)
  OBVIOUS
<1> USE DEF Inv, TypeOK, HandlerHasEvent, server, net, process, background, tables,
            observer
<1>1. ASSUME NEW r \in Repos, NEW e \in Events, Emit(r, e)
      PROVE  TypeOK' /\ HandlerHasEvent'
  <2>1. e.handle \in Handles \union {NoHandle}
    BY TapAssumption DEF Event
  <2> QED
    BY <1>1, <2>1 DEF Emit
<1>2. ASSUME NEW r \in Repos, Send(r)
      PROVE  TypeOK' /\ HandlerHasEvent'
  BY <1>2 DEF Send, Message
<1>3. CASE Disconnect
  BY <1>0, <1>3 DEF Disconnect
<1>4. CASE Connect
  BY <1>4 DEF Connect
<1>5. CASE Receive
  <2> DEFINE m == Head(inbox)
  <2>1. m \in Message /\ inbox' \in Seq(Message)
    BY <1>5 DEF Receive
  <2>2. m.ev \in Events /\ m.ev \in Event
    BY <2>1, TapAssumption DEF Message
  <2>3. m.ev.repo \in Repos /\ m.ev.kind \in Kinds /\ m.ev.body \in Bodies \union {NoBody}
    BY <2>2 DEF Event
  <2>4. /\ cur' \in Message \union {NoEvent}
        /\ done' \in [Repos -> BOOLEAN]
    BY <1>5, <2>1, <2>3 DEF Receive, Commits
  <2>5. pc' \in PCs /\ HandlerHasEvent'
    BY <1>5, <2>1, <2>3 DEF Receive, PCs, Kinds
  <2> QED
    BY <1>5, <2>1, <2>4, <2>5 DEF Receive
<1>6. CASE Ensure
  <2>1. actor' \in [Repos -> Handles \union {NoHandle, NoActor}]
    BY <1>6, EventInHandler DEF Ensure, EnsureRow
  <2> QED
    BY <1>6, <2>1, EventInHandler DEF Ensure, PCs
<1>7. CASE AppendHistory
  <2>1. versions' \in [Uris -> SUBSET Version]
    <3>1. cur.ev.uri \in Uris /\ cur.ev.body \in Bodies /\ cur.ev.cid \in Bodies \union {NoCID}
      BY <1>7, EventInHandler DEF AppendHistory
    <3>3. AppendVersion(versions[cur.ev.uri], cur.ev.body, cur.ev.cid) \in SUBSET Version
      BY <3>1, AppendVersionType
    <3> QED
      BY <1>7, <3>1, <3>3 DEF AppendHistory
  <2> QED
    BY <1>7, <2>1, EventInHandler DEF AppendHistory, PCs, Reported, GoesTo, Returns
<1>8. CASE ReadWriteState
  BY <1>8, EventInHandler DEF ReadWriteState, WriteState, PCs, Commits
<1>9. CASE RepairSameCID
  <2>1. record' \in [Uris -> Row \union {NoRow}]
    BY <1>9, RepairStep
  <2> QED
    BY <1>9, <2>1, EventInHandler DEF RepairSameCID, PCs, Commits, Reported, GoesTo, Returns
<1>10. CASE Upsert
  <2>1. record' \in [Uris -> Row \union {NoRow}]
    BY <1>10, UpsertStep
  <2> QED
    BY <1>10, <2>1, EventInHandler DEF Upsert, PCs, Commits, Reported, GoesTo, Returns
<1>11. CASE PublishRecord
  BY <1>11, EventInHandler DEF PublishRecord, PCs, Publishes
<1>12. CASE DeleteReturning
  BY <1>12, EventInHandler DEF DeleteReturning, PCs, Commits, Reported, GoesTo, Returns
<1>13. CASE PublishDelete
  <2>1. typedDeletes' \in [Uris -> 0..2]
    <3>1. cur.ev.uri \in Uris /\ typedDeletes[cur.ev.uri] \in 0..2
      BY <1>13, EventInHandler DEF PublishDelete
    <3> DEFINE n == IF wasValid /\ typedDeletes[cur.ev.uri] < 2
                    THEN typedDeletes[cur.ev.uri] + 1 ELSE typedDeletes[cur.ev.uri]
    <3>2. n \in 0..2
      BY <3>1
    <3>3. typedDeletes' = [typedDeletes EXCEPT ![cur.ev.uri] = n]
      BY <1>13 DEF PublishDelete
    <3> QED
      BY <3>2, <3>3
  <2> QED
    BY <1>13, <2>1, EventInHandler DEF PublishDelete, PCs, Publishes
<1>14. CASE HandleIdentity
  <2>1. cur.ev.repo \in Repos /\ cur.ev.handle \in Handles \union {NoHandle}
    BY <1>14, EventInHandler DEF HandleIdentity
  <2>2. /\ actor' \in [Repos -> Handles \union {NoHandle, NoActor}]
        /\ record' \in [Uris -> Row \union {NoRow}]
        /\ versions' \in [Uris -> SUBSET Version]
        /\ removed' \in SUBSET Repos
    <3>1. CASE PurgeActorData(cur.ev.repo)
      BY <2>1, <3>1 DEF PurgeActorData
    <3>2. CASE UpsertIdentity(cur.ev.repo, cur.ev.handle)
      BY <2>1, <3>2 DEF UpsertIdentity
    <3> QED
      BY <1>14, <3>1, <3>2 DEF HandleIdentity
  <2>3. done' \in [Repos -> BOOLEAN]
    BY <1>14, <2>1 DEF HandleIdentity, Commits
  <2> QED
    BY <1>14, <2>2, <2>3, EventInHandler DEF HandleIdentity, PCs, Reported, GoesTo, Returns
<1>15. CASE HandlerError
  BY <1>15 DEF HandlerError, PCs, Returns
<1>16. CASE Ack
  BY <1>16, EventInHandler DEF Ack, PCs, Returns
<1>17. CASE AckLost
  BY <1>0, <1>17, EventInHandler DEF AckLost, PCs, Returns
<1>18. CASE SkipAck
  BY <1>18, EventInHandler DEF SkipAck, PCs, Returns
<1>19. ASSUME NEW v \in Validators, NEW h \in SUBSET Uris, StartProcess(v, h)
      PROVE  TypeOK' /\ HandlerHasEvent'
  <2>1. record' \in [Uris -> Row \union {NoRow}]
    BY <1>19, StartRows
  <2>2. \A u \in Uris : SeedVersion(versions[u], record[u]) \in SUBSET Version
    BY SeedVersionType
  <2>3. versions' \in [Uris -> SUBSET Version]
    BY <1>19, <2>2 DEF StartProcess
  <2> QED
    BY <1>19, <2>1, <2>3 DEF StartProcess, PCs
<1>20. ASSUME NEW v \in Validators, NEW part \in SUBSET Uris, InterruptedStart(v, part)
      PROVE  TypeOK' /\ HandlerHasEvent'
  <2>1. record' \in [Uris -> Row \union {NoRow}]
    BY <1>20, InterruptedRows
  <2> QED
    BY <1>20, <2>1 DEF InterruptedStart
<1>21. CASE StopProcess
  BY <1>0, <1>21 DEF StopProcess, PCs
<1>22. ASSUME NEW r \in Repos, AdminPurge(r)
      PROVE  TypeOK' /\ HandlerHasEvent'
  BY <1>22 DEF AdminPurge, PurgeActorData
<1>23. CASE AdminResetRecords
  BY <1>23 DEF AdminResetRecords
<1>24. CASE AdminResetActors
  <2>1. /\ actor' \in [Repos -> Handles \union {NoHandle, NoActor}]
        /\ removed' \in SUBSET Repos
    BY <1>24 DEF AdminResetActors
  <2> QED
    BY <1>24, <2>1 DEF AdminResetActors
<1>25. CASE ListMissing
  <2>1. after' \in Nat
    BY <1>25, TapAssumption DEF ListMissing, FirstBatch, MissingAfter
  <2>2. job' \in [Repos -> Handles \union {"idle", "listed"}]
    BY <1>25 DEF ListMissing
  <2> QED
    BY <1>25, <2>1, <2>2 DEF ListMissing, Reconciles
<1>26. CASE EndPass
  BY <1>26, TapAssumption DEF EndPass, Reconciles
<1>27. ASSUME NEW r \in Repos, AskRepoInfo(r)
       PROVE  TypeOK' /\ HandlerHasEvent'
  BY <1>27 DEF AskRepoInfo, Reconciles
<1>28. ASSUME NEW r \in Repos, ReconcileFails(r)
       PROVE  TypeOK' /\ HandlerHasEvent'
  BY <1>28 DEF ReconcileFails, Reconciles
<1>29. ASSUME NEW r \in Repos, SetHandleIfMissing(r)
       PROVE  TypeOK' /\ HandlerHasEvent'
  BY <1>29 DEF SetHandleIfMissing, Reconciles
<1>30. CASE UNCHANGED vars
  BY <1>30 DEF vars
<1> HIDE DEF Inv, TypeOK, HandlerHasEvent
<1> QED
  BY <1>1, <1>2, <1>3, <1>4, <1>5, <1>6, <1>7, <1>8, <1>9, <1>10, <1>11, <1>12, <1>13, <1>14, <1>15, <1>16, <1>17, <1>18, <1>19, <1>20, <1>21, <1>22, <1>23, <1>24, <1>25, <1>26, <1>27,
     <1>28, <1>29, <1>30 DEF Next, Consumer

(* No step leaves an unsound row, or one that is stale for the running      *)
(* validator.                                                               *)
LEMMA RowsStep ==
  ASSUME Inv, [Next]_vars
  PROVE  RowsOK'
<1>0. RowsOK /\ \A u \in Uris : RowSound(u, NoRow) /\ RowCurrent(validator, u, NoRow)
  BY DEF Inv, RowSound, RowCurrent
<1>1. CASE RepairSameCID
  BY <1>1, RepairStep
<1>2. CASE Upsert
  BY <1>2, UpsertStep
<1>3. CASE DeleteReturning
  BY <1>0, <1>3 DEF DeleteReturning, RowsOK, process, Inv, TypeOK
<1>4. CASE HandleIdentity
  BY <1>0, <1>4 DEF HandleIdentity, PurgeActorData, UpsertIdentity, RowsOK, process
<1>5. ASSUME NEW r \in Repos, AdminPurge(r)
      PROVE  RowsOK'
  BY <1>0, <1>5 DEF AdminPurge, PurgeActorData, RowsOK, process
<1>6. CASE AdminResetRecords
  BY <1>0, <1>6 DEF AdminResetRecords, RowsOK, process
<1>7. ASSUME NEW v \in Validators, NEW h \in SUBSET Uris, StartProcess(v, h)
      PROVE  RowsOK'
  BY <1>7, StartRows
<1>8. ASSUME NEW v \in Validators, NEW part \in SUBSET Uris, InterruptedStart(v, part)
      PROVE  RowsOK'
  BY <1>8, InterruptedRows
<1>9. ASSUME UNCHANGED <<record, validator>>, pc' # "off" => pc # "off"
      PROVE  RowsOK'
  BY <1>0, <1>9 DEF RowsOK
<1>10. ASSUME NEW r \in Repos, (\E e \in Events : Emit(r, e)) \/ Send(r)
       PROVE  RowsOK'
  BY <1>9, <1>10 DEF Emit, Send, process, tables
<1>11. CASE \/ Disconnect \/ Connect \/ StopProcess \/ AdminResetActors \/ UNCHANGED vars
  BY <1>9, <1>11
     DEF Disconnect, Connect, StopProcess, AdminResetActors, vars, process, tables
<1>12. CASE \/ Receive \/ Ensure \/ AppendHistory \/ ReadWriteState \/ PublishRecord
            \/ PublishDelete \/ HandlerError \/ Ack \/ AckLost \/ SkipAck
  BY <1>9, <1>12
     DEF Receive, Ensure, AppendHistory, ReadWriteState, WriteState, PublishRecord,
         PublishDelete, HandlerError, Ack, AckLost, SkipAck, process, tables
<1>13. ASSUME NEW r \in Repos,
              \/ AskRepoInfo(r) \/ ReconcileFails(r) \/ SetHandleIfMissing(r)
       PROVE  RowsOK'
  BY <1>9, <1>13 DEF AskRepoInfo, ReconcileFails, SetHandleIfMissing, Reconciles, process
<1>14. CASE ListMissing \/ EndPass
  BY <1>9, <1>14 DEF ListMissing, EndPass, Reconciles, process
<1> QED
  BY <1>1, <1>2, <1>3, <1>4, <1>5, <1>6, <1>7, <1>8, <1>10, <1>11, <1>12, <1>13, <1>14
     DEF Next, Consumer

LEMMA InvInductive == Spec => []Inv
<1>1. Inv /\ [Next]_vars => Inv'
  BY TypeStep, RowsStep DEF Inv
<1> QED
  BY <1>1, InitInv, PTL DEF Spec

-----------------------------------------------------------------------------
(* The types of the sidecar, websocket, handler and table state hold in     *)
(* every reachable state.                                                   *)
THEOREM TypeInvariant == Spec => []TypeOK
<1>1. Inv => TypeOK
  BY DEF Inv
<1> QED
  BY <1>1, InvInductive, PTL

(* A stored status never stands beside a body that no validator gives that  *)
(* status: UpsertWithValidation, its same-CID repair and the startup        *)
(* refresh never mix the metadata of one version with another's content.    *)
THEOREM MetadataMatches == Spec => []MetadataMatchesContent
<1>1. Inv => MetadataMatchesContent
  BY DEF Inv, RowsOK, RowSound, MetadataMatchesContent, Metadata
<1> QED
  BY <1>1, InvInductive, PTL

(* Once a process with validation serves, all it serves carries the verdict *)
(* of its own Lexicon snapshot, through every delivery, redelivery, purge   *)
(* and restart.                                                             *)
THEOREM MetadataIsCurrent == Spec => []MetadataCurrent
<1>1. Inv => MetadataCurrent
  BY DEF Inv, RowsOK, RowCurrent, MetadataCurrent, Metadata
<1> QED
  BY <1>1, InvInductive, PTL

-----------------------------------------------------------------------------
(***************************************************************************)
(* Order, history and handles in TapIndexer, for any repositories,         *)
(* records, events, crashes and redeliveries.  What is said of the order   *)
(* needs acks, and what is said of the index that no admin mutation is     *)
(* used; each theorem names what it assumes.                               *)
(*                                                                         *)
(* A message that is delivered again may be older than the event Tap waits *)
(* for.  The argument is that such a message changes nothing: what it says *)
(* was applied before Tap moved on, nothing later of its repository can    *)
(* have been applied, since messages are read in the order in which they   *)
(* were sent, and applying it twice is applying it once.                   *)
(***************************************************************************)

Handling == pc \notin {"off", "read"}

Queued == {inbox[i] : i \in 1..Len(inbox)}

(* The messages that are on their way or being handled. *)
Sent == Queued \union (IF Handling THEN {cur} ELSE {})

(* The message is of the last event that Tap emitted for its repository. *)
Newest(m) == m.id = seq[m.ev.repo]

(* A message is no newer than that event, and if it is that event it says   *)
(* what Tap still has.                                                      *)
Traceable ==
  /\ \A r \in Repos : head[r] # NoEvent => head[r].repo = r
  /\ \A m \in Sent :
       /\ m.id <= seq[m.ev.repo]
       /\ Newest(m) /\ head[m.ev.repo] # NoEvent => m.ev = head[m.ev.repo]

(* Messages of one repository are queued in the order of their events. *)
InOrder ==
  /\ \A i, j \in 1..Len(inbox) :
       i < j /\ inbox[i].ev.repo = inbox[j].ev.repo /\ Newest(inbox[i]) => Newest(inbox[j])
  /\ Handling /\ Newest(cur) =>
       \A m \in Queued : m.ev.repo = cur.ev.repo => Newest(m)

(* Once an event is applied no older message of its repository is left, and *)
(* Tap retires an event only when it is applied.                            *)
AppliedIsNewest ==
  \A m \in Sent :
    /\ done[m.ev.repo] => Newest(m)
    /\ Newest(m) /\ head[m.ev.repo] = NoEvent => done[m.ev.repo]

(* A handler that gets to publishing has applied its event, *)
CommittedFirst ==
  pc \in {"publish", "publishDelete", "ack"} /\ Newest(cur) => done[cur.ev.repo]

(* and one that gets to the ack has published it. *)
Audible(e) == e.kind = "delete" \/ (e.kind = "write" /\ e.body # NoBody)

PublishedFirst ==
  /\ \A r \in Repos : heard[r] => done[r]
  /\ pc = "ack" /\ Newest(cur) /\ Audible(cur.ev) => heard[cur.ev.repo]

(* The handlers of deletes and of identity events handle those. *)
RightHandler ==
  /\ pc \in {"delete", "publishDelete"} => cur.ev.kind = "delete"
  /\ pc = "identity" => cur.ev.kind \in {"identity", "purge"}

DeliveryOK ==
  Traceable /\ InOrder /\ AppliedIsNewest /\ CommittedFirst /\ PublishedFirst /\ RightHandler

(* The index is as the event left it. *)
InEffect(e) ==
  /\ e.kind = "write" /\ e.body # NoBody => IndexedBody[e.uri] = e.body
  /\ e.kind = "delete" => IndexedBody[e.uri] = NoBody
  /\ e.kind = "purge" => \A u \in Uris : RepoOf[u] = e.repo => IndexedBody[u] = NoBody

(* Applying a message again would change nothing, unless it is the first to *)
(* apply the event Tap waits for.                                           *)
EffectsOK ==
  /\ \A m \in Sent : ~Newest(m) \/ done[m.ev.repo] => InEffect(m.ev)
  /\ \A r \in Repos : head[r] # NoEvent /\ done[r] => InEffect(head[r])

(* Tap waits for a write of u. *)
Owed(u) ==
  LET e == head[RepoOf[u]]
  IN  e # NoEvent /\ e.kind = "write" /\ e.uri = u /\ e.body # NoBody

OrphansOwed ==
  \A u \in Uris : versions[u] # {} /\ record[u] = NoRow => Owed(u) /\ ~done[RepoOf[u]]

(* A typed delete is final until a write of the record is published. *)
TypedOnce ==
  /\ \A u \in Uris : typedDeletes[u] # 0 =>
       /\ typedDeletes[u] = 1
       /\ record[u] = NoRow \/ (Owed(u) /\ ~heard[RepoOf[u]])
  /\ pc = "publishDelete" =>
       record[cur.ev.uri] = NoRow /\ (wasValid => typedDeletes[cur.ev.uri] = 0)

(* A version key stands for one content; collections without history have   *)
(* no versions, and a write reaches the record table behind its version.    *)
KeySound(v) ==
  /\ v.key.by = "cid" => v.cid = v.key.of /\ v.body = v.key.of
  /\ v.key.by = "sha256" => v.cid = NoCID /\ v.body = v.key.of

Remembers(vs, body, cid) == \E v \in vs : v.cid = cid /\ v.body = body

HistoryOK ==
  /\ \A u \in Uris : \A v \in versions[u] : KeySound(v)
  /\ \A u \in Uris \ history : versions[u] = {}
  /\ \A u \in history : record[u] # NoRow => InHistory(versions[u], record[u])
  /\ pc = "append" => cur.ev.uri \in history
  /\ pc \in {"readRow", "repair", "upsert"} /\ cur.ev.uri \in history =>
       Remembers(versions[cur.ev.uri], cur.ev.body, cur.ev.cid)

-----------------------------------------------------------------------------
(* Messages and the queue. *)

LEMMA MessageParts ==
  ASSUME NEW m \in Message
  PROVE  /\ m.id \in Nat /\ m.ev \in Events /\ m.ev.repo \in Repos /\ m.ev.uri \in Uris
         /\ m.ev.kind \in Kinds /\ m.ev.body \in Bodies \union {NoBody}
         /\ m.ev.cid \in Bodies \union {NoCID} /\ (m.ev.cid # NoCID => m.ev.cid = m.ev.body)
         /\ m.ev # NoEvent
         /\ m.ev.kind \in {"write", "delete"} => m.ev.repo = RepoOf[m.ev.uri]
<1>1. m.id \in Nat /\ m.ev \in Events
  BY DEF Message
<1>2. m.ev \in Event
  BY <1>1, TapAssumption
<1> QED
  BY <1>1, <1>2, TapAssumption DEF Event

LEMMA SentAreMessages ==
  ASSUME TypeOK, HandlerHasEvent
  PROVE  Queued \subseteq Message /\ Sent \subseteq Message
<1>1. \A i \in 1..Len(inbox) : inbox[i] \in Message
  BY DEF TypeOK
<1>2. Queued \subseteq Message
  BY <1>1 DEF Queued
<1>3. Handling => cur \in Message
  BY DEF Handling, HandlerHasEvent
<1> QED
  BY <1>2, <1>3 DEF Sent

LEMMA QueueGrows ==
  ASSUME inbox \in Seq(Message), NEW m \in Message, inbox' = Append(inbox, m)
  PROVE  /\ Len(inbox') = Len(inbox) + 1 /\ Len(inbox) \in Nat
         /\ \A i \in 1..Len(inbox) : inbox'[i] = inbox[i]
         /\ inbox'[Len(inbox) + 1] = m
         /\ Queued' = Queued \union {m}
<1>1. /\ Len(inbox') = Len(inbox) + 1 /\ Len(inbox) \in Nat
      /\ \A i \in 1..Len(inbox) : inbox'[i] = inbox[i]
      /\ inbox'[Len(inbox) + 1] = m
  OBVIOUS
<1>2. \A i \in 1..Len(inbox) + 1 : i \in 1..Len(inbox) \/ i = Len(inbox) + 1
  BY <1>1
<1>3. Len(inbox) + 1 \in 1..Len(inbox) + 1 /\ \A i \in 1..Len(inbox) : i \in 1..Len(inbox) + 1
  BY <1>1
<1>4. Queued' = {inbox'[i] : i \in 1..Len(inbox) + 1}
  BY <1>1 DEF Queued
<1>5. Queued' \subseteq Queued \union {m}
  BY <1>1, <1>2, <1>4 DEF Queued
<1>6. Queued \union {m} \subseteq Queued'
  BY <1>1, <1>3, <1>4 DEF Queued
<1> QED
  BY <1>1, <1>5, <1>6

LEMMA QueueShrinks ==
  ASSUME inbox \in Seq(Message), inbox # <<>>, inbox' = Tail(inbox)
  PROVE  /\ Len(inbox) \in Nat \ {0} /\ Len(inbox') = Len(inbox) - 1
         /\ \A i \in 1..Len(inbox') : i + 1 \in 1..Len(inbox) /\ inbox'[i] = inbox[i + 1]
         /\ Head(inbox) = inbox[1] /\ 1 \in 1..Len(inbox)
         /\ Queued' \subseteq Queued /\ Head(inbox) \in Queued
<1>1. /\ Len(inbox) \in Nat \ {0} /\ Len(inbox') = Len(inbox) - 1
      /\ \A i \in 1..Len(inbox') : i + 1 \in 1..Len(inbox) /\ inbox'[i] = inbox[i + 1]
      /\ Head(inbox) = inbox[1] /\ 1 \in 1..Len(inbox)
  OBVIOUS
<1> QED
  BY <1>1 DEF Queued

-----------------------------------------------------------------------------
(* Delivery. *)

(* Messages that are lost or done with disturb nothing, and neither does a  *)
(* commit, since the message in hand is the oldest of its repository.       *)
LEMMA DeliveryShrinks ==
  ASSUME TypeOK, HandlerHasEvent, DeliveryOK,
         UNCHANGED <<seq, head>>, inbox' \in {inbox, <<>>},
         done' = done \/ (Handling /\ Commits(cur)),
         Handling' => Handling /\ cur' = cur
  PROVE  /\ Queued' \subseteq Queued /\ Sent' \subseteq Sent
         /\ Traceable' /\ InOrder' /\ AppliedIsNewest'
<1>1. Queued' \subseteq Queued /\ (inbox' = inbox \/ Len(inbox') = 0)
  BY DEF Queued
<1>2. Sent' \subseteq Sent
  BY <1>1 DEF Sent
<1>3. Traceable'
  BY <1>2 DEF Traceable, DeliveryOK, Newest
<1>4. InOrder'
  <2>1. CASE inbox' = inbox
    BY <2>1, <1>1 DEF InOrder, DeliveryOK, Newest
  <2>2. CASE Len(inbox') = 0
    BY <2>2, <1>1 DEF InOrder, DeliveryOK, Newest
  <2> QED
    BY <1>1, <2>1, <2>2
<1>5. ASSUME NEW m \in Sent'
      PROVE  /\ done'[m.ev.repo] => m.id = seq[m.ev.repo]
             /\ m.id = seq[m.ev.repo] /\ head[m.ev.repo] = NoEvent => done'[m.ev.repo]
  <2>1. m \in Sent /\ m \in Message /\ m.ev.repo \in Repos
    BY <1>2, <1>5, SentAreMessages, MessageParts
  <2>2. CASE done' = done
    BY <2>1, <2>2 DEF DeliveryOK, AppliedIsNewest, Newest
  <2>3. CASE Handling /\ Commits(cur)
    <3>1. cur.id = seq[cur.ev.repo] /\ m.ev.repo = cur.ev.repo => m.id = seq[m.ev.repo]
      BY <2>1, <2>3 DEF DeliveryOK, InOrder, Newest, Sent
    <3>2. done \in [Repos -> BOOLEAN] /\ (done'[m.ev.repo] # done[m.ev.repo] =>
            cur.id = seq[cur.ev.repo] /\ m.ev.repo = cur.ev.repo /\ done'[m.ev.repo])
      BY <2>1, <2>3 DEF Commits, TypeOK
    <3> QED
      BY <2>1, <3>1, <3>2 DEF DeliveryOK, AppliedIsNewest, Newest
  <2> QED
    BY <2>2, <2>3
<1>6. AppliedIsNewest'
  BY <1>5 DEF AppliedIsNewest, Newest
<1> QED
  BY <1>1, <1>2, <1>3, <1>4, <1>6

(* The next event makes every message of its repository an old one. *)
LEMMA EmitDelivery ==
  ASSUME Inv, DeliveryOK, NEW r \in Repos, NEW e \in Events, Emit(r, e)
  PROVE  DeliveryOK' /\ Sent' = Sent
<1> TypeOK /\ HandlerHasEvent
  BY DEF Inv
<1>1. Queued' = Queued /\ Sent' = Sent /\ inbox' = inbox /\ pc' = pc /\ cur' = cur
      /\ wasValid' = wasValid /\ Handling' = Handling
  BY DEF Emit, net, Queued, Sent, Handling
<1>2. /\ seq'[r] = seq[r] + 1 /\ seq[r] \in Nat /\ ~done'[r] /\ ~heard'[r]
      /\ head'[r] = e /\ e.repo = r
      /\ \A q \in Repos \ {r} : /\ seq'[q] = seq[q] /\ head'[q] = head[q]
                               /\ done'[q] = done[q] /\ heard'[q] = heard[q]
  BY DEF Emit, TypeOK
<1>3. \A m \in Sent : m.ev.repo \in Repos /\ m.id \in Nat /\ m.id <= seq[m.ev.repo]
  BY SentAreMessages, MessageParts DEF DeliveryOK, Traceable
<1>4. \A m \in Sent : m.ev.repo = r => m.id # seq'[r]
  BY <1>2, <1>3
<1>5. \A m \in Sent : m.id <= seq'[m.ev.repo]
  BY <1>2, <1>3
<1>6. Traceable'
  BY <1>1, <1>2, <1>3, <1>4, <1>5 DEF Traceable, DeliveryOK, Newest
<1>7. \A i \in 1..Len(inbox) : inbox[i] \in Sent
  BY DEF Sent, Queued
<1>8. InOrder'
  <2>1. ASSUME NEW i \in 1..Len(inbox), NEW j \in 1..Len(inbox), i < j,
               inbox[i].ev.repo = inbox[j].ev.repo, inbox[i].id = seq'[inbox[i].ev.repo]
        PROVE  inbox[j].id = seq'[inbox[j].ev.repo]
    BY <2>1, <1>2, <1>3, <1>4, <1>7 DEF InOrder, DeliveryOK, Newest
  <2>2. ASSUME Handling, cur.id = seq'[cur.ev.repo], NEW m \in Queued,
               m.ev.repo = cur.ev.repo
        PROVE  m.id = seq'[m.ev.repo]
    BY <2>2, <1>2, <1>3, <1>4 DEF InOrder, DeliveryOK, Newest, Sent
  <2> QED
    BY <1>1, <2>1, <2>2 DEF InOrder, Newest
<1>9. AppliedIsNewest'
  BY <1>1, <1>2, <1>3, <1>4 DEF AppliedIsNewest, DeliveryOK, Newest
<1>10. pc \notin {"off", "read"} => cur \in Sent
  BY DEF Sent, Handling
<1>11. CommittedFirst'
  BY <1>1, <1>2, <1>3, <1>4, <1>10 DEF CommittedFirst, DeliveryOK, Newest
<1>12. PublishedFirst'
  BY <1>1, <1>2, <1>3, <1>4, <1>10 DEF PublishedFirst, DeliveryOK, Newest
<1>13. RightHandler'
  BY <1>1 DEF RightHandler, DeliveryOK
<1> QED
  BY <1>1, <1>6, <1>8, <1>9, <1>11, <1>12, <1>13 DEF DeliveryOK

LEMMA SendDelivery ==
  ASSUME Inv, DeliveryOK, ~DisableAcks, NEW r \in Repos, Send(r)
  PROVE  /\ DeliveryOK'
         /\ Sent' = Sent \union {[id |-> seq[r], ev |-> head[r]]}
<1> TypeOK /\ HandlerHasEvent
  BY DEF Inv
<1> DEFINE new == [id |-> seq[r], ev |-> head[r]]
<1>1. /\ new \in Message /\ new.id = seq[r] /\ new.ev = head[r] /\ head[r].repo = r
      /\ head[r] # NoEvent
  BY DEF Send, TypeOK, Message, DeliveryOK, Traceable
<1>2. /\ inbox' = Append(inbox, new) /\ UNCHANGED <<seq, head, pc, cur, done, heard>>
  BY DEF Send, observer
<1>3. /\ Len(inbox') = Len(inbox) + 1 /\ Len(inbox) \in Nat
      /\ \A i \in 1..Len(inbox) : inbox'[i] = inbox[i]
      /\ inbox'[Len(inbox) + 1] = new
      /\ Queued' = Queued \union {new}
  BY <1>1, <1>2, QueueGrows DEF TypeOK
<1> HIDE DEF new
<1>4. Handling' = Handling /\ Sent' = Sent \union {new}
  BY <1>2, <1>3 DEF Sent, Handling
<1>5. seq[r] \in Nat
  BY DEF TypeOK
<1>6. Traceable'
  BY <1>1, <1>2, <1>4, <1>5 DEF Traceable, DeliveryOK, Newest
<1>7. InOrder'
  <2>1. ASSUME NEW i \in 1..Len(inbox'), NEW j \in 1..Len(inbox'), i < j,
               inbox'[i].ev.repo = inbox'[j].ev.repo, inbox'[i].id = seq[inbox'[i].ev.repo]
        PROVE  inbox'[j].id = seq[inbox'[j].ev.repo]
    <3>1. i \in 1..Len(inbox) /\ (j \in 1..Len(inbox) \/ j = Len(inbox) + 1)
      BY <2>1, <1>3
    <3> QED
      BY <2>1, <3>1, <1>1, <1>3 DEF InOrder, DeliveryOK, Newest
  <2> QED
    BY <2>1, <1>1, <1>2, <1>3, <1>4 DEF InOrder, DeliveryOK, Newest
<1>8. AppliedIsNewest'
  BY <1>1, <1>2, <1>4 DEF AppliedIsNewest, DeliveryOK, Newest
<1>9. CommittedFirst' /\ PublishedFirst' /\ RightHandler'
  BY <1>2 DEF CommittedFirst, PublishedFirst, RightHandler, DeliveryOK, Newest
<1> QED
  BY <1>4, <1>6, <1>7, <1>8, <1>9 DEF DeliveryOK, new

(* The oldest message leaves the queue for its handler. *)
LEMMA ReceiveEnters ==
  ASSUME Inv, Receive
  PROVE  pc' \in {"read", "ack", "ensure", "delete", "identity"}
<1> DEFINE m == Head(inbox)
<1>1. m \in Queued
  BY QueueShrinks DEF Receive, Inv, TypeOK
<1>2. m.ev.kind \in Kinds
  BY <1>1, SentAreMessages, MessageParts DEF Inv
<1> QED
  BY <1>2 DEF Receive, Kinds

LEMMA ReceiveDelivery ==
  ASSUME Inv, DeliveryOK, Receive
  PROVE  DeliveryOK' /\ Sent' \subseteq Sent
<1> TypeOK /\ HandlerHasEvent
  BY DEF Inv
<1> DEFINE m == Head(inbox)
           skip == m.ev.kind = "write" /\ m.ev.body = NoBody
<1>1. /\ pc = "read" /\ inbox # <<>> /\ inbox' = Tail(inbox)
      /\ UNCHANGED <<seq, head, heard>>
  BY DEF Receive, server
<1>2. /\ Len(inbox) \in Nat \ {0} /\ Len(inbox') = Len(inbox) - 1
      /\ \A i \in 1..Len(inbox') : i + 1 \in 1..Len(inbox) /\ inbox'[i] = inbox[i + 1]
      /\ m = inbox[1] /\ 1 \in 1..Len(inbox)
      /\ Queued' \subseteq Queued /\ m \in Queued
  BY <1>1, QueueShrinks DEF TypeOK
<1>3. /\ m \in Message /\ m.id \in Nat /\ m.ev.kind \in Kinds /\ m.ev.repo \in Repos
      /\ m \in Sent
  BY <1>2, SentAreMessages, MessageParts DEF Sent
<1>4. /\ Handling' => cur' = m /\ m.ev.kind # "malformed"
      /\ pc' \in {"read", "ack", "ensure", "delete", "identity"}
      /\ pc' = "ack" => skip
      /\ pc' = "delete" => m.ev.kind = "delete"
      /\ pc' = "identity" => m.ev.kind \in {"identity", "purge"}
      /\ IF skip THEN Commits(m) ELSE done' = done
  BY <1>3 DEF Receive, Handling, Kinds
<1> HIDE DEF m, skip
<1>5. ASSUME NEW n \in Queued', n.ev.repo = m.ev.repo, m.id = seq[m.ev.repo]
      PROVE  n.id = seq[n.ev.repo]
  <2>1. PICK i \in 1..Len(inbox') : n = inbox'[i]
    BY DEF Queued
  <2>2. i + 1 \in 1..Len(inbox) /\ n = inbox[i + 1] /\ 1 < i + 1
    BY <2>1, <1>2
  <2> QED
    BY <2>2, <1>2, <1>5 DEF DeliveryOK, InOrder, Newest
<1>6. Sent' \subseteq Sent /\ Queued' \subseteq Sent
  BY <1>2, <1>3, <1>4 DEF Sent
<1>7. Traceable'
  BY <1>1, <1>6 DEF Traceable, DeliveryOK, Newest
<1>8. InOrder'
  <2>1. ASSUME NEW i \in 1..Len(inbox'), NEW j \in 1..Len(inbox'), i < j,
               inbox'[i].ev.repo = inbox'[j].ev.repo, inbox'[i].id = seq[inbox'[i].ev.repo]
        PROVE  inbox'[j].id = seq[inbox'[j].ev.repo]
    <3>1. /\ i + 1 \in 1..Len(inbox) /\ j + 1 \in 1..Len(inbox) /\ i + 1 < j + 1
          /\ inbox'[i] = inbox[i + 1] /\ inbox'[j] = inbox[j + 1]
      BY <2>1, <1>2
    <3> QED
      BY <2>1, <3>1 DEF InOrder, DeliveryOK, Newest
  <2> QED
    BY <2>1, <1>1, <1>4, <1>5 DEF InOrder, Newest
<1>9. ASSUME NEW n \in Sent'
      PROVE  /\ done'[n.ev.repo] => n.id = seq[n.ev.repo]
             /\ n.id = seq[n.ev.repo] /\ head[n.ev.repo] = NoEvent => done'[n.ev.repo]
  <2>1. n \in Sent /\ n.ev.repo \in Repos
    BY <1>6, <1>9, SentAreMessages, MessageParts
  <2>2. m.id = seq[m.ev.repo] /\ n.ev.repo = m.ev.repo => n.id = seq[n.ev.repo]
    BY <1>4, <1>5, <1>9 DEF Sent
  <2>3. done'[n.ev.repo] # done[n.ev.repo] =>
          m.id = seq[m.ev.repo] /\ n.ev.repo = m.ev.repo /\ done'[n.ev.repo]
    BY <1>3, <1>4, <2>1 DEF Commits, TypeOK
  <2> QED
    BY <2>1, <2>2, <2>3 DEF DeliveryOK, AppliedIsNewest, Newest
<1>10. AppliedIsNewest'
  BY <1>1, <1>9 DEF AppliedIsNewest, Newest
<1>11. pc' = "ack" => cur' = m /\ (m.id = seq[m.ev.repo] => done'[m.ev.repo])
  BY <1>3, <1>4 DEF Commits, TypeOK, Handling
<1>12. \A q \in Repos : done[q] => done'[q]
  BY <1>3, <1>4 DEF Commits, TypeOK
<1>13. CommittedFirst'
  BY <1>1, <1>4, <1>11 DEF CommittedFirst, Newest
<1>14. PublishedFirst'
  BY <1>1, <1>4, <1>11, <1>12 DEF PublishedFirst, DeliveryOK, Newest, Audible, skip
<1>15. RightHandler'
  BY <1>4 DEF RightHandler, Handling
<1> QED
  BY <1>6, <1>7, <1>8, <1>10, <1>13, <1>14, <1>15 DEF DeliveryOK

(* An ack retires an event that was applied. *)
LEMMA AckDelivery ==
  ASSUME Inv, DeliveryOK, Ack
  PROVE  /\ DeliveryOK' /\ Sent' \subseteq Sent
         /\ UNCHANGED <<seq, done, heard>>
         /\ cur.ev.repo \in Repos /\ cur \in Sent
         /\ head' = IF Newest(cur) THEN [head EXCEPT ![cur.ev.repo] = NoEvent] ELSE head
         /\ Newest(cur) => done[cur.ev.repo]
         /\ Newest(cur) /\ Audible(cur.ev) => heard[cur.ev.repo]
<1> TypeOK /\ HandlerHasEvent
  BY DEF Inv
<1>1. /\ pc = "ack" /\ pc' = "read" /\ UNCHANGED <<seq, inbox, done, heard>>
      /\ cur \in Message /\ cur.ev.repo \in Repos /\ cur \in Sent
  BY EventInHandler DEF Ack, Returns, net, observer, Sent, Handling, Inv
<1>2. /\ head' = IF Newest(cur) THEN [head EXCEPT ![cur.ev.repo] = NoEvent] ELSE head
      /\ Newest(cur) => done[cur.ev.repo]
      /\ Newest(cur) /\ Audible(cur.ev) => heard[cur.ev.repo]
  <2>1. head' = IF Newest(cur) THEN [head EXCEPT ![cur.ev.repo] = NoEvent] ELSE head
    BY <1>1 DEF Ack, Newest, TypeOK
  <2> QED
    BY <1>1, <2>1 DEF DeliveryOK, CommittedFirst, PublishedFirst
<1>3. Queued' = Queued /\ Sent' \subseteq Sent /\ ~Handling'
  BY <1>1 DEF Queued, Sent, Handling
<1>4. \A q \in Repos : head'[q] = head[q] \/ (head'[q] = NoEvent /\ done[q])
  BY <1>1, <1>2 DEF TypeOK
<1>5. \A n \in Sent : n.ev.repo \in Repos
  BY SentAreMessages, MessageParts
<1>6. Traceable'
  BY <1>1, <1>3, <1>4, <1>5 DEF Traceable, DeliveryOK, Newest
<1>7. InOrder'
  BY <1>1, <1>3 DEF InOrder, DeliveryOK, Newest
<1>8. AppliedIsNewest'
  BY <1>1, <1>3, <1>4, <1>5 DEF AppliedIsNewest, DeliveryOK, Newest
<1>9. CommittedFirst' /\ PublishedFirst' /\ RightHandler'
  BY <1>1 DEF CommittedFirst, PublishedFirst, RightHandler, DeliveryOK
<1> QED
  BY <1>1, <1>2, <1>3, <1>6, <1>7, <1>8, <1>9 DEF DeliveryOK

(* Steps beside the handler, and steps that end it without a commit. *)
LEMMA QuietDelivery ==
  ASSUME Inv, DeliveryOK, UNCHANGED <<seq, head, done, heard>>, inbox' \in {inbox, <<>>},
         (pc' = pc /\ cur' = cur) \/ pc' \in {"off", "read"}
  PROVE  DeliveryOK' /\ Sent' \subseteq Sent
<1>1. Handling' => Handling /\ cur' = cur
  BY DEF Handling
<1>2. Sent' \subseteq Sent /\ Traceable' /\ InOrder' /\ AppliedIsNewest'
  BY <1>1, DeliveryShrinks DEF Inv
<1>3. CommittedFirst' /\ PublishedFirst' /\ RightHandler'
  BY DEF CommittedFirst, PublishedFirst, RightHandler, DeliveryOK, Newest
<1> QED
  BY <1>2, <1>3 DEF DeliveryOK

(* A handler goes on to its next statement: to publishing with the commit,  *)
(* and to the ack with the publication, if there is one.                    *)
Advances ==
  /\ Handling /\ UNCHANGED <<seq, head, inbox>>
  /\ pc' = "read" \/ cur' = cur
  /\ done' = done \/ Commits(cur)
  /\ heard' = heard \/ (pc \in {"publish", "publishDelete"} /\ Publishes(cur))
  /\ pc' \in {"publish", "publishDelete"} => Commits(cur)
  /\ pc' = "ack" => \/ pc \in {"publish", "publishDelete"} /\ Publishes(cur)
                    \/ Commits(cur) /\ ~Audible(cur.ev)
  /\ pc' \in {"delete", "publishDelete"} => cur.ev.kind = "delete"
  /\ pc' # "identity"

LEMMA AdvanceDelivery ==
  ASSUME Inv, DeliveryOK, Advances
  PROVE  DeliveryOK' /\ Sent' \subseteq Sent
<1>1. /\ Handling /\ cur.ev.repo \in Repos /\ TypeOK
      /\ Handling' => cur' = cur
  BY EventInHandler DEF Inv, Advances, Handling
<1>2. Sent' \subseteq Sent /\ Traceable' /\ InOrder' /\ AppliedIsNewest'
  BY <1>1, DeliveryShrinks DEF Inv, Advances
<1>3. /\ \A q \in Repos : done[q] => done'[q]
      /\ Commits(cur) /\ Newest(cur) => done'[cur.ev.repo]
  BY <1>1 DEF Advances, Commits, TypeOK, Newest
<1>4. \A q \in Repos : heard'[q] => heard[q] \/ (q = cur.ev.repo /\ Newest(cur) /\
                                               pc \in {"publish", "publishDelete"})
  BY <1>1 DEF Advances, Publishes, TypeOK, Newest
<1>5. pc \in {"publish", "publishDelete"} /\ Newest(cur) => done[cur.ev.repo]
  BY DEF DeliveryOK, CommittedFirst
<1>6. CommittedFirst'
  <2>1. ASSUME pc' \in {"publish", "publishDelete", "ack"}, cur.id = seq[cur.ev.repo]
        PROVE  done'[cur.ev.repo]
    BY <2>1, <1>1, <1>3, <1>5 DEF Advances, Newest
  <2> QED
    BY <2>1, <1>1 DEF CommittedFirst, Newest, Advances, Handling
<1>7. \A q \in Repos : heard'[q] => done'[q]
  BY <1>3, <1>4, <1>5 DEF DeliveryOK, PublishedFirst
<1>8. ASSUME pc' = "ack", cur.id = seq[cur.ev.repo], Audible(cur.ev)
      PROVE  heard'[cur.ev.repo]
  BY <1>1, <1>8 DEF Advances, Publishes, TypeOK
<1>9. PublishedFirst'
  BY <1>7, <1>8 DEF PublishedFirst, Newest, Advances, Audible
<1>10. RightHandler'
  BY DEF RightHandler, Advances
<1> QED
  BY <1>2, <1>6, <1>9, <1>10 DEF DeliveryOK

(* The statements of the handlers advance them. *)
LEMMA HandlersAdvance ==
  ASSUME Inv, DeliveryOK,
         \/ Ensure \/ AppendHistory \/ ReadWriteState \/ RepairSameCID \/ Upsert
         \/ PublishRecord \/ DeleteReturning \/ PublishDelete \/ HandleIdentity
  PROVE  Advances
<1> USE DEF Advances, Handling, server, net, observer, GoesTo, Returns, Reported
<1>1. CASE Ensure
  BY <1>1 DEF Ensure
<1>2. CASE AppendHistory
  BY <1>2 DEF AppendHistory
<1>3. CASE ReadWriteState
  BY <1>3 DEF ReadWriteState, WriteState
<1>4. CASE RepairSameCID
  BY <1>4 DEF RepairSameCID
<1>5. CASE Upsert
  BY <1>5 DEF Upsert
<1>6. CASE PublishRecord
  BY <1>6 DEF PublishRecord
<1>7. CASE DeleteReturning
  BY <1>7 DEF DeleteReturning, DeliveryOK, RightHandler
<1>8. CASE PublishDelete
  BY <1>8 DEF PublishDelete
<1>9. CASE HandleIdentity
  BY <1>9 DEF HandleIdentity, DeliveryOK, RightHandler, Audible
<1> QED
  BY <1>1, <1>2, <1>3, <1>4, <1>5, <1>6, <1>7, <1>8, <1>9

(* What the rest of the system does: it may end the handler or the          *)
(* connection, and moves no event on.                                       *)
Beside ==
  /\ UNCHANGED <<seq, head, done, heard>>
  /\ inbox' \in {inbox, <<>>}
  /\ (pc' = pc /\ cur' = cur) \/ pc' \in {"off", "read"}

HandlerStep ==
  \/ Ensure \/ AppendHistory \/ ReadWriteState \/ RepairSameCID \/ Upsert
  \/ PublishRecord \/ DeleteReturning \/ PublishDelete \/ HandleIdentity

Elsewhere ==
  \/ UNCHANGED vars
  \/ Disconnect \/ Connect \/ HandlerError \/ AckLost \/ SkipAck \/ StopProcess
  \/ \E v \in Validators, h \in SUBSET Uris : StartProcess(v, h)
  \/ \E v \in Validators, part \in SUBSET Uris : InterruptedStart(v, part)
  \/ \E r \in Repos : AdminPurge(r)
  \/ AdminResetRecords \/ AdminResetActors \/ ListMissing \/ EndPass
  \/ \E r \in Repos : AskRepoInfo(r) \/ ReconcileFails(r) \/ SetHandleIfMissing(r)

LEMMA StepCases ==
  ASSUME [Next]_vars
  PROVE  \/ \E r \in Repos, e \in Events : Emit(r, e)
         \/ \E r \in Repos : Send(r)
         \/ Receive \/ Ack \/ HandlerStep \/ Elsewhere
  BY DEF Next, Consumer, HandlerStep, Elsewhere

LEMMA ElsewhereIsBeside == ASSUME Elsewhere PROVE Beside
<1> USE DEF Beside, server, net, observer, Returns
<1>1. CASE \/ UNCHANGED vars \/ Disconnect \/ Connect \/ HandlerError \/ AckLost \/ SkipAck
           \/ StopProcess
  BY <1>1 DEF vars, Disconnect, Connect, HandlerError, AckLost, SkipAck, StopProcess
<1>2. ASSUME NEW v \in Validators, NEW h \in SUBSET Uris,
             StartProcess(v, h) \/ InterruptedStart(v, h)
      PROVE  Beside
  BY <1>2 DEF StartProcess, InterruptedStart
<1>3. ASSUME NEW r \in Repos, AdminPurge(r) \/ AskRepoInfo(r) \/ ReconcileFails(r)
                              \/ SetHandleIfMissing(r)
      PROVE  Beside
  BY <1>3 DEF AdminPurge, AskRepoInfo, ReconcileFails, SetHandleIfMissing, Reconciles
<1>4. CASE AdminResetRecords \/ AdminResetActors \/ ListMissing \/ EndPass
  BY <1>4 DEF AdminResetRecords, AdminResetActors, ListMissing, EndPass, Reconciles
<1> QED
  BY <1>1, <1>2, <1>3, <1>4 DEF Elsewhere

LEMMA DeliveryStep ==
  ASSUME Inv, DeliveryOK, ~DisableAcks, [Next]_vars
  PROVE  DeliveryOK'
<1>1. CASE HandlerStep
  BY <1>1, HandlersAdvance, AdvanceDelivery DEF HandlerStep
<1>2. CASE Elsewhere
  BY <1>2, ElsewhereIsBeside, QuietDelivery DEF Beside
<1> QED
  BY <1>1, <1>2, StepCases, EmitDelivery, SendDelivery, ReceiveDelivery, AckDelivery

LEMMA DeliveryInit == Init => DeliveryOK
  BY DEF Init, DeliveryOK, Traceable, InOrder, AppliedIsNewest, CommittedFirst, PublishedFirst,
     RightHandler, Sent, Queued, Handling

LEMMA DeliveryAlways ==
  ASSUME ~DisableAcks
  PROVE  Spec => [](Inv /\ DeliveryOK)
<1>1. Init => Inv /\ DeliveryOK
  BY InitInv, DeliveryInit
<1>2. (Inv /\ DeliveryOK) /\ [Next]_vars => (Inv /\ DeliveryOK)'
  BY TypeStep, RowsStep, DeliveryStep DEF Inv
<1> QED
  BY <1>1, <1>2, PTL DEF Spec

(* Tap retires a record event only when it was published: every path of the *)
(* handlers to the ack leads through Publish, also when the redelivered     *)
(* event writes nothing.  For any events, crashes, lost acks and admin      *)
(* mutations, with acks.                                                    *)
THEOREM PublishedWhenRetired ==
  ASSUME ~DisableAcks
  PROVE  Spec => PublishedBeforeAck
<1> DEFINE Promise(r) == /\ head[r] # NoEvent
                         /\ head'[r] = NoEvent
                         /\ head[r].kind \in {"write", "delete"}
                         /\ head[r].kind = "write" => head[r].body # NoBody
                         => heard[r]
<1>1. Inv /\ DeliveryOK /\ [Next]_vars => [\A r \in Repos : Promise(r)]_vars
  <2> SUFFICES ASSUME Inv, DeliveryOK, [Next]_vars, NEW r \in Repos PROVE Promise(r)
    OBVIOUS
  <2>1. CASE Ack
    <3>1. /\ head' = IF Newest(cur) THEN [head EXCEPT ![cur.ev.repo] = NoEvent] ELSE head
          /\ Newest(cur) /\ Audible(cur.ev) => heard[cur.ev.repo]
          /\ cur.ev.repo \in Repos /\ cur \in Sent
      BY <2>1, AckDelivery
    <3>2. head[r] # NoEvent /\ head'[r] = NoEvent => Newest(cur) /\ r = cur.ev.repo
      BY <3>1 DEF Inv, TypeOK
    <3>3. Newest(cur) /\ head[cur.ev.repo] # NoEvent => cur.ev = head[cur.ev.repo]
      BY <3>1 DEF DeliveryOK, Traceable
    <3> QED
      BY <3>1, <3>2, <3>3 DEF Audible
  <2>2. ASSUME NEW q \in Repos, NEW e \in Events, Emit(q, e) PROVE Promise(r)
    <3>1. e # NoEvent
      BY TapAssumption
    <3> QED
      BY <2>2, <3>1 DEF Emit, Inv, TypeOK
  <2>3. CASE (\E q \in Repos : Send(q)) \/ Receive
    BY <2>3 DEF Send, Receive, server
  <2>4. CASE HandlerStep
    BY <2>4, HandlersAdvance DEF Advances, HandlerStep
  <2>5. CASE Elsewhere
    BY <2>5, ElsewhereIsBeside DEF Beside
  <2> QED
    BY <2>1, <2>2, <2>3, <2>4, <2>5, StepCases
<1> QED
  BY <1>1, DeliveryAlways, PTL DEF PublishedBeforeAck, Spec

-----------------------------------------------------------------------------
(* What the steps do to the content of the record table. *)

SameContent(u) ==
  \/ record[u] = NoRow /\ record'[u] = NoRow
  \/ /\ record[u] \in Row /\ record'[u] \in Row
     /\ record'[u].body = record[u].body /\ record'[u].cid = record[u].cid

(* Metadata is written beside the content. *)
LEMMA MetadataKeepsContent ==
  ASSUME NEW row \in Row, NEW c \in [status: Statuses, hash: Snapshots \union {NoHash}],
         NEW b \in Bodies
  PROVE  /\ WithMetadata(row, c) \in Row /\ RepairRow(row, b, c) \in Row
         /\ WithMetadata(row, c).body = row.body /\ WithMetadata(row, c).cid = row.cid
         /\ RepairRow(row, b, c).body = row.body /\ RepairRow(row, b, c).cid = row.cid
<1>1. /\ WithMetadata(row, c) \in Row
      /\ WithMetadata(row, c).body = row.body /\ WithMetadata(row, c).cid = row.cid
  BY DEF WithMetadata, Row
<1>2. RepairRow(row, b, c) = [WithMetadata(row, c) EXCEPT !.dated = row.dated \/ b \in Dated]
      /\ (row.dated \/ b \in Dated) \in BOOLEAN
  BY DEF RepairRow
<1> HIDE DEF WithMetadata
<1>3. /\ RepairRow(row, b, c) \in Row
      /\ RepairRow(row, b, c).body = WithMetadata(row, c).body
      /\ RepairRow(row, b, c).cid = WithMetadata(row, c).cid
  BY <1>1, <1>2 DEF Row
<1> QED
  BY <1>1, <1>3

LEMMA RefreshKeepsContent ==
  ASSUME NEW v \in Snapshots, NEW u \in Uris, NEW row \in Row
  PROVE  /\ RefreshRow(v, u, row) \in Row
         /\ RefreshRow(v, u, row).body = row.body /\ RefreshRow(v, u, row).cid = row.cid
<1>1. row # NoRow /\ row.body \in Bodies
  BY NoRowAssumption DEF Row
<1>2. [status |-> "unknown_schema", hash |-> NoHash]
        \in [status: Statuses, hash: Snapshots \union {NoHash}]
  BY DEF Statuses
<1>3. ClassifyRecord(v, u, row.body) \in [status: Statuses, hash: Snapshots \union {NoHash}]
  BY <1>1, ClassifyType DEF Validators
<1> QED
  BY <1>1, <1>2, <1>3, MetadataKeepsContent DEF RefreshRow

(* The refresh of a start, complete or not. *)
LEMMA StartKeepsContent ==
  ASSUME Inv, NEW v \in Validators, NEW h \in SUBSET Uris,
         StartProcess(v, h) \/ InterruptedStart(v, h)
  PROVE  \A u \in Uris : SameContent(u)
<1> SUFFICES ASSUME NEW u \in Uris PROVE SameContent(u)
  OBVIOUS
<1>1. record \in [Uris -> Row \union {NoRow}]
  BY DEF Inv, TypeOK
<1>2. record'[u] = record[u] \/ (v \in Snapshots /\ record'[u] = RefreshRow(v, u, record[u]))
  BY <1>1 DEF StartProcess, InterruptedStart, Validators
<1>3. CASE record[u] = NoRow
  BY <1>2, <1>3 DEF RefreshRow, SameContent
<1>4. CASE record[u] \in Row
  BY <1>2, <1>4, RefreshKeepsContent DEF SameContent
<1> QED
  BY <1>1, <1>3, <1>4

(* A write that names the stored CID has the stored body. *)
LEMMA SameCIDSameBody ==
  ASSUME Inv, pc \in {"readRow", "repair"}, SameCID(record[cur.ev.uri], cur.ev.cid)
  PROVE  /\ cur.ev.uri \in Uris /\ record[cur.ev.uri] \in Row
         /\ record[cur.ev.uri].body = cur.ev.body
<1>1. cur.ev.uri \in Uris /\ cur.ev.cid \in {NoCID, cur.ev.body}
  BY EventInHandler DEF Inv
<1>2. record[cur.ev.uri] \in Row /\ RowSound(cur.ev.uri, record[cur.ev.uri])
  BY <1>1 DEF Inv, TypeOK, RowsOK, SameCID
<1> QED
  BY <1>1, <1>2, NoRowAssumption DEF SameCID, RowSound

LEMMA RepairKeepsContent ==
  ASSUME Inv, RepairSameCID
  PROVE  \A u \in Uris : SameContent(u)
<1> DEFINE w == cur.ev.uri
<1>1. /\ w \in Uris /\ cur.ev.body \in Bodies /\ validator \in Validators
      /\ record \in [Uris -> Row \union {NoRow}]
  BY EventInHandler DEF Inv, RepairSameCID, TypeOK, HandlerHasEvent
<1>2. CASE SameCID(record[w], cur.ev.cid)
  <2>1. record' = [record EXCEPT ![w] = RepairRow(record[w], cur.ev.body, Classified)]
        /\ record[w] \in Row
    BY <1>1, <1>2, SameCIDSameBody DEF RepairSameCID
  <2>2. Classified \in [status: Statuses, hash: Snapshots \union {NoHash}]
    BY <1>1, ClassifyType DEF Classified
  <2>3. /\ RepairRow(record[w], cur.ev.body, Classified) \in Row
        /\ RepairRow(record[w], cur.ev.body, Classified).body = record[w].body
        /\ RepairRow(record[w], cur.ev.body, Classified).cid = record[w].cid
    BY <1>1, <2>1, <2>2, MetadataKeepsContent
  <2> QED
    BY <1>1, <2>1, <2>3 DEF SameContent
<1>3. CASE ~SameCID(record[w], cur.ev.cid)
  BY <1>1, <1>3 DEF RepairSameCID, SameContent
<1> QED
  BY <1>2, <1>3

LEMMA UpsertContent ==
  ASSUME Inv, Upsert
  PROVE  /\ cur.ev.uri \in Uris /\ record'[cur.ev.uri] \in Row
         /\ record'[cur.ev.uri].body = cur.ev.body /\ record'[cur.ev.uri].cid = cur.ev.cid
         /\ \A u \in Uris \ {cur.ev.uri} : SameContent(u)
<1> DEFINE w == cur.ev.uri
           new == UpsertRow(record[w], cur.ev.body, cur.ev.cid, Classified)
<1>1. /\ w \in Uris /\ cur.ev.body \in Bodies /\ validator \in Validators
      /\ cur.ev.cid \in {NoCID, cur.ev.body}
      /\ record \in [Uris -> Row \union {NoRow}]
  BY EventInHandler DEF Inv, Upsert, TypeOK, HandlerHasEvent
<1>2. new \in Row
  BY <1>1, UpsertRowSound DEF Classified
<1>3. new.body = cur.ev.body /\ new.cid = cur.ev.cid
  BY DEF UpsertRow
<1>4. record' = [record EXCEPT ![w] = new]
  BY DEF Upsert
<1> HIDE DEF new
<1> QED
  BY <1>1, <1>2, <1>3, <1>4 DEF SameContent

-----------------------------------------------------------------------------
(* The index. *)

LEMMA SameIndex ==
  ASSUME \A u \in Uris : SameContent(u)
  PROVE  IndexedBody' = IndexedBody
  BY NoRowAssumption DEF SameContent, IndexedBody

(* What an event does to the index is in effect then, and of no concern to  *)
(* the other repositories; once in effect, doing it again changes nothing.  *)
LEMMA EffectApplies ==
  ASSUME NEW m \in Message, IndexedBody' = Log!Effect(m.ev)
  PROVE  /\ InEffect(m.ev)'
         /\ \A u \in Uris : RepoOf[u] # m.ev.repo => IndexedBody'[u] = IndexedBody[u]
<1> DEFINE e == m.ev
           index == IndexedBody
<1>1. /\ e.uri \in Uris /\ e.kind \in Kinds
      /\ e.kind \in {"write", "delete"} => e.repo = RepoOf[e.uri]
  BY MessageParts
<1>2. DOMAIN index = Uris
  BY DEF IndexedBody
<1>3. IndexedBody' =
        CASE e.kind = "write" /\ e.body # NoBody -> [index EXCEPT ![e.uri] = e.body]
          [] e.kind = "delete" -> [index EXCEPT ![e.uri] = NoBody]
          [] e.kind = "purge" -> [u \in Uris |-> IF RepoOf[u] = e.repo THEN NoBody ELSE index[u]]
          [] OTHER -> index
  BY DEF Log!Effect
<1> HIDE DEF e, index
<1>4. CASE e.kind = "write" /\ e.body # NoBody
  <2>1. IndexedBody' = [index EXCEPT ![e.uri] = e.body]
    BY <1>3, <1>4
  <2> QED
    BY <1>1, <1>2, <1>4, <2>1 DEF InEffect, e, index
<1>5. CASE e.kind = "delete"
  <2>1. IndexedBody' = [index EXCEPT ![e.uri] = NoBody]
    BY <1>3, <1>5
  <2> QED
    BY <1>1, <1>2, <1>5, <2>1 DEF InEffect, e, index
<1>6. CASE e.kind = "purge"
  <2>1. IndexedBody' = [u \in Uris |-> IF RepoOf[u] = e.repo THEN NoBody ELSE index[u]]
    BY <1>3, <1>6
  <2> QED
    BY <1>1, <1>2, <1>6, <2>1 DEF InEffect, e, index
<1>7. CASE /\ ~(e.kind = "write" /\ e.body # NoBody)
           /\ e.kind # "delete" /\ e.kind # "purge"
  <2>1. IndexedBody' = index
    BY <1>3, <1>7
  <2> QED
    BY <1>7, <2>1 DEF InEffect, e, index
<1> QED
  BY <1>4, <1>5, <1>6, <1>7

LEMMA EffectAgain ==
  ASSUME NEW m \in Message, InEffect(m.ev)
  PROVE  Log!Effect(m.ev) = IndexedBody
<1> DEFINE e == m.ev
           index == IndexedBody
<1>1. e.uri \in Uris /\ e.kind \in Kinds
  BY MessageParts
<1>2. DOMAIN index = Uris /\ index = [u \in Uris |-> index[u]]
  BY DEF IndexedBody
<1>3. /\ e.kind = "write" /\ e.body # NoBody => index[e.uri] = e.body
      /\ e.kind = "delete" => index[e.uri] = NoBody
      /\ e.kind = "purge" => \A u \in Uris : RepoOf[u] = e.repo => index[u] = NoBody
  BY DEF InEffect
<1> HIDE DEF e, index
<1>4. e.kind = "write" /\ e.body # NoBody => [index EXCEPT ![e.uri] = e.body] = index
  BY <1>1, <1>2, <1>3
<1>5. e.kind = "delete" => [index EXCEPT ![e.uri] = NoBody] = index
  BY <1>1, <1>2, <1>3
<1>6. e.kind = "purge" =>
        [u \in Uris |-> IF RepoOf[u] = e.repo THEN NoBody ELSE index[u]] = index
  BY <1>2, <1>3
<1>7. Log!Effect(m.ev) =
        CASE e.kind = "write" /\ e.body # NoBody -> [index EXCEPT ![e.uri] = e.body]
          [] e.kind = "delete" -> [index EXCEPT ![e.uri] = NoBody]
          [] e.kind = "purge" -> [u \in Uris |-> IF RepoOf[u] = e.repo THEN NoBody ELSE index[u]]
          [] OTHER -> index
  BY DEF Log!Effect, e, index
<1> QED
  BY <1>4, <1>5, <1>6, <1>7 DEF index

LEMMA OthersStayInEffect ==
  ASSUME NEW e \in Events, NEW r \in Repos, e.repo # r, InEffect(e),
         \A u \in Uris : RepoOf[u] # r => IndexedBody'[u] = IndexedBody[u]
  PROVE  InEffect(e)'
<1>1. /\ e.uri \in Uris /\ (e.kind \in {"write", "delete"} => e.repo = RepoOf[e.uri])
  BY TapAssumption DEF Event
<1> QED
  BY <1>1 DEF InEffect

(* Steps that leave the stream and the index alone, and steps that apply    *)
(* the oldest message of a repository.                                      *)
Quiet ==
  UNCHANGED <<seq, head, done, IndexedBody>> /\ Sent' \subseteq Sent

Applies(m) ==
  /\ m \in Sent /\ Sent' \subseteq Sent
  /\ UNCHANGED <<seq, head>>
  /\ Commits(m)
  /\ IndexedBody' = Log!Effect(m.ev)
  /\ Newest(m) => \A n \in Sent : n.ev.repo = m.ev.repo => Newest(n)

LEMMA ReceiveKind ==
  ASSUME Inv, DeliveryOK, Receive
  PROVE  Quiet \/ \E m \in Sent : Applies(m)
<1> DEFINE m == Head(inbox)
<1>1. /\ pc = "read" /\ inbox # <<>> /\ inbox' = Tail(inbox)
      /\ UNCHANGED <<seq, head, record>>
  BY DEF Receive, server, tables
<1>2. /\ m = inbox[1] /\ 1 \in 1..Len(inbox) /\ m \in Queued /\ Len(inbox) \in Nat
  BY <1>1, QueueShrinks DEF Inv, TypeOK
<1>3. m \in Sent /\ Sent' \subseteq Sent /\ IndexedBody' = IndexedBody
  BY <1>1, <1>2, ReceiveDelivery DEF Sent, IndexedBody
<1>4. IF m.ev.kind = "write" /\ m.ev.body = NoBody THEN Commits(m) ELSE done' = done
  BY DEF Receive
<1> HIDE DEF m
<1>5. CASE m.ev.kind = "write" /\ m.ev.body = NoBody
  <2>1. Log!Effect(m.ev) = IndexedBody
    BY <1>5 DEF Log!Effect
  <2>2. ASSUME Newest(m), NEW n \in Sent, n.ev.repo = m.ev.repo PROVE Newest(n)
    <3>1. PICK i \in 1..Len(inbox) : n = inbox[i]
      BY <1>1 DEF Sent, Queued, Handling
    <3>2. i = 1 \/ 1 < i
      BY <1>2
    <3> QED
      BY <1>2, <2>2, <3>1, <3>2 DEF DeliveryOK, InOrder
  <2> QED
    BY <1>1, <1>3, <1>4, <1>5, <2>1, <2>2 DEF Applies
<1>6. CASE ~(m.ev.kind = "write" /\ m.ev.body = NoBody)
  BY <1>1, <1>3, <1>4, <1>6 DEF Quiet
<1> QED
  BY <1>5, <1>6

LEMMA HandlerKind ==
  ASSUME Inv, DeliveryOK, HandlerStep
  PROVE  Quiet \/ Applies(cur)
<1>1. /\ Advances /\ UNCHANGED <<seq, head>> /\ Sent' \subseteq Sent /\ cur \in Sent
  BY HandlersAdvance, AdvanceDelivery DEF HandlerStep, Advances, Sent
<1>2. Newest(cur) => \A n \in Sent : n.ev.repo = cur.ev.repo => Newest(n)
  BY <1>1 DEF Advances, DeliveryOK, InOrder, Sent
<1>3. SUFFICES \/ done' = done /\ IndexedBody' = IndexedBody
               \/ Commits(cur) /\ IndexedBody' = Log!Effect(cur.ev)
  BY <1>1, <1>2 DEF Quiet, Applies
<1>4. cur \in Message /\ cur.ev.uri \in Uris
  BY <1>1, EventInHandler DEF Inv, Advances, Handling
<1>5. record \in [Uris -> Row \union {NoRow}] /\ DOMAIN IndexedBody = Uris
  BY DEF Inv, TypeOK, IndexedBody
<1>6. CASE Ensure \/ AppendHistory \/ PublishRecord \/ PublishDelete
  BY <1>6 DEF Ensure, AppendHistory, PublishRecord, PublishDelete, tables, observer, IndexedBody
<1>7. ASSUME pc \in {"readRow", "repair"}, SameCID(record[cur.ev.uri], cur.ev.cid)
      PROVE  Log!Effect(cur.ev) = IndexedBody
  <2>1. record[cur.ev.uri] \in Row /\ record[cur.ev.uri].body = cur.ev.body
    BY <1>7, SameCIDSameBody
  <2>2. IndexedBody[cur.ev.uri] = cur.ev.body
    BY <1>4, <2>1, NoRowAssumption DEF IndexedBody
  <2>3. cur.ev.kind = "write"
    BY <1>7 DEF Inv, HandlerHasEvent
  <2>4. InEffect(cur.ev)
    BY <2>2, <2>3 DEF InEffect
  <2> QED
    BY <1>4, <2>4, EffectAgain
<1>8. CASE ReadWriteState
  <2>1. pc = "readRow" /\ IndexedBody' = IndexedBody
    BY <1>8 DEF ReadWriteState, WriteState, tables, IndexedBody
  <2>2. done' = done \/ (SameCID(record[cur.ev.uri], cur.ev.cid) /\ Commits(cur))
    BY <1>8 DEF ReadWriteState, WriteState
  <2> QED
    BY <1>7, <2>1, <2>2
<1>9. CASE RepairSameCID
  <2>1. pc = "repair" /\ IndexedBody' = IndexedBody
    BY <1>9, RepairKeepsContent, SameIndex DEF RepairSameCID
  <2>2. done' = done \/ (SameCID(record[cur.ev.uri], cur.ev.cid) /\ Commits(cur))
    BY <1>9 DEF RepairSameCID
  <2> QED
    BY <1>7, <2>1, <2>2
<1>10. CASE Upsert
  <2>1. cur.ev.kind = "write" /\ cur.ev.body \in Bodies /\ cur.ev.body # NoBody
    BY <1>10, RowsAssumption DEF Upsert, Inv, HandlerHasEvent
  <2>2. /\ IndexedBody'[cur.ev.uri] = cur.ev.body
        /\ \A u \in Uris \ {cur.ev.uri} : IndexedBody'[u] = IndexedBody[u]
        /\ IndexedBody' = [u \in Uris |-> IndexedBody'[u]]
    BY <1>4, <1>10, UpsertContent, NoRowAssumption DEF IndexedBody, SameContent
  <2>3. IndexedBody' = [IndexedBody EXCEPT ![cur.ev.uri] = cur.ev.body]
    BY <1>4, <1>5, <2>2
  <2>4. Log!Effect(cur.ev) = [IndexedBody EXCEPT ![cur.ev.uri] = cur.ev.body]
    BY <2>1 DEF Log!Effect
  <2> QED
    BY <1>10, <2>3, <2>4 DEF Upsert
<1>11. CASE DeleteReturning
  <2>1. cur.ev.kind = "delete"
    BY <1>11 DEF DeleteReturning, DeliveryOK, RightHandler
  <2>2. /\ IndexedBody'[cur.ev.uri] = NoBody
        /\ \A u \in Uris \ {cur.ev.uri} : IndexedBody'[u] = IndexedBody[u]
        /\ IndexedBody' = [u \in Uris |-> IndexedBody'[u]]
    BY <1>4, <1>5, <1>11 DEF DeleteReturning, IndexedBody
  <2>3. IndexedBody' = [IndexedBody EXCEPT ![cur.ev.uri] = NoBody]
    BY <1>4, <1>5, <2>2
  <2>4. Log!Effect(cur.ev) = [IndexedBody EXCEPT ![cur.ev.uri] = NoBody]
    BY <2>1 DEF Log!Effect
  <2> QED
    BY <1>11, <2>3, <2>4 DEF DeleteReturning
<1>12. CASE HandleIdentity
  <2>1. CASE cur.ev.kind = "purge"
    <3>1. record' = [u \in Uris |-> IF RepoOf[u] = cur.ev.repo THEN NoRow ELSE record[u]]
      BY <1>12, <2>1 DEF HandleIdentity, PurgeActorData
    <3>2. IndexedBody' =
            [u \in Uris |-> IF RepoOf[u] = cur.ev.repo THEN NoBody ELSE IndexedBody[u]]
      BY <3>1 DEF IndexedBody
    <3>3. Log!Effect(cur.ev) =
            [u \in Uris |-> IF RepoOf[u] = cur.ev.repo THEN NoBody ELSE IndexedBody[u]]
      BY <2>1 DEF Log!Effect
    <3> QED
      BY <1>12, <3>2, <3>3 DEF HandleIdentity
  <2>2. CASE cur.ev.kind = "identity"
    <3>1. Log!Effect(cur.ev) = IndexedBody
      BY <2>2 DEF Log!Effect
    <3>2. IndexedBody' = IndexedBody
      BY <1>12, <2>2 DEF HandleIdentity, UpsertIdentity, IndexedBody
    <3> QED
      BY <1>12, <3>1, <3>2 DEF HandleIdentity
  <2> QED
    BY <1>12, <2>1, <2>2 DEF HandleIdentity
<1> QED
  BY <1>6, <1>8, <1>9, <1>10, <1>11, <1>12 DEF HandlerStep

LEMMA ElsewhereContent ==
  ASSUME Inv, "reset" \notin AdminOps, Elsewhere
  PROVE  (\A u \in Uris : SameContent(u)) \/ (\E r \in Repos : AdminPurge(r))
<1>1. ASSUME record' = record PROVE \A u \in Uris : SameContent(u)
  BY <1>1 DEF SameContent, Inv, TypeOK
<1>2. CASE \/ UNCHANGED vars \/ Disconnect \/ Connect \/ HandlerError \/ AckLost \/ SkipAck
           \/ StopProcess \/ AdminResetActors \/ ListMissing \/ EndPass
  BY <1>1, <1>2 DEF vars, Disconnect, Connect, HandlerError, AckLost, SkipAck, StopProcess,
     AdminResetActors, ListMissing, EndPass, Reconciles, tables
<1>3. ASSUME NEW r \in Repos, AskRepoInfo(r) \/ ReconcileFails(r) \/ SetHandleIfMissing(r)
      PROVE  \A u \in Uris : SameContent(u)
  BY <1>1, <1>3 DEF AskRepoInfo, ReconcileFails, SetHandleIfMissing, Reconciles
<1>4. ~AdminResetRecords
  BY DEF AdminResetRecords
<1> QED
  BY <1>2, <1>3, <1>4, StartKeepsContent DEF Elsewhere

LEMMA ElsewhereKind ==
  ASSUME Inv, DeliveryOK, AdminOps = {}, Elsewhere
  PROVE  Quiet /\ \A u \in Uris : SameContent(u)
<1>1. UNCHANGED <<seq, head, done>> /\ Sent' \subseteq Sent
  BY ElsewhereIsBeside, QuietDelivery DEF Beside
<1>2. \A u \in Uris : SameContent(u)
  BY ElsewhereContent DEF AdminPurge
<1> QED
  BY <1>1, <1>2, SameIndex DEF Quiet

(* Every step, as the stream and the index see it. *)
LEMMA StepKinds ==
  ASSUME Inv, DeliveryOK, ~DisableAcks, AdminOps = {}, [Next]_vars
  PROVE  \/ IndexedBody' = IndexedBody /\ \E r \in Repos, e \in Events : Emit(r, e)
         \/ IndexedBody' = IndexedBody /\ \E r \in Repos : Send(r)
         \/ IndexedBody' = IndexedBody /\ Ack
         \/ Quiet
         \/ \E m \in Sent : Applies(m)
<1>1. ASSUME NEW r \in Repos, Send(r) \/ \E e \in Events : Emit(r, e)
      PROVE  IndexedBody' = IndexedBody
  BY <1>1 DEF Send, Emit, tables, IndexedBody
<1>2. Ack => IndexedBody' = IndexedBody
  BY DEF Ack, tables, IndexedBody
<1>3. HandlerStep => Quiet \/ \E m \in Sent : Applies(m)
  BY HandlerKind DEF Applies
<1> QED
  BY <1>1, <1>2, <1>3, StepCases, ReceiveKind, ElsewhereKind

(* The first message of an event that Tap waits for is the event itself;    *)
(* any other message has been applied.                                      *)
LEMMA FirstOrAgain ==
  ASSUME Inv, DeliveryOK, EffectsOK, NEW m \in Sent, Applies(m)
  PROVE  /\ m \in Message /\ m.ev.repo \in Repos
         /\ \/ /\ Newest(m) /\ ~done[m.ev.repo]
               /\ head[m.ev.repo] # NoEvent /\ m.ev = head[m.ev.repo]
               /\ done' = [done EXCEPT ![m.ev.repo] = TRUE]
            \/ Quiet
<1>1. m \in Message /\ m.ev.repo \in Repos
  BY SentAreMessages, MessageParts DEF Inv
<1>2. CASE Newest(m) /\ ~done[m.ev.repo]
  <2>1. head[m.ev.repo] # NoEvent
    BY <1>2 DEF DeliveryOK, AppliedIsNewest
  <2>2. m.ev = head[m.ev.repo]
    BY <1>2, <2>1 DEF DeliveryOK, Traceable
  <2> QED
    BY <1>1, <1>2, <2>1, <2>2 DEF Applies, Commits, Newest
<1>3. CASE ~Newest(m) \/ done[m.ev.repo]
  <2>1. InEffect(m.ev)
    BY <1>3 DEF EffectsOK
  <2>2. IndexedBody' = IndexedBody
    BY <1>1, <2>1, EffectAgain DEF Applies
  <2>3. done' = done
    BY <1>1, <1>3 DEF Applies, Commits, Newest, Inv, TypeOK
  <2> QED
    BY <1>1, <2>2, <2>3 DEF Quiet, Applies
<1> QED
  BY <1>1, <1>2, <1>3

LEMMA EffectsStep ==
  ASSUME Inv, DeliveryOK, EffectsOK, ~DisableAcks, AdminOps = {}, [Next]_vars
  PROVE  EffectsOK'
<1>0. \A n \in Sent : n \in Message /\ n.ev \in Events /\ n.ev.repo \in Repos /\ n.id \in Nat
  BY SentAreMessages, MessageParts DEF Inv
<1>1. ASSUME IndexedBody' = IndexedBody PROVE \A e \in Events : InEffect(e)' <=> InEffect(e)
  BY <1>1 DEF InEffect
<1>2. \A r \in Repos : head[r] # NoEvent => head[r] \in Events /\ head[r].repo = r
  BY DEF Inv, TypeOK, DeliveryOK, Traceable
<1>3. CASE Quiet
  BY <1>0, <1>1, <1>2, <1>3 DEF Quiet, EffectsOK, Newest
<1>4. ASSUME NEW r \in Repos, NEW e \in Events, Emit(r, e), IndexedBody' = IndexedBody
      PROVE  EffectsOK'
  <2>1. /\ Sent' = Sent /\ ~done'[r]
        /\ \A q \in Repos \ {r} : seq'[q] = seq[q] /\ head'[q] = head[q] /\ done'[q] = done[q]
    BY <1>4, EmitDelivery DEF Emit, Inv, TypeOK
  <2>2. ASSUME NEW n \in Sent, n.ev.repo = r PROVE InEffect(n.ev)
    <3>1. head[r] = NoEvent
      BY <1>4 DEF Emit
    <3> QED
      BY <2>2, <3>1 DEF DeliveryOK, AppliedIsNewest, EffectsOK
  <2>3. \A n \in Sent : n.ev.repo # r => (Newest(n)' <=> Newest(n))
    BY <2>1, <1>0 DEF Newest
  <2> QED
    BY <1>0, <1>1, <1>2, <1>4, <2>1, <2>2, <2>3 DEF EffectsOK
<1>5. ASSUME NEW r \in Repos, Send(r), IndexedBody' = IndexedBody PROVE EffectsOK'
  <2>1. /\ Sent' = Sent \union {[id |-> seq[r], ev |-> head[r]]}
        /\ UNCHANGED <<seq, head, done>> /\ head[r] # NoEvent
    BY <1>5, SendDelivery DEF Send, observer
  <2> QED
    BY <1>0, <1>1, <1>2, <1>5, <2>1 DEF EffectsOK, Newest
<1>6. CASE Ack /\ IndexedBody' = IndexedBody
  <2>1. /\ Sent' \subseteq Sent /\ UNCHANGED <<seq, done>>
        /\ \A q \in Repos : head'[q] # NoEvent => head'[q] = head[q]
    BY <1>6, AckDelivery DEF Inv, TypeOK
  <2> QED
    BY <1>0, <1>1, <1>2, <1>6, <2>1 DEF EffectsOK, Newest
<1>7. ASSUME NEW m \in Sent, Applies(m) PROVE EffectsOK'
  <2>1. SUFFICES ASSUME Newest(m), ~done[m.ev.repo], head[m.ev.repo] # NoEvent,
                        m.ev = head[m.ev.repo], done' = [done EXCEPT ![m.ev.repo] = TRUE]
                 PROVE  EffectsOK'
    BY <1>3, <1>7, FirstOrAgain
  <2> DEFINE r == m.ev.repo
  <2>2. /\ Sent' \subseteq Sent /\ UNCHANGED <<seq, head>> /\ r \in Repos
        /\ \A q \in Repos \ {r} : done'[q] = done[q]
    BY <1>0, <2>1, <1>7 DEF Applies, Inv, TypeOK
  <2>3. /\ InEffect(m.ev)'
        /\ \A u \in Uris : RepoOf[u] # r => IndexedBody'[u] = IndexedBody[u]
    BY <1>0, <1>7, EffectApplies DEF Applies
  <2>4. \A e \in Events : e.repo # r /\ InEffect(e) => InEffect(e)'
    BY <2>2, <2>3, OthersStayInEffect
  <2>5. ASSUME NEW n \in Sent, n.ev.repo = r PROVE n.ev = m.ev
    <3>1. Newest(n)
      BY <1>7, <2>1, <2>5 DEF Applies
    <3> QED
      BY <3>1, <2>1, <2>5 DEF DeliveryOK, Traceable
  <2>6. ASSUME NEW n \in Sent, ~Newest(n)' \/ done'[n.ev.repo] PROVE InEffect(n.ev)'
    <3>1. CASE n.ev.repo = r
      BY <3>1, <2>3, <2>5
    <3>2. CASE n.ev.repo # r
      BY <3>2, <1>0, <2>2, <2>4, <2>6 DEF EffectsOK, Newest
    <3> QED
      BY <3>1, <3>2
  <2>7. ASSUME NEW q \in Repos, head[q] # NoEvent, done'[q] PROVE InEffect(head[q])'
    <3>1. CASE q = r
      BY <3>1, <2>1, <2>2, <2>3
    <3>2. CASE q # r
      BY <3>2, <1>2, <2>2, <2>4, <2>7 DEF EffectsOK
    <3> QED
      BY <3>1, <3>2
  <2> QED
    BY <2>2, <2>6, <2>7 DEF EffectsOK
<1> QED
  BY <1>3, <1>4, <1>5, <1>6, <1>7, StepKinds

OrderInv == Inv /\ DeliveryOK /\ EffectsOK

LEMMA OrderAlways ==
  ASSUME ~DisableAcks, AdminOps = {}
  PROVE  Spec => []OrderInv
<1>1. Init => OrderInv
  <2>1. Init => EffectsOK
    BY DEF Init, EffectsOK, Sent, Queued, Handling
  <2> QED
    BY <2>1, InitInv, DeliveryInit DEF OrderInv
<1>2. OrderInv /\ [Next]_vars => OrderInv'
  BY TypeStep, RowsStep, DeliveryStep, EffectsStep DEF OrderInv, Inv
<1> QED
  BY <1>1, <1>2, PTL DEF Spec

(* Without admin mutations and with acks, TapIndexer implements IndexLog:   *)
(* whatever crashes, redeliveries, lost acks, errors after a commit and     *)
(* restarts under other Lexicons there are, the index is what applying each *)
(* event once, in order, gives.                                             *)
THEOREM RefinesIndexLog ==
  ASSUME ~DisableAcks, AdminOps = {}
  PROVE  Spec => ImplementsIndexLog
<1>1. Init => Log!Init
  BY DEF Init, Log!Init
<1>2. OrderInv /\ [Next]_vars => [Log!Next]_(Log!vars)
  <2> SUFFICES ASSUME OrderInv, [Next]_vars PROVE [Log!Next]_(Log!vars)
    OBVIOUS
  <2> USE DEF OrderInv
  <2>1. CASE Quiet
    BY <2>1 DEF Quiet, Log!vars
  <2>2. ASSUME NEW r \in Repos, NEW e \in Events, Emit(r, e), IndexedBody' = IndexedBody
        PROVE  Log!Next
    <3>1. Log!Emit(r, e)
      BY <2>2 DEF Emit, Log!Emit
    <3> QED
      BY <3>1 DEF Log!Next
  <2>3. ASSUME NEW r \in Repos, Send(r), IndexedBody' = IndexedBody
        PROVE  UNCHANGED Log!vars
    BY <2>3 DEF Send, observer, Log!vars
  <2>4. CASE Ack /\ IndexedBody' = IndexedBody
    <3> DEFINE r == cur.ev.repo
    <3>1. /\ r \in Repos /\ done' = done
          /\ head' = IF Newest(cur) THEN [head EXCEPT ![r] = NoEvent] ELSE head
          /\ Newest(cur) => done[r]
      BY <2>4, AckDelivery
    <3>2. CASE Newest(cur) /\ head[r] # NoEvent
      <4>1. Log!Retire(r)
        BY <2>4, <3>1, <3>2 DEF Log!Retire
      <4> QED
        BY <3>1, <4>1 DEF Log!Next
    <3>3. CASE ~(Newest(cur) /\ head[r] # NoEvent)
      <4>1. head' = head
        BY <3>1, <3>3 DEF Inv, TypeOK
      <4> QED
        BY <2>4, <3>1, <4>1 DEF Log!vars
    <3> QED
      BY <3>2, <3>3
  <2>5. ASSUME NEW m \in Sent, Applies(m), ~Quiet PROVE Log!Next
    <3>1. /\ m.ev.repo \in Repos /\ ~done[m.ev.repo]
          /\ head[m.ev.repo] # NoEvent /\ m.ev = head[m.ev.repo]
          /\ done' = [done EXCEPT ![m.ev.repo] = TRUE]
      BY <2>5, FirstOrAgain
    <3>2. Log!Apply(m.ev.repo)
      BY <2>5, <3>1 DEF Applies, Log!Apply
    <3> QED
      BY <3>1, <3>2 DEF Log!Next
  <2> QED
    BY <2>1, <2>2, <2>3, <2>4, <2>5, StepKinds
<1> QED
  BY <1>1, <1>2, OrderAlways, PTL DEF Spec, ImplementsIndexLog, Log!Spec

-----------------------------------------------------------------------------
(* History. *)

(* Whatever removes a record removes its history, unless resetAll is used.  *)
(* For any events, redeliveries, crashes and purges, with or without acks.  *)
THEOREM DeletesRemoveHistory ==
  ASSUME "reset" \notin AdminOps
  PROVE  Spec => DeleteRemovesHistory
<1> DEFINE Gone(u) == record[u] # NoRow /\ record'[u] = NoRow => versions'[u] = {}
<1>1. Inv /\ [Next]_vars => [\A u \in Uris : Gone(u)]_vars
  <2> SUFFICES ASSUME Inv, [Next]_vars PROVE \A u \in Uris : Gone(u)
    OBVIOUS
  <2>0. ASSUME NEW u \in Uris, SameContent(u) PROVE Gone(u)
    BY <2>0, NoRowAssumption DEF SameContent
  <2>1. ASSUME NEW r \in Repos, PurgeActorData(r) PROVE \A u \in Uris : Gone(u)
    BY <2>1 DEF PurgeActorData
  <2>2. CASE \/ \E r \in Repos, e \in Events : Emit(r, e)
             \/ \E r \in Repos : Send(r)
             \/ Receive \/ Ack
             \/ Ensure \/ AppendHistory \/ ReadWriteState \/ PublishRecord \/ PublishDelete
    <3>1. record' = record
      BY <2>2 DEF Emit, Send, Receive, Ack, Ensure, AppendHistory, ReadWriteState, WriteState,
         PublishRecord, PublishDelete, tables
    <3> QED
      BY <3>1
  <2>3. CASE RepairSameCID
    BY <2>0, <2>3, RepairKeepsContent
  <2>4. CASE Upsert
    BY <2>0, <2>4, UpsertContent, NoRowAssumption
  <2>5. CASE DeleteReturning
    <3>1. cur.ev.uri \in Uris
      BY <2>5, EventInHandler DEF Inv, DeleteReturning
    <3> QED
      BY <2>5, <3>1 DEF DeleteReturning, Inv, TypeOK
  <2>6. CASE HandleIdentity
    <3>1. cur.ev.repo \in Repos
      BY <2>6, EventInHandler DEF Inv, HandleIdentity
    <3> QED
      BY <2>1, <2>6, <3>1 DEF HandleIdentity, UpsertIdentity
  <2>7. CASE Elsewhere
    BY <2>0, <2>1, <2>7, ElsewhereContent DEF AdminPurge
  <2> QED
    BY <2>2, <2>3, <2>4, <2>5, <2>6, <2>7, StepCases DEF HandlerStep
<1> QED
  BY <1>1, InvInductive, PTL DEF DeleteRemovesHistory, Spec

(* The message in hand is the event Tap waits for, or was applied. *)
LEMMA InHand ==
  ASSUME OrderInv, Handling
  PROVE  /\ cur \in Message /\ cur \in Sent /\ cur.ev.repo \in Repos /\ cur.ev.uri \in Uris
         /\ cur.ev.kind \in {"write", "delete"} => cur.ev.repo = RepoOf[cur.ev.uri]
         /\ Newest(cur) /\ head[cur.ev.repo] # NoEvent => cur.ev = head[cur.ev.repo]
         /\ \/ Newest(cur) /\ ~done[cur.ev.repo] /\ head[cur.ev.repo] # NoEvent
            \/ InEffect(cur.ev)
<1>1. cur \in Message /\ cur \in Sent
  BY EventInHandler DEF OrderInv, Inv, Handling, Sent
<1> QED
  BY <1>1, MessageParts DEF OrderInv, DeliveryOK, Traceable, AppliedIsNewest, EffectsOK

(* A commit that retires an obligation is that of the event Tap waits for. *)
LEMMA FirstCommit ==
  ASSUME OrderInv, Handling, done' = done \/ Commits(cur), NEW r \in Repos, done'[r] # done[r]
  PROVE  r = cur.ev.repo /\ head[r] = cur.ev
<1>1. r = cur.ev.repo /\ Newest(cur) /\ ~done[r]
  BY InHand DEF Commits, Newest, OrderInv, Inv, TypeOK
<1>2. head[r] # NoEvent
  BY <1>1, InHand DEF OrderInv, DeliveryOK, AppliedIsNewest
<1> QED
  BY <1>1, <1>2, InHand

LEMMA OrphansStep ==
  ASSUME OrderInv, OrphansOwed, ~DisableAcks, AdminOps = {}, [Next]_vars
  PROVE  OrphansOwed'
<1> USE DEF OrderInv
<1>0. /\ RepoOf \in [Uris -> Repos] /\ done \in [Repos -> BOOLEAN]
      /\ record \in [Uris -> Row \union {NoRow}] /\ versions \in [Uris -> SUBSET Version]
  BY TapAssumption DEF Inv, TypeOK
<1>1. ASSUME NEW r \in Repos, NEW e \in Events, Emit(r, e) PROVE OrphansOwed'
  <2>1. /\ head[r] = NoEvent /\ record' = record /\ versions' = versions
        /\ \A q \in Repos \ {r} : head'[q] = head[q] /\ done'[q] = done[q]
    BY <1>1 DEF Emit, tables, Inv, TypeOK
  <2>2. \A u \in Uris : RepoOf[u] = r => ~(versions[u] # {} /\ record[u] = NoRow)
    BY <2>1 DEF OrphansOwed, Owed
  <2> QED
    BY <1>0, <2>1, <2>2 DEF OrphansOwed, Owed
<1>2. ASSUME NEW r \in Repos, Send(r) PROVE OrphansOwed'
  BY <1>2 DEF Send, tables, observer, OrphansOwed, Owed
<1>3. CASE Receive
  <2> DEFINE m == Head(inbox)
  <2>1. UNCHANGED <<record, versions, head>>
    BY <1>3 DEF Receive, tables, server
  <2>2. ASSUME NEW u \in Uris, Owed(u), done'[RepoOf[u]] PROVE done[RepoOf[u]]
    <3>1. SUFFICES ASSUME ~done[RepoOf[u]] PROVE FALSE
      BY <1>0
    <3>2. Commits(m) /\ m.ev.kind = "write" /\ m.ev.body = NoBody
      BY <1>3, <2>2, <3>1 DEF Receive
    <3>3. m.ev.repo = RepoOf[u] /\ Newest(m)
      BY <1>0, <2>2, <3>1, <3>2 DEF Commits, Newest
    <3>4. m \in Sent
      BY <1>3, QueueShrinks DEF Receive, Inv, TypeOK, Sent
    <3>5. m.ev = head[RepoOf[u]]
      BY <2>2, <3>3, <3>4 DEF DeliveryOK, Traceable, Owed
    <3> QED
      BY <2>2, <3>2, <3>5 DEF Owed
  <2> QED
    BY <2>1, <2>2 DEF OrphansOwed, Owed
<1>4. CASE Ack
  <2>1. /\ UNCHANGED <<record, versions, done>> /\ cur.ev.repo \in Repos
        /\ head' = IF Newest(cur) THEN [head EXCEPT ![cur.ev.repo] = NoEvent] ELSE head
        /\ Newest(cur) => done[cur.ev.repo]
    BY <1>4, AckDelivery DEF Ack, tables
  <2>2. \A u \in Uris : ~done[RepoOf[u]] => head'[RepoOf[u]] = head[RepoOf[u]]
    BY <1>0, <2>1 DEF Inv, TypeOK
  <2> QED
    BY <2>1, <2>2 DEF OrphansOwed, Owed
<1>5. CASE HandlerStep
  <2>1. Advances
    BY <1>5, HandlersAdvance DEF HandlerStep
  <2>2. Handling /\ head' = head /\ (done' = done \/ Commits(cur))
    BY <2>1 DEF Advances
  <2>3. SUFFICES ASSUME NEW u \in Uris, versions'[u] # {}, record'[u] = NoRow
                 PROVE  Owed(u) /\ ~done'[RepoOf[u]]
    BY <2>2 DEF OrphansOwed, Owed
  <2>4. ASSUME versions[u] # {}, record[u] = NoRow, head[RepoOf[u]] # cur.ev
        PROVE  Owed(u) /\ ~done'[RepoOf[u]]
    BY <1>0, <2>2, <2>4, FirstCommit DEF OrphansOwed
  <2>5. ASSUME versions[u] # {}, record[u] = NoRow, done' = done
        PROVE  Owed(u) /\ ~done'[RepoOf[u]]
    BY <2>5 DEF OrphansOwed
  <2>6. ASSUME versions[u] # {}, record[u] = NoRow PROVE Owed(u)
    BY <2>6 DEF OrphansOwed
  <2>7. CASE Ensure \/ PublishRecord \/ PublishDelete
    BY <2>3, <2>5, <2>7 DEF Ensure, PublishRecord, PublishDelete, tables, observer
  <2>8. CASE AppendHistory
    <3>1. /\ record' = record /\ done' = done /\ cur.ev.kind = "write"
          /\ cur.ev.body \in Bodies /\ cur.ev.body # NoBody
          /\ \A w \in Uris \ {cur.ev.uri} : versions'[w] = versions[w]
      BY <1>0, <2>8, RowsAssumption, InHand, <2>2
         DEF AppendHistory, observer, Inv, HandlerHasEvent
    <3>2. CASE u = cur.ev.uri
      <4>1. ~InEffect(cur.ev)
        BY <2>3, <3>1, <3>2 DEF InEffect, IndexedBody
      <4> QED
        BY <2>2, <3>1, <3>2, <4>1, InHand DEF Owed
    <3> QED
      BY <2>3, <2>5, <3>1, <3>2
  <2>9. CASE ReadWriteState \/ RepairSameCID
    <3>1. /\ versions' = versions /\ record[u] = NoRow
          /\ done' = done \/ SameCID(record[cur.ev.uri], cur.ev.cid)
      BY <2>3, <2>9, RepairKeepsContent, NoRowAssumption
         DEF ReadWriteState, WriteState, RepairSameCID, tables, SameContent
    <3>2. done' = done \/ u # cur.ev.uri
      BY <3>1 DEF SameCID
    <3>3. Owed(u)
      BY <2>3, <2>6, <3>1
    <3> QED
      BY <2>3, <2>4, <2>5, <3>1, <3>2, <3>3 DEF Owed
  <2>10. CASE Upsert
    <3>1. versions' = versions /\ u # cur.ev.uri /\ record[u] = NoRow
      BY <2>3, <2>10, UpsertContent, NoRowAssumption DEF Upsert, SameContent
    <3>2. Owed(u)
      BY <2>3, <2>6, <3>1
    <3> QED
      BY <2>3, <2>4, <3>1, <3>2 DEF Owed
  <2>11. CASE DeleteReturning
    <3>1. u # cur.ev.uri /\ versions[u] # {} /\ record[u] = NoRow
      BY <1>0, <2>2, <2>3, <2>11, InHand DEF DeleteReturning
    <3>2. Owed(u) /\ cur.ev.kind = "delete"
      BY <2>6, <2>11, <3>1 DEF DeleteReturning, DeliveryOK, RightHandler
    <3> QED
      BY <2>4, <3>1, <3>2 DEF Owed
  <2>12. CASE HandleIdentity
    <3>1. versions[u] # {} /\ record[u] = NoRow
      BY <1>0, <2>3, <2>12 DEF HandleIdentity, PurgeActorData, UpsertIdentity
    <3>2. Owed(u) /\ cur.ev.kind \in {"identity", "purge"}
      BY <2>6, <2>12, <3>1 DEF HandleIdentity
    <3> QED
      BY <2>4, <3>1, <3>2 DEF Owed
  <2> QED
    BY <1>5, <2>7, <2>8, <2>9, <2>10, <2>11, <2>12 DEF HandlerStep
<1>6. CASE Elsewhere
  <2>1. head' = head /\ done' = done /\ \A u \in Uris : SameContent(u)
    BY <1>6, ElsewhereKind DEF Quiet
  <2>2. \A u \in Uris : record[u] = NoRow => versions'[u] = versions[u]
    <3>1. CASE \/ UNCHANGED vars \/ Disconnect \/ Connect \/ HandlerError \/ AckLost
               \/ SkipAck \/ StopProcess \/ AdminResetRecords \/ AdminResetActors
               \/ ListMissing \/ EndPass
      BY <3>1 DEF vars, Disconnect, Connect, HandlerError, AckLost, SkipAck, StopProcess,
         AdminResetRecords, AdminResetActors, ListMissing, EndPass, Reconciles, tables
    <3>2. ASSUME NEW r \in Repos, \/ AskRepoInfo(r) \/ ReconcileFails(r)
                                  \/ SetHandleIfMissing(r) \/ AdminPurge(r)
          PROVE  versions' = versions
      BY <3>2 DEF AskRepoInfo, ReconcileFails, SetHandleIfMissing, Reconciles, AdminPurge
    <3>3. ASSUME NEW v \in Validators, NEW h \in SUBSET Uris,
                 StartProcess(v, h) \/ InterruptedStart(v, h)
          PROVE  \A u \in Uris : record[u] = NoRow => versions'[u] = versions[u]
      BY <1>0, <3>3 DEF StartProcess, InterruptedStart, SeedVersion
    <3> QED
      BY <1>6, <3>1, <3>2, <3>3 DEF Elsewhere
  <2> QED
    BY <2>1, <2>2, NoRowAssumption DEF OrphansOwed, Owed, SameContent
<1> QED
  BY <1>1, <1>2, <1>3, <1>4, <1>5, <1>6, StepCases

(* Without admin mutations and with acks, versions of a record that is not  *)
(* in the index belong to a write that Tap still waits for: an interrupted  *)
(* HandleRecord never leaves history of a record that nobody will write.    *)
THEOREM OrphansAreOwed ==
  ASSUME ~DisableAcks, AdminOps = {}
  PROVE  Spec => []OrphanHistoryIsOwed
<1>1. Init => OrphansOwed
  BY DEF Init, OrphansOwed
<1>2. OrderInv /\ OrphansOwed /\ [Next]_vars => OrphansOwed'
  BY OrphansStep
<1>3. OrphansOwed => OrphanHistoryIsOwed
  BY DEF OrphansOwed, Owed, OrphanHistoryIsOwed
<1> QED
  BY <1>1, <1>2, <1>3, OrderAlways, PTL DEF Spec

-----------------------------------------------------------------------------
(* Typed deletes. *)

(* What the rest of the system does to the observer and to the row that     *)
(* DeleteReturning returned.                                                *)
LEMMA ElsewhereHears ==
  ASSUME Elsewhere
  PROVE  typedDeletes' = typedDeletes /\ (wasValid' = wasValid \/ wasValid' = FALSE)
<1> USE DEF observer
<1>1. CASE \/ UNCHANGED vars \/ Disconnect \/ Connect \/ HandlerError \/ AckLost \/ SkipAck
           \/ StopProcess
  BY <1>1 DEF vars, Disconnect, Connect, HandlerError, AckLost, SkipAck, StopProcess
<1>2. ASSUME NEW v \in Validators, NEW h \in SUBSET Uris,
             StartProcess(v, h) \/ InterruptedStart(v, h)
      PROVE  typedDeletes' = typedDeletes /\ wasValid' = wasValid
  BY <1>2 DEF StartProcess, InterruptedStart
<1>3. ASSUME NEW r \in Repos, AdminPurge(r) \/ AskRepoInfo(r) \/ ReconcileFails(r)
                              \/ SetHandleIfMissing(r)
      PROVE  typedDeletes' = typedDeletes /\ wasValid' = wasValid
  BY <1>3 DEF AdminPurge, AskRepoInfo, ReconcileFails, SetHandleIfMissing, Reconciles
<1>4. CASE AdminResetRecords \/ AdminResetActors \/ ListMissing \/ EndPass
  BY <1>4 DEF AdminResetRecords, AdminResetActors, ListMissing, EndPass, Reconciles
<1> QED
  BY <1>1, <1>2, <1>3, <1>4 DEF Elsewhere

LEMMA TypedStep ==
  ASSUME OrderInv, TypedOnce, ~DisableAcks, AdminOps = {}, [Next]_vars
  PROVE  TypedOnce'
<1> USE DEF OrderInv
<1>0. /\ RepoOf \in [Uris -> Repos] /\ heard \in [Repos -> BOOLEAN]
      /\ record \in [Uris -> Row \union {NoRow}] /\ typedDeletes \in [Uris -> 0..2]
      /\ head \in [Repos -> Events \union {NoEvent}]
  BY TapAssumption DEF Inv, TypeOK
(* What a step has to respect where it leaves the typed deletes alone. *)
<1>s. ASSUME typedDeletes' = typedDeletes, pc' # "publishDelete",
             \A u \in Uris : record[u] = NoRow =>
               record'[u] = NoRow \/ (Owed(u)' /\ ~heard'[RepoOf[u]]),
             \A u \in Uris : Owed(u) /\ ~heard[RepoOf[u]] =>
               record'[u] = NoRow \/ (Owed(u)' /\ ~heard'[RepoOf[u]])
      PROVE  TypedOnce'
  BY <1>s DEF TypedOnce
<1>1. ASSUME NEW r \in Repos, NEW e \in Events, Emit(r, e) PROVE TypedOnce'
  <2>1. /\ head[r] = NoEvent
        /\ UNCHANGED <<record, typedDeletes, pc, cur, wasValid>>
        /\ \A q \in Repos \ {r} : head'[q] = head[q] /\ heard'[q] = heard[q]
    BY <1>0, <1>1 DEF Emit, tables
  <2>2. \A u \in Uris : Owed(u) /\ ~heard[RepoOf[u]] => Owed(u)' /\ ~heard'[RepoOf[u]]
    BY <1>0, <2>1 DEF Owed
  <2> QED
    BY <2>1, <2>2 DEF TypedOnce
<1>2. ASSUME NEW r \in Repos, Send(r) PROVE TypedOnce'
  BY <1>2 DEF Send, tables, observer, TypedOnce, Owed
<1>3. CASE Receive
  <2>1. UNCHANGED <<record, head, heard, typedDeletes>>
    BY <1>3 DEF Receive, tables, server
  <2>2. pc' # "publishDelete"
    BY <1>3, ReceiveEnters
  <2> QED
    BY <1>s, <2>1, <2>2 DEF Owed
<1>4. CASE Ack
  <2>1. /\ UNCHANGED <<record, heard, typedDeletes>> /\ pc' = "read" /\ pc = "ack"
        /\ head' = IF Newest(cur) THEN [head EXCEPT ![cur.ev.repo] = NoEvent] ELSE head
    BY <1>4, AckDelivery DEF Ack, tables, observer, Returns
  <2>2. ASSUME NEW u \in Uris, Owed(u), ~heard[RepoOf[u]] PROVE head'[RepoOf[u]] = head[RepoOf[u]]
    <3>1. ~(Newest(cur) /\ cur.ev.repo = RepoOf[u])
      BY <2>1, <2>2, InHand DEF Handling, Owed, Audible, DeliveryOK, PublishedFirst
    <3> QED
      BY <1>0, <2>1, <3>1
  <2> QED
    BY <1>s, <2>1, <2>2 DEF Owed
<1>5. CASE HandlerStep
  <2>1. Handling /\ head' = head
    BY <1>5, HandlersAdvance DEF HandlerStep, Advances
  <2> DEFINE w == cur.ev.uri
             r == cur.ev.repo
  <2>2. w \in Uris /\ r \in Repos /\ (cur.ev.kind \in {"write", "delete"} => r = RepoOf[w])
    BY <2>1, InHand
  <2>3. CASE Ensure \/ AppendHistory \/ ReadWriteState \/ RepairSameCID
    <3>1. UNCHANGED <<heard, typedDeletes>> /\ pc' # "publishDelete"
      BY <2>3 DEF Ensure, AppendHistory, ReadWriteState, WriteState, RepairSameCID, observer,
         Reported, GoesTo, Returns
    <3>2. \A u \in Uris : record[u] = NoRow => record'[u] = NoRow
      BY <2>3, RepairKeepsContent, NoRowAssumption
         DEF Ensure, AppendHistory, ReadWriteState, WriteState, tables, SameContent
    <3> QED
      BY <1>s, <2>1, <3>1, <3>2 DEF Owed
  <2>4. CASE Upsert
    <3>1. /\ UNCHANGED <<heard, typedDeletes>> /\ pc' # "publishDelete"
          /\ cur.ev.kind = "write" /\ cur.ev.body \in Bodies /\ cur.ev.body # NoBody
      BY <2>4, RowsAssumption DEF Upsert, Reported, GoesTo, Returns, Inv, HandlerHasEvent
    <3>2. \A u \in Uris \ {w} : record[u] = NoRow => record'[u] = NoRow
      BY <2>4, UpsertContent, NoRowAssumption DEF SameContent
    <3>3. ASSUME record[w] = NoRow PROVE Owed(w) /\ ~heard[RepoOf[w]]
      <4>1. ~InEffect(cur.ev)
        BY <2>2, <3>1, <3>3 DEF InEffect, IndexedBody
      <4>2. ~done[r] /\ head[r] # NoEvent /\ cur.ev = head[r]
        BY <2>1, <4>1, InHand
      <4> QED
        BY <2>2, <3>1, <4>2 DEF Owed, DeliveryOK, PublishedFirst
    <3> QED
      BY <1>s, <2>1, <3>1, <3>2, <3>3 DEF Owed
  <2>5. ASSUME Publishes(cur), NEW u \in Uris, Owed(u), ~heard[RepoOf[u]],
               cur.ev.kind = "delete" \/ w # u
        PROVE  Owed(u)' /\ ~heard'[RepoOf[u]]
    <3>1. ~(Newest(cur) /\ r = RepoOf[u])
      BY <2>1, <2>5, InHand DEF Owed
    <3>2. heard'[RepoOf[u]] = heard[RepoOf[u]]
      BY <1>0, <2>2, <2>5, <3>1 DEF Publishes, Newest
    <3> QED
      BY <2>1, <2>5, <3>2 DEF Owed
  <2>6. CASE PublishRecord
    <3>1. /\ pc' = "ack" /\ record' = record /\ Publishes(cur) /\ typedDeletes'[w] = 0
          /\ \A u \in Uris \ {w} : typedDeletes'[u] = typedDeletes[u]
      BY <1>0, <2>2, <2>6 DEF PublishRecord, tables
    <3> QED
      BY <2>5, <3>1 DEF TypedOnce
  <2>7. CASE PublishDelete
    <3>1. /\ pc' = "ack" /\ record' = record /\ Publishes(cur) /\ record[w] = NoRow
          /\ \A u \in Uris \ {w} : typedDeletes'[u] = typedDeletes[u]
          /\ cur.ev.kind = "delete"
      BY <1>0, <2>2, <2>7 DEF PublishDelete, tables, TypedOnce, DeliveryOK, RightHandler
    <3>2. typedDeletes'[w] \in {0, 1}
      BY <1>0, <2>2, <2>7 DEF PublishDelete, TypedOnce
    <3> QED
      BY <2>5, <3>1, <3>2 DEF TypedOnce
  <2>8. CASE DeleteReturning
    <3>1. /\ UNCHANGED <<heard, typedDeletes>> /\ record'[w] = NoRow
          /\ \A u \in Uris \ {w} : record'[u] = record[u]
          /\ pc' = "publishDelete" => cur' = cur
          /\ wasValid' => record[w] # NoRow
          /\ cur.ev.kind = "delete"
      BY <1>0, <2>2, <2>8 DEF DeleteReturning, Reported, GoesTo, Returns, DeliveryOK, RightHandler
    <3>2. ASSUME record[w] # NoRow PROVE typedDeletes[w] = 0
      <4>1. SUFFICES ASSUME Owed(w) PROVE FALSE
        BY <2>2, <3>2 DEF TypedOnce
      <4>2. record[w].body # NoBody
        BY <1>0, <2>2, <3>2, RowsAssumption DEF Row
      <4>3. ~InEffect(cur.ev)
        BY <2>2, <3>1, <3>2, <4>2 DEF InEffect, IndexedBody
      <4>4. cur.ev = head[r]
        BY <2>1, <4>3, InHand
      <4> QED
        BY <2>2, <3>1, <4>1, <4>4 DEF Owed
    <3> QED
      BY <2>1, <2>2, <3>1, <3>2 DEF TypedOnce, Owed
  <2>9. CASE HandleIdentity
    <3>1. UNCHANGED <<heard, typedDeletes>> /\ pc' # "publishDelete"
      BY <2>9 DEF HandleIdentity, Reported, GoesTo, Returns
    <3>2. \A u \in Uris : record[u] = NoRow => record'[u] = NoRow
      BY <2>9 DEF HandleIdentity, PurgeActorData, UpsertIdentity
    <3> QED
      BY <1>s, <2>1, <3>1, <3>2 DEF Owed
  <2> QED
    BY <1>5, <2>3, <2>4, <2>6, <2>7, <2>8, <2>9 DEF HandlerStep
<1>6. CASE Elsewhere
  <2>1. /\ UNCHANGED <<head, heard, typedDeletes>> /\ (wasValid' = wasValid \/ wasValid' = FALSE)
        /\ pc' = "publishDelete" => pc' = pc /\ cur' = cur
    BY <1>6, ElsewhereIsBeside, ElsewhereHears DEF Beside
  <2>2. \A u \in Uris : record[u] = NoRow => record'[u] = NoRow
    BY <1>6, ElsewhereKind, NoRowAssumption DEF SameContent
  <2>3. pc = "publishDelete" => cur.ev.uri \in Uris
    BY InHand DEF Handling
  <2> QED
    BY <2>1, <2>2, <2>3 DEF TypedOnce, Owed
<1> QED
  BY <1>1, <1>2, <1>3, <1>4, <1>5, <1>6, StepCases

(* Without admin mutations and with acks, subscribers never hear two typed  *)
(* deletes of a record without a write of it in between, however often the  *)
(* delete is delivered.                                                     *)
THEOREM TypedDeletesOnce ==
  ASSUME ~DisableAcks, AdminOps = {}
  PROVE  Spec => []NoDuplicateTypedDelete
<1>1. Init => TypedOnce
  BY DEF Init, TypedOnce
<1>2. OrderInv /\ TypedOnce /\ [Next]_vars => TypedOnce'
  BY TypedStep
<1>3. TypedOnce => NoDuplicateTypedDelete
  <2>1. TypedOnce => \A u \in Uris : typedDeletes[u] = 0 \/ typedDeletes[u] = 1
    BY DEF TypedOnce
  <2> QED
    BY <2>1 DEF NoDuplicateTypedDelete
<1> QED
  BY <1>1, <1>2, <1>3, OrderAlways, PTL DEF Spec

-----------------------------------------------------------------------------
(* The history of what is served. *)

(* Appending keeps what is there, and a conflict on the key means that the  *)
(* same content is there already.                                           *)
LEMMA AppendRemembers ==
  ASSUME NEW vs \in SUBSET Version, \A v \in vs : KeySound(v),
         NEW b \in Bodies, NEW cid \in {NoCID, b}
  PROVE  /\ vs \subseteq AppendVersion(vs, b, cid)
         /\ \A v \in AppendVersion(vs, b, cid) : KeySound(v)
         /\ Remembers(AppendVersion(vs, b, cid), b, cid)
<1> DEFINE new == [key |-> VersionKey(b, cid), cid |-> cid, body |-> b]
           ws == AppendVersion(vs, b, cid)
<1>1. /\ new.key = VersionKey(b, cid) /\ new.cid = cid /\ new.body = b
      /\ ws = IF \E w \in vs : w.key = new.key THEN vs ELSE vs \union {new}
  BY DEF AppendVersion, InsertVersion
<1>2. VersionKey(b, cid) = IF cid # NoCID THEN [by |-> "cid", of |-> cid]
                           ELSE [by |-> "sha256", of |-> b]
  BY DEF VersionKey
<1>3. KeySound(new)
  BY <1>1, <1>2 DEF KeySound
<1> HIDE DEF new
<1>4. CASE \E w \in vs : w.key = new.key
  <2>1. PICK w \in vs : w.key = new.key
    BY <1>4
  <2>2. w.cid = cid /\ w.body = b
    BY <1>1, <1>2, <2>1 DEF KeySound
  <2> QED
    BY <1>1, <1>4, <2>1, <2>2 DEF Remembers
<1>5. CASE ~\E w \in vs : w.key = new.key
  BY <1>1, <1>3, <1>5 DEF Remembers
<1> QED
  BY <1>4, <1>5

(* A record without history is seeded with what it is. *)
LEMMA SeedRemembers ==
  ASSUME NEW row \in Row, row.cid # NoCID => row.cid = row.body
  PROVE  /\ InHistory(SeedVersion({}, row), row)
         /\ \A v \in SeedVersion({}, row) : KeySound(v)
<1> DEFINE key == IF row.cid # NoCID THEN VersionKey(row.body, row.cid)
                  ELSE [by |-> "baseline", of |-> NoBody]
           new == [key |-> key, cid |-> row.cid, body |-> row.body]
<1>1. SeedVersion({}, row) = {new} /\ new.key = key /\ new.cid = row.cid /\ new.body = row.body
  BY NoRowAssumption DEF SeedVersion, InsertVersion
<1>2. KeySound(new)
  BY <1>1 DEF KeySound, VersionKey
<1> HIDE DEF new
<1> QED
  BY <1>1, <1>2 DEF InHistory

LEMMA ElsewhereHistory ==
  ASSUME AdminOps = {}, Elsewhere
  PROVE  \/ UNCHANGED <<versions, history>>
         \/ \E v \in Validators, h \in SUBSET Uris : StartProcess(v, h)
<1> USE DEF tables, process
<1>1. CASE \/ UNCHANGED vars \/ Disconnect \/ Connect \/ HandlerError \/ AckLost \/ SkipAck
           \/ StopProcess
  BY <1>1 DEF vars, Disconnect, Connect, HandlerError, AckLost, SkipAck, StopProcess
<1>2. ASSUME NEW v \in Validators, NEW part \in SUBSET Uris, InterruptedStart(v, part)
      PROVE  UNCHANGED <<versions, history>>
  BY <1>2 DEF InterruptedStart
<1>3. ASSUME NEW r \in Repos, AdminPurge(r) \/ AskRepoInfo(r) \/ ReconcileFails(r)
                              \/ SetHandleIfMissing(r)
      PROVE  UNCHANGED <<versions, history>>
  BY <1>3 DEF AdminPurge, AskRepoInfo, ReconcileFails, SetHandleIfMissing, Reconciles
<1>4. CASE AdminResetRecords \/ AdminResetActors \/ ListMissing \/ EndPass
  BY <1>4 DEF AdminResetRecords, AdminResetActors, ListMissing, EndPass, Reconciles
<1> QED
  BY <1>1, <1>2, <1>3, <1>4 DEF Elsewhere

LEMMA HistoryStep ==
  ASSUME Inv, HistoryOK, AdminOps = {}, ~HistoryMaySwitchOff, [Next]_vars
  PROVE  HistoryOK'
<1> DEFINE Writing == {"append", "readRow", "repair", "upsert"}
<1>0. /\ record \in [Uris -> Row \union {NoRow}] /\ versions \in [Uris -> SUBSET Version]
      /\ history \in SUBSET Uris /\ pc \in PCs
  BY DEF Inv, TypeOK
<1>s. ASSUME UNCHANGED <<versions, history>>,
             \A u \in Uris : SameContent(u) \/ record'[u] = NoRow,
             (pc' = pc /\ cur' = cur) \/ pc' \notin Writing
      PROVE  HistoryOK'
  <2>1. \A u \in history : record'[u] # NoRow => InHistory(versions[u], record'[u])
    BY <1>0, <1>s, NoRowAssumption DEF HistoryOK, SameContent, InHistory
  <2> QED
    BY <1>s, <2>1 DEF HistoryOK
<1>r. ASSUME record' = record PROVE \A u \in Uris : SameContent(u)
  BY <1>0, <1>r DEF SameContent
<1>1. ASSUME NEW r \in Repos, Send(r) \/ \E e \in Events : Emit(r, e) PROVE HistoryOK'
  BY <1>1, <1>r, <1>s DEF Emit, Send, tables, process
<1>2. CASE Receive
  BY <1>2, <1>r, <1>s, ReceiveEnters DEF Receive, tables, process
<1>3. CASE Ack
  BY <1>3, <1>r, <1>s DEF Ack, tables, process, Returns
<1>4. CASE HandlerStep
  <2> DEFINE w == cur.ev.uri
  <2>1. history' = history /\ pc \notin {"off", "read"}
    BY <1>4 DEF HandlerStep, Ensure, AppendHistory, ReadWriteState, WriteState, RepairSameCID,
       Upsert, PublishRecord, DeleteReturning, PublishDelete, HandleIdentity, process
  <2>2. w \in Uris /\ cur.ev.cid \in {NoCID, cur.ev.body}
    BY <2>1, EventInHandler DEF Inv
  <2>3. CASE Ensure
    BY <2>3 DEF Ensure, HistoryOK, process
  <2>4. CASE AppendHistory
    <3>1. /\ record' = record /\ w \in history /\ cur.ev.body \in Bodies
          /\ versions' = [versions EXCEPT ![w] = AppendVersion(@, cur.ev.body, cur.ev.cid)]
          /\ (pc' = "readRow" /\ cur' = cur) \/ pc' = "read"
      BY <2>4 DEF AppendHistory, HistoryOK, Inv, HandlerHasEvent, Reported, GoesTo, Returns
    <3>a. /\ versions'[w] = AppendVersion(versions[w], cur.ev.body, cur.ev.cid)
          /\ versions[w] \in SUBSET Version
          /\ \A v \in versions[w] : KeySound(v)
      BY <1>0, <2>2, <3>1 DEF HistoryOK
    <3>b. /\ versions[w] \subseteq versions'[w]
          /\ \A v \in versions'[w] : KeySound(v)
          /\ Remembers(versions'[w], cur.ev.body, cur.ev.cid)
      <4> DEFINE vs == versions[w]
                 ws == AppendVersion(vs, cur.ev.body, cur.ev.cid)
      <4>1. vs \in SUBSET Version /\ \A v \in vs : KeySound(v)
        BY <3>a
      <4> HIDE DEF vs
      <4>2. vs \subseteq ws /\ (\A v \in ws : KeySound(v)) /\ Remembers(ws, cur.ev.body, cur.ev.cid)
        BY <2>2, <3>1, <4>1, AppendRemembers
      <4>3. versions'[w] = ws /\ versions[w] = vs
        BY <3>a DEF vs
      <4> QED
        BY <4>2, <4>3
    <3>2. \A u \in Uris \ {w} : versions'[u] = versions[u]
      BY <1>0, <3>1
    <3>3. \A u \in history : record'[u] # NoRow => InHistory(versions'[u], record'[u])
      BY <1>0, <3>1, <3>2, <3>b DEF HistoryOK, InHistory
    <3> QED
      BY <2>1, <3>1, <3>2, <3>3, <3>b DEF HistoryOK
  <2>5. CASE ReadWriteState
    BY <2>5 DEF ReadWriteState, WriteState, HistoryOK, tables, process
  <2>6. CASE RepairSameCID
    <3>1. /\ versions' = versions /\ pc = "repair"
          /\ (pc' = "upsert" /\ cur' = cur) \/ pc' \in {"publish", "read"}
      BY <2>6 DEF RepairSameCID, Reported, GoesTo, Returns
    <3>2. \A u \in history : record'[u] # NoRow => InHistory(versions[u], record'[u])
      BY <1>0, <2>6, RepairKeepsContent, NoRowAssumption DEF HistoryOK, SameContent, InHistory
    <3> QED
      BY <2>1, <3>1, <3>2 DEF HistoryOK
  <2>7. CASE Upsert
    <3>1. versions' = versions /\ pc = "upsert" /\ pc' \in {"publish", "read"}
      BY <2>7 DEF Upsert, Reported, GoesTo, Returns
    <3>2. w \in history => InHistory(versions[w], record'[w])
      BY <2>7, <3>1, UpsertContent DEF HistoryOK, Remembers, InHistory
    <3>3. \A u \in history \ {w} : record'[u] # NoRow => InHistory(versions[u], record'[u])
      BY <1>0, <2>7, UpsertContent, NoRowAssumption DEF HistoryOK, SameContent, InHistory
    <3> QED
      BY <2>1, <3>1, <3>2, <3>3 DEF HistoryOK
  <2>8. CASE PublishRecord \/ PublishDelete
    BY <2>8, <1>r, <1>s DEF PublishRecord, PublishDelete, tables, process
  <2>9. CASE DeleteReturning
    <3>1. /\ versions'[w] = {} /\ record'[w] = NoRow /\ pc' \in {"publishDelete", "read"}
          /\ \A u \in Uris \ {w} : versions'[u] = versions[u] /\ record'[u] = record[u]
      BY <1>0, <2>2, <2>9 DEF DeleteReturning, Reported, GoesTo, Returns
    <3> QED
      BY <1>0, <2>1, <3>1 DEF HistoryOK
  <2>10. CASE HandleIdentity
    <3>1. /\ pc' \in {"ack", "read"}
          /\ \A u \in Uris : \/ versions'[u] = {} /\ record'[u] = NoRow
                             \/ versions'[u] = versions[u] /\ record'[u] = record[u]
      BY <2>10 DEF HandleIdentity, PurgeActorData, UpsertIdentity, Reported, GoesTo, Returns
    <3> QED
      BY <1>0, <2>1, <3>1 DEF HistoryOK
  <2> QED
    BY <1>4, <2>3, <2>4, <2>5, <2>6, <2>7, <2>8, <2>9, <2>10 DEF HandlerStep
<1>5. CASE Elsewhere
  <2>1. \A u \in Uris : SameContent(u)
    BY <1>5, ElsewhereContent DEF AdminPurge
  <2>2. (pc' = pc /\ cur' = cur) \/ pc' \notin Writing
    BY <1>5, ElsewhereIsBeside DEF Beside
  <2>3. CASE UNCHANGED <<versions, history>>
    BY <1>s, <2>1, <2>2, <2>3
  <2>4. ASSUME NEW v \in Validators, NEW h \in SUBSET Uris, StartProcess(v, h) PROVE HistoryOK'
    <3>1. /\ history \subseteq h /\ history' = h /\ pc' = "read"
          /\ versions' = [u \in Uris |-> IF u \in h THEN SeedVersion(versions[u], record[u])
                                         ELSE versions[u]]
      BY <2>4 DEF StartProcess
    <3>2. \A u \in Uris : record[u] \in Row => (record[u].cid # NoCID => record[u].cid = record[u].body)
      BY NoRowAssumption DEF Inv, RowsOK, RowSound
    <3>3. ASSUME NEW u \in Uris
          PROVE  /\ \A x \in versions'[u] : KeySound(x)
                 /\ u \notin h => versions'[u] = {}
                 /\ u \in h /\ record[u] # NoRow => InHistory(versions'[u], record[u])
      <4>1. CASE u \in h /\ record[u] \in Row /\ versions[u] = {}
        BY <3>1, <3>2, <4>1, SeedRemembers
      <4>2. CASE u \notin h \/ record[u] = NoRow \/ versions[u] # {}
        <5>1. versions'[u] = versions[u]
          BY <3>1, <4>2 DEF SeedVersion
        <5> QED
          BY <3>1, <4>2, <5>1 DEF HistoryOK
      <4> QED
        BY <1>0, <4>1, <4>2
    <3>4. \A u \in h : record'[u] # NoRow => InHistory(versions'[u], record'[u])
      BY <2>1, <3>3, NoRowAssumption DEF SameContent, InHistory
    <3> QED
      BY <3>1, <3>3, <3>4 DEF HistoryOK
  <2> QED
    BY <1>5, <2>3, <2>4, ElsewhereHistory
<1> QED
  BY <1>1, <1>2, <1>3, <1>4, <1>5, StepCases

(* Without admin mutations, and while no start drops a collection from the  *)
(* history, what a running process serves is in the history of every record *)
(* whose collection keeps one, with or without acks.                        *)
THEOREM HistoryCovers ==
  ASSUME AdminOps = {}, ~HistoryMaySwitchOff
  PROVE  Spec => []HistoryCoversCurrent
<1>1. Init => HistoryOK
  BY DEF Init, HistoryOK
<1>2. Inv /\ HistoryOK /\ [Next]_vars => HistoryOK'
  BY HistoryStep
<1>3. HistoryOK => HistoryCoversCurrent
  BY DEF HistoryOK, HistoryCoversCurrent
<1> QED
  BY <1>1, <1>2, <1>3, InvInductive, PTL DEF Spec

-----------------------------------------------------------------------------
(* Handles. *)

(* No identity event of the repository waits to be applied. *)
Settled(r) == ~(head[r] # NoEvent /\ head[r].kind = "identity" /\ ~done[r])

(* What is stored, and what the reconciler may still store, is what Tap     *)
(* knows; the reconciler has no business with an actor that has no row.     *)
HandleOK(r) ==
  /\ actor[r] = NoActor => job[r] = "idle"
  /\ Settled(r) /\ known[r] \in Handles =>
       /\ actor[r] \in Handles => actor[r] = known[r]
       /\ actor[r] = NoHandle /\ job[r] \in Handles => job[r] = known[r]

(* A message older than the event Tap waits for tells of the same handle,   *)
(* unless that event is about the handle.                                   *)
IdentityOK ==
  /\ \A r \in Repos :
       /\ seq[r] = 0 => head[r] = NoEvent
       /\ head[r] # NoEvent /\ head[r].kind = "identity" => known[r] = head[r].handle
  /\ \A m \in Sent : m.ev.kind = "identity" /\ Settled(m.ev.repo) =>
       m.ev.handle = known[m.ev.repo]

HandlesOK == IdentityOK /\ \A r \in Repos \ removed : HandleOK(r)

(* What a commit settles is the event Tap waits for. *)
LEMMA CommitOfHead ==
  ASSUME Inv, DeliveryOK, NEW m \in Sent, done' = done \/ Commits(m),
         NEW r \in Repos, done'[r] # done[r]
  PROVE  r = m.ev.repo /\ Newest(m) /\ done'[r] /\ head[r] # NoEvent /\ m.ev = head[r]
<1>1. r = m.ev.repo /\ Newest(m) /\ done'[r] /\ ~done[r]
  BY DEF Commits, Newest, Inv, TypeOK
<1>2. head[r] # NoEvent
  BY <1>1 DEF DeliveryOK, AppliedIsNewest
<1> QED
  BY <1>1, <1>2 DEF DeliveryOK, Traceable

(* Steps that settle nothing. *)
LEMMA HandlesKept ==
  ASSUME Inv, HandlesOK, UNCHANGED <<seq, head, known>>, Sent' \subseteq Sent,
         \A r \in Repos : Settled(r)' <=> Settled(r)
  PROVE  /\ IdentityOK'
         /\ removed \subseteq removed' /\ UNCHANGED <<actor, job>> => HandlesOK'
<1>1. \A m \in Sent : m.ev.repo \in Repos
  BY SentAreMessages, MessageParts DEF Inv
<1>2. IdentityOK'
  BY <1>1 DEF HandlesOK, IdentityOK
<1> QED
  BY <1>2 DEF HandlesOK, HandleOK

LEMMA HandlesStep ==
  ASSUME Inv, DeliveryOK, HandlesOK, ~DisableAcks, [Next]_vars
  PROVE  HandlesOK'
<1>0. /\ \A m \in Sent : m \in Message /\ m.ev \in Events /\ m.ev.repo \in Repos
      /\ \A e \in Events : e.handle \in Handles \union {NoHandle}
      /\ seq \in [Repos -> Nat] /\ actor \in [Repos -> Handles \union {NoHandle, NoActor}]
      /\ head \in [Repos -> Events \union {NoEvent}] /\ done \in [Repos -> BOOLEAN]
      /\ job \in [Repos -> Handles \union {"idle", "listed"}]
      /\ known \in [Repos -> Handles \union {NoHandle}]
      /\ NoEvent \notin Events /\ NoHandle \notin Handles /\ NoActor \notin Handles \union {NoHandle}
      /\ Handles \intersect {"idle", "listed"} = {}
  BY SentAreMessages, MessageParts, TapAssumption DEF Inv, TypeOK, Event
<1>1. ASSUME NEW r \in Repos, NEW e \in Events, Emit(r, e) PROVE HandlesOK'
  <2>1. /\ Sent' = Sent /\ UNCHANGED <<actor, job, removed>>
        /\ head[r] = NoEvent /\ head'[r] = e /\ seq'[r] = seq[r] + 1
        /\ known'[r] = IF e.kind = "identity" THEN e.handle ELSE known[r]
        /\ ~done'[r]
        /\ \A q \in Repos \ {r} : /\ seq'[q] = seq[q] /\ head'[q] = head[q]
                                  /\ done'[q] = done[q] /\ known'[q] = known[q]
    BY <1>0, <1>1, EmitDelivery DEF Emit, tables, background
  <2>2. /\ Settled(r) /\ (Settled(r)' <=> e.kind # "identity") /\ seq'[r] # 0
        /\ \A q \in Repos \ {r} : Settled(q)' <=> Settled(q)
    BY <1>0, <2>1 DEF Settled
  <2>3. \A q \in Repos : Settled(q)' => Settled(q) /\ known'[q] = known[q]
    BY <2>1, <2>2
  <2>4. IdentityOK'
    BY <1>0, <2>1, <2>2, <2>3 DEF HandlesOK, IdentityOK
  <2> QED
    BY <2>1, <2>3, <2>4 DEF HandlesOK, HandleOK
<1>2. ASSUME NEW r \in Repos, Send(r) PROVE HandlesOK'
  <2>1. /\ UNCHANGED <<seq, head, known, done, actor, job, removed>> /\ head[r] # NoEvent
        /\ Sent' = Sent \union {[id |-> seq[r], ev |-> head[r]]}
        /\ head[r].repo = r
    BY <1>2, SendDelivery DEF Send, tables, background, observer, DeliveryOK, Traceable
  <2> QED
    BY <1>0, <2>1 DEF HandlesOK, IdentityOK, HandleOK, Settled
<1>3. ASSUME NEW m \in Sent, UNCHANGED <<seq, head, known>>, Sent' \subseteq Sent,
             done' = done \/ (Commits(m) /\ m.ev.kind # "identity")
      PROVE  \A r \in Repos : Settled(r)' <=> Settled(r)
  <2>1. \A r \in Repos : done'[r] # done[r] => head[r].kind # "identity"
    BY <1>3, CommitOfHead
  <2> QED
    BY <1>0, <1>3, <2>1 DEF Settled
<1>4. CASE Receive
  <2>1. Head(inbox) \in Sent /\ Sent' \subseteq Sent
    BY <1>4, QueueShrinks, ReceiveDelivery DEF Receive, Inv, TypeOK, Sent
  <2>2. UNCHANGED <<seq, head, known, actor, job, removed>>
    BY <1>4 DEF Receive, server, tables, background
  <2>3. done' = done \/ (Commits(Head(inbox)) /\ Head(inbox).ev.kind # "identity")
    BY <1>4 DEF Receive
  <2> QED
    BY <1>3, <2>1, <2>2, <2>3, HandlesKept
<1>5. CASE Ack
  <2>1. /\ Sent' \subseteq Sent /\ UNCHANGED <<seq, done, known, actor, job, removed>>
        /\ cur.ev.repo \in Repos
        /\ head' = IF Newest(cur) THEN [head EXCEPT ![cur.ev.repo] = NoEvent] ELSE head
        /\ Newest(cur) => done[cur.ev.repo]
    BY <1>5, AckDelivery DEF Ack, tables, background, observer
  <2>2. \A r \in Repos : head'[r] = head[r] \/ (head'[r] = NoEvent /\ done[r])
    BY <1>0, <2>1
  <2>3. \A r \in Repos : Settled(r)' <=> Settled(r)
    BY <2>1, <2>2 DEF Settled
  <2>4. IdentityOK'
    BY <1>0, <2>1, <2>2, <2>3 DEF HandlesOK, IdentityOK
  <2> QED
    BY <2>1, <2>3, <2>4 DEF HandlesOK, HandleOK
<1>6. CASE HandlerStep
  <2>1. /\ Advances /\ UNCHANGED <<seq, head>> /\ Sent' \subseteq Sent /\ cur \in Sent
        /\ done' = done \/ Commits(cur)
    BY <1>6, HandlersAdvance, AdvanceDelivery DEF HandlerStep, Advances, Sent
  <2>r. PICK r \in Repos : r = cur.ev.repo
    BY <1>0, <2>1
  <2>2. UNCHANGED <<known, job>>
    BY <1>6 DEF HandlerStep, Ensure, AppendHistory, ReadWriteState, WriteState,
       RepairSameCID, Upsert, PublishRecord, DeleteReturning, PublishDelete, HandleIdentity,
       server, background
  <2>3. CASE ~HandleIdentity
    <3>1. cur.ev.kind # "identity"
      BY <1>6, <2>3 DEF HandlerStep, Ensure, AppendHistory, ReadWriteState, WriteState,
         RepairSameCID, Upsert, PublishRecord, DeleteReturning, PublishDelete, Inv,
         HandlerHasEvent, DeliveryOK, RightHandler
    <3>2. /\ \A q \in Repos : Settled(q)' <=> Settled(q)
          /\ IdentityOK'
      BY <1>3, <2>1, <2>2, <3>1, HandlesKept
    <3>3. /\ removed' = removed
          /\ actor' = actor \/ actor' = [actor EXCEPT ![r] = EnsureRow(@)]
      BY <1>6, <2>3, <2>r DEF HandlerStep, Ensure, AppendHistory, ReadWriteState, WriteState,
         RepairSameCID, Upsert, PublishRecord, DeleteReturning, PublishDelete, tables, observer
    <3>4. \A q \in Repos : actor'[q] = actor[q] \/ (actor[q] = NoActor /\ actor'[q] = NoHandle)
      BY <1>0, <2>2, <3>3 DEF EnsureRow
    <3>5. ASSUME NEW q \in Repos \ removed PROVE HandleOK(q)'
      BY <1>0, <2>2, <3>2, <3>4 DEF HandlesOK, HandleOK
    <3> QED
      BY <3>2, <3>3, <3>5 DEF HandlesOK
  <2>4. CASE HandleIdentity /\ cur.ev.kind = "purge"
    <3>1. /\ \A q \in Repos : Settled(q)' <=> Settled(q)
          /\ IdentityOK'
      BY <1>3, <2>1, <2>2, <2>4, HandlesKept
    <3>2. removed' = removed \union {r} /\ \A q \in Repos \ {r} : actor'[q] = actor[q]
      BY <1>0, <2>4, <2>r DEF HandleIdentity, PurgeActorData
    <3> QED
      BY <2>2, <3>1, <3>2 DEF HandlesOK, HandleOK
  <2>5. CASE HandleIdentity /\ cur.ev.kind = "identity"
    <3>1. /\ actor' = [actor EXCEPT ![r] = cur.ev.handle] /\ removed' = removed
          /\ Commits(cur)
      BY <2>5, <2>r DEF HandleIdentity, UpsertIdentity
    <3>2. \A q \in Repos \ {r} : done'[q] = done[q]
      BY <1>0, <2>r, <3>1 DEF Commits
    <3>3. \A q \in Repos \ {r} : Settled(q)' <=> Settled(q)
      BY <2>1, <3>2 DEF Settled
    <3>4. ASSUME Settled(r)' PROVE cur.ev.handle = known[r]
      <4>1. CASE Settled(r)
        BY <2>1, <2>5, <2>r, <4>1 DEF HandlesOK, IdentityOK
      <4>2. CASE ~Settled(r)
        <5>1. done'[r] # done[r] /\ head[r] # NoEvent
          BY <1>0, <2>1, <3>4, <4>2 DEF Settled
        <5>2. cur.ev = head[r]
          BY <2>1, <5>1, CommitOfHead
        <5> QED
          BY <2>5, <5>1, <5>2 DEF HandlesOK, IdentityOK
      <4> QED
        BY <4>1, <4>2
    <3>5. ASSUME NEW m \in Sent, m.ev.kind = "identity", m.ev.repo = r, Settled(r)'
          PROVE  m.ev.handle = known[r]
      <4>1. CASE Settled(r)
        BY <3>5, <4>1 DEF HandlesOK, IdentityOK
      <4>2. CASE ~Settled(r)
        <5>1. Newest(cur) /\ head[r] # NoEvent
          BY <1>0, <2>1, <2>r, <3>5, <4>2, CommitOfHead DEF Settled
        <5>2. Newest(m)
          BY <2>1, <2>r, <3>5, <5>1 DEF DeliveryOK, InOrder, Advances, Sent
        <5>3. m.ev = head[r]
          BY <3>5, <5>1, <5>2 DEF DeliveryOK, Traceable
        <5> QED
          BY <3>5, <5>1, <5>3 DEF HandlesOK, IdentityOK
      <4> QED
        BY <4>1, <4>2
    <3>6. IdentityOK'
      <4>1. ASSUME NEW m \in Sent, m.ev.kind = "identity", Settled(m.ev.repo)'
            PROVE  m.ev.handle = known[m.ev.repo]
        BY <1>0, <3>3, <3>5, <4>1 DEF HandlesOK, IdentityOK
      <4> QED
        BY <2>1, <2>2, <4>1 DEF HandlesOK, IdentityOK
    <3>7. HandleOK(r)'
      <4>1. actor'[r] = cur.ev.handle /\ cur.ev.handle \in Handles \union {NoHandle}
        BY <1>0, <2>1, <3>1
      <4> QED
        BY <1>0, <2>2, <3>4, <4>1 DEF HandleOK
    <3>8. ASSUME NEW q \in Repos \ removed, q # r PROVE HandleOK(q)'
      BY <1>0, <2>2, <3>1, <3>3, <3>8 DEF HandlesOK, HandleOK
    <3> QED
      BY <3>1, <3>6, <3>7, <3>8 DEF HandlesOK
  <2> QED
    BY <2>3, <2>4, <2>5 DEF HandleIdentity
<1>7. CASE Elsewhere
  <2>1. Sent' \subseteq Sent /\ UNCHANGED <<seq, head, done>>
    BY <1>7, ElsewhereIsBeside, QuietDelivery DEF Beside
  <2>2. \A r \in Repos : Settled(r)' <=> Settled(r)
    BY <2>1 DEF Settled
  <2>3. ASSUME known' = known, removed \subseteq removed',
               \A r \in Repos \ removed' :
                 /\ actor'[r] = actor[r]
                 /\ \/ job'[r] = job[r]
                    \/ job'[r] = "idle"
                    \/ job'[r] = "listed" /\ actor[r] = NoHandle
                    \/ job'[r] = known[r] /\ job[r] = "listed"
        PROVE  HandlesOK'
    <3>1. IdentityOK'
      BY <2>1, <2>2, <2>3, HandlesKept
    <3>2. ASSUME NEW r \in Repos \ removed' PROVE HandleOK(r)'
      <4>1. HandleOK(r) /\ (Settled(r)' <=> Settled(r))
        BY <2>2, <2>3 DEF HandlesOK
      <4> QED
        BY <1>0, <2>3, <4>1 DEF HandleOK
    <3> QED
      BY <3>1, <3>2 DEF HandlesOK
  <2>4. CASE \/ UNCHANGED vars \/ Disconnect \/ Connect \/ HandlerError \/ AckLost \/ SkipAck
             \/ StopProcess \/ EndPass
    BY <2>3, <2>4 DEF vars, Disconnect, Connect, HandlerError, AckLost, SkipAck, StopProcess,
       EndPass, Reconciles, server, tables, background, observer
  <2>5. ASSUME NEW v \in Validators, NEW h \in SUBSET Uris,
               StartProcess(v, h) \/ InterruptedStart(v, h)
        PROVE  HandlesOK'
    BY <2>3, <2>5 DEF StartProcess, InterruptedStart, server, background, observer
  <2>6. ASSUME NEW r \in Repos, AdminPurge(r) PROVE HandlesOK'
    BY <1>0, <2>3, <2>6 DEF AdminPurge, PurgeActorData, server, background
  <2>7. CASE AdminResetRecords \/ AdminResetActors
    BY <2>3, <2>7 DEF AdminResetRecords, AdminResetActors, server, observer, Inv, TypeOK
  <2>8. CASE ListMissing
    <3>1. FirstBatch(MissingAfter(after)) \subseteq {r \in Repos : actor[r] = NoHandle}
      BY DEF FirstBatch, MissingAfter
    <3> QED
      BY <2>3, <2>8, <3>1 DEF ListMissing, Reconciles, server, observer
  <2>9. ASSUME NEW r \in Repos, AskRepoInfo(r) \/ ReconcileFails(r) PROVE HandlesOK'
    BY <1>0, <2>3, <2>9 DEF AskRepoInfo, ReconcileFails, Reconciles, server, observer
  <2>10. ASSUME NEW r \in Repos, SetHandleIfMissing(r) PROVE HandlesOK'
    <3>1. /\ job[r] \in Handles /\ UNCHANGED <<known, removed>>
          /\ job'[r] = "idle" /\ actor'[r] = IF actor[r] = NoHandle THEN job[r] ELSE actor[r]
          /\ \A q \in Repos \ {r} : job'[q] = job[q] /\ actor'[q] = actor[q]
      BY <1>0, <2>10 DEF SetHandleIfMissing, Reconciles, server, observer
    <3>2. IdentityOK'
      BY <2>1, <2>2, <3>1, HandlesKept
    <3>3. ASSUME NEW q \in Repos \ removed PROVE HandleOK(q)'
      <4>1. HandleOK(q) /\ (Settled(q)' <=> Settled(q))
        BY <2>2 DEF HandlesOK
      <4> QED
        BY <1>0, <3>1, <4>1 DEF HandleOK
    <3> QED
      BY <3>1, <3>2, <3>3 DEF HandlesOK
  <2> QED
    BY <1>7, <2>4, <2>5, <2>6, <2>7, <2>8, <2>9, <2>10 DEF Elsewhere
<1> QED
  BY <1>1, <1>2, <1>4, <1>5, <1>6, <1>7, StepCases

(* Reconciliation never undoes an identity event, for any repositories,     *)
(* batches, late RepoInfo answers, crashes, redeliveries and purges.        *)
THEOREM HandlesFollowTap == Spec => []HandleFollowsTap
<1>1. CASE DisableAcks
  <2>1. HandleFollowsTap
    BY <1>1 DEF HandleFollowsTap
  <2> QED
    BY <2>1, PTL
<1>2. CASE ~DisableAcks
  <2>1. Init => HandlesOK
    BY TapAssumption DEF Init, HandlesOK, IdentityOK, HandleOK, Sent, Queued, Handling
  <2>2. Inv /\ DeliveryOK /\ HandlesOK /\ [Next]_vars => HandlesOK'
    BY <1>2, HandlesStep
  <2>3. HandlesOK => HandleFollowsTap
    BY DEF HandlesOK, IdentityOK, HandleOK, Settled, HandleFollowsTap
  <2> QED
    BY <1>2, <2>1, <2>2, <2>3, DeliveryAlways, PTL DEF Spec
<1> QED
  BY <1>1, <1>2

=============================================================================
