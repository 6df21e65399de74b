----------------------------- MODULE TapIndexer -----------------------------
(***************************************************************************)
(* Ingestion through the Tap sidecar: the sidecar's delivery (external),   *)
(* the websocket consumer (internal/tap/consumer.go), IndexHandler         *)
(* (internal/tap/handler.go) and the statements it runs on the tables      *)
(* record, record_version and actor, together with what else touches those *)
(* tables while it runs: process crashes and restarts with another Lexicon *)
(* snapshot or history setting, the startup refresh and baseline seeding,  *)
(* the pass that fills in missing handles, and the admin mutations         *)
(* purgeActor and resetAll.                                                *)
(*                                                                         *)
(* Every database statement or transaction is one atomic step; between two *)
(* of them anything else may happen.                                       *)
(***************************************************************************)
EXTENDS RecordRows, Naturals, Sequences, FiniteSets

CONSTANTS
  Repos,       \* DIDs
  Handles,     \* non-empty handles
  RepoOf,      \* the DID in a record URI
  Events,      \* the events Tap may emit
  NoEvent, NoActor, NoHandle,
  AdminOps,    \* which of "purge" and "reset" the operator uses
  HistoryMaySwitchOff,  \* a start may drop a collection from the history, or fail to seed
  DisableAcks, \* TAP_DISABLE_ACKS, on both sides
  TapHealthy,  \* Tap's health check succeeds some time: handles are reconciled
  Rank,        \* the order of the DIDs
  LastRank,    \* no DID comes after this rank
  BatchSize,   \* handleReconcileBatchSize
  MaxEvents,   \* bound: events Tap emits per repository
  MaxInbox     \* bound: messages in flight on the websocket

Kinds == {"write", "delete", "identity", "purge", "malformed"}

(* A write is a create or an update: they differ only in the name of the    *)
(* event that is logged, published and kept with the version.  A purge is   *)
(* an identity event whose status is deleted, deactivated, suspended or     *)
(* takendown; malformed stands for a message that does not parse or has an  *)
(* unknown type.                                                            *)
Event == [repo: Repos, kind: Kinds, uri: Uris,
          body: Bodies \union {NoBody}, cid: Bodies \union {NoCID},
          handle: Handles \union {NoHandle}]

ASSUME TapAssumption ==
  /\ RepoOf \in [Uris -> Repos]
  /\ Events \subseteq Event
  /\ \A e \in Events : e.kind \in {"write", "delete"} => e.repo = RepoOf[e.uri]
  /\ \A e \in Events : e.cid # NoCID => e.cid = e.body
  /\ NoEvent \notin Event
  /\ NoActor \notin Handles \union {NoHandle}
  /\ NoHandle \notin Handles
  /\ AdminOps \subseteq {"purge", "reset"}
  /\ HistoryMaySwitchOff \in BOOLEAN
  /\ DisableAcks \in BOOLEAN
  /\ TapHealthy \in BOOLEAN
  /\ LastRank \in Nat
  /\ Rank \in [Repos -> 1..LastRank]
  /\ Handles \intersect {"idle", "listed"} = {}
  /\ BatchSize \in Nat \ {0}
  /\ MaxEvents \in Nat
  /\ MaxInbox \in Nat

VARIABLES
  \* the Tap sidecar
  seq,       \* seq[r]: id of the last event emitted for repository r
  head,      \* head[r]: that event until it is acked, then NoEvent
  known,     \* known[r]: the handle in Tap's own metadata of the repository
  \* the websocket
  conn,      \* the connection is up
  inbox,     \* messages sent and not yet read
  \* the hyperindex process
  pc,        \* where the consumer goroutine is; "off" when there is no process
  cur,       \* the message being handled
  wasValid,  \* the row DeleteReturning returned was typed-visible
  validator, \* the classification in force since the last start
  history,   \* the records whose collection keeps history since the last start
  resetting, \* resetAll has deleted the records and not yet the actors
  after,     \* rank of the last DID the handle reconciler listed
  job,       \* job[r]: "idle", "listed", or the handle RepoInfo answered
  \* the database
  record, versions, actor,
  \* what an observer remembers (no part of the code reads it)
  done,      \* done[r]: the effect of event seq[r] is committed
  heard,     \* heard[r]: event seq[r] was published to the subscriptions
  typedDeletes, \* typedDeletes[u]: typed deletes published since the last write of u
  removed    \* the repositories whose actor row was deleted some time

server == <<seq, head, known>>
net == <<conn, inbox>>
process == <<validator, history>>
background == <<resetting, after, job>>
tables == <<record, versions, actor>>
observer == <<done, heard, typedDeletes, removed>>
vars == <<seq, head, known, conn, inbox, pc, cur, wasValid, validator, history, resetting,
          after, job, record, versions, actor, done, heard, typedDeletes, removed>>

Message == [id: Nat, ev: Events]

PCs == {"off", "read", "ensure", "append", "readRow", "repair", "upsert", "publish",
        "delete", "publishDelete", "identity", "ack"}

TypeOK ==
  /\ seq \in [Repos -> Nat]
  /\ head \in [Repos -> Events \union {NoEvent}]
  /\ known \in [Repos -> Handles \union {NoHandle}]
  /\ conn \in BOOLEAN
  /\ inbox \in Seq(Message)
  /\ pc \in PCs
  /\ cur \in Message \union {NoEvent}
  /\ wasValid \in BOOLEAN
  /\ validator \in Validators
  /\ history \in SUBSET Uris
  /\ resetting \in BOOLEAN
  /\ after \in Nat
  /\ job \in [Repos -> Handles \union {"idle", "listed"}]
  /\ record \in [Uris -> Row \union {NoRow}]
  /\ versions \in [Uris -> SUBSET Version]
  /\ actor \in [Repos -> Handles \union {NoHandle, NoActor}]
  /\ done \in [Repos -> BOOLEAN]
  /\ heard \in [Repos -> BOOLEAN]
  /\ typedDeletes \in [Uris -> 0..2]
  /\ removed \in SUBSET Repos

LegacyRows == {LegacyRow(b, NoCID) : b \in Bodies} \union {LegacyRow(b, b) : b \in Bodies}

(* A database upgraded from a release without validation columns, or an     *)
(* empty one; no process runs.                                              *)
Init ==
  /\ seq = [r \in Repos |-> 0]
  /\ head = [r \in Repos |-> NoEvent]
  /\ known \in [Repos -> Handles \union {NoHandle}]
  /\ conn = FALSE
  /\ inbox = <<>>
  /\ pc = "off"
  /\ cur = NoEvent
  /\ wasValid = FALSE
  /\ validator = Disabled
  /\ history = {}
  /\ resetting = FALSE
  /\ after = 0
  /\ job = [r \in Repos |-> "idle"]
  /\ record \in [Uris -> {NoRow} \union LegacyRows]
  /\ versions = [u \in Uris |-> {}]
  /\ actor = [r \in Repos |-> NoActor]
  /\ done = [r \in Repos |-> FALSE]
  /\ heard = [r \in Repos |-> FALSE]
  /\ typedDeletes = [u \in Uris |-> 0]
  /\ removed = {}

-----------------------------------------------------------------------------
(* The sidecar and the websocket. *)

(* The next event of a repository exists once the previous one is acked:    *)
(* Tap's per-repository order.  An identity event tells of a change of      *)
(* Tap's own metadata.                                                      *)
Emit(r, e) ==
  /\ head[r] = NoEvent
  /\ seq[r] < MaxEvents
  /\ e.repo = r
  /\ seq' = [seq EXCEPT ![r] = @ + 1]
  /\ head' = [head EXCEPT ![r] = e]
  /\ known' = IF e.kind = "identity" THEN [known EXCEPT ![r] = e.handle] ELSE known
  /\ done' = [done EXCEPT ![r] = FALSE]
  /\ heard' = [heard EXCEPT ![r] = FALSE]
  /\ UNCHANGED <<net, pc, cur, wasValid, process, background, tables, typedDeletes, removed>>

(* An unacked event is sent, and sent again after a timeout or a reconnect. *)
(* With acks disabled Tap forgets an event once it is sent.                 *)
Send(r) ==
  /\ conn
  /\ head[r] # NoEvent
  /\ Len(inbox) < MaxInbox
  /\ inbox' = Append(inbox, [id |-> seq[r], ev |-> head[r]])
  /\ head' = IF DisableAcks THEN [head EXCEPT ![r] = NoEvent] ELSE head
  /\ UNCHANGED <<seq, known, conn, pc, cur, wasValid, process, background, tables, observer>>

(* The connection breaks; what was in flight is lost.  A handler that is    *)
(* running keeps running.                                                   *)
Disconnect ==
  /\ conn
  /\ conn' = FALSE
  /\ inbox' = <<>>
  /\ UNCHANGED <<server, pc, cur, wasValid, process, background, tables, observer>>

(* Start: dial again, after the backoff or at once. *)
Connect ==
  /\ pc = "read"
  /\ ~conn
  /\ conn' = TRUE
  /\ UNCHANGED <<server, inbox, pc, cur, wasValid, process, background, tables, observer>>

-----------------------------------------------------------------------------
(* The consumer goroutine: runOnce, dispatch, HandleRecord, HandleIdentity. *)

Commits(m) == done' = IF m.id = seq[m.ev.repo]
                      THEN [done EXCEPT ![m.ev.repo] = TRUE] ELSE done

Publishes(m) == heard' = IF m.id = seq[m.ev.repo]
                         THEN [heard EXCEPT ![m.ev.repo] = TRUE] ELSE heard

(* The handler goes on, or returns to the read loop without an ack. *)
GoesTo(next) == pc' = next /\ UNCHANGED cur
Returns == pc' = "read" /\ cur' = NoEvent

(* A statement took effect.  An error may reach the handler all the same:   *)
(* the connection to the database may break after the commit.               *)
Reported(next) == GoesTo(next) \/ Returns

(* Mutant of Receive: a write without a body is not filtered out. *)
ReceiveBodyless ==
  /\ pc = "read"
  /\ inbox # <<>>
  /\ inbox' = Tail(inbox)
  /\ LET m == Head(inbox)
     IN  /\ cur' = IF m.ev.kind = "malformed" THEN NoEvent ELSE m
         /\ pc' = CASE m.ev.kind = "malformed" -> "read"
                    [] m.ev.kind = "write" -> "ensure"
                    [] m.ev.kind = "delete" -> "delete"
                    [] m.ev.kind \in {"identity", "purge"} -> "identity"
  /\ UNCHANGED <<server, conn, wasValid, process, background, tables, observer>>

(* runOnce reads a message and dispatch selects the handler.  A malformed   *)
(* one is dropped without an ack, a write without a body is acked.          *)
Receive ==
  /\ pc = "read"
  /\ inbox # <<>>
  /\ inbox' = Tail(inbox)
  /\ LET m == Head(inbox)
         skip == m.ev.kind = "write" /\ m.ev.body = NoBody
     IN  /\ cur' = IF m.ev.kind = "malformed" THEN NoEvent ELSE m
         /\ pc' = CASE m.ev.kind = "malformed" -> "read"
                    [] skip -> "ack"
                    [] m.ev.kind = "write" /\ ~skip -> "ensure"
                    [] m.ev.kind = "delete" -> "delete"
                    [] m.ev.kind \in {"identity", "purge"} -> "identity"
         /\ IF skip THEN Commits(m) ELSE UNCHANGED done
  /\ UNCHANGED <<server, conn, wasValid, process, background, tables, heard, typedDeletes, removed>>

(* INSERT ... ON CONFLICT DO NOTHING: a handle that is there stays. *)
EnsureRow(row) == IF row = NoActor THEN NoHandle ELSE row

(* actors.Ensure; its failure is logged and ignored. *)
Ensure ==
  /\ pc = "ensure"
  /\ pc' = IF cur.ev.uri \in history THEN "append" ELSE "readRow"
  /\ \/ actor' = [actor EXCEPT ![cur.ev.repo] = EnsureRow(@)]
     \/ UNCHANGED actor
  /\ UNCHANGED <<server, net, cur, wasValid, process, background, record, versions, observer>>

(* versions.Append, before the current-state upsert. *)
AppendHistory ==
  /\ pc = "append"
  /\ versions' = [versions EXCEPT ![cur.ev.uri] = AppendVersion(@, cur.ev.body, cur.ev.cid)]
  /\ Reported("readRow")
  /\ UNCHANGED <<server, net, wasValid, process, background, record, actor, observer>>

Classified == ClassifyRecord(validator, cur.ev.uri, cur.ev.body)

(* The three ways on from the row that was read. *)
WriteState(skipped) ==
  /\ pc = "readRow"
  /\ LET row == record[cur.ev.uri]
         same == SameCID(row, cur.ev.cid)
         skip == same /\ NothingToWrite(row, cur.ev.body, Classified)
     IN  /\ pc' = IF skip THEN skipped ELSE IF same THEN "repair" ELSE "upsert"
         /\ IF skip THEN Commits(cur) ELSE UNCHANGED done
  /\ UNCHANGED <<server, net, cur, wasValid, process, background, tables, heard, typedDeletes, removed>>

(* Mutants of ReadWriteState: a write that changes nothing is acked without *)
(* being published, or is dropped without an ack.                           *)
SkippedNotPublished == WriteState("ack")
SkippedNotAcked == WriteState("read")

(* UpsertWithValidation, first statement: getValidationWriteState. *)
ReadWriteState == WriteState("publish")

(* repairSameCIDValidation: conditional on the CID that was read. *)
RepairSameCID ==
  /\ pc = "repair"
  /\ IF SameCID(record[cur.ev.uri], cur.ev.cid)
     THEN /\ record' = [record EXCEPT ![cur.ev.uri] = RepairRow(@, cur.ev.body, Classified)]
          /\ Commits(cur)
          /\ Reported("publish")
     ELSE /\ GoesTo("upsert")
          /\ UNCHANGED <<record, done>>
  /\ UNCHANGED <<server, net, wasValid, process, background, versions, actor,
                 heard, typedDeletes, removed>>

Upsert ==
  /\ pc = "upsert"
  /\ record' = [record EXCEPT ![cur.ev.uri] =
                  UpsertRow(@, cur.ev.body, cur.ev.cid, Classified)]
  /\ Commits(cur)
  /\ Reported("publish")
  /\ UNCHANGED <<server, net, wasValid, process, background, versions, actor,
                 heard, typedDeletes, removed>>

(* PublishRecordWithValidation: also when the write was skipped. *)
PublishRecord ==
  /\ pc = "publish"
  /\ pc' = "ack"
  /\ Publishes(cur)
  /\ typedDeletes' = [typedDeletes EXCEPT ![cur.ev.uri] = 0]
  /\ UNCHANGED <<server, net, cur, wasValid, process, background, tables, done, removed>>

(* Mutant of DeleteReturning: only the row goes. *)
DeleteKeepsVersions ==
  /\ pc = "delete"
  /\ record' = [record EXCEPT ![cur.ev.uri] = NoRow]
  /\ Commits(cur)
  /\ Reported("publishDelete")
  /\ wasValid' = (/\ pc' = "publishDelete"
                  /\ record[cur.ev.uri] # NoRow
                  /\ record[cur.ev.uri].status = "valid")
  /\ UNCHANGED <<server, net, process, background, versions, actor, heard, typedDeletes, removed>>

(* DeleteReturning: history and row go in one transaction, which tells      *)
(* whether the deleted row was typed-visible.                               *)
DeleteReturning ==
  /\ pc = "delete"
  /\ record' = [record EXCEPT ![cur.ev.uri] = NoRow]
  /\ versions' = [versions EXCEPT ![cur.ev.uri] = {}]
  /\ Commits(cur)
  /\ Reported("publishDelete")
  /\ wasValid' = (/\ pc' = "publishDelete"
                  /\ record[cur.ev.uri] # NoRow
                  /\ record[cur.ev.uri].status = "valid")
  /\ UNCHANGED <<server, net, process, background, actor, heard, typedDeletes, removed>>

(* Mutant of PublishDelete: a typed delete whatever row was deleted. *)
PublishEveryDelete ==
  /\ pc = "publishDelete"
  /\ pc' = "ack"
  /\ Publishes(cur)
  /\ typedDeletes' = [typedDeletes EXCEPT ![cur.ev.uri] = IF @ < 2 THEN @ + 1 ELSE @]
  /\ wasValid' = FALSE
  /\ UNCHANGED <<server, net, cur, process, background, tables, done, removed>>

PublishDelete ==
  /\ pc = "publishDelete"
  /\ pc' = "ack"
  /\ Publishes(cur)
  /\ typedDeletes' = [typedDeletes EXCEPT ![cur.ev.uri] =
                        IF wasValid /\ @ < 2 THEN @ + 1 ELSE @]
  /\ wasValid' = FALSE
  /\ UNCHANGED <<server, net, cur, process, background, tables, done, removed>>

(* PurgeActorData, one transaction; also the admin mutation purgeActor. *)
PurgeActorData(r) ==
  /\ record' = [u \in Uris |-> IF RepoOf[u] = r THEN NoRow ELSE record[u]]
  /\ versions' = [u \in Uris |-> IF RepoOf[u] = r THEN {} ELSE versions[u]]
  /\ actor' = [actor EXCEPT ![r] = NoActor]
  /\ removed' = removed \union {r}

(* The row is inserted, or its handle replaced, by an empty one too. *)
UpsertIdentity(r, handle) ==
  /\ actor' = [actor EXCEPT ![r] = handle]
  /\ UNCHANGED <<record, versions, removed>>

(* HandleIdentity: purge the account, or UpsertIdentity. *)
HandleIdentity ==
  /\ pc = "identity"
  /\ \/ cur.ev.kind = "purge" /\ PurgeActorData(cur.ev.repo)
     \/ cur.ev.kind = "identity" /\ UpsertIdentity(cur.ev.repo, cur.ev.handle)
  /\ Commits(cur)
  /\ Reported("ack")
  /\ UNCHANGED <<server, net, wasValid, process, background, heard, typedDeletes>>

(* Mutant of HandlerError: the event is acked although its handler failed. *)
ErrorIsAcked ==
  /\ pc \in {"append", "readRow", "repair", "upsert", "delete", "identity"}
  /\ GoesTo("ack")
  /\ UNCHANGED <<server, net, wasValid, process, background, tables, observer>>

(* A statement fails without effect: the handler returns the error and the  *)
(* event is not acked.                                                      *)
HandlerError ==
  /\ pc \in {"append", "readRow", "repair", "upsert", "delete", "identity"}
  /\ Returns
  /\ UNCHANGED <<server, net, wasValid, process, background, tables, observer>>

(* The ack reaches Tap.  An ack of an event Tap has already retired is      *)
(* ignored.                                                                 *)
Ack ==
  /\ pc = "ack"
  /\ ~DisableAcks
  /\ conn
  /\ Returns
  /\ head' = [head EXCEPT ![cur.ev.repo] =
                IF cur.id = seq[cur.ev.repo] THEN NoEvent ELSE @]
  /\ UNCHANGED <<seq, known, net, wasValid, process, background, tables, observer>>

(* The ack is lost with its connection: isWriteError sends the consumer     *)
(* straight back to dialing.                                                *)
AckLost ==
  /\ pc = "ack"
  /\ ~DisableAcks
  /\ Returns
  /\ conn' = FALSE
  /\ inbox' = <<>>
  /\ UNCHANGED <<server, wasValid, process, background, tables, observer>>

SkipAck ==
  /\ pc = "ack"
  /\ DisableAcks
  /\ Returns
  /\ UNCHANGED <<server, net, wasValid, process, background, tables, observer>>

-----------------------------------------------------------------------------
(* The process. *)

(* Startup, before the consumer and the API exist: the validation refresh   *)
(* unless validation is disabled, then the baseline seed.  History is kept  *)
(* for the records h only if they are configured and the seed succeeded.    *)
StartProcess(v, h) ==
  /\ pc = "off"
  /\ history \subseteq h \/ HistoryMaySwitchOff
  /\ pc' = "read"
  /\ validator' = v
  /\ history' = h
  /\ record' = IF v = Disabled THEN record
               ELSE [u \in Uris |-> RefreshRow(v, u, record[u])]
  /\ versions' = [u \in Uris |-> IF u \in h THEN SeedVersion(versions[u], record[u])
                                 ELSE versions[u]]
  /\ UNCHANGED <<server, net, cur, wasValid, background, actor, observer>>

(* A start that fails or is killed during the refresh, which works row by   *)
(* row: only the rows of part carry the classification of v.                *)
InterruptedStart(v, part) ==
  /\ pc = "off"
  /\ v # Disabled
  /\ record' = [u \in Uris |-> IF u \in part THEN RefreshRow(v, u, record[u]) ELSE record[u]]
  /\ UNCHANGED <<server, net, pc, cur, wasValid, process, background, versions, actor, observer>>

(* A crash or a shutdown, at any point. *)
StopProcess ==
  /\ pc # "off"
  /\ pc' = "off"
  /\ cur' = NoEvent
  /\ conn' = FALSE
  /\ inbox' = <<>>
  /\ wasValid' = FALSE
  /\ resetting' = FALSE
  /\ after' = 0
  /\ job' = [r \in Repos |-> "idle"]
  /\ UNCHANGED <<server, process, tables, observer>>

(* The admin mutations run in the HTTP server of the process. *)
AdminPurge(r) ==
  /\ "purge" \in AdminOps
  /\ pc # "off"
  /\ PurgeActorData(r)
  /\ UNCHANGED <<server, net, pc, cur, wasValid, process, background, done, heard, typedDeletes>>

(* ResetAll deletes activity, reports, labels, then all records, ... *)
AdminResetRecords ==
  /\ "reset" \in AdminOps
  /\ pc # "off"
  /\ ~resetting
  /\ record' = [u \in Uris |-> NoRow]
  /\ resetting' \in BOOLEAN
  /\ UNCHANGED <<after, job, server, net, pc, cur, wasValid, process, versions, actor, observer>>

(* ... and then, in a statement of its own, all actors. *)
AdminResetActors ==
  /\ resetting
  /\ resetting' = FALSE
  /\ \/ actor' = [r \in Repos |-> NoActor] /\ removed' = Repos
     \/ UNCHANGED <<actor, removed>>
  /\ UNCHANGED <<server, net, pc, cur, wasValid, process, after, job, record, versions,
                 done, heard, typedDeletes>>

-----------------------------------------------------------------------------
(* Handle reconciliation: one pass after every start, beside the consumer. *)

(* What the reconciler leaves alone. *)
Reconciles == UNCHANGED <<server, net, pc, cur, wasValid, process, resetting, record, versions,
                          observer>>

(* NoHandle stands for a handle that is null, empty or the DID itself. *)
MissingAfter(n) == {r \in Repos : actor[r] = NoHandle /\ Rank[r] > n}

(* The first rows in the order of the DIDs, up to the limit. *)
FirstBatch(rs) == {r \in rs : Cardinality({q \in rs : Rank[q] < Rank[r]}) < BatchSize}

(* startTap waits for a health check to succeed before the pass. *)
Reconciling == TapHealthy /\ pc # "off"

(* ReconcileActorHandles lists again once every DID of the last batch is    *)
(* dealt with.                                                              *)
MayList == /\ Reconciling
           /\ after < LastRank
           /\ \A r \in Repos : job[r] = "idle"

ListMissing ==
  LET dids == FirstBatch(MissingAfter(after))
  IN  /\ MayList
      /\ dids # {}
      /\ \E last \in dids : /\ \A r \in dids : Rank[r] <= Rank[last]
                           /\ after' = Rank[last]
      /\ job' = [r \in Repos |-> IF r \in dids THEN "listed" ELSE "idle"]
      /\ UNCHANGED actor
      /\ Reconciles

(* ListDIDsMissingHandle returns nothing, or fails: the pass ends. *)
EndPass ==
  /\ MayList
  /\ after' = LastRank
  /\ UNCHANGED <<job, actor>>
  /\ Reconciles

(* A worker asks Tap.  There is nothing to do where Tap knows no handle.    *)
AskRepoInfo(r) ==
  /\ job[r] = "listed"
  /\ job' = [job EXCEPT ![r] = IF known[r] = NoHandle THEN "idle" ELSE known[r]]
  /\ UNCHANGED <<after, actor>>
  /\ Reconciles

(* The request or the update fails, or Tap answers for another DID: the     *)
(* pass leaves the row to the next start.                                   *)
ReconcileFails(r) ==
  /\ job[r] # "idle"
  /\ job' = [job EXCEPT ![r] = "idle"]
  /\ UNCHANGED <<after, actor>>
  /\ Reconciles

(* Mutant of SetHandleIfMissing: the update is not conditional. *)
SetHandle(r) ==
  /\ job[r] \in Handles
  /\ job' = [job EXCEPT ![r] = "idle"]
  /\ actor' = [actor EXCEPT ![r] = IF @ = NoActor THEN @ ELSE job[r]]
  /\ UNCHANGED after
  /\ Reconciles

(* The answer is stored only where the handle is still missing. *)
SetHandleIfMissing(r) ==
  /\ job[r] \in Handles
  /\ job' = [job EXCEPT ![r] = "idle"]
  /\ actor' = [actor EXCEPT ![r] = IF @ = NoHandle THEN job[r] ELSE @]
  /\ UNCHANGED after
  /\ Reconciles

-----------------------------------------------------------------------------
Consumer ==
  \/ Receive \/ Ensure \/ AppendHistory \/ ReadWriteState \/ RepairSameCID \/ Upsert
  \/ PublishRecord \/ DeleteReturning \/ PublishDelete \/ HandleIdentity
  \/ HandlerError \/ Ack \/ AckLost \/ SkipAck

Next ==
  \/ \E r \in Repos, e \in Events : Emit(r, e)
  \/ \E r \in Repos : Send(r)
  \/ Disconnect
  \/ Connect
  \/ Consumer
  \/ \E v \in Validators, h \in SUBSET Uris : StartProcess(v, h)
  \/ \E v \in Validators, part \in SUBSET Uris : InterruptedStart(v, part)
  \/ StopProcess
  \/ \E r \in Repos : AdminPurge(r)
  \/ AdminResetRecords
  \/ AdminResetActors
  \/ ListMissing
  \/ EndPass
  \/ \E r \in Repos : AskRepoInfo(r) \/ ReconcileFails(r) \/ SetHandleIfMissing(r)

Spec == Init /\ [][Next]_vars

-----------------------------------------------------------------------------
(* Fairness: Tap keeps sending what is not acked, the process is restarted  *)
(* and the consumer scheduled, and no database statement fails forever.     *)
Fairness ==
  /\ \A r \in Repos : SF_vars(Send(r))
  /\ WF_vars(\/ \E v \in Validators, h \in SUBSET Uris : StartProcess(v, h)
             \/ Connect \/ Receive \/ Ensure \/ PublishRecord \/ PublishDelete \/ Ack)
  /\ SF_vars(AppendHistory /\ GoesTo("readRow"))
  /\ SF_vars(ReadWriteState)
  /\ SF_vars(RepairSameCID /\ ~Returns)
  /\ SF_vars(Upsert /\ GoesTo("publish"))
  /\ SF_vars(DeleteReturning /\ GoesTo("publishDelete"))
  /\ SF_vars(HandleIdentity /\ GoesTo("ack"))

LiveSpec == Spec /\ Fairness

-----------------------------------------------------------------------------
(* Properties. *)

(* The classification stored with a record is one that some startup         *)
(* snapshot (or the disabled validator) really gives to the body stored in  *)
(* the same row: no statement of UpsertWithValidation, the refresh or a     *)
(* repair ever leaves the status of one body beside another body.           *)
MetadataMatchesContent ==
  \A u \in Uris : record[u] # NoRow /\ record[u].checked =>
    \E v \in Validators :
      ClassifyRecord(v, u, record[u].body) =
        [status |-> record[u].status, hash |-> record[u].hash]

(* While a process with validation runs, every stored record carries the    *)
(* classification of that process's Lexicon snapshot, whatever snapshot,    *)
(* disabled validator or release wrote it: the startup refresh and the      *)
(* same-CID repair leave no stale verdict behind.                           *)
MetadataCurrent ==
  pc # "off" /\ validator # Disabled =>
    \A u \in Uris : record[u] # NoRow =>
      /\ record[u].checked
      /\ ClassifyRecord(validator, u, record[u].body) =
           [status |-> record[u].status, hash |-> record[u].hash]

(* Deleting a record removes its history: whatever step removes a row of    *)
(* `record` leaves no version of it queryable.                              *)
DeleteRemovesHistory ==
  [][\A u \in Uris : record[u] # NoRow /\ record'[u] = NoRow => versions'[u] = {}]_vars

(* A record that is not in the index has stored versions only while the     *)
(* write that appended them is still owed by Tap: an interrupted            *)
(* HandleRecord never leaves history of a record that nobody will write.    *)
OrphanHistoryIsOwed ==
  \A u \in Uris : versions[u] # {} /\ record[u] = NoRow =>
    LET r == RepoOf[u] IN
    /\ head[r] # NoEvent
    /\ head[r].kind = "write"
    /\ head[r].uri = u
    /\ ~done[r]

(* The version of every record currently served is in its history, for the  *)
(* collections that keep one: the version is appended before the upsert and *)
(* records indexed earlier are seeded at startup.                           *)
HistoryCoversCurrent ==
  pc # "off" =>
    \A u \in history : record[u] # NoRow => InHistory(versions[u], record[u])

(* Subscribers never hear two typed deletes of a record without a write of  *)
(* it in between, however often the delete is redelivered.                  *)
NoDuplicateTypedDelete == \A u \in Uris : typedDeletes[u] <= 1

(* Tap retires a record event only after it was published to the            *)
(* subscriptions at least once: a crash between the commit and the publish  *)
(* is made good by the redelivery, although that one writes nothing.        *)
PublishedBeforeAck ==
  [][\A r \in Repos :
       /\ head[r] # NoEvent
       /\ head'[r] = NoEvent
       /\ head[r].kind \in {"write", "delete"}
       /\ head[r].kind = "write" => head[r].body # NoBody
       => heard[r]]_vars

(* The index is exactly what applying every event once, in order, gives:    *)
(* TapIndexer implements IndexLog.                                          *)
IndexedBody == [u \in Uris |-> IF record[u] = NoRow THEN NoBody ELSE record[u].body]

Log == INSTANCE IndexLog WITH applied <- done, index <- IndexedBody

ImplementsIndexLog == Log!Spec

(* Reconciliation never undoes an identity event: as long as the actor row  *)
(* was never deleted, once every event is applied the handle that is stored *)
(* is the one Tap knows, however old the RepoInfo answer that               *)
(* SetHandleIfMissing comes with.                                           *)
HandleFollowsTap ==
  ~DisableAcks =>
    \A r \in Repos \ removed :
      (done[r] \/ seq[r] = 0) /\ actor[r] \in Handles /\ known[r] \in Handles
        => actor[r] = known[r]

(* Every event is eventually applied and acked, once the connection stops   *)
(* breaking: no handler error, lost ack or restart before that strands it.  *)
EventuallyRetired ==
  <>[]conn => \A r \in Repos : []<>(head[r] = NoEvent)

=============================================================================
