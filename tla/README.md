# Hyperindex in TLA+

Hyperindex is an AT Protocol AppView: it ingests records of chosen collections
from the network, stores them in PostgreSQL or SQLite with a verdict of the
record's Lexicon, and serves them over GraphQL (queries, subscriptions, an admin
API) with an OAuth server beside it.  This directory models the parts of it in
which order, failure and concurrency decide whether the index is right, checks
the models with TLC on small instances, and proves the most important facts for
every instance with TLAPS.

    tlc -workers 2 -config TapOrder.cfg MCTapIndexer     # one run
    tlapm TapIndexerProofs.tla                           # the proofs of a module

`PROJECT.json` lists the components, the runs, the source lines of every
definition, the hazards and the theorems.

## 1. Inventory

| Component (source) | State | Operations | What makes it correct |
| --- | --- | --- | --- |
| Tap consumer and IndexHandler (`internal/tap`) | the websocket, the event in hand | read, dispatch, handle record/identity, ack, reconnect | the index is the result of applying each event once, in order; nothing is acked unpublished; every event is retired in the end |
| Record and version tables (`repositories/records.go`, `record_versions.go`) | `record`, `record_version` | upsert, same-CID repair, delete, purge, append version, seed | metadata belongs to the body in its row; history covers what is served, and disappears with the record |
| Startup validation refresh (`internal/validationrefresh`, `internal/validation`) | the snapshot of Lexicons chosen at startup | classify, refresh row by row, mark unknown | once a process serves, no verdict is stale |
| Legacy Jetstream consumer (`internal/jetstream`) | cursor in memory and in `config`, channels, goroutines per connection | connect, read, deliver, process, flush, stop | a restart resumes behind no event nobody tried, but for messages that do not parse |
| Historical backfill (`internal/backfill`, batch transaction in `records.go`) | tasks, semaphores, the DID lock, row locks | discover, resolve, fetch, list, classify, write | success means complete; overlapping backfills and the live consumer do not disturb a batch; runs end |
| External labelers (`internal/labeler`, `repositories/external_labels.go`) | `label_subscription_state`, `external_label` | connect, persist event, record errors, mark fatal | cursor and labels move together; a fatal marker is sticky; an event is stored or its loss reported, unless a renumbered labeler reuses numbers unnoticed |
| GraphQL subscriptions (`internal/graphql/subscription`) | PubSub's channels, the client's operations | subscribe, refuse, execute, send, complete, cancel, close, publish | a running operation can be stopped unless it was registered after the close; the client sees no stale message |
| Actor handles (`tap/handle_reconciler.go`, `tap/admin.go`, `repositories/actors.go`) | `actor` | reconcile, upsert identity, purge | a late answer of Tap never replaces the handle of an identity event |
| Saved Lexicons (`repositories/lexicons.go`, `internal/lexicon`, admin resolvers) | `lexicon`, the mutation mutex and lock | register, upload, delete, load at startup, build the schema | the saved set always passes the check of a start; a registration replaces nothing |
| OAuth server (`internal/oauth`, `server/oauth_*.go`, `repositories/oauth_*.go`) | requests, codes, sessions, tokens, nonces | PAR, authorize, callback, token, refresh, revoke, cleanup | a token is worth what its user granted, through any chain of refreshes; a user who returns in time finds his request; a DPoP proof is accepted once |
| Admin API (`internal/graphql/admin`, labels, reports, settings) | settings, labels, reports, clients, the backfill flag | mutations, pages | a mutation that stops half way leaves consistent tables; a removal is undone only by an overlap; pages are complete |
| Queries and pagination (`records.go`, `records_created_at_keyset.go`, `graphql/query`) | none between requests; the cursor | keyset pages, counts, filters | pages neither repeat nor skip what did not change |
| Graph closure (`internal/graphclosure`, `schema/endorsement_closure.go`, `records_endorsement.go`) | none | bounded breadth-first search, pages | the closure of records that change meanwhile lies between what was always and what was ever active; caps and truncation are reported |
| GraphQL schema (`internal/graphql/schema`, `types`) | built once at startup | derive types and resolvers, filters | filters mean what they say |
| Migrations (`internal/database/migrations`) | `schema_migrations` | apply, roll back, start concurrently | an interrupted start can be repeated |
| Activity log, executors, configuration, wiring, web client, utilities | logs, pools, constants | | no logic of the index (see 8) |

The parts meet in the tables and in PubSub.  Tap or Jetstream, the backfill, the
startup refresh and the admin mutations all write `record`; ingestion calls
`PubSub.Publish` after its commit; labelers write tables of their own that
queries join.  `main.go` starts the refresh and the seeding of history before
anything ingests or serves, which is what the metadata properties rest on.

What is hard here: every handler is several statements and may stop between any
two (a crash, an error whose statement nevertheless committed); Tap redelivers
whatever is not acked; Jetstream's processors and flushers outlive their
connection; a backfill classifies rows the consumer changes; a subscription
operation is cancelled, replaced under the same id or disconnected at any point;
two processes may run the same labeler subscription, or mutate the same Lexicons;
an OAuth request may end after any statement and none of them is in a
transaction; a closure asks for its rings while the graph changes; a panic is recovered in the
middle of a semaphore.  `PROJECT.json` lists these hazards at the lines where
they bite, with the property that would notice.

## 2. The modules

    RecordRows ── TapIndexer ── MCTapIndexer        IndexLog  (abstract)
                      └── TapIndexerProofs             ↑ refined by TapIndexer
    Backfill ── MCBackfill,  BackfillProofs
    LabelerSubscriber ── LabelerProofs
    Pagination ── PaginationProofs
    Lexicons ── AdminAPI ── MCAdminAPI,  AdminAPIProofs
    OAuthServer ── MCOAuthServer
    DPoPReplay ── MCDPoPReplay
        └─ both ── OAuthProofs
    JetstreamConsumer ── JetstreamProofs
    Subscriptions
    EndorsementClosure ── MCEndorsementClosure
        └─ both ── GraphQLProofs

In every module a database statement or transaction, or a critical section
under one mutex, is one step, and anything else may happen between two.  A
definition called a mutant is a wrong version of its neighbour that a property
must notice; no specification uses it.

**RecordRows** is what single statements do to one row.  A body is a model value
and its own CID (CIDs are content addressed); `NoCID` is the empty CID.  A
snapshot is the Lexicon set of one start and its own fingerprint; `Verdict` says
what it thinks of a body, `Covered` whether it has the collection's Lexicon, and
`Disabled` is the validator of a deployment without validation.  `UpsertRow`,
`RepairRow`, `RefreshRow`, `InsertVersion` and `SeedVersion` are the statements.

**TapIndexer** composes the sidecar (external: an event per repository at a
time, sent until it is acked, forgotten when sent if acks are disabled), the
websocket, the consumer goroutine of `runOnce`, `dispatch`, `HandleRecord` and
`HandleIdentity` with one label per statement, starts (refresh, then seed),
interrupted starts, crashes, the admin's purge and reset, and the handle
reconciler that runs beside the consumer after a start: it lists the actors
without a handle batch by batch (`Rank` is the order of their DIDs), asks Tap
about each, and stores the answer with `SetHandleIfMissing` whenever it gets
there; `known` is the handle Tap knows, from which answers are taken.  `Reported` lets a
statement take effect and still fail for its caller.  `done`, `heard` and
`typedDeletes` and `removed` are an observer's memory and guard nothing.

**IndexLog** is the promise: each event takes effect exactly once, in order,
before the stream moves on.  `TapIndexer` refines it with
`applied <- done, index <- IndexedBody`.

**Backfill** has any number of full runs and single-actor runs.  A full run
discovers repositories collection by collection, resolves their DIDs (asking
once more under `httpSem`), groups them by server, and processes them under the
server, per-server and HTTP limits; a task fetches the whole repository or falls
back to listing collections, and stores batches in the transaction of
`BatchUpsertWithValidationForBackfill`: the DID lock, `SELECT ... FOR UPDATE`,
repair of unchanged rows with a row count, upsert of the rest.  Each step may
fail, or panic and be recovered.  Accounts change records meanwhile and the
live consumer follows, or loses the event.

**LabelerSubscriber** is one subscription in several processes, its row and its
labels, and a labeler that drops its oldest events or loses its numbering.  After
that it numbers its events from one again, and the event it then sends under a
number is another one than before: `numbering` counts the restarts, and a stored
row remembers under which numbering its event came.  The unique key of the table
knows only the number.

**JetstreamConsumer** is the reconnect loop with a processor and a flusher per
connection, all of which share the cursor; what a lost connection leaves behind
keeps running.  A message of `Malformed` is one `ParseEvent` refuses: it is
logged and passed over (`SkipUnparsed`), and nobody tries it again.

**Subscriptions** is one websocket client, its reader goroutine, a goroutine per
operation with its deferred calls as separate steps, and PubSub.  Connections
meet only in PubSub, which treats all subscribers alike, so one is enough.  A
subscribe message that cannot be run is a frame of its own, with its id or none;
the error that refuses it is on `wire` under that id, with the number of the
newest operation so that what comes before and after it can be told.

**Pagination** is one client that walks through a connection, forward or
backward, page by page, and writers that change the table meanwhile.  A page is
one statement, or two when it may cross from dated to undated rows; the cursor
is the sort field and URI of the last edge as it was read.  The typed and the
generic connection, the timeline and the search have their own requests, with
the arguments each refuses.

**OAuthServer** is the authorize, callback, token, refresh and revoke handlers
with one statement per step, the tables behind them, a clock, the cleanup worker
and the registration and deletion of clients.  A request may end after any
statement.  What a client asks for is one value, its terms; `asked` and
`approved` remember what was asked in a session and what its user granted.

**DPoPReplay** is the lookup and the insertion of a proof's `jti`, in the token
endpoint and in the middleware, against the cleanup worker and the clock.

**Lexicons** is the mutex of a process, the lock of the database, and the
mutations under them in the order of `MutateValidated` (read, write, check the
whole prospective set, commit), with processes that start on the saved set,
refuse to, or die.  A document is what it defines and what it refers to.  A start
also builds the GraphQL schema, which the mutations do not: it fails when a
collection of `Clashes` is in the set, one whose generated names another schema
type or filter extension already has.

**AdminAPI** composes Lexicons with the other admin requests, each a list of
statements left to do: label definitions, labels and negations, reports and
their resolution, labeler URLs, the backfill flag, `resetAll`; and the admin UI
that pages through labels and reports.

**EndorsementClosure** is one page request: its rings (`StartRing`, `EndRing`),
the statements of a ring (`ReadBatch`), the edges they return, which are followed
one by one in the order of the ring (`FollowEdge`), the accounts and degrees so
far, both limits, and the page cut from the result (`SendPage`); awards,
definitions and responses change between any two statements.  The reference is a
path of endorsements, a function from its places to accounts.

## 3. The runs

| Run | Shows | Instance |
| --- | --- | --- |
| `tap_order` | the refinement of IndexLog; history is what it should be; a delete removes it; typed deletes are not repeated; nothing is retired unpublished | two records of one repository, two bodies, two events, two messages in flight |
| `tap_metadata` | metadata belongs to its body, and to the running snapshot | one record, two snapshots (one rejects a body) and no validation, every kind of event, acks disabled, admin purge and reset |
| `tap_liveness` | every event is retired once the connection stays up; a reconciled handle is never older than the last identity event | one record, write, delete, identity and purge, two handles, the reconciler |
| `jet_cursor` | the saved cursor covers what was tried or did not parse; a reconnect leaves no other gap | four events of which one does not parse, two connections and two processes |
| `labeler` | cursor, labels, fatal marker; every event stored or its loss reported; a cursor ahead of the labeler is reported | two processes, three events, the last malformed, three faults |
| `backfill` | success is complete; batches are undisturbed; runs end | two repositories at one server, three records, a full run, an actor run, one edit, one HTTP slot |
| `pagination` | unchanged records are delivered once, in order, completely, and walks end | every table of four records (one does not decode, three match a search), two values of the sort field and NULL, pages of two, one write |
| `subscriptions` | operations can be stopped, streams are clean, what left the map is silent, cancelled operations leave | one id used twice, refused subscribe messages with it and without an id, three events of two collections, a buffer of two |
| `oauth` | tokens carry their grant; a user who returns in time finds his request | two clients, two concurrent requests, one session, three codes or token pairs, clean-ups at both times of the clock |
| `dpop` | a proof is accepted once; its row is removed in the end | two proofs, two requests, retention exactly the age and the deadline together |
| `admin` | the saved Lexicons always pass the check of a start; a registration replaces nothing; resolved reports are labelled; URL removals are lost only to overlaps; pages are complete | two processes with two workers and one, two mutations, two Lexicons of which one may need the other and one fits into no schema, two URLs, two reports |
| `closure` | the closure lies between what was always and what was ever active; pages of unchanging records are the whole closure | five endorsements among four accounts, caps 2 and 4, statements of one issuer, two changes, two pages |

**Bounds.**  All are named constants: `MaxEvents`, `MaxInbox`, `MaxConns`,
`MaxStarts`, `MaxFaults`, `MaxOps`, `MaxFrames`, `MaxSent`, `MaxCommits`,
`MaxWrites`, `Edited`, `MaxSessions`, `MaxIds`, `MaxTime`, `MaxUpload`,
`MaxRequests`, `MaxReports`, `MaxChanges`, `MaxPages`; the buffers and limits of
the code are constants too.  They are small and chosen so that the case each property is about happens: two events and two
messages let a redelivery overtake its ack and meet the next event; two
snapshots are a change of Lexicons; two connections are a leftover processor
beside a new one, two processes a restart; one HTTP slot is a limit that is
reached; two operations under one id are a replacement while the first winds
down, and three events for a buffer of two are a gap in a stream; three faults
are a restarted labeler, a repair and one more failure.  For every
property there is a mutant that breaks it under these bounds, so the bounds are
not too small for the case to arise.  `oauth` has one session, where no two can
be mixed up: that is what its theorems add, which hold for any number.  Symmetry
is used where only safety is checked and the values are interchangeable: workers
and clients in `oauth`, the labeler URLs and the workers of one process in
`admin`.  Deadlock is checked in `dpop` only, where the cleanup worker always
goes on: the other bounded models run out of events, and the systems may rest
when nothing comes in.

**Fairness.**  `tap_liveness`: Tap resends what is not acked (strong, since the
connection comes and goes), a stopped process is started again and the consumer
goroutine runs (weak), and a statement that is tried again and again succeeds at
some time (strong on each statement's success); that the connection stays up is
the property's own premise.  `pagination`: the client goes on
asking and requests return (weak).  `subscriptions`: goroutines run (weak); strong for
`ContextDone`, as Go's `select` chooses at random among ready cases.  `labeler`:
each goroutine runs (weak); faults are bounded.  `backfill`: some goroutine of a
run that can go on does (one weak condition per run, the weakest that suffices);
requests and statements return because the clients have deadlines.  `dpop`: time
passes and the ticker fires (weak), and the cleanup's one statement, which is
tried at every tick, succeeds at some time (strong).  In `tap_liveness` the
reconciler needs no fairness: nothing waits for it.

## 4. What is proved

All of it holds for any sets, streams, limits and bounds that meet the named
assumptions (`RowsAssumption`, `NoRowAssumption`, `TapAssumption`,
`LabelerAssumption`, `BackfillAssumption`, `PaginationAssumption`,
`OAuthAssumption`, `GrantAssumption`, `DPoPAssumption`, `LexiconsAssumption`,
`AdminAssumption`, `JetstreamAssumption`, `SubscriptionsAssumption`,
`ClosureAssumption`: the types of the constants, that the "nothing" values are no
values, that an event's CID is that of its body, that accounts and the rows an
instance begins with are finitely many and that these have ids of their own; and
`RetentionAssumption`, below).

*TapIndexerProofs*: `TypeInvariant`, `MetadataMatches`, `MetadataIsCurrent`.
`MetadataCurrent` is not inductive.  A same-CID repair stores a verdict computed
for the event's body beside the stored body, so rows must have the CID of their
body; the refresh skips a row whose fingerprint is the snapshot's, so a
fingerprint in a row must name a snapshot whose verdict the row really carries,
even when that snapshot ran long ago.  `RowSound` says both, and the inductive
invariant is `TypeOK /\ HandlerHasEvent /\ RowsOK`.  One lemma per statement
(upsert, repair, refresh, legacy row) carries the argument; one step per action
applies it.

The same module, with acks and without admin mutations: `RefinesIndexLog` (the
implementation of IndexLog), `OrphansAreOwed`, `TypedDeletesOnce`; with acks only:
`PublishedWhenRetired`; without `resetAll`: `DeletesRemoveHistory`; without admin
mutations and while no start drops a collection: `HistoryCovers`; and, in every
case, `HandlesFollowTap`.  The difficulty is a message that is delivered again
and is older than the event Tap waits for.  Messages of a repository are read in
the order of their events, a handler that gets to the ack has committed and
published, and so a message that is still on its way when the last event is
applied is that event (`DeliveryOK`).  Whatever such a message says is already in
effect unless it is the first to apply the event Tap waits for (`EffectsOK`), so
every statement is a step of IndexLog or leaves the index alone.  From there,
versions without a record belong to a write that Tap waits for (`OrphansOwed`),
and a typed delete that was heard is of a record that is gone or about to be
written (`TypedOnce`).  For the history a version key must stand for one content,
as the insertion gives way to a row with the same key (`KeySound`, `HistoryOK`).
For the handles an identity event that waits makes what is stored irrelevant;
when none waits, the stored handle, the answers the reconciler holds for rows
without one, and the identity messages on their way all agree with what Tap knows
(`HandlesOK`).

*LabelerProofs*: `LabelerTypes`, `CursorIsCovered`, `FatalStays`,
`CursorAdvances`.  `PersistEvent`
jumps to the sequence number in hand, so everything before it must be stored
already: a connection begins right behind a cursor that was covered when it was
read, and passes an event only by storing it (`GoroutineOK`).

*BackfillProofs*: `RepairsAlwaysMatch`, `ChangesAlwaysReal`.  In a transaction a
task holds the lock of its DID, all records of its batch belong to that DID, and
the rows it found unchanged are locked (`TaskOK`); so two tasks are never in
transactions of one DID, the consumer cannot touch the locked rows, and what it
may touch (rows that did not exist or differed) is remembered as its own.
`SuccessIsComplete` says that a run which reports success left out no record that
existed all the while.  In the inductive invariant (`RunInv`) a run without an
issue accounts for each such record at every moment (`Accounted`): its collection
is still to be discovered, its repository waits or is being fetched, the task has
it in hand, has it to list or is marked as flawed, or it is stored.  Each step of
a task hands a record from one of these to the next or raises the run's issue.
`SlotsAreReturned` and `BackfillTypes` count the slots of `httpSem`, the safety
half of `RunsEnd`, which fails once a request keeps its slot: a full run has at
least as many taken as it has requests under way, and exactly as many unless a
request may panic (`FullSlots`); an actor's run takes none and never resolves
(`ActorSlots`), and discovery, which queues repositories, comes before any of
them has begun.

*PaginationProofs*, for every sort but by a JSON field: `DeliversOnceInOrder`,
`NothingIsLeftBehind`, `PaginationTypes`.  For the first, the client has got no
unchanged record beyond its cursor (`CursorOK`), and what has been read for a page
lies beyond it (`RowsOK`): one lemma shows that each segment of a page does,
whatever the cursor is, another that the order is transitive.  For the second, it
has got all that lasts up to the cursor (`Delivered`), and a row that a page
leaves out comes after all the page has read and is in a segment still to be read,
unless the page is full (`PageOK`).  This takes three facts about the statements.
The segments of a page divide what lies beyond the cursor by a rule that does not
depend on the table (`SegmentsDivide`), which is why writes between two statements
of one page do no harm; rows of a segment come before those of the next
(`SegmentsAreInOrder`); and `ORDER BY ... LIMIT n` leaves a row out only if it
takes n, all of them before that row (`FirstOfIsFull`).  The last counts rows, and
its induction is the choice of a left-out row with fewest before it.  The third
theorem adds that a page is never longer than asked for and one row.

*OAuthProofs*: `TokensGranted`, `ReturnIsFound`.  The rows of a session and
the requests about to write them agree with what was asked in it (`RowsMatch`,
`RequestsMatch`), a request that holds a grant holds an approved one, and codes,
access and refresh tokens are copies of it.  For the second, the handler's three
insertions come before the redirect, so a session whose user may return has
every row unless it expired, its client was deleted or it was answered
(`Excused`); the cleanup worker deletes only by its own, earlier reading of the
clock.

In the same module, about DPoPReplay: `ProofOnce`.  The insertion is a first use, because a row
that is gone was removed so late that no request that verified the proof can
still be in time.  This needs `MaxAge + Deadline <= Retention`
(`RetentionAssumption`); with the program's 300 s, 60 s and 3600 s it holds.

*AdminAPIProofs*: `SnapshotLoads`, `RegistrationIsFirst` of Lexicons alone.  Who
is inside `MutateValidated` holds the database's lock, so what it read and will
check is the table as it is (`Locked`, `ViewsAreCurrent`); the check is then the
startup check of the table that the commit leaves.  It says nothing of the schema
that a start builds next (section 5).  `AdminRefinesLexicons` shows
that every other admin request is a stuttering step to the Lexicons, which carries
both results over to the whole API.  The rest is about the API itself.
`ResolutionsAreLabelled`: a request that is about to set a report's status has
stored its label, and no reset runs over it (`ReportInv`).
`RemovalsLastUnlessOverlapped`: the list a removal will write is what is stored,
or what it was too late to see (`RemovalInv`).  `WalksAreComplete`: what was read
lies at or above the cursor, and what has lasted was read or lies below it
(`WalkInv`); a page leaves out only rows below it (`PageIsOnTop`).  `AdminTypes` is
the type invariant, with ids that are unique among labels and among reports.

*JetstreamProofs*: `JetstreamTypes`, `SavedCursorIsCovered`,
`NoGapBehindConnection`.  The cursor is shared by the processors of all
connections and moves back and forth between them, so no order of its values can
be relied on.  The argument is local to a connection: before an event it holds are
only events that were tried, that do not parse, that a start from live left out,
or that the same connection holds in front of it (`ProcessorsInOrder`,
`ReaderInOrder`).  So the event a processor has just handled has nothing untried
before it, whoever saves it and however late (`CursorsAreBehind`).

*GraphQLProofs*, about Subscriptions: `SubscriptionsTypes`, `RunningCanBeStopped`,
`ClientHearsCleanStreams`, `UnregisteredIsSilent`.  An id may be used again while
the operation that had it winds down.  The map of the client names operations by
their own id and none that is cancelled or about to be (`MapAgrees`); a goroutine
that ends while its operation is registered ends because the connection is broken
(`EndsUnheard`); the events it has sent, resolves, has in its buffer and has still
to come are in order (`EventsInOrder`), what the client has heard under the id
from earlier operations came before (`SentBefore`), and what is registered under an
id that was refused came after the refusal (`RefusedBefore`).  A by-product of `EndsUnheard`:
whenever a goroutine gets to its own `complete` message the connection can no
longer be written to, so the message is never sent.

In the same module, about EndorsementClosure: `ClosureTypes`,
`ClosureStaysBetween`, `PagesReadTheClosure`.  For the second, the ring to be read
is exactly the degree before and the next one exactly the degree that is being
filled (`RingOK`), each account beyond the first degree has a predecessor over an
endorsement that was active (`ViaOK`), and an endorsement that has been active all
along, of an account that is no longer in front, was followed or is still to be:
its issuer has not been read, it waits among the edges, or it was left out and
truncated will say so (`NoneMissed`).  A path to an account is then put together
from a shortest one to its predecessor, and that a path active throughout is
covered follows from the first place on it that would not be: both are arguments
by a least number and need no induction over data.  For the third, a walk over
endorsements that do not change is a sequence of queries of which each determines
the next (`ForemostIsOne`, `Walked`), so two walks of one request that are ready
for a page have the same accounts (`ClosureIsOne`).  The client has read the first
accounts of such a walk, up to its cursor (`ReadSoFar`), and as accounts are in
strict order (`AccountsRise`) the offset of an account's cursor is its place
(`OffsetAfterAnAccount`).

**Only model-checked.**  Liveness (`EventuallyRetired`, `CancelledStops`,
`StoredOrReported`, `AheadIsReported`, `RunsEnd`, `WalkEnds`, `JTIsAreForgotten`): fairness and
ENABLED are outside the prover's reach.  Every invariant and every action property of the
runs is proved.

## 5. Where the code departs from its documents

Six configurations show a disagreement between the code and what a comment or
document of the repository says.  TLC finds each property violated, as it should;
they are kept beside the runs and are started by hand:

    tlc -workers 2 -config TapReset.cfg MCTapIndexer
    tlc -workers 2 -config JetFailed.cfg JetstreamConsumer
    tlc -workers 2 -config BackfillPanic.cfg MCBackfill
    tlc -workers 2 -config PageNull.cfg Pagination
    tlc -workers 2 -config LexiconClash.cfg MCAdminAPI
    tlc -workers 2 -config SubClose.cfg Subscriptions

* `TapReset.cfg` (`DeleteRemovesHistory`): `resetAll` empties `record` but not
  `record_version`, so history outlives its records, against "Deleting a record
  removes its history".
* `JetFailed.cfg` (`CursorCoversApplied`): a commit that fails does not move the
  cursor, but the next success does, and the failed one is never tried again.
* `BackfillPanic.cfg` (`OthersAreProcessed`): a panic inside a request is
  recovered, its slot of `httpSem` is not given back.
* `PageNull.cfg` (`NothingLeftBehind`): a JSON field is compared with the cursor
  by `<` or `>`, which NULL never meets, so a walk ends with records left and
  `hasNextPage` false.
* `LexiconClash.cfg` (`NextStartSucceeds`): a mutation checks the prospective
  set as a start does, but does not build the GraphQL schema; a Lexicon whose
  collection is refused there (`collection_filter_extensions.go:49`) is saved
  and the next start aborts, against "Validate before saving so the next startup
  cannot be broken by a schema that GraphQL or Indigo cannot load"
  (`resolvers.go:600`, and 278 of an upload).
* `SubClose.cfg` (`CloseStopsAll`): a subscribe message pipelined behind the
  frame that closed the client is registered (`handler.go:236`), and the deferred
  close returns early, although `close` "closes the WebSocket connection and all
  subscriptions"; the goroutine runs until a write fails.

Modelling the rest showed, without a configuration of its own:

* `SetHandleIfMissing` keeps a late RepoInfo answer from replacing the handle of
  an identity event, but not from being the first handle of a row that was
  deleted and written again, or of one whose identity event had no handle: then a
  stale handle is stored (`handle_reconciler.go:40` says identity events win).
  `HandleFollowsTap` excepts deleted rows for this reason; without the exception
  TLC finds a trace with three events.
* A labeler that restarts its numbering and passes the saved cursor before the
  next dial, or sends an event under a number that is stored already, loses the
  labels without a report: the cursor is not ahead then, and the insertion gives
  way to the old row.  `StoredOrReported` and `AheadIsReported` except exactly
  these.
* A Jetstream message that does not parse is passed over, and the next success
  saves a cursor behind it.
* A closure that reaches exactly its cap is reported as truncated.
* A Lexicon file whose main definition the parser does not know (neither record
  nor object) makes a start fail, although
  the validator's comment says such Lexicons are skipped.
* `totalCount` of labels and reports counts only the rows below the cursor.
* `removeLabelerSubscribeUrl` reads the list and writes it back: an overlapping
  removal, or a read that fails and falls back to the environment, brings URLs
  back (`RemovalsUndoneOnlyByOverlap` states exactly these exceptions).
* The flag that refuses a second backfill is one per process, and the backfill
  that a start begins does not set it.
* Two resolutions of one report: the last writer wins, and a dismissal can follow
  the label it did not want (`ResolvedIsLabelled` speaks of the status that was
  left).

## 6. Assumptions and abstractions

* TapIndexer: creates and updates are one kind of event (they differ in a name);
  a message that does not parse and one of unknown type are one; activity rows
  are left out, every writer ignores their errors.  Records without a CID are
  modelled; that two identical bodies without a CID share a version key is what
  `VersionKey` says.
* JetstreamConsumer: a processor is assumed to be scheduled before its client is
  replaced; handlers are a success or a failure, their statements being those of
  RecordRows.
* Backfill: row locks follow PostgreSQL, where readers do not wait; SQLite's
  single writer only removes interleavings.  The sharded in-process lock and the
  advisory lock are one lock per DID.  Retries inside the HTTP client, CAR and
  CBOR decoding, actor rows, statistics, records listed without a CID and the
  guard of `TriggerBackfill` are left out.  `RunsEnd` is checked with panics
  outside requests; `BackfillPanic.cfg` shows what a panic inside one does.
* LabelerSubscriber: the labels of one event are one thing, as one transaction
  stores them.
* Pagination: a row that the filters hide is an absent row, so that a change of
  labels or validity is a write; values of the sort field are numbers, as their
  texts compare like the stored values (not so for large JSON numbers).
* OAuthServer: the clock is coarse; scope, PKCE verifier and redirect URI are
  checked against the terms as a whole.  Pushed requests are stored and
  never read by HandleAuthorize, so they are left out.
* Lexicons: a document's JSON is what it defines and refers to; that a schema
  cannot be built is a property of single collections (`Clashes`); the two lock
  forms (advisory lock, SQLite's writer) are one lock.
* EndorsementClosure: profiles and authors of the accounts are left out; DIDs are
  numbers in the order of their strings; a subject that passes the SQL test of a
  DID but not `IsValidDID` is not distinguished.
* Subscriptions: what GraphQL makes of an event is a choice between a payload,
  nothing and errors.

## 7. Hazards without a property, and what is left

Some hazards of the code have no property, because the code accepts them or a
model cannot tell them apart:

* `records.go:2726`: a purge between the version append and the upsert of one
  event leaves a record without its version; no lock spans the two statements.
  `HistoryCoversCurrent` is checked without admin operations.
* `tap/consumer.go:245`: an event that never parses, or whose handler always
  fails, blocks its repository; there is no dead-letter path.
* `jetstream/client.go:228`: Stop may close the channel under a send, which
  panics during shutdown; `jetstream/consumer.go:150`: the flushers of lost
  connections live until the context is cancelled.  Both are in the model.
* `backfill.go:531`: a repository fetched before a live update is written after
  it; the legacy mode documents that it lacks Tap's ordering.
* `builder.go:1789`: a page whose rows all fail to decode has no end cursor
  (`stranded` in Pagination); `builder.go:1562`: the cursor of a large JSON number
  is formatted with an exponent.
* `oauth_handlers.go:801`: a process that dies between the revocation of a refresh
  token and the storage of its successor leaves the client without one.
* `subscription/handler.go:236`: an operation whose subscribe message was
  pipelined behind the frame that made the server close runs, and once the reader
  has left nobody can cancel it.  `RunningIsReachable` excepts it.
* `migrations.go:232`: a migration outside a transaction may stop half way.

Left, in this order: migrations that are interrupted; the filters of typed
queries against a reference definition.

## 8. Not modelled

The activity log and its cleanup (a log beside the index that every writer may
fail to write), `BackfillState` (no caller), configuration (constants of the
models), the database executors (parameter conversion and pools), process wiring
beyond the order of start and stop, the derivation of GraphQL types and SQL
filters from Lexicons (no state), migrations (what they do is the SQL of each
file), preferences (one row of one user, replaced by one statement), statistics,
the DID cache and metadata endpoints of the OAuth server, the requests by which
the admin client asks Tap to add or remove repositories, the web client, and
formatting and parsing utilities.
