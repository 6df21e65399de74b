------------------------------ MODULE Backfill ------------------------------
(***************************************************************************)
(* Historical backfill (backfill/backfill.go): full runs, which discover   *)
(* repositories, resolve their DIDs and fetch them concurrently, and       *)
(* single-actor runs an admin starts; the transaction that stores a batch  *)
(* (BatchUpsertWithValidationForBackfill in repositories/records.go); and  *)
(* the legacy consumer, which writes the same records meanwhile.           *)
(*                                                                         *)
(* A record is told apart by its URI and CID.  A task is one repository in *)
(* one run.                                                                *)
(***************************************************************************)
EXTENDS Integers, FiniteSets, Sequences

CONSTANTS
  Repos, Collections,
  Uris,          \* records, as <<repository, collection>>
  Cids, NoCid,   \* contents; NoCid when there is no record
  FullRuns, ActorRuns, Actor,  \* runs of Run and of BackfillActor, and the latter's DID
  PDSOf,         \* the server of each repository
  MaxHTTPConcurrent, MaxPDSWorkers, MaxConcurrentPerPDS, MaxConcurrentRepos,
  PanicsAt,      \* the steps at which processRepo may panic
  Edited,        \* bound: the records that accounts change
  MaxCommits     \* bound: the changes they make

ASSUME BackfillAssumption ==
  /\ Uris \subseteq Repos \X Collections
  /\ NoCid \notin Cids
  /\ Edited \subseteq Uris
  /\ Actor \in Repos
  /\ FullRuns \intersect ActorRuns = {}
  /\ PDSOf \in [Repos -> Repos]
  /\ {MaxHTTPConcurrent, MaxPDSWorkers, MaxConcurrentPerPDS, MaxConcurrentRepos}
       \subseteq Nat \ {0}
  /\ PanicsAt \subseteq {"fetch", "list", "lock", "classify", "write"}
  /\ MaxCommits \in Nat

Runs == FullRuns \union ActorRuns
Tasks == Runs \X Repos
RunOf(t) == t[1]
UrisOf(repo) == {u \in Uris : u[1] = repo}
Bodies == [Uris -> Cids \union {NoCid}]
Free == <<>>

VARIABLES
  remote,    \* the accounts' records
  commits,   \* changes made so far
  live,      \* the changes whose event the consumer has still to handle, in order
  record,    \* the record table
  rowLock,   \* rows locked by a transaction
  didLock,   \* the backfill lock of each DID
  \* each run
  phase, todo,  \* where Run is; the collections it has still to discover
  http,         \* slots of httpSem in use
  issues,       \* its boundedErrorCollector is not empty
  \* each task
  pc, got, same,   \* where it is, the batch in hand, the part classified as unchanged
  legacy,          \* collections left for the listRecords fallback
  flaw,            \* it has failed in part
  \* what an observer remembers
  writer,    \* who wrote each row last
  stored,    \* records a run has brought into the table, or found there
  kept       \* records that have existed since the run began

accounts == <<remote, commits, live>>
tables == <<record, rowLock, didLock, writer, stored>>
runs == <<phase, todo, http, issues, kept>>
task == <<got, same, legacy, flaw>>
vars == <<accounts, tables, runs, pc, task>>

TypeOK ==
  /\ remote \in Bodies /\ record \in Bodies
  /\ commits \in 0..MaxCommits /\ live \in Seq(Uris \X (Cids \union {NoCid}))
  /\ rowLock \in [Uris -> Tasks \union {Free}]
  /\ didLock \in [Repos -> Tasks \union {Free}]
  /\ phase \in [Runs -> {"idle", "discover", "resolve", "process", "ok", "error"}]
  /\ todo \in [Runs -> SUBSET Collections]
  /\ http \in [Runs -> 0..MaxHTTPConcurrent]
  /\ issues \in [Runs -> BOOLEAN]
  /\ pc \in [Tasks -> {"none", "queued", "resolve", "retry", "resolved", "fetch", "next", "list",
                       "lock", "classify", "write", "end"}]
  /\ got \in [Tasks -> Bodies]
  /\ same \in [Tasks -> SUBSET Uris]
  /\ legacy \in [Tasks -> SUBSET Collections]
  /\ flaw \in [Tasks -> BOOLEAN]
  /\ writer \in [Uris -> {"none", "live", "backfill"}]
  /\ stored \in [Runs -> SUBSET Uris] /\ kept \in [Runs -> SUBSET Uris]

Nowhere == [u \in Uris |-> NoCid]

(* Every record exists; which content it has does not matter. *)
Init ==
  /\ remote = [u \in Uris |-> CHOOSE c \in Cids : TRUE] /\ commits = 0 /\ live = <<>>
  /\ record = Nowhere
  /\ rowLock = [u \in Uris |-> Free] /\ didLock = [d \in Repos |-> Free]
  /\ phase = [r \in Runs |-> "idle"] /\ todo = [r \in Runs |-> {}]
  /\ http = [r \in Runs |-> 0] /\ issues = [r \in Runs |-> FALSE]
  /\ pc = [t \in Tasks |-> "none"]
  /\ got = [t \in Tasks |-> Nowhere] /\ same = [t \in Tasks |-> {}]
  /\ legacy = [t \in Tasks |-> {}] /\ flaw = [t \in Tasks |-> FALSE]
  /\ writer = [u \in Uris |-> "none"]
  /\ stored = [r \in Runs |-> {}] /\ kept = [r \in Runs |-> {}]

Goto(t, label) == pc' = [pc EXCEPT ![t] = label]

-----------------------------------------------------------------------------
(* The accounts and the consumer. *)

Commit(u, c) ==
  /\ commits < MaxCommits
  /\ c # remote[u]
  /\ commits' = commits + 1
  /\ remote' = [remote EXCEPT ![u] = c]
  /\ live' = Append(live, <<u, c>>)
  /\ kept' = [r \in Runs |-> IF c = NoCid THEN kept[r] \ {u} ELSE kept[r]]
  /\ UNCHANGED <<tables, phase, todo, http, issues, pc, task>>

(* handleCommit writes or deletes the row, waiting for whoever locks it. *)
HandleCommit ==
  /\ live # <<>>
  /\ LET u == Head(live)[1]
         c == Head(live)[2]
     IN  /\ rowLock[u] = Free
         /\ record' = [record EXCEPT ![u] = c]
         /\ writer' = IF record[u] = c THEN writer ELSE [writer EXCEPT ![u] = "live"]
  /\ live' = Tail(live)
  /\ UNCHANGED <<remote, commits, rowLock, didLock, stored, runs, pc, task>>

(* An event that cannot be stored is logged and passed over. *)
CommitLost ==
  /\ live # <<>>
  /\ live' = Tail(live)
  /\ UNCHANGED <<remote, commits, tables, runs, pc, task>>

-----------------------------------------------------------------------------
(* Run. *)

(* The configured collections are taken in a fixed order. *)
NextCollection(collections) == CHOOSE c \in collections : TRUE

Existing == {u \in Uris : remote[u] # NoCid}

StartRun(r) ==
  /\ r \in FullRuns
  /\ phase[r] = "idle"
  /\ phase' = [phase EXCEPT ![r] = "discover"]
  /\ todo' = [todo EXCEPT ![r] = Collections]
  /\ kept' = [kept EXCEPT ![r] = Existing]
  /\ UNCHANGED <<accounts, tables, http, issues, pc, task>>

(* The pages of the relay's answer; Run removes duplicates. *)
ListReposByCollection(c) == {u[1] : u \in {v \in Existing : v[2] = c}}

(* The repositories found get a task.  A failure is noted and the next      *)
(* collection tried.                                                        *)
Discover(r) ==
  /\ phase[r] = "discover"
  /\ todo[r] # {}
  /\ todo' = [todo EXCEPT ![r] = @ \ {NextCollection(todo[r])}]
  /\ LET found == ListReposByCollection(NextCollection(todo[r]))
     IN  \/ /\ pc' = [t \in Tasks |-> IF RunOf(t) = r /\ t[2] \in found THEN "queued" ELSE pc[t]]
            /\ UNCHANGED issues
         \/ /\ issues' = [issues EXCEPT ![r] = TRUE]
            /\ UNCHANGED pc
  /\ UNCHANGED <<accounts, tables, phase, http, kept, task>>

TasksIn(r, labels) == {d \in Repos : pc[<<r, d>>] \in labels}

StartResolving(r) ==
  /\ phase[r] = "discover"
  /\ todo[r] = {}
  /\ phase' = [phase EXCEPT ![r] = "resolve"]
  /\ UNCHANGED <<accounts, tables, todo, http, issues, kept, pc, task>>

(* A resolver goroutine takes a slot, asks the DID cache, and on an error   *)
(* once more under httpSem.                                                 *)
Resolve(t) ==
  /\ RunOf(t) \in FullRuns
  /\ phase[RunOf(t)] = "resolve"
  /\ pc[t] = "queued"
  /\ Cardinality(TasksIn(RunOf(t), {"resolve", "retry"})) < MaxConcurrentRepos
  /\ Goto(t, "resolve")
  /\ UNCHANGED <<accounts, tables, runs, task>>

ResolveOnce(t) ==
  /\ pc[t] = "resolve"
  /\ \/ Goto(t, "resolved") /\ UNCHANGED http
     \/ /\ http[RunOf(t)] < MaxHTTPConcurrent
        /\ http' = [http EXCEPT ![RunOf(t)] = @ + 1]
        /\ Goto(t, "retry")
  /\ UNCHANGED <<accounts, tables, phase, todo, issues, kept, task>>

(* Mutant of ResolveAgain: a failed request keeps its slot. *)
ResolveLeaks(t) ==
  /\ pc[t] = "retry"
  /\ \/ /\ Goto(t, "resolved")
        /\ http' = [http EXCEPT ![RunOf(t)] = @ - 1]
        /\ UNCHANGED issues
     \/ /\ Goto(t, "none")
        /\ issues' = [issues EXCEPT ![RunOf(t)] = TRUE]
        /\ UNCHANGED http
  /\ UNCHANGED <<accounts, tables, phase, todo, kept, task>>

ResolveAgain(t) ==
  /\ pc[t] = "retry"
  /\ http' = [http EXCEPT ![RunOf(t)] = @ - 1]
  /\ \/ Goto(t, "resolved") /\ UNCHANGED issues
     \/ Goto(t, "none") /\ issues' = [issues EXCEPT ![RunOf(t)] = TRUE]
  /\ UNCHANGED <<accounts, tables, phase, todo, kept, task>>

StartProcessing(r) ==
  /\ phase[r] = "resolve"
  /\ TasksIn(r, {"queued", "resolve", "retry"}) = {}
  /\ phase' = [phase EXCEPT ![r] = "process"]
  /\ UNCHANGED <<accounts, tables, todo, http, issues, kept, pc, task>>

(* Run returns once every goroutine is through, with the collected errors.  *)
FinishRun(r) ==
  /\ phase[r] = "process"
  /\ TasksIn(r, {"none", "end"}) = Repos
  /\ phase' = [phase EXCEPT ![r] = IF issues[r] THEN "error" ELSE "ok"]
  /\ UNCHANGED <<accounts, tables, todo, http, issues, kept, pc, task>>

(* BackfillActor, which has no semaphores; resolving its DID may fail. *)
StartActor(r) ==
  /\ r \in ActorRuns
  /\ phase[r] = "idle"
  /\ kept' = [kept EXCEPT ![r] = Existing \intersect UrisOf(Actor)]
  /\ \/ /\ phase' = [phase EXCEPT ![r] = "process"]
        /\ Goto(<<r, Actor>>, "resolved")
     \/ /\ phase' = [phase EXCEPT ![r] = "error"]
        /\ UNCHANGED pc
  /\ UNCHANGED <<accounts, tables, todo, http, issues, task>>

-----------------------------------------------------------------------------
(* processRepo, and the same steps of BackfillActor. *)

Working == {"fetch", "next", "list", "lock", "classify", "write"}

(* A repository of a full run waits for its server's slot, which the server *)
(* keeps from its first repository to its last, and for a slot at the       *)
(* server.                                                                  *)
HasSlot(t) ==
  LET r == RunOf(t)
      begun == {PDSOf[d] : d \in TasksIn(r, Working \union {"end"})}
      unfinished == {PDSOf[d] : d \in TasksIn(r, Working \union {"resolved"})}
      atServer == {d \in TasksIn(r, Working) : PDSOf[d] = PDSOf[t[2]]}
  IN  r \in FullRuns =>
        /\ Cardinality((begun \intersect unfinished) \union {PDSOf[t[2]]}) <= MaxPDSWorkers
        /\ Cardinality(atServer) < MaxConcurrentPerPDS

(* httpSem, which only full runs take. *)
AcquireHTTP(t) ==
  IF RunOf(t) \in FullRuns
    THEN /\ http[RunOf(t)] < MaxHTTPConcurrent
         /\ http' = [http EXCEPT ![RunOf(t)] = @ + 1]
    ELSE UNCHANGED http

ReleaseHTTP(t) ==
  http' = IF RunOf(t) \in FullRuns THEN [http EXCEPT ![RunOf(t)] = @ - 1] ELSE http

(* The task ends; what went wrong is added to the issues of its run. *)
End(t, failed) ==
  /\ Goto(t, "end")
  /\ legacy' = [legacy EXCEPT ![t] = {}]
  /\ flaw' = [flaw EXCEPT ![t] = FALSE]
  /\ issues' = [issues EXCEPT ![RunOf(t)] = @ \/ failed]

Fetch(t) ==
  /\ phase[RunOf(t)] = "process"
  /\ pc[t] = "resolved"
  /\ HasSlot(t)
  /\ AcquireHTTP(t)
  /\ Goto(t, "fetch")
  /\ UNCHANGED <<accounts, tables, phase, todo, issues, kept, task>>

Snapshot(uris) == [u \in Uris |-> IF u \in uris THEN remote[u] ELSE NoCid]

(* GetRepo answers with the repository; with a part of it and an integrity  *)
(* failure; with a failure that calls for the fallback; or with an error.   *)
FetchReturns(t) ==
  /\ pc[t] = "fetch"
  /\ ReleaseHTTP(t)
  /\ \/ /\ \E part \in SUBSET UrisOf(t[2]) :
             /\ got' = [got EXCEPT ![t] = Snapshot(part)]
             /\ flaw' = [flaw EXCEPT ![t] = part # UrisOf(t[2])]
        /\ Goto(t, "lock")
        /\ UNCHANGED <<issues, legacy>>
     \/ /\ legacy' = [legacy EXCEPT ![t] = Collections]
        /\ Goto(t, "next")
        /\ UNCHANGED <<issues, got, flaw>>
     \/ /\ End(t, TRUE)
        /\ UNCHANGED got
  /\ UNCHANGED <<accounts, tables, phase, todo, kept, same>>

(* All pages of a collection's records. *)
ListRecords(repo, c) == Snapshot({u \in UrisOf(repo) : u[2] = c})

(* processRepoLegacy: one collection after the other. *)
NextList(t) ==
  /\ pc[t] = "next"
  /\ legacy[t] # {}
  /\ AcquireHTTP(t)
  /\ Goto(t, "list")
  /\ UNCHANGED <<accounts, tables, phase, todo, issues, kept, task>>

(* Mutant of ListReturns: a collection that cannot be listed is left out.   *)
ListSkips(t) ==
  /\ pc[t] = "list"
  /\ ReleaseHTTP(t)
  /\ LET c == NextCollection(legacy[t]) IN
       /\ legacy' = [legacy EXCEPT ![t] = @ \ {c}]
       /\ \/ /\ got' = [got EXCEPT ![t] = ListRecords(t[2], c)]
             /\ Goto(t, "lock")
          \/ Goto(t, "next") /\ UNCHANGED got
  /\ UNCHANGED <<accounts, tables, phase, todo, issues, kept, same, flaw>>

ListReturns(t) ==
  /\ pc[t] = "list"
  /\ ReleaseHTTP(t)
  /\ LET c == NextCollection(legacy[t]) IN
       /\ legacy' = [legacy EXCEPT ![t] = @ \ {c}]
       /\ \/ /\ got' = [got EXCEPT ![t] = ListRecords(t[2], c)]
             /\ Goto(t, "lock")
             /\ UNCHANGED flaw
          \/ /\ flaw' = [flaw EXCEPT ![t] = TRUE]
             /\ Goto(t, "next")
             /\ UNCHANGED got
  /\ UNCHANGED <<accounts, tables, phase, todo, issues, kept, same>>

EndLegacy(t) ==
  /\ pc[t] = "next"
  /\ legacy[t] = {}
  /\ End(t, flaw[t])
  /\ UNCHANGED <<accounts, tables, phase, todo, http, kept, got, same>>

-----------------------------------------------------------------------------
(* BatchUpsertWithValidationForBackfill. *)

Batch(t) == {u \in Uris : got[t][u] # NoCid}

(* The batch is done with, and the locks of its transaction are released.   *)
DropBatch(t) ==
  /\ got' = [got EXCEPT ![t] = Nowhere]
  /\ same' = [same EXCEPT ![t] = {}]
  /\ rowLock' = [u \in Uris |-> IF rowLock[u] = t THEN Free ELSE rowLock[u]]
  /\ didLock' = [didLock EXCEPT ![t[2]] = IF @ = t THEN Free ELSE @]

(* After the batch: the next collection of the fallback, or the end. *)
AfterBatch(t, failed) ==
  /\ DropBatch(t)
  /\ IF legacy[t] # {}
       THEN /\ Goto(t, "next")
            /\ flaw' = [flaw EXCEPT ![t] = @ \/ failed]
            /\ UNCHANGED <<issues, legacy>>
       ELSE End(t, flaw[t] \/ failed)

EmptyBatch(t) ==
  /\ pc[t] = "lock"
  /\ Batch(t) = {}
  /\ AfterBatch(t, FALSE)
  /\ UNCHANGED <<accounts, record, writer, stored, phase, todo, http, kept>>

(* Mutant of LockDID: no lock. *)
LockNothing(t) ==
  /\ pc[t] = "lock"
  /\ Batch(t) # {}
  /\ Goto(t, "classify")
  /\ UNCHANGED <<accounts, tables, runs, task>>

(* The lock of the DID in this process, then the transaction's advisory     *)
(* lock.                                                                    *)
LockDID(t) ==
  /\ pc[t] = "lock"
  /\ Batch(t) # {}
  /\ didLock[t[2]] = Free
  /\ didLock' = [didLock EXCEPT ![t[2]] = t]
  /\ Goto(t, "classify")
  /\ UNCHANGED <<accounts, record, rowLock, writer, stored, runs, task>>

(* Mutant of Classify: SELECT without FOR UPDATE. *)
ClassifyUnlocked(t) ==
  /\ pc[t] = "classify"
  /\ same' = [same EXCEPT ![t] = {u \in Batch(t) : record[u] = got[t][u]}]
  /\ Goto(t, "write")
  /\ UNCHANGED <<accounts, tables, runs, got, legacy, flaw>>

(* getCIDsByURIsTx: waits for the rows of the batch and locks those that    *)
(* exist.                                                                   *)
SelectForUpdate(t) ==
  /\ \A u \in Batch(t) : rowLock[u] = Free
  /\ rowLock' = [u \in Uris |-> IF u \in Batch(t) /\ record[u] # NoCid THEN t ELSE rowLock[u]]

Classify(t) ==
  /\ pc[t] = "classify"
  /\ SelectForUpdate(t)
  /\ same' = [same EXCEPT ![t] = {u \in Batch(t) : record[u] = got[t][u]}]
  /\ Goto(t, "write")
  /\ UNCHANGED <<accounts, record, didLock, writer, stored, runs, got, legacy, flaw>>

Changed(t) == Batch(t) \ same[t]

(* The row count of batchRepairBackfillValidationTx is what it must be. *)
RepairsMatch(t) == \A u \in same[t] : record[u] = got[t][u]

(* The changed rows are upserted, the others repaired, and the transaction  *)
(* commits.                                                                 *)
Write(t) ==
  /\ pc[t] = "write"
  /\ RepairsMatch(t)
  /\ record' = [u \in Uris |-> IF u \in Changed(t) THEN got[t][u] ELSE record[u]]
  /\ writer' = [u \in Uris |-> IF u \in Changed(t) THEN "backfill" ELSE writer[u]]
  /\ stored' = [stored EXCEPT ![RunOf(t)] = @ \union Batch(t)]
  /\ AfterBatch(t, FALSE)
  /\ UNCHANGED <<accounts, phase, todo, http, kept>>

(* A statement fails, or the repair does not find its rows: rolled back.    *)
WriteFails(t) ==
  /\ pc[t] \in {"classify", "write"}
  /\ AfterBatch(t, TRUE)
  /\ UNCHANGED <<accounts, record, writer, stored, phase, todo, http, kept>>

(* safeProcessRepo recovers from a panic: deferred calls roll back and      *)
(* unlock, and the panic counts as an error of the run.  A request's slot   *)
(* of httpSem is released by no deferred call.                              *)
Panic(t) ==
  /\ RunOf(t) \in FullRuns
  /\ pc[t] \in PanicsAt
  /\ DropBatch(t)
  /\ End(t, TRUE)
  /\ UNCHANGED <<accounts, record, writer, stored, phase, todo, http, kept>>

-----------------------------------------------------------------------------
RunStep(r) ==
  \/ StartResolving(r) \/ StartProcessing(r) \/ FinishRun(r) \/ Discover(r)

TaskStep(t) ==
  \/ Resolve(t) \/ ResolveOnce(t) \/ ResolveAgain(t)
  \/ Fetch(t) \/ FetchReturns(t) \/ NextList(t) \/ ListReturns(t) \/ EndLegacy(t)
  \/ EmptyBatch(t) \/ LockDID(t) \/ Classify(t) \/ Write(t) \/ WriteFails(t) \/ Panic(t)

Next ==
  \/ HandleCommit \/ CommitLost
  \/ \E u \in Edited, c \in Cids \union {NoCid} : Commit(u, c)
  \/ \E r \in Runs : StartRun(r) \/ StartActor(r) \/ RunStep(r)
  \/ \E t \in Tasks : TaskStep(t)

Spec == Init /\ [][Next]_vars

(* Some goroutine of a run that can go on does: none waits in the scheduler *)
(* for ever, and requests and statements come back, they have deadlines.    *)
FairSpec ==
  Spec /\ \A r \in Runs : WF_vars(RunStep(r) \/ \E d \in Repos : TaskStep(<<r, d>>))

-----------------------------------------------------------------------------
(* Run and BackfillActor report success only for a complete backfill:       *)
(* every record that existed all the while has been brought into the table  *)
(* or found there, whatever failed on the way was reported.                 *)
CleanRunIsComplete == \A r \in Runs : phase[r] = "ok" => kept[r] \subseteq stored[r]

(* A batch is never aborted by the row count of its repairs: between the    *)
(* classification and the repair the consumer cannot touch those rows.      *)
RepairsFindTheirRows == \A t \in Tasks : pc[t] = "write" => RepairsMatch(t)

(* Overlapping backfills never count, and log as activity, the same change  *)
(* twice: a record about to be reported as changed is not one that another  *)
(* backfill has stored with that CID since the batch was classified.        *)
ChangesAreReal ==
  \A t \in Tasks : pc[t] = "write" =>
    \A u \in Changed(t) : record[u] = got[t][u] => writer[u] = "live"

(* Every full run comes to an end unless a request panics: no semaphore     *)
(* slot or lock is kept by a repository that failed, and none is waited for *)
(* in a circle.                                                             *)
RunsEnd == \A r \in FullRuns : phase[r] = "discover" ~> phase[r] \in {"ok", "error"}

(* The comment on safeProcessRepo, "This prevents a single repo from        *)
(* crashing the entire backfill operation": whatever one repository does,   *)
(* one that waits to be fetched is processed.                               *)
OthersAreProcessed ==
  \A t \in Tasks : pc[t] = "resolved" /\ phase[RunOf(t)] = "process" ~> pc[t] = "end"

=============================================================================
