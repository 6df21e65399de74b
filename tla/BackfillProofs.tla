--------------------------- MODULE BackfillProofs ---------------------------
(***************************************************************************)
(* Proofs about Backfill for any repositories, runs, limits and failures:  *)
(* while a batch is between its classification and its commit, neither the *)
(* consumer nor another backfill invalidates the classification; a run     *)
(* that reports success is complete; and the slots of httpSem are those of *)
(* requests under way.                                                     *)
(*                                                                         *)
(* No property is inductive.  RepairsFindTheirRows rests on the row        *)
(* locks of SELECT ... FOR UPDATE for the consumer, and on the lock of the *)
(* DID for other backfills, since every record of a batch belongs to the   *)
(* DID of its task.                                                        *)
(***************************************************************************)
EXTENDS Backfill, FiniteSetTheorems, TLAPS

Labels == {"none", "queued", "resolve", "retry", "resolved", "fetch", "next", "list",
           "lock", "classify", "write", "end"}

InTransaction == {"classify", "write"}

Types ==
  /\ record \in Bodies
  /\ writer \in [Uris -> {"none", "live", "backfill"}]
  /\ rowLock \in [Uris -> Tasks \union {Free}]
  /\ didLock \in [Repos -> Tasks \union {Free}]
  /\ pc \in [Tasks -> Labels]
  /\ got \in [Tasks -> Bodies]
  /\ same \in [Tasks -> SUBSET Uris]
  /\ remote \in Bodies
  /\ live \in Seq(Uris \X (Cids \union {NoCid}))

(* What a task relies on in its transaction. *)
TaskOK(t) ==
  /\ \A u \in Uris : got[t][u] # NoCid => u[1] = t[2]
  /\ pc[t] \in InTransaction => didLock[t[2]] = t
  /\ pc[t] = "write" => \A u \in same[t] :
       got[t][u] # NoCid /\ rowLock[u] = t /\ record[u] = got[t][u]
  /\ pc[t] = "write" => \A u \in Changed(t) : record[u] = got[t][u] => writer[u] = "live"

Inv == Types /\ \A t \in Tasks : TaskOK(t)

LEMMA InitInv == Init => Inv
  BY BackfillAssumption
     DEF Init, Inv, Types, TaskOK, Labels, InTransaction, Bodies, Nowhere, Tasks, Runs

(* A step that leaves the tables and the batches alone, and takes no task   *)
(* into its transaction.                                                    *)
LEMMA QuietStep ==
  ASSUME Inv, pc' \in [Tasks -> Labels],
         UNCHANGED <<record, writer, rowLock, didLock, got, same>>,
         remote' \in Bodies, live' \in Seq(Uris \X (Cids \union {NoCid})),
         \A t \in Tasks : pc'[t] = pc[t] \/ pc'[t] \notin InTransaction
  PROVE  Inv'
  BY DEF Inv, Types, TaskOK, Changed, Batch, InTransaction

(* Two tasks are never in a transaction of the same DID. *)
LEMMA OneTransaction ==
  ASSUME Inv, NEW s \in Tasks, NEW t \in Tasks, pc[s] \in InTransaction, pc[t] \in InTransaction,
         s[2] = t[2]
  PROVE  s = t
  BY DEF Inv, TaskOK

LEMMA CommitStep ==
  ASSUME Inv, NEW u \in Edited, NEW c \in Cids \union {NoCid}, Commit(u, c)
  PROVE  Inv'
<1>1. u \in Uris
  BY BackfillAssumption
<1>2. remote' \in Bodies
  BY <1>1 DEF Commit, Inv, Types, Bodies
<1>3. live' \in Seq(Uris \X (Cids \union {NoCid}))
  BY <1>1 DEF Commit, Inv, Types
<1> QED
  BY <1>2, <1>3, QuietStep DEF Commit, tables, task, Inv, Types

LEMMA HandleCommitStep == ASSUME Inv, HandleCommit PROVE Inv'
<1> DEFINE u == Head(live)[1]
           c == Head(live)[2]
<1>1. Head(live) \in Uris \X (Cids \union {NoCid}) /\ Tail(live) \in Seq(Uris \X (Cids \union {NoCid}))
  BY DEF HandleCommit, Inv, Types
<1>2. u \in Uris /\ c \in Cids \union {NoCid}
  BY <1>1
<1> HIDE DEF u, c
<1>3. /\ rowLock[u] = Free
      /\ record' = [record EXCEPT ![u] = c]
      /\ writer' = IF record[u] = c THEN writer ELSE [writer EXCEPT ![u] = "live"]
      /\ live' = Tail(live)
      /\ UNCHANGED <<remote, rowLock, didLock, pc, got, same>>
  BY DEF HandleCommit, u, c, task
<1>4. Types'
  BY <1>1, <1>2, <1>3 DEF Inv, Types, Bodies
<1>5. ASSUME NEW t \in Tasks PROVE TaskOK(t)'
  <2>1. rowLock[u] # t
    BY <1>3, <1>5 DEF Free, Tasks
  <2>2. CASE pc[t] # "write"
    BY <1>3, <2>2, <1>5 DEF Inv, TaskOK
  <2>3. CASE pc[t] = "write"
    <3>1. TaskOK(t) /\ same[t] \subseteq Uris
      BY <1>5 DEF Inv, Types
    <3>2. \A v \in same[t] : v # u
      BY <2>1, <2>3, <3>1 DEF TaskOK
    <3>3. \A v \in Uris : v # u => record'[v] = record[v] /\ writer'[v] = writer[v]
      BY <1>2, <1>3 DEF Inv, Types, Bodies
    <3>4. Changed(t)' = Changed(t) /\ Changed(t) \subseteq Uris
      BY <1>3 DEF Changed, Batch
    <3>5. \A v \in Changed(t) : record'[v] = got[t][v] => writer'[v] = "live"
      <4> TAKE v \in Changed(t)
      <4>1. CASE v # u
        BY <4>1, <3>1, <3>3, <3>4, <2>3 DEF TaskOK
      <4>2. CASE v = u /\ record[u] = c
        BY <4>2, <3>1, <1>2, <1>3, <2>3 DEF TaskOK, Inv, Types, Bodies
      <4>3. CASE v = u /\ record[u] # c
        BY <4>3, <1>2, <1>3 DEF Inv, Types, Bodies
      <4> QED
        BY <4>1, <4>2, <4>3
    <3>6. \A v \in same[t] : got[t][v] # NoCid /\ rowLock'[v] = t /\ record'[v] = got[t][v]
      BY <3>1, <3>2, <3>3, <2>3, <1>3 DEF TaskOK
    <3> QED
      BY <1>3, <3>1, <3>4, <3>5, <3>6 DEF TaskOK
  <2> QED
    BY <2>2, <2>3
<1> QED
  BY <1>4, <1>5 DEF Inv

(* A task leaves its transaction, or ends without one: its batch and its    *)
(* locks are gone, and the rows of other tasks are as they were.            *)
LEMMA DropStep ==
  ASSUME Inv, NEW t \in Tasks, DropBatch(t),
         NEW label \in Labels \ InTransaction, Goto(t, label),
         record' \in Bodies, writer' \in [Uris -> {"none", "live", "backfill"}],
         UNCHANGED <<remote, live>>,
         \A u \in Uris : \/ record'[u] = record[u] /\ writer'[u] = writer[u]
                         \/ pc[t] \in InTransaction /\ u[1] = t[2]
  PROVE  Inv'
<1>1. Types'
  BY DEF Inv, Types, DropBatch, Goto, Nowhere, Bodies, Tasks
<1>2. ASSUME NEW s \in Tasks PROVE TaskOK(s)'
  <2>1. CASE s = t
    <3>1. pc'[t] = label /\ got'[t] = Nowhere
      BY DEF Inv, Types, DropBatch, Goto
    <3>2. pc'[t] \notin InTransaction /\ pc'[t] # "write"
      BY <3>1 DEF InTransaction
    <3>3. \A u \in Uris : got'[t][u] = NoCid
      BY <3>1 DEF Nowhere
    <3> QED
      BY <2>1, <3>2, <3>3 DEF TaskOK
  <2>2. CASE s # t
    <3>1. /\ pc'[s] = pc[s] /\ got'[s] = got[s] /\ same'[s] = same[s]
          /\ Changed(s)' = Changed(s)
      BY <2>2 DEF Inv, Types, DropBatch, Goto, Changed, Batch
    <3>2. TaskOK(s)
      BY DEF Inv
    <3>3. \A u \in Uris : rowLock[u] = s => rowLock'[u] = s
      BY <2>2 DEF Inv, Types, DropBatch
    <3>4. didLock[s[2]] = s => didLock'[s[2]] = s
      BY <2>2 DEF Inv, Types, DropBatch, Tasks
    <3>5. CASE pc[s] = "write"
      <4>1. \A u \in same[s] \union Changed(s) : u \in Uris
        BY DEF Inv, Types, Changed, Batch
      <4>2. \A u \in Changed(s) : record'[u] = record[u] /\ writer'[u] = writer[u]
        <5> TAKE u \in Changed(s)
        <5>1. u[1] = s[2]
          BY <3>2, <4>1 DEF TaskOK, Changed, Batch
        <5>2. ~(pc[t] \in InTransaction /\ u[1] = t[2])
          BY <5>1, <2>2, <3>5, OneTransaction DEF InTransaction
        <5> QED
          BY <5>2, <4>1
      <4>3. \A u \in same[s] : record'[u] = record[u]
        <5> TAKE u \in same[s]
        <5>1. u[1] = s[2]
          BY <3>2, <3>5, <4>1 DEF TaskOK
        <5>2. ~(pc[t] \in InTransaction /\ u[1] = t[2])
          BY <5>1, <2>2, <3>5, OneTransaction DEF InTransaction
        <5> QED
          BY <5>2, <4>1
      <4> QED
        BY <3>1, <3>2, <3>3, <3>4, <3>5, <4>1, <4>2, <4>3 DEF TaskOK
    <3>6. CASE pc[s] # "write"
      BY <3>1, <3>2, <3>4, <3>6 DEF TaskOK
    <3> QED
      BY <3>5, <3>6
  <2> QED
    BY <2>1, <2>2
<1> QED
  BY <1>1, <1>2 DEF Inv

LEMMA EndLabel ==
  /\ "end" \in Labels \ InTransaction /\ "next" \in Labels \ InTransaction
  /\ "lock" \in Labels \ InTransaction
  BY DEF Labels, InTransaction

LEMMA AfterBatchStep ==
  ASSUME Inv, NEW t \in Tasks, NEW failed, AfterBatch(t, failed),
         record' \in Bodies, writer' \in [Uris -> {"none", "live", "backfill"}],
         UNCHANGED <<remote, live>>,
         \A u \in Uris : \/ record'[u] = record[u] /\ writer'[u] = writer[u]
                         \/ pc[t] \in InTransaction /\ u[1] = t[2]
  PROVE  Inv'
<1>1. DropBatch(t) /\ (Goto(t, "next") \/ Goto(t, "end"))
  BY DEF AfterBatch, End
<1> QED
  BY <1>1, EndLabel, DropStep

LEMMA WriteStep == ASSUME Inv, NEW t \in Tasks, Write(t) PROVE Inv'
<1>1. Changed(t) \subseteq Uris /\ \A u \in Changed(t) : u[1] = t[2] /\ got[t][u] \in Cids \union {NoCid}
  BY DEF Inv, Types, TaskOK, Changed, Batch, Bodies
<1>2. record' \in Bodies /\ writer' \in [Uris -> {"none", "live", "backfill"}]
  BY <1>1 DEF Write, Inv, Types, Bodies
<1>3. \A u \in Uris : \/ record'[u] = record[u] /\ writer'[u] = writer[u]
                      \/ pc[t] \in InTransaction /\ u[1] = t[2]
  BY <1>1 DEF Write, InTransaction
<1> QED
  BY <1>2, <1>3, AfterBatchStep DEF Write, accounts

LEMMA RollbackStep ==
  ASSUME Inv, NEW t \in Tasks, EmptyBatch(t) \/ WriteFails(t) \/ Panic(t)
  PROVE  Inv'
<1>1. record' \in Bodies /\ writer' \in [Uris -> {"none", "live", "backfill"}]
      /\ UNCHANGED <<record, writer, remote, live>>
  BY DEF EmptyBatch, WriteFails, Panic, accounts, Inv, Types
<1>2. CASE EmptyBatch(t) \/ WriteFails(t)
  BY <1>1, <1>2, AfterBatchStep DEF EmptyBatch, WriteFails
<1>3. CASE Panic(t)
  BY <1>1, <1>3, DropStep, EndLabel DEF Panic, End
<1> QED
  BY <1>2, <1>3

(* A batch arrives. *)
LEMMA BatchStep ==
  ASSUME Inv, NEW t \in Tasks, FetchReturns(t) \/ ListReturns(t)
  PROVE  Inv'
<1>1. UNCHANGED <<record, writer, rowLock, didLock, same, remote, live>>
  BY DEF FetchReturns, ListReturns, ListRecords, accounts, tables
<1>2. \/ UNCHANGED got /\ (Goto(t, "next") \/ Goto(t, "end"))
      \/ Goto(t, "lock") /\ \E part \in SUBSET UrisOf(t[2]) : got' = [got EXCEPT ![t] = Snapshot(part)]
  BY DEF FetchReturns, ListReturns, ListRecords, UrisOf, End
<1>3. CASE UNCHANGED got /\ (Goto(t, "next") \/ Goto(t, "end"))
  BY <1>1, <1>3, QuietStep, EndLabel DEF Goto, Inv, Types
<1>4. CASE Goto(t, "lock") /\ \E part \in SUBSET UrisOf(t[2]) : got' = [got EXCEPT ![t] = Snapshot(part)]
  <2>1. PICK part \in SUBSET UrisOf(t[2]) : got' = [got EXCEPT ![t] = Snapshot(part)]
    BY <1>4
  <2>2. Snapshot(part) \in Bodies /\ \A u \in Uris : Snapshot(part)[u] # NoCid => u[1] = t[2]
    BY <2>1 DEF Snapshot, UrisOf, Bodies, Inv, Types
  <2>3. Types'
    BY <1>1, <1>4, <2>1, <2>2, EndLabel DEF Goto, Inv, Types
  <2>4. ASSUME NEW s \in Tasks PROVE TaskOK(s)'
    <3>1. CASE s = t
      BY <1>4, <2>1, <2>2, <3>1, EndLabel DEF Goto, Inv, Types, TaskOK, InTransaction
    <3>2. CASE s # t
      <4>1. pc'[s] = pc[s] /\ got'[s] = got[s] /\ Changed(s)' = Changed(s) /\ TaskOK(s)
        BY <1>1, <1>4, <2>1, <3>2 DEF Goto, Inv, Types, Changed, Batch
      <4> QED
        BY <1>1, <4>1 DEF TaskOK
    <3> QED
      BY <3>1, <3>2
  <2> QED
    BY <2>3, <2>4 DEF Inv
<1> QED
  BY <1>2, <1>3, <1>4

LEMMA LockStep == ASSUME Inv, NEW t \in Tasks, LockDID(t) PROVE Inv'
<1>1. /\ t[2] \in Repos /\ didLock[t[2]] = Free /\ pc[t] = "lock"
      /\ didLock' = [didLock EXCEPT ![t[2]] = t] /\ pc' = [pc EXCEPT ![t] = "classify"]
      /\ UNCHANGED <<record, writer, rowLock, got, same, remote, live>>
  BY DEF LockDID, Goto, task, accounts, Tasks
<1>2. Types'
  BY <1>1 DEF Inv, Types, Labels
<1>3. ASSUME NEW s \in Tasks PROVE TaskOK(s)'
  <2>1. Free # s /\ TaskOK(s)
    BY DEF Free, Tasks, Inv
  <2>2. got'[s] = got[s] /\ Changed(s)' = Changed(s)
    BY <1>1 DEF Changed, Batch
  <2>3. pc'[s] \in InTransaction => didLock'[s[2]] = s
    BY <1>1, <2>1 DEF Inv, Types, TaskOK, Tasks
  <2>4. pc'[s] = "write" => pc[s] = "write"
    BY <1>1 DEF Inv, Types
  <2> QED
    BY <1>1, <2>1, <2>2, <2>3, <2>4 DEF TaskOK
<1> QED
  BY <1>2, <1>3 DEF Inv

LEMMA ClassifyStep == ASSUME Inv, NEW t \in Tasks, Classify(t) PROVE Inv'
<1>1. /\ pc[t] = "classify" /\ pc' = [pc EXCEPT ![t] = "write"]
      /\ \A u \in Batch(t) : rowLock[u] = Free
      /\ rowLock' = [u \in Uris |-> IF u \in Batch(t) /\ record[u] # NoCid THEN t ELSE rowLock[u]]
      /\ same' = [same EXCEPT ![t] = {u \in Batch(t) : record[u] = got[t][u]}]
      /\ UNCHANGED <<record, writer, didLock, got, remote, live>>
  BY DEF Classify, SelectForUpdate, Goto, accounts
<1>2. Batch(t) \subseteq Uris
  BY DEF Batch
<1>3. Types'
  BY <1>1, <1>2 DEF Inv, Types, Labels
<1>4. ASSUME NEW s \in Tasks PROVE TaskOK(s)'
  <2>1. Free # s /\ TaskOK(s)
    BY DEF Free, Tasks, Inv
  <2>2. CASE s = t
    <3>1. same'[t] = {u \in Batch(t) : record[u] = got[t][u]}
      BY <1>1 DEF Inv, Types
    <3>2. \A u \in same'[t] : got[t][u] # NoCid /\ rowLock'[u] = t /\ record[u] = got[t][u]
      BY <1>1, <1>2, <3>1 DEF Batch
    <3>3. \A u \in Changed(t)' : record[u] # got[t][u]
      BY <1>1, <3>1 DEF Changed, Batch
    <3>4. didLock[t[2]] = t
      BY <1>1, <2>1, <2>2 DEF TaskOK, InTransaction
    <3> QED
      BY <1>1, <2>1, <2>2, <3>2, <3>3, <3>4 DEF TaskOK
  <2>3. CASE s # t
    <3>1. pc'[s] = pc[s] /\ same'[s] = same[s] /\ Changed(s)' = Changed(s)
      BY <1>1, <2>3 DEF Inv, Types, Changed, Batch
    <3>2. \A u \in Uris : rowLock[u] = s => rowLock'[u] = s
      BY <1>1, <2>1
    <3>3. same[s] \subseteq Uris
      BY DEF Inv, Types
    <3> QED
      BY <1>1, <2>1, <3>1, <3>2, <3>3 DEF TaskOK
  <2> QED
    BY <2>2, <2>3
<1> QED
  BY <1>3, <1>4 DEF Inv

(* The steps of a run, and those of a task outside its transaction. *)
LEMMA RunQuiet ==
  ASSUME Inv, NEW r \in Runs, StartRun(r) \/ StartActor(r) \/ RunStep(r)
  PROVE  Inv'
<1>1. UNCHANGED <<record, writer, rowLock, didLock, got, same, remote, live>>
  BY DEF StartRun, StartActor, RunStep, StartResolving, StartProcessing, FinishRun, Discover,
         tables, accounts, task
<1>2. CASE StartRun(r) \/ StartResolving(r) \/ StartProcessing(r) \/ FinishRun(r)
  BY <1>1, <1>2, QuietStep
     DEF StartRun, StartResolving, StartProcessing, FinishRun, Inv, Types
<1>3. CASE StartActor(r)
  <2>1. <<r, Actor>> \in Tasks /\ "resolved" \in Labels \ InTransaction
    BY BackfillAssumption DEF Tasks, Labels, InTransaction
  <2>2. UNCHANGED pc \/ pc' = [pc EXCEPT ![<<r, Actor>>] = "resolved"]
    BY <1>3 DEF StartActor, Goto
  <2> QED
    BY <1>1, <2>1, <2>2, QuietStep DEF Inv, Types
<1>4. CASE Discover(r)
  <2>1. "queued" \in Labels \ InTransaction
    BY DEF Labels, InTransaction
  <2>2. /\ pc' \in [Tasks -> Labels]
        /\ \A t \in Tasks : pc'[t] = pc[t] \/ pc'[t] = "queued"
    BY <1>4, <2>1 DEF Discover, Inv, Types
  <2> QED
    BY <1>1, <2>1, <2>2, QuietStep DEF Inv, Types
<1> QED
  BY <1>2, <1>3, <1>4 DEF RunStep

LEMMA TaskQuiet ==
  ASSUME Inv, NEW t \in Tasks,
         \/ Resolve(t) \/ ResolveOnce(t) \/ ResolveAgain(t)
         \/ Fetch(t) \/ NextList(t) \/ EndLegacy(t)
  PROVE  Inv'
<1>1. UNCHANGED <<record, writer, rowLock, didLock, got, same, remote, live>>
  BY DEF Resolve, ResolveOnce, ResolveAgain, Fetch, NextList, EndLegacy, tables, accounts, task
<1>2. \E label \in {"resolve", "retry", "resolved", "none", "fetch", "list", "end"} : Goto(t, label)
  BY DEF Resolve, ResolveOnce, ResolveAgain, Fetch, NextList, EndLegacy, End
<1>3. PICK label \in Labels \ InTransaction : pc' = [pc EXCEPT ![t] = label]
  BY <1>2 DEF Labels, InTransaction, Goto
<1> QED
  BY <1>1, <1>3, QuietStep DEF Inv, Types

LEMMA CommitLostStep == ASSUME Inv, CommitLost PROVE Inv'
<1>1. live' \in Seq(Uris \X (Cids \union {NoCid}))
  BY DEF CommitLost, Inv, Types
<1> QED
  BY <1>1, QuietStep DEF CommitLost, tables, task, Inv, Types

LEMMA NextInv == ASSUME Inv, [Next]_vars PROVE Inv'
<1>1. CASE HandleCommit
  BY <1>1, HandleCommitStep
<1>2. CASE CommitLost
  BY <1>2, CommitLostStep
<1>3. CASE \E u \in Edited, c \in Cids \union {NoCid} : Commit(u, c)
  BY <1>3, CommitStep
<1>4. CASE \E r \in Runs : StartRun(r) \/ StartActor(r) \/ RunStep(r)
  BY <1>4, RunQuiet
<1>5. CASE \E t \in Tasks : TaskStep(t)
  <2> PICK t \in Tasks : TaskStep(t)
    BY <1>5
  <2> QED
    BY TaskQuiet, BatchStep, RollbackStep, LockStep, ClassifyStep, WriteStep DEF TaskStep
<1>6. CASE UNCHANGED vars
  BY <1>6, QuietStep DEF vars, tables, accounts, task, Inv, Types
<1> QED
  BY <1>1, <1>2, <1>3, <1>4, <1>5, <1>6 DEF Next

LEMMA Invariance == Spec => []Inv
<1>1. Init => Inv
  BY InitInv
<1>2. Inv /\ [Next]_vars => Inv'
  BY NextInv
<1> QED
  BY <1>1, <1>2, PTL DEF Spec

(* No batch of any backfill is aborted because the rows it repairs are no   *)
(* longer the ones it classified: SELECT ... FOR UPDATE keeps the consumer  *)
(* from them, and the lock of the DID keeps other backfills from them.      *)
THEOREM RepairsAlwaysMatch == Spec => []RepairsFindTheirRows
<1>1. Inv => RepairsFindTheirRows
  BY DEF Inv, TaskOK, RepairsFindTheirRows, RepairsMatch
<1> QED
  BY <1>1, Invariance, PTL

(* However many backfills overlap, a record that one of them is about to    *)
(* count and log as changed has not been stored with that CID by another    *)
(* one since the batch was classified.                                      *)
THEOREM ChangesAlwaysReal == Spec => []ChangesAreReal
<1>1. Inv => ChangesAreReal
  BY DEF Inv, TaskOK, ChangesAreReal
<1> QED
  BY <1>1, Invariance, PTL
-----------------------------------------------------------------------------
(* A run that reports success is complete.  Every record that has existed   *)
(* since the run began is accounted for as long as the run has no issue: it *)
(* is still to be discovered, or its repository to be fetched, or its       *)
(* collection to be listed, or it is in the batch in hand, or stored; or    *)
(* the task will report that it failed in part.                             *)

UnderWay == {"next", "list", "lock", "classify", "write"}
InHand == {"lock", "classify", "write"}

Accounted(r, u) ==
  LET t == <<r, u[1]>>
  IN  \/ phase[r] = "discover" /\ u[2] \in todo[r]
      \/ pc[t] \in {"queued", "resolve", "retry", "resolved", "fetch"}
      \/ pc[t] \in UnderWay /\ (flaw[t] \/ u[2] \in legacy[t])
      \/ pc[t] \in InHand /\ got[t][u] # NoCid
      \/ u \in stored[r]

RunTypes ==
  /\ phase \in [Runs -> {"idle", "discover", "resolve", "process", "ok", "error"}]
  /\ todo \in [Runs -> SUBSET Collections]
  /\ issues \in [Runs -> BOOLEAN]
  /\ legacy \in [Tasks -> SUBSET Collections]
  /\ flaw \in [Tasks -> BOOLEAN]
  /\ stored \in [Runs -> SUBSET Uris] /\ kept \in [Runs -> SUBSET Uris]

Going == {"discover", "resolve", "process"}

RunOK(r) ==
  /\ kept[r] \subseteq Existing
  /\ phase[r] \in Going /\ ~issues[r] => \A u \in kept[r] : Accounted(r, u)
  /\ phase[r] = "ok" => kept[r] \subseteq stored[r]

RunInv == RunTypes /\ \A r \in Runs : RunOK(r)

LEMMA UrisAreTasks ==
  ASSUME NEW r \in Runs, NEW u \in Uris
  PROVE  <<r, u[1]>> \in Tasks /\ u[2] \in Collections /\ u[1] \in Repos
BY BackfillAssumption DEF Tasks

LEMMA RunInitInv == Init => RunInv
<1> SUFFICES ASSUME Init PROVE RunInv
  OBVIOUS
<1>1. issues \in [Runs -> BOOLEAN] /\ flaw \in [Tasks -> BOOLEAN]
  BY DEF Init
<1>2. RunTypes
  BY <1>1 DEF Init, RunTypes
<1>3. ASSUME NEW r \in Runs PROVE phase[r] = "idle" /\ kept[r] = {}
  BY DEF Init
<1> QED BY <1>2, <1>3 DEF RunInv, RunOK, Going

(* What one task does touches the accounts of its own records alone. *)
LEMMA TaskAccount ==
  ASSUME RunInv, RunTypes', NEW t \in Tasks,
         UNCHANGED <<phase, todo, kept, remote>>,
         \A r \in Runs : stored[r] \subseteq stored'[r] /\ (issues[r] => issues'[r]),
         \A s \in Tasks : s # t => /\ pc'[s] = pc[s] /\ got'[s] = got[s]
                                   /\ legacy'[s] = legacy[s] /\ flaw'[s] = flaw[s],
         \A u \in Uris : u[1] = t[2] /\ u \in Existing /\ ~issues'[t[1]] /\ Accounted(t[1], u)
           => Accounted(t[1], u)'
  PROVE  RunInv'
<1>1. ASSUME NEW r \in Runs PROVE RunOK(r)'
  <2>1. RunOK(r) /\ kept[r] \subseteq Uris
    BY DEF RunInv, RunTypes
  <2>2. kept'[r] \subseteq Existing'
    BY <2>1 DEF RunOK, Existing
  <2>3. phase'[r] = "ok" => kept'[r] \subseteq stored'[r]
    BY <2>1 DEF RunOK
  <2>4. ASSUME phase'[r] \in Going, ~issues'[r], NEW u \in kept[r]
        PROVE  Accounted(r, u)'
    <3>1. u \in Uris /\ u \in Existing /\ Accounted(r, u)
      BY <2>1, <2>4 DEF RunOK
    <3>2. <<r, u[1]>> \in Tasks
      BY <3>1, UrisAreTasks
    <3>3. CASE <<r, u[1]>> = t
      <4>1. t[1] = r /\ t[2] = u[1]
        BY <3>3
      <4> QED BY <2>4, <3>1, <4>1
    <3>4. CASE <<r, u[1]>> # t
      BY <3>1, <3>2, <3>4 DEF Accounted
    <3> QED BY <3>3, <3>4
  <2> QED BY <2>2, <2>3, <2>4 DEF RunOK
<1> QED BY <1>1 DEF RunInv

(* A task takes a step that ends nothing. *)
LEMMA TaskMoves ==
  ASSUME Inv, RunInv, NEW t \in Tasks,
         \/ Resolve(t) \/ ResolveOnce(t) \/ Fetch(t) \/ NextList(t) \/ LockDID(t) \/ Classify(t)
  PROVE  RunInv'
<1>1. UNCHANGED <<phase, todo, kept, remote, issues, stored, got, legacy, flaw>>
  BY DEF Resolve, ResolveOnce, Fetch, NextList, LockDID, Classify, runs, task, tables, accounts
<1>2. /\ \A s \in Tasks : s # t => pc'[s] = pc[s]
      /\ \/ /\ pc[t] \in {"queued", "resolve", "resolved"}
            /\ pc'[t] \in {"resolve", "retry", "resolved", "fetch"}
         \/ pc[t] = "next" /\ pc'[t] = "list"
         \/ pc[t] \in InHand /\ pc'[t] \in InHand
  BY DEF Resolve, ResolveOnce, Fetch, NextList, LockDID, Classify, Goto, Inv, Types, InHand
<1>3. RunTypes'
  BY <1>1 DEF RunInv, RunTypes
<1>4. t = <<t[1], t[2]>> /\ t[1] \in Runs
  BY DEF Tasks
<1>5. ASSUME NEW u \in Uris, u[1] = t[2], Accounted(t[1], u)
      PROVE  Accounted(t[1], u)'
  BY <1>1, <1>2, <1>4, <1>5 DEF Accounted, InHand, UnderWay
<1> QED BY <1>1, <1>2, <1>3, <1>5, TaskAccount

(* A task that ends: its failure is an issue of its run. *)
LEMMA EndFacts ==
  ASSUME Inv, RunTypes, NEW t \in Tasks, NEW failed \in BOOLEAN, End(t, failed)
  PROVE  /\ \A s \in Tasks : s # t => /\ pc'[s] = pc[s] /\ legacy'[s] = legacy[s]
                                      /\ flaw'[s] = flaw[s]
         /\ legacy' \in [Tasks -> SUBSET Collections] /\ flaw' \in [Tasks -> BOOLEAN]
         /\ issues' \in [Runs -> BOOLEAN]
         /\ \A r \in Runs : issues[r] => issues'[r]
         /\ failed => issues'[t[1]]
<1>1. t[1] \in Runs
  BY DEF Tasks
<1>2. \A s \in Tasks : s # t => pc'[s] = pc[s] /\ legacy'[s] = legacy[s] /\ flaw'[s] = flaw[s]
  BY DEF End, Goto, Inv, Types, RunTypes
<1>3. legacy' \in [Tasks -> SUBSET Collections] /\ flaw' \in [Tasks -> BOOLEAN]
  BY DEF End, RunTypes
<1>4. issues' = [issues EXCEPT ![t[1]] = issues[t[1]] \/ failed]
  BY DEF End, RunOf
<1>5. issues \in [Runs -> BOOLEAN]
  BY DEF RunTypes
<1>6. issues' \in [Runs -> BOOLEAN]
  BY <1>1, <1>4, <1>5
<1>7. issues'[t[1]] = (issues[t[1]] \/ failed) /\ \A r \in Runs : r # t[1] => issues'[r] = issues[r]
  BY <1>1, <1>4, <1>5
<1> QED BY <1>1, <1>2, <1>3, <1>6, <1>7

(* A task gives up: the run has an issue, and nothing is left to show. *)
LEMMA TaskGivesUp ==
  ASSUME Inv, RunInv, NEW t \in Tasks,
         \/ ResolveAgain(t) \/ Panic(t)
  PROVE  RunInv'
<1>0. t[1] \in Runs /\ t = <<t[1], t[2]>>
  BY DEF Tasks
<1>t. RunTypes
  BY DEF RunInv
<1>1. CASE ResolveAgain(t)
  <2>1. UNCHANGED <<phase, todo, kept, remote, stored, got, legacy, flaw>>
    BY <1>1 DEF ResolveAgain, task, tables, accounts
  <2>2. \A s \in Tasks : s # t => pc'[s] = pc[s]
    BY <1>1 DEF ResolveAgain, Goto, Inv, Types
  <2>3. CASE UNCHANGED issues /\ Goto(t, "resolved")
    <3>1. pc'[t] = "resolved"
      BY <2>3 DEF Goto, Inv, Types
    <3>2. ASSUME NEW u \in Uris, u[1] = t[2] PROVE Accounted(t[1], u)'
      BY <1>0, <3>1, <3>2 DEF Accounted
    <3>3. RunTypes'
      BY <1>t, <2>1, <2>3 DEF RunTypes
    <3> QED BY <2>1, <2>2, <2>3, <3>2, <3>3, TaskAccount
  <2>4. CASE issues' = [issues EXCEPT ![t[1]] = TRUE]
    <3>1. /\ issues' \in [Runs -> BOOLEAN] /\ issues'[t[1]]
          /\ \A r \in Runs : issues[r] => issues'[r]
      BY <1>0, <1>t, <2>4 DEF RunTypes
    <3>2. RunTypes'
      BY <1>t, <2>1, <3>1 DEF RunTypes
    <3> QED BY <2>1, <2>2, <3>1, <3>2, TaskAccount
  <2> QED BY <1>1, <2>3, <2>4 DEF ResolveAgain, RunOf
<1>2. CASE Panic(t)
  <2>1. UNCHANGED <<phase, todo, kept, remote, stored>> /\ End(t, TRUE) /\ DropBatch(t)
    BY <1>2 DEF Panic, accounts
  <2>2. \A s \in Tasks : s # t => got'[s] = got[s]
    BY <2>1 DEF DropBatch, Inv, Types
  <2>3. RunTypes'
    BY <1>t, <2>1, EndFacts DEF RunTypes
  <2>4. issues'[t[1]]
    BY <1>t, <2>1, EndFacts
  <2> QED BY <1>t, <2>1, <2>2, <2>3, <2>4, EndFacts, TaskAccount
<1> QED BY <1>1, <1>2

(* Requests come back. *)
LEMMA TaskAnswers ==
  ASSUME Inv, RunInv, NEW t \in Tasks, FetchReturns(t) \/ ListReturns(t)
  PROVE  RunInv'
<1>0. t[1] \in Runs /\ t = <<t[1], t[2]>>
  BY DEF Tasks
<1>t. RunTypes
  BY DEF RunInv
<1>1. UNCHANGED <<phase, todo, kept, remote, stored>>
  BY DEF FetchReturns, ListReturns, tables, accounts
<1>2. ASSUME NEW part \in SUBSET UrisOf(t[2]), pc[t] = "fetch",
             got' = [got EXCEPT ![t] = Snapshot(part)],
             flaw' = [flaw EXCEPT ![t] = part # UrisOf(t[2])],
             Goto(t, "lock"), UNCHANGED <<issues, legacy>>
      PROVE  RunInv'
  <2>1. /\ \A s \in Tasks : s # t => pc'[s] = pc[s] /\ got'[s] = got[s]
        /\ pc'[t] = "lock" /\ got'[t] = Snapshot(part)
    BY <1>2 DEF Goto, Inv, Types
  <2>2. /\ flaw' \in [Tasks -> BOOLEAN] /\ \A s \in Tasks : s # t => flaw'[s] = flaw[s]
        /\ flaw'[t] = (part # UrisOf(t[2]))
    BY <1>t, <1>2 DEF RunTypes
  <2>3. RunTypes'
    BY <1>t, <1>1, <1>2, <2>2 DEF RunTypes
  <2>4. ASSUME NEW u \in Uris, u[1] = t[2], u \in Existing
        PROVE  Accounted(t[1], u)'
    <3>1. CASE part = UrisOf(t[2])
      <4>1. Snapshot(part)[u] # NoCid
        BY <2>4, <3>1 DEF Snapshot, UrisOf, Existing
      <4> QED BY <1>0, <2>1, <2>4, <4>1 DEF Accounted, InHand
    <3>2. CASE part # UrisOf(t[2])
      BY <1>0, <2>1, <2>2, <2>4, <3>2 DEF Accounted, UnderWay
    <3> QED BY <3>1, <3>2
  <2> QED BY <1>1, <1>2, <2>1, <2>2, <2>3, <2>4, TaskAccount
<1>3. ASSUME legacy' = [legacy EXCEPT ![t] = Collections], Goto(t, "next"),
             UNCHANGED <<issues, got, flaw>>
      PROVE  RunInv'
  <2>1. /\ \A s \in Tasks : s # t => pc'[s] = pc[s] /\ legacy'[s] = legacy[s]
        /\ pc'[t] = "next" /\ legacy'[t] = Collections
    BY <1>t, <1>3 DEF Goto, Inv, Types, RunTypes
  <2>2. RunTypes'
    BY <1>t, <1>1, <1>3 DEF RunTypes
  <2>3. ASSUME NEW u \in Uris, u[1] = t[2] PROVE Accounted(t[1], u)'
    BY <1>0, <2>1, <2>3, UrisAreTasks DEF Accounted, UnderWay
  <2> QED BY <1>1, <1>3, <2>1, <2>2, <2>3, TaskAccount
<1>4. ASSUME End(t, TRUE), UNCHANGED got
      PROVE  RunInv'
  <2>1. RunTypes'
    BY <1>t, <1>1, <1>4, EndFacts DEF RunTypes
  <2> QED BY <1>t, <1>1, <1>4, <2>1, EndFacts, TaskAccount
<1>5. CASE ListReturns(t)
  <2> DEFINE c == NextCollection(legacy[t])
  <2>1. /\ pc[t] = "list" /\ legacy' = [legacy EXCEPT ![t] = legacy[t] \ {c}]
        /\ UNCHANGED issues
        /\ \/ /\ got' = [got EXCEPT ![t] = ListRecords(t[2], c)]
              /\ Goto(t, "lock") /\ UNCHANGED flaw
           \/ /\ flaw' = [flaw EXCEPT ![t] = TRUE]
              /\ Goto(t, "next") /\ UNCHANGED got
    BY <1>5 DEF ListReturns
  <2> HIDE DEF c
  <2>2. /\ legacy' \in [Tasks -> SUBSET Collections] /\ legacy'[t] = legacy[t] \ {c}
        /\ \A s \in Tasks : s # t => legacy'[s] = legacy[s]
    BY <1>t, <2>1 DEF RunTypes
  <2>3. CASE /\ got' = [got EXCEPT ![t] = ListRecords(t[2], c)]
             /\ Goto(t, "lock") /\ UNCHANGED flaw
    <3>1. /\ \A s \in Tasks : s # t => pc'[s] = pc[s] /\ got'[s] = got[s]
          /\ pc'[t] = "lock" /\ got'[t] = ListRecords(t[2], c)
      BY <2>3 DEF Goto, Inv, Types
    <3>2. RunTypes'
      BY <1>t, <1>1, <2>1, <2>2, <2>3 DEF RunTypes
    <3>3. ASSUME NEW u \in Uris, u[1] = t[2], u \in Existing, Accounted(t[1], u)
          PROVE  Accounted(t[1], u)'
      <4>1. CASE u[2] = c
        <5>1. ListRecords(t[2], c)[u] # NoCid
          BY <3>3, <4>1 DEF ListRecords, Snapshot, UrisOf, Existing
        <5> QED BY <1>0, <3>1, <3>3, <5>1 DEF Accounted, InHand
      <4>2. CASE u[2] # c
        BY <1>0, <1>1, <2>1, <2>2, <2>3, <3>1, <3>3, <4>2 DEF Accounted, InHand, UnderWay
      <4> QED BY <4>1, <4>2
    <3> QED BY <1>1, <2>1, <2>2, <2>3, <3>1, <3>2, <3>3, TaskAccount
  <2>4. CASE /\ flaw' = [flaw EXCEPT ![t] = TRUE]
             /\ Goto(t, "next") /\ UNCHANGED got
    <3>1. /\ \A s \in Tasks : s # t => pc'[s] = pc[s] /\ flaw'[s] = flaw[s]
          /\ pc'[t] = "next" /\ flaw'[t] = TRUE
      BY <1>t, <2>4 DEF Goto, Inv, Types, RunTypes
    <3>2. flaw' \in [Tasks -> BOOLEAN]
      BY <1>t, <2>4 DEF RunTypes
    <3>3. RunTypes'
      BY <1>t, <1>1, <2>1, <2>2, <3>2 DEF RunTypes
    <3>4. ASSUME NEW u \in Uris, u[1] = t[2] PROVE Accounted(t[1], u)'
      BY <1>0, <3>1, <3>4 DEF Accounted, UnderWay
    <3> QED BY <1>1, <2>1, <2>2, <2>4, <3>1, <3>3, <3>4, TaskAccount
  <2> QED BY <2>1, <2>3, <2>4
<1> QED BY <1>2, <1>3, <1>4, <1>5 DEF FetchReturns

(* A batch is done with: it is stored, or the task has failed in part. *)
LEMMA BatchDone ==
  ASSUME Inv, RunInv, NEW t \in Tasks, NEW failed \in BOOLEAN, AfterBatch(t, failed),
         pc[t] \in InHand, UNCHANGED <<phase, todo, kept, remote>>,
         stored' \in [Runs -> SUBSET Uris], \A r \in Runs : stored[r] \subseteq stored'[r],
         failed \/ Batch(t) \subseteq stored'[t[1]]
  PROVE  RunInv'
<1>0. t[1] \in Runs /\ t = <<t[1], t[2]>>
  BY DEF Tasks
<1>t. RunTypes
  BY DEF RunInv
<1>g. \A s \in Tasks : s # t => got'[s] = got[s]
  BY DEF AfterBatch, DropBatch, Inv, Types
<1>b. \A u \in Uris : got[t][u] # NoCid => u \in Batch(t)
  BY DEF Batch
<1>1. CASE legacy[t] # {}
  <2>1. Goto(t, "next") /\ flaw' = [flaw EXCEPT ![t] = flaw[t] \/ failed]
        /\ UNCHANGED <<issues, legacy>>
    BY <1>1 DEF AfterBatch
  <2>2. \A s \in Tasks : s # t => pc'[s] = pc[s] /\ flaw'[s] = flaw[s]
    BY <1>t, <2>1 DEF Goto, Inv, Types, RunTypes
  <2>3. pc'[t] = "next" /\ flaw'[t] = (flaw[t] \/ failed)
    BY <1>t, <2>1 DEF Goto, Inv, Types, RunTypes
  <2>4. flaw' \in [Tasks -> BOOLEAN]
    BY <1>t, <2>1 DEF RunTypes
  <2>5. RunTypes'
    BY <1>t, <2>1, <2>4 DEF RunTypes
  <2>6. ASSUME NEW u \in Uris, u[1] = t[2], Accounted(t[1], u)
        PROVE  Accounted(t[1], u)'
    <3>1. CASE failed
      BY <1>0, <2>3, <2>6, <3>1 DEF Accounted, UnderWay
    <3>2. CASE ~failed
      <4>1. \/ phase[t[1]] = "discover" /\ u[2] \in todo[t[1]]
            \/ flaw[t] \/ u[2] \in legacy[t]
            \/ u \in stored'[t[1]]
        BY <1>0, <1>b, <2>6, <3>2 DEF Accounted, InHand
      <4> QED BY <1>0, <2>1, <2>3, <2>6, <4>1 DEF Accounted, UnderWay
    <3> QED BY <3>1, <3>2
  <2> QED BY <1>g, <2>1, <2>2, <2>5, <2>6, TaskAccount
<1>2. CASE legacy[t] = {}
  <2>1. End(t, flaw[t] \/ failed) /\ (flaw[t] \/ failed) \in BOOLEAN
    BY <1>2, <1>t DEF AfterBatch, RunTypes
  <2>2. RunTypes'
    BY <1>t, <2>1, EndFacts DEF RunTypes
  <2>3. flaw[t] \/ failed => issues'[t[1]]
    BY <1>t, <2>1, EndFacts
  <2>4. ASSUME NEW u \in Uris, u[1] = t[2], Accounted(t[1], u), ~issues'[t[1]]
        PROVE  Accounted(t[1], u)'
    <3>1. ~flaw[t] /\ ~failed
      BY <2>3, <2>4
    <3>2. \/ phase[t[1]] = "discover" /\ u[2] \in todo[t[1]]
          \/ u \in stored'[t[1]]
      BY <1>0, <1>2, <1>b, <2>4, <3>1 DEF Accounted, InHand
    <3> QED BY <1>0, <3>2 DEF Accounted
  <2> QED BY <1>g, <1>t, <2>1, <2>2, <2>4, EndFacts, TaskAccount
<1> QED BY <1>1, <1>2

LEMMA TaskStores ==
  ASSUME Inv, RunInv, NEW t \in Tasks,
         EmptyBatch(t) \/ Write(t) \/ WriteFails(t) \/ EndLegacy(t)
  PROVE  RunInv'
<1>0. t[1] \in Runs /\ t = <<t[1], t[2]>>
  BY DEF Tasks
<1>t. RunTypes
  BY DEF RunInv
<1>1. CASE EmptyBatch(t)
  <2>1. /\ pc[t] \in InHand /\ Batch(t) = {} /\ AfterBatch(t, FALSE)
        /\ UNCHANGED <<phase, todo, kept, remote, stored>>
    BY <1>1 DEF EmptyBatch, InHand, accounts
  <2> QED BY <1>t, <2>1, BatchDone DEF RunTypes
<1>2. CASE WriteFails(t)
  <2>1. /\ pc[t] \in InHand /\ AfterBatch(t, TRUE)
        /\ UNCHANGED <<phase, todo, kept, remote, stored>>
    BY <1>2 DEF WriteFails, InHand, accounts
  <2> QED BY <1>t, <2>1, BatchDone DEF RunTypes
<1>3. CASE Write(t)
  <2>1. /\ pc[t] \in InHand /\ AfterBatch(t, FALSE)
        /\ UNCHANGED <<phase, todo, kept, remote>>
        /\ stored' = [stored EXCEPT ![t[1]] = stored[t[1]] \union Batch(t)]
    BY <1>3 DEF Write, InHand, accounts, RunOf
  <2>2. Batch(t) \subseteq Uris
    BY DEF Batch
  <2>3. /\ stored' \in [Runs -> SUBSET Uris] /\ Batch(t) \subseteq stored'[t[1]]
        /\ \A r \in Runs : stored[r] \subseteq stored'[r]
    BY <1>0, <1>t, <2>1, <2>2 DEF RunTypes
  <2> QED BY <2>1, <2>3, BatchDone
<1>4. CASE EndLegacy(t)
  <2>1. /\ pc[t] = "next" /\ legacy[t] = {} /\ End(t, flaw[t])
        /\ UNCHANGED <<phase, todo, kept, remote, stored, got>>
    BY <1>4 DEF EndLegacy, accounts, tables
  <2>2. flaw[t] \in BOOLEAN
    BY <1>t DEF RunTypes
  <2>3. RunTypes'
    BY <1>t, <2>1, <2>2, EndFacts DEF RunTypes
  <2>4. flaw[t] => issues'[t[1]]
    BY <1>t, <2>1, <2>2, EndFacts
  <2>5. ASSUME NEW u \in Uris, u[1] = t[2], Accounted(t[1], u), ~issues'[t[1]]
        PROVE  Accounted(t[1], u)'
    <3>1. \/ phase[t[1]] = "discover" /\ u[2] \in todo[t[1]]
          \/ u \in stored[t[1]]
      BY <1>0, <2>1, <2>4, <2>5 DEF Accounted, InHand
    <3> QED BY <1>0, <2>1, <3>1 DEF Accounted
  <2> QED BY <1>t, <2>1, <2>2, <2>3, <2>5, EndFacts, TaskAccount
<1> QED BY <1>1, <1>2, <1>3, <1>4

-----------------------------------------------------------------------------
(* Steps of one run leave the others' accounts alone. *)
LEMMA RunAccount ==
  ASSUME RunInv, RunTypes', NEW r \in Runs,
         UNCHANGED <<stored, remote, got, legacy, flaw>>,
         \A q \in Runs : q # r => /\ phase'[q] = phase[q] /\ todo'[q] = todo[q]
                                  /\ issues'[q] = issues[q] /\ kept'[q] = kept[q],
         \A s \in Tasks : s[1] # r => pc'[s] = pc[s],
         RunOK(r)'
  PROVE  RunInv'
<1>1. ASSUME NEW q \in Runs, q # r PROVE RunOK(q)'
  <2>1. RunOK(q) /\ kept[q] \subseteq Uris
    BY DEF RunInv, RunTypes
  <2>2. ASSUME NEW u \in kept[q], Accounted(q, u) PROVE Accounted(q, u)'
    <3>1. <<q, u[1]>> \in Tasks /\ <<q, u[1]>>[1] # r
      BY <1>1, <2>1, UrisAreTasks
    <3> QED BY <1>1, <2>2, <3>1 DEF Accounted
  <2> QED BY <1>1, <2>1, <2>2 DEF RunOK, Existing
<1> QED BY <1>1 DEF RunInv

LEMMA RunsStart ==
  ASSUME Inv, RunInv, NEW r \in Runs, StartRun(r) \/ StartActor(r)
  PROVE  RunInv'
<1>t. RunTypes
  BY DEF RunInv
<1>e. Existing \subseteq Uris /\ Existing' = Existing /\ \A q \in Runs : issues'[q] = issues[q]
  BY DEF Existing, StartRun, StartActor, accounts
<1>1. CASE StartRun(r)
  <2>1. /\ UNCHANGED <<stored, remote, got, legacy, flaw, issues, pc>>
        /\ phase' = [phase EXCEPT ![r] = "discover"]
        /\ todo' = [todo EXCEPT ![r] = Collections]
        /\ kept' = [kept EXCEPT ![r] = Existing]
    BY <1>1 DEF StartRun, accounts, tables, task
  <2>2. RunTypes'
    BY <1>t, <1>e, <2>1 DEF RunTypes
  <2>3. /\ phase'[r] = "discover" /\ todo'[r] = Collections /\ kept'[r] = Existing
        /\ \A q \in Runs : q # r => phase'[q] = phase[q] /\ todo'[q] = todo[q]
                                   /\ kept'[q] = kept[q]
    BY <1>t, <2>1 DEF RunTypes
  <2>4. ASSUME NEW u \in Existing PROVE Accounted(r, u)'
    BY <1>e, <2>3, UrisAreTasks DEF Accounted
  <2>5. RunOK(r)'
    BY <1>e, <2>3, <2>4 DEF RunOK
  <2> QED BY <2>1, <2>2, <2>3, <2>5, RunAccount
<1>2. CASE StartActor(r)
  <2>1. /\ UNCHANGED <<stored, remote, got, legacy, flaw, issues, todo>>
        /\ kept' = [kept EXCEPT ![r] = Existing \intersect UrisOf(Actor)]
        /\ \/ phase' = [phase EXCEPT ![r] = "process"] /\ Goto(<<r, Actor>>, "resolved")
           \/ phase' = [phase EXCEPT ![r] = "error"] /\ UNCHANGED pc
    BY <1>2 DEF StartActor, accounts, tables, task
  <2>2. RunTypes'
    BY <1>t, <1>e, <2>1 DEF RunTypes
  <2>3. /\ kept'[r] = Existing \intersect UrisOf(Actor)
        /\ \A q \in Runs : q # r => phase'[q] = phase[q] /\ kept'[q] = kept[q]
    BY <1>t, <2>1 DEF RunTypes
  <2>4. <<r, Actor>> \in Tasks
    BY BackfillAssumption DEF Tasks
  <2>5. \A s \in Tasks : s[1] # r => pc'[s] = pc[s]
    BY <2>1, <2>4 DEF Goto, Inv, Types
  <2>6. CASE phase' = [phase EXCEPT ![r] = "process"] /\ Goto(<<r, Actor>>, "resolved")
    <3>1. phase'[r] = "process" /\ pc'[<<r, Actor>>] = "resolved"
      BY <1>t, <2>4, <2>6 DEF Goto, Inv, Types, RunTypes
    <3>2. ASSUME NEW u \in UrisOf(Actor) PROVE Accounted(r, u)'
      BY <3>1 DEF Accounted, UrisOf
    <3>3. RunOK(r)'
      BY <1>e, <2>3, <3>1, <3>2 DEF RunOK
    <3> QED BY <2>1, <2>2, <2>3, <2>5, <3>3, RunAccount
  <2>7. CASE phase' = [phase EXCEPT ![r] = "error"] /\ UNCHANGED pc
    <3>1. phase'[r] = "error"
      BY <1>t, <2>7 DEF RunTypes
    <3>2. RunOK(r)'
      BY <1>e, <2>3, <3>1 DEF RunOK, Going
    <3> QED BY <2>1, <2>2, <2>3, <2>5, <3>2, RunAccount
  <2> QED BY <2>1, <2>6, <2>7
<1> QED BY <1>1, <1>2

LEMMA RunsGoOn ==
  ASSUME Inv, RunInv, NEW r \in Runs, RunStep(r)
  PROVE  RunInv'
<1>t. RunTypes
  BY DEF RunInv
<1>u. UNCHANGED <<stored, remote, got, legacy, flaw, kept>> /\ Existing' = Existing
  BY DEF RunStep, StartResolving, StartProcessing, FinishRun, Discover, accounts, tables, task,
         Existing
<1>o. RunOK(r) /\ kept[r] \subseteq Uris
  BY <1>t DEF RunInv, RunTypes
<1>1. CASE StartResolving(r) \/ StartProcessing(r)
  <2>1. /\ UNCHANGED <<todo, issues, pc>>
        /\ phase'[r] \in {"resolve", "process"} /\ phase[r] \in Going
        /\ phase[r] = "discover" => todo[r] = {}
        /\ \A q \in Runs : q # r => phase'[q] = phase[q]
    BY <1>1, <1>t DEF StartResolving, StartProcessing, RunTypes, Going
  <2>2. RunTypes'
    BY <1>1, <1>t, <1>u DEF StartResolving, StartProcessing, RunTypes
  <2>3. ASSUME NEW u \in kept[r], ~issues[r] PROVE Accounted(r, u)'
    <3>1. Accounted(r, u)
      BY <1>o, <2>1, <2>3 DEF RunOK
    <3> QED BY <1>u, <2>1, <3>1 DEF Accounted
  <2>4. RunOK(r)'
    BY <1>o, <1>u, <2>1, <2>3 DEF RunOK
  <2> QED BY <1>u, <2>1, <2>2, <2>4, RunAccount
<1>2. CASE FinishRun(r)
  <2>1. /\ UNCHANGED <<todo, issues, pc>> /\ phase[r] = "process"
        /\ phase'[r] = (IF issues[r] THEN "error" ELSE "ok")
        /\ \A q \in Runs : q # r => phase'[q] = phase[q]
    BY <1>2, <1>t DEF FinishRun, RunTypes
  <2>2. RunTypes'
    BY <1>2, <1>t, <1>u DEF FinishRun, RunTypes
  <2>3. \A d \in Repos : pc[<<r, d>>] \in {"none", "end"}
    BY <1>2 DEF FinishRun, TasksIn
  <2>4. ASSUME ~issues[r], NEW u \in kept[r] PROVE u \in stored[r]
    <3>1. Accounted(r, u)
      BY <1>o, <2>1, <2>4 DEF RunOK, Going
    <3>2. pc[<<r, u[1]>>] \in {"none", "end"}
      BY <1>o, <2>3, UrisAreTasks
    <3> QED BY <2>1, <3>1, <3>2 DEF Accounted, UnderWay, InHand
  <2>5. RunOK(r)'
    BY <1>o, <1>u, <2>1, <2>4 DEF RunOK, Going
  <2> QED BY <1>u, <2>1, <2>2, <2>5, RunAccount
<1>3. CASE Discover(r)
  <2> DEFINE c == NextCollection(todo[r])
             found == ListReposByCollection(c)
  <2>1. /\ UNCHANGED phase /\ phase[r] = "discover"
        /\ todo' = [todo EXCEPT ![r] = todo[r] \ {c}]
        /\ \/ /\ pc' = [t \in Tasks |-> IF t[1] = r /\ t[2] \in found THEN "queued" ELSE pc[t]]
              /\ UNCHANGED issues
           \/ issues' = [issues EXCEPT ![r] = TRUE] /\ UNCHANGED pc
    BY <1>3 DEF Discover, RunOf
  <2>f. \A u \in Existing : u[2] = c => u[1] \in found
    BY DEF ListReposByCollection
  <2> HIDE DEF c, found
  <2>2. /\ todo' \in [Runs -> SUBSET Collections] /\ todo'[r] = todo[r] \ {c}
        /\ \A q \in Runs : q # r => todo'[q] = todo[q]
    BY <1>t, <2>1 DEF RunTypes
  <2>3. CASE /\ pc' = [t \in Tasks |-> IF t[1] = r /\ t[2] \in found THEN "queued" ELSE pc[t]]
             /\ UNCHANGED issues
    <3>1. RunTypes'
      BY <1>t, <1>u, <2>1, <2>2, <2>3 DEF RunTypes
    <3>2. ASSUME NEW u \in kept[r], ~issues[r] PROVE Accounted(r, u)'
      <4>1. Accounted(r, u) /\ u \in Existing /\ u \in Uris
        BY <1>o, <2>1, <3>2 DEF RunOK, Going
      <4>2. <<r, u[1]>> \in Tasks
        BY <4>1, UrisAreTasks
      <4>3. CASE u[1] \in found
        BY <2>3, <4>2, <4>3 DEF Accounted
      <4>4. CASE u[1] \notin found
        <5>1. pc'[<<r, u[1]>>] = pc[<<r, u[1]>>] /\ u[2] # c
          BY <2>3, <2>f, <4>1, <4>2, <4>4
        <5> QED BY <1>u, <2>1, <2>2, <4>1, <5>1 DEF Accounted
      <4> QED BY <4>3, <4>4
    <3>3. RunOK(r)'
      BY <1>o, <1>u, <2>1, <2>3, <3>2 DEF RunOK, Going
    <3>4. \A s \in Tasks : s[1] # r => pc'[s] = pc[s]
      BY <2>3
    <3> QED BY <1>u, <2>1, <2>2, <2>3, <3>1, <3>3, <3>4, RunAccount
  <2>4. CASE issues' = [issues EXCEPT ![r] = TRUE] /\ UNCHANGED pc
    <3>1. issues' \in [Runs -> BOOLEAN] /\ issues'[r]
          /\ \A q \in Runs : q # r => issues'[q] = issues[q]
      BY <1>t, <2>4 DEF RunTypes
    <3>2. RunTypes'
      BY <1>t, <1>u, <2>1, <2>2, <3>1 DEF RunTypes
    <3>3. RunOK(r)'
      BY <1>o, <1>u, <2>1, <3>1 DEF RunOK
    <3> QED BY <1>u, <2>1, <2>2, <2>4, <3>1, <3>2, <3>3, RunAccount
  <2> QED BY <2>1, <2>3, <2>4
<1> QED BY <1>1, <1>2, <1>3 DEF RunStep

(* What accounts change meanwhile no longer has to be there. *)
LEMMA AccountsChange ==
  ASSUME Inv, RunInv,
         \/ HandleCommit \/ CommitLost
         \/ \E u \in Edited, c \in Cids \union {NoCid} : Commit(u, c)
  PROVE  RunInv'
<1>t. RunTypes
  BY DEF RunInv
<1>1. UNCHANGED <<phase, todo, issues, pc, got, legacy, flaw, stored>>
  BY DEF HandleCommit, CommitLost, Commit, runs, task, tables
<1>2. /\ kept' \in [Runs -> SUBSET Uris]
      /\ \A r \in Runs : kept'[r] \subseteq kept[r]
  BY <1>t DEF HandleCommit, CommitLost, Commit, runs, RunTypes
<1>3. ASSUME NEW r \in Runs, NEW v \in kept'[r] PROVE v \in Existing'
  <2>1. v \in kept[r] /\ v \in Uris /\ remote[v] # NoCid
    BY <1>2, <1>3 DEF RunInv, RunOK, Existing
  <2>2. CASE UNCHANGED remote
    BY <2>1, <2>2 DEF Existing
  <2>3. ASSUME NEW u \in Edited, NEW c \in Cids \union {NoCid}, Commit(u, c)
        PROVE  v \in Existing'
    <3>1. u \in Uris /\ remote \in Bodies /\ remote' = [remote EXCEPT ![u] = c]
      BY <2>3, BackfillAssumption DEF Commit, Inv, Types
    <3>2. kept'[r] = (IF c = NoCid THEN kept[r] \ {u} ELSE kept[r])
      BY <2>3 DEF Commit
    <3>3. remote'[v] # NoCid
      BY <1>3, <2>1, <3>1, <3>2 DEF Bodies
    <3> QED BY <2>1, <3>3 DEF Existing
  <2> QED BY <2>2, <2>3 DEF HandleCommit, CommitLost
<1>4. RunTypes'
  BY <1>t, <1>1, <1>2 DEF RunTypes
<1>5. ASSUME NEW r \in Runs PROVE RunOK(r)'
  <2>1. RunOK(r)
    BY DEF RunInv
  <2>2. \A u \in kept[r] : Accounted(r, u) => Accounted(r, u)'
    BY <1>1 DEF Accounted
  <2> QED BY <1>1, <1>2, <1>3, <2>1, <2>2 DEF RunOK
<1> QED BY <1>4, <1>5 DEF RunInv

LEMMA NextRunInv == ASSUME Inv, RunInv, [Next]_vars PROVE RunInv'
<1>1. CASE \/ HandleCommit \/ CommitLost
           \/ \E u \in Edited, c \in Cids \union {NoCid} : Commit(u, c)
  BY <1>1, AccountsChange
<1>2. CASE \E r \in Runs : StartRun(r) \/ StartActor(r) \/ RunStep(r)
  BY <1>2, RunsStart, RunsGoOn
<1>3. CASE \E t \in Tasks : TaskStep(t)
  BY <1>3, TaskMoves, TaskGivesUp, TaskAnswers, TaskStores DEF TaskStep
<1>4. CASE UNCHANGED vars
  BY <1>4 DEF vars, tables, accounts, runs, task, RunInv, RunTypes, RunOK, Accounted, Existing
<1> QED BY <1>1, <1>2, <1>3, <1>4 DEF Next

(* A run that reports success has brought every record that existed all the *)
(* while into the table or found it there, whatever repositories failed, in *)
(* whole or in part, panicked, or fell back to listing their collections.   *)
THEOREM SuccessIsComplete == Spec => []CleanRunIsComplete
<1>1. Init => RunInv
  BY RunInitInv
<1>2. Inv /\ RunInv /\ [Next]_vars => RunInv'
  BY NextRunInv
<1>3. RunInv => CleanRunIsComplete
  BY DEF RunInv, RunOK, CleanRunIsComplete
<1> QED BY <1>1, <1>2, <1>3, Invariance, PTL DEF Spec

-----------------------------------------------------------------------------
(* The slots of httpSem.  A full run has a slot for each of its requests;   *)
(* a run of one actor takes none, and never comes to resolve.               *)

(* The steps at which a task waits for an answer under httpSem *)
Requesting == {"retry", "fetch", "list"}

(* A slot of httpSem is taken for every request under way and, unless a     *)
(* request panicked, for nothing else: whatever a request returns, and      *)
(* wherever its repository goes on from there, it returns its slot once.    *)
SlotsAreRequests ==
  \A r \in FullRuns :
    LET n == Cardinality(TasksIn(r, Requesting))
    IN  /\ n <= http[r] /\ http[r] <= MaxHTTPConcurrent
        /\ PanicsAt \intersect Requesting = {} => http[r] = n

Resolving == {"queued", "resolve", "retry"}
Begun == Labels \ {"none", "queued"}

FullSlots(r) ==
  /\ IsFiniteSet(TasksIn(r, Requesting))
  /\ Cardinality(TasksIn(r, Requesting)) <= http[r] /\ http[r] <= MaxHTTPConcurrent
  /\ PanicsAt \intersect Requesting = {} => http[r] = Cardinality(TasksIn(r, Requesting))
  /\ phase[r] \in {"idle", "discover"} => TasksIn(r, Begun) = {}

ActorSlots(r) ==
  /\ http[r] = 0 /\ phase[r] \notin {"discover", "resolve"}
  /\ TasksIn(r, Resolving) = {}

SlotsInv ==
  /\ http \in [Runs -> Nat]
  /\ \A r \in FullRuns : FullSlots(r)
  /\ \A r \in ActorRuns : ActorSlots(r)

LEMMA RunsApart ==
  ASSUME NEW t \in Tasks
  PROVE  /\ RunOf(t) \in Runs /\ t[2] \in Repos /\ t = <<RunOf(t), t[2]>>
         /\ RunOf(t) \in FullRuns <=> RunOf(t) \notin ActorRuns
BY BackfillAssumption DEF Tasks, RunOf, Runs

LEMMA SlotsInit == Init => SlotsInv
<1> SUFFICES ASSUME Init PROVE SlotsInv
  OBVIOUS
<1>1. ASSUME NEW r \in Runs
      PROVE  http[r] = 0 /\ phase[r] = "idle" /\ \A d \in Repos : pc[<<r, d>>] = "none"
  BY DEF Init, Tasks
<1>2. ASSUME NEW r \in Runs PROVE /\ TasksIn(r, Requesting) = {} /\ TasksIn(r, Resolving) = {}
                                /\ TasksIn(r, Begun) = {}
  BY <1>1 DEF TasksIn, Requesting, Resolving, Begun
<1>3. http \in [Runs -> Nat]
  BY DEF Init
<1>4. ASSUME NEW r \in FullRuns PROVE FullSlots(r)
  BY <1>1, <1>2, FS_EmptySet, BackfillAssumption DEF FullSlots, Runs
<1>5. ASSUME NEW r \in ActorRuns PROVE ActorSlots(r)
  BY <1>1, <1>2 DEF ActorSlots, Runs
<1> QED BY <1>3, <1>4, <1>5 DEF SlotsInv

(* A task that goes on changes the requests of its own run only, and by     *)
(* itself only.                                                             *)
LEMMA OneTaskMoves ==
  ASSUME pc \in [Tasks -> Labels], NEW t \in Tasks, NEW label \in Labels, Goto(t, label),
         NEW labels, NEW r \in Runs
  PROVE  /\ r # RunOf(t) => TasksIn(r, labels)' = TasksIn(r, labels)
         /\ r = RunOf(t) /\ label \in labels =>
              TasksIn(r, labels)' = TasksIn(r, labels) \union {t[2]}
         /\ r = RunOf(t) /\ label \notin labels =>
              TasksIn(r, labels)' = TasksIn(r, labels) \ {t[2]}
<1>1. \A d \in Repos : <<r, d>> \in Tasks
  BY DEF Tasks
<1>2. t = <<RunOf(t), t[2]>> /\ t[2] \in Repos
  BY RunsApart
<1>3. \A s \in Tasks : pc'[s] = IF s = t THEN label ELSE pc[s]
  BY DEF Goto
<1>4. \A d \in Repos : pc'[<<r, d>>] = IF r = RunOf(t) /\ d = t[2] THEN label ELSE pc[<<r, d>>]
  BY <1>1, <1>2, <1>3
<1> QED BY <1>2, <1>4 DEF TasksIn

LEMMA TaskSlots ==
  ASSUME SlotsInv, pc \in [Tasks -> Labels],
         NEW t \in Tasks, NEW label \in Labels, Goto(t, label), phase' = phase,
         phase[RunOf(t)] \notin {"idle", "discover"} \/ pc[t] \in Begun,
         label \in Resolving => pc[t] \in Resolving,
         RunOf(t) \in ActorRuns => http' = http,
         RunOf(t) \in FullRuns =>
           \/ http' = http /\ (pc[t] \in Requesting <=> label \in Requesting)
           \/ /\ http[RunOf(t)] < MaxHTTPConcurrent
              /\ http' = [http EXCEPT ![RunOf(t)] = @ + 1]
              /\ pc[t] \notin Requesting /\ label \in Requesting
           \/ /\ http' = [http EXCEPT ![RunOf(t)] = @ - 1]
              /\ pc[t] \in Requesting /\ label \notin Requesting
           \/ http' = http /\ pc[t] \in PanicsAt /\ label \notin Requesting
  PROVE  SlotsInv'
<1> DEFINE r == RunOf(t)
           H == TasksIn(r, Requesting)
<1>1. r \in Runs /\ t[2] \in Repos /\ t = <<r, t[2]>> /\ (r \in FullRuns <=> r \notin ActorRuns)
  BY RunsApart
<1>2. FullRuns \subseteq Runs /\ ActorRuns \subseteq Runs /\ MaxHTTPConcurrent \in Nat
  BY BackfillAssumption DEF Runs
<1>3. \A labels : t[2] \in TasksIn(r, labels) <=> pc[t] \in labels
  BY <1>1 DEF TasksIn
<1>4. http \in [Runs -> Nat]
  BY DEF SlotsInv
<1>5. ASSUME NEW q \in Runs, q # r
      PROVE  /\ http'[q] = http[q] /\ TasksIn(q, Requesting)' = TasksIn(q, Requesting)
             /\ TasksIn(q, Begun)' = TasksIn(q, Begun)
             /\ TasksIn(q, Resolving)' = TasksIn(q, Resolving)
  BY <1>1, <1>4, <1>5, OneTaskMoves
<1>6. ASSUME NEW q \in FullRuns, q # r PROVE FullSlots(q)'
  <2>1. FullSlots(q)
    BY DEF SlotsInv
  <2> QED BY <1>2, <1>5, <1>6, <2>1 DEF FullSlots
<1>7. ASSUME NEW q \in ActorRuns, q # r PROVE ActorSlots(q)'
  <2>1. ActorSlots(q)
    BY DEF SlotsInv
  <2> QED BY <1>2, <1>5, <1>7, <2>1 DEF ActorSlots
<1>8. CASE r \in ActorRuns
  <2>1. ActorSlots(r)
    BY <1>8 DEF SlotsInv
  <2>2. TasksIn(r, Resolving)' = {}
    <3>1. label \notin Resolving
      BY <2>1, <1>3 DEF ActorSlots
    <3>2. TasksIn(r, Resolving)' = TasksIn(r, Resolving) \ {t[2]}
      BY <1>1, <3>1, OneTaskMoves
    <3> QED BY <2>1, <3>2 DEF ActorSlots
  <2>3. ActorSlots(r)'
    BY <1>8, <2>1, <2>2 DEF ActorSlots
  <2> QED BY <1>1, <1>2, <1>4, <1>6, <1>7, <1>8, <2>3 DEF SlotsInv
<1>9. CASE r \in FullRuns
  <2>1. /\ IsFiniteSet(H) /\ Cardinality(H) <= http[r] /\ http[r] <= MaxHTTPConcurrent
        /\ PanicsAt \intersect Requesting = {} => http[r] = Cardinality(H)
        /\ phase[r] \in {"idle", "discover"} => TasksIn(r, Begun) = {}
    BY <1>9 DEF SlotsInv, FullSlots
  <2>2. Cardinality(H) \in Nat /\ http[r] \in Nat
    BY <1>1, <1>4, <2>1, FS_CardinalityType
  <2>3. phase'[r] \notin {"idle", "discover"}
    BY <1>3, <2>1
  <2>4. CASE http' = http /\ (pc[t] \in Requesting <=> label \in Requesting)
    <3>1. H' = H
      <4>1. CASE label \in Requesting
        <5>1. H' = H \union {t[2]}
          BY <1>1, <4>1, OneTaskMoves
        <5> QED BY <1>3, <2>4, <4>1, <5>1
      <4>2. CASE label \notin Requesting
        <5>1. H' = H \ {t[2]}
          BY <1>1, <4>2, OneTaskMoves
        <5> QED BY <1>3, <2>4, <4>2, <5>1
      <4> QED BY <4>1, <4>2
    <3>2. FullSlots(r)' /\ http' \in [Runs -> Nat]
      BY <1>4, <2>1, <2>3, <2>4, <3>1 DEF FullSlots
    <3> QED BY <1>1, <1>6, <1>7, <1>9, <3>2 DEF SlotsInv
  <2>5. CASE /\ http[r] < MaxHTTPConcurrent
             /\ http' = [http EXCEPT ![r] = @ + 1]
             /\ pc[t] \notin Requesting /\ label \in Requesting
    <3>1. H' = H \union {t[2]} /\ t[2] \notin H
      BY <1>1, <1>3, <2>5, OneTaskMoves
    <3>2. IsFiniteSet(H') /\ Cardinality(H') = Cardinality(H) + 1
      BY <2>1, <3>1, FS_AddElement
    <3>3. http'[r] = http[r] + 1 /\ http' \in [Runs -> Nat]
      BY <1>1, <1>4, <2>5
    <3>4. FullSlots(r)'
      BY <1>2, <2>1, <2>2, <2>3, <2>5, <3>2, <3>3 DEF FullSlots
    <3> QED BY <1>1, <1>6, <1>7, <1>9, <3>3, <3>4 DEF SlotsInv
  <2>6. CASE /\ http' = [http EXCEPT ![r] = @ - 1]
             /\ pc[t] \in Requesting /\ label \notin Requesting
    <3>1. H' = H \ {t[2]} /\ t[2] \in H
      BY <1>1, <1>3, <2>6, OneTaskMoves
    <3>2. IsFiniteSet(H') /\ Cardinality(H') = Cardinality(H) - 1
      <4>1. IsFiniteSet(H \ {t[2]}) /\ Cardinality(H \ {t[2]}) = Cardinality(H) - 1
        BY ONLY <2>1, <3>1, FS_RemoveElement
      <4> QED BY ONLY <3>1, <4>1
    <3>3. Cardinality(H') \in Nat
      BY <3>2, FS_CardinalityType
    <3>4. http'[r] = http[r] - 1 /\ http[r] - 1 \in Nat
      BY <1>1, <1>4, <2>1, <2>2, <2>6, <3>2, <3>3
    <3>5. http' \in [Runs -> Nat]
      BY <1>4, <2>6, <3>4
    <3>6. FullSlots(r)'
      BY <1>2, <2>1, <2>2, <2>3, <3>2, <3>4 DEF FullSlots
    <3> QED BY <1>1, <1>6, <1>7, <1>9, <3>5, <3>6 DEF SlotsInv
  <2>7. CASE http' = http /\ pc[t] \in PanicsAt /\ label \notin Requesting
    <3>1. H' = H \ {t[2]}
      BY <1>1, <2>7, OneTaskMoves
    <3>2. IsFiniteSet(H') /\ Cardinality(H') <= Cardinality(H) /\ Cardinality(H') \in Nat
      <4>1. /\ IsFiniteSet(H \ {t[2]})
            /\ Cardinality(H \ {t[2]}) \in {Cardinality(H) - 1, Cardinality(H)}
        BY ONLY <2>1, FS_RemoveElement
      <4>2. Cardinality(H \ {t[2]}) \in Nat
        BY ONLY <4>1, FS_CardinalityType
      <4>3. Cardinality(H \ {t[2]}) <= Cardinality(H)
        BY ONLY <2>2, <4>1, <4>2
      <4> QED BY ONLY <3>1, <4>1, <4>2, <4>3
    <3>3. PanicsAt \intersect Requesting = {} => H' = H
      BY <1>3, <2>7, <3>1
    <3>4. FullSlots(r)' /\ http' \in [Runs -> Nat]
      BY <1>2, <1>4, <2>1, <2>2, <2>3, <2>7, <3>2, <3>3 DEF FullSlots
    <3> QED BY <1>1, <1>6, <1>7, <1>9, <3>4 DEF SlotsInv
  <2> QED BY <1>9, <2>4, <2>5, <2>6, <2>7
<1> QED BY <1>1, <1>8, <1>9

LEMMA TaskStepSlots ==
  ASSUME Inv, SlotsInv, NEW t \in Tasks, TaskStep(t)
  PROVE  SlotsInv'
<1>1. pc \in [Tasks -> Labels] /\ phase' = phase
  BY DEF Inv, Types, TaskStep, Resolve, ResolveOnce, ResolveAgain, Fetch, FetchReturns, NextList,
         ListReturns, EndLegacy, EmptyBatch, LockDID, Classify, Write, WriteFails, Panic, runs
<1>2. RunOf(t) \in Runs /\ (RunOf(t) \in FullRuns <=> RunOf(t) \notin ActorRuns)
  BY RunsApart
<1>3. ASSUME RunOf(t) \in ActorRuns PROVE pc[t] \notin Resolving
  <2>1. t[2] \notin TasksIn(RunOf(t), Resolving)
    BY <1>3 DEF SlotsInv, ActorSlots
  <2> QED BY <2>1, RunsApart DEF TasksIn
<1>4. CASE Resolve(t)
  <2>1. /\ http' = http /\ Goto(t, "resolve") /\ pc[t] = "queued"
        /\ phase[RunOf(t)] = "resolve" /\ "resolve" \in Labels
    BY <1>4 DEF Resolve, runs, Labels
  <2> QED BY <1>1, <2>1, TaskSlots DEF Requesting, Resolving
<1>5. CASE ResolveOnce(t)
  <2>1. pc[t] = "resolve" /\ pc[t] \in Begun /\ RunOf(t) \in FullRuns
    BY <1>2, <1>3, <1>5 DEF ResolveOnce, Begun, Labels, Resolving
  <2>2. CASE Goto(t, "resolved") /\ http' = http
    BY <1>1, <1>2, <2>1, <2>2, TaskSlots DEF Requesting, Resolving, Labels
  <2>3. CASE /\ http[RunOf(t)] < MaxHTTPConcurrent
             /\ http' = [http EXCEPT ![RunOf(t)] = @ + 1]
             /\ Goto(t, "retry")
    BY <1>1, <1>2, <2>1, <2>3, TaskSlots DEF Requesting, Resolving, Labels
  <2> QED BY <1>5, <2>2, <2>3 DEF ResolveOnce
<1>6. CASE ResolveAgain(t)
  <2>1. pc[t] = "retry" /\ pc[t] \in Begun /\ RunOf(t) \in FullRuns
    BY <1>2, <1>3, <1>6 DEF ResolveAgain, Begun, Labels, Resolving
  <2>2. PICK label \in {"resolved", "none"} : Goto(t, label)
    BY <1>6 DEF ResolveAgain
  <2>3. http' = [http EXCEPT ![RunOf(t)] = @ - 1]
    BY <1>6 DEF ResolveAgain
  <2> QED BY <1>1, <1>2, <2>1, <2>2, <2>3, TaskSlots DEF Requesting, Resolving, Labels
<1>7. CASE Fetch(t) \/ NextList(t)
  <2>1. PICK label \in {"fetch", "list"} : Goto(t, label)
    BY <1>7 DEF Fetch, NextList
  <2>2. pc[t] \in {"resolved", "next"} /\ pc[t] \in Begun /\ AcquireHTTP(t)
    BY <1>7 DEF Fetch, NextList, Begun, Labels
  <2>3. /\ RunOf(t) \in ActorRuns => http' = http
        /\ RunOf(t) \in FullRuns => /\ http[RunOf(t)] < MaxHTTPConcurrent
                                    /\ http' = [http EXCEPT ![RunOf(t)] = @ + 1]
    BY <1>2, <2>2 DEF AcquireHTTP
  <2> QED BY <1>1, <2>1, <2>2, <2>3, TaskSlots DEF Requesting, Resolving, Labels
<1>8. CASE FetchReturns(t) \/ ListReturns(t)
  <2>1. PICK label \in {"lock", "next", "end"} : Goto(t, label)
    BY <1>8 DEF FetchReturns, ListReturns, End
  <2>2. pc[t] \in {"fetch", "list"} /\ pc[t] \in Begun /\ ReleaseHTTP(t)
    BY <1>8 DEF FetchReturns, ListReturns, Begun, Labels
  <2>3. /\ RunOf(t) \in ActorRuns => http' = http
        /\ RunOf(t) \in FullRuns => http' = [http EXCEPT ![RunOf(t)] = @ - 1]
    BY <1>2, <2>2 DEF ReleaseHTTP
  <2> QED BY <1>1, <2>1, <2>2, <2>3, TaskSlots DEF Requesting, Resolving, Labels
<1>9. CASE \/ EndLegacy(t) \/ EmptyBatch(t) \/ LockDID(t) \/ Classify(t) \/ Write(t)
           \/ WriteFails(t)
  <2>1. PICK label \in {"next", "classify", "write", "end"} : Goto(t, label)
    BY <1>9 DEF EndLegacy, EmptyBatch, LockDID, Classify, Write, WriteFails, AfterBatch, End
  <2>2. pc[t] \in {"next", "lock", "classify", "write"} /\ pc[t] \in Begun /\ http' = http
    BY <1>9 DEF EndLegacy, EmptyBatch, LockDID, Classify, Write, WriteFails, runs, Begun, Labels
  <2> QED BY <1>1, <2>1, <2>2, TaskSlots DEF Requesting, Resolving, Labels
<1>10. CASE Panic(t)
  <2>1. /\ Goto(t, "end") /\ http' = http /\ RunOf(t) \in FullRuns /\ pc[t] \in PanicsAt
        /\ pc[t] \in Begun
    BY <1>10, BackfillAssumption DEF Panic, End, Begun, Labels
  <2> QED BY <1>1, <1>2, <2>1, TaskSlots DEF Requesting, Resolving, Labels
<1> QED BY <1>4, <1>5, <1>6, <1>7, <1>8, <1>9, <1>10 DEF TaskStep

LEMMA RunStepSlots ==
  ASSUME Inv, RunInv, SlotsInv, NEW r \in Runs, StartRun(r) \/ StartActor(r) \/ RunStep(r)
  PROVE  SlotsInv'
<1>1. pc \in [Tasks -> Labels] /\ http' = http
  BY DEF Inv, Types, StartRun, StartActor, RunStep, StartResolving, StartProcessing, FinishRun,
         Discover
<1>2. FullRuns \subseteq Runs /\ ActorRuns \subseteq Runs /\ FullRuns \intersect ActorRuns = {}
  BY BackfillAssumption DEF Runs
<1>3. phase[r] \in {"discover", "resolve"} => r \in FullRuns
  BY DEF SlotsInv, ActorSlots, Runs
<1>4. phase \in [Runs -> {"idle", "discover", "resolve", "process", "ok", "error"}]
  BY DEF RunInv, RunTypes
<1>5. CASE StartRun(r) \/ StartResolving(r) \/ StartProcessing(r) \/ FinishRun(r)
  <2>1. pc' = pc /\ \A q \in Runs \ {r} : phase'[q] = phase[q]
    BY <1>4, <1>5 DEF StartRun, StartResolving, StartProcessing, FinishRun
  <2>2. /\ r \in ActorRuns => phase'[r] \notin {"discover", "resolve"}
        /\ phase'[r] \in {"idle", "discover"} => phase[r] \in {"idle", "discover"}
    BY <1>2, <1>3, <1>4, <1>5 DEF StartRun, StartResolving, StartProcessing, FinishRun
  <2>3. \A q, labels : TasksIn(q, labels)' = TasksIn(q, labels)
    BY <2>1 DEF TasksIn
  <2>4. ASSUME NEW q \in FullRuns PROVE FullSlots(q)'
    BY <1>1, <1>2, <2>1, <2>2, <2>3 DEF SlotsInv, FullSlots
  <2>5. ASSUME NEW q \in ActorRuns PROVE ActorSlots(q)'
    BY <1>1, <1>2, <2>1, <2>2, <2>3 DEF SlotsInv, ActorSlots
  <2> QED BY <1>1, <2>4, <2>5 DEF SlotsInv
<1>6. CASE StartActor(r)
  <2>1. /\ r \in ActorRuns /\ phase'[r] \in {"process", "error"}
        /\ \A q \in Runs \ {r} : phase'[q] = phase[q]
        /\ UNCHANGED pc \/ Goto(<<r, Actor>>, "resolved")
    BY <1>4, <1>6 DEF StartActor
  <2>2. <<r, Actor>> \in Tasks /\ RunOf(<<r, Actor>>) = r /\ "resolved" \in Labels \ Resolving
    BY BackfillAssumption DEF Tasks, RunOf, Labels, Resolving
  <2>3. ASSUME NEW q \in Runs, q # r, NEW labels PROVE TasksIn(q, labels)' = TasksIn(q, labels)
    <3>1. CASE UNCHANGED pc
      BY <3>1 DEF TasksIn
    <3>2. CASE Goto(<<r, Actor>>, "resolved")
      BY <1>1, <2>2, <2>3, <3>2, OneTaskMoves
    <3> QED BY <2>1, <3>1, <3>2
  <2>4. TasksIn(r, Resolving)' = {}
    <3>1. TasksIn(r, Resolving) = {}
      BY <2>1 DEF SlotsInv, ActorSlots
    <3>2. CASE UNCHANGED pc
      BY <3>1, <3>2 DEF TasksIn
    <3>3. CASE Goto(<<r, Actor>>, "resolved")
      <4>1. TasksIn(r, Resolving)' = TasksIn(r, Resolving) \ {<<r, Actor>>[2]}
        BY <1>1, <2>2, <3>3, OneTaskMoves
      <4> QED BY <3>1, <4>1
    <3> QED BY <2>1, <3>2, <3>3
  <2>5. ASSUME NEW q \in FullRuns PROVE FullSlots(q)'
    <3>1. q # r /\ q \in Runs /\ FullSlots(q)
      BY <1>2, <2>1 DEF SlotsInv
    <3>2. /\ TasksIn(q, Requesting)' = TasksIn(q, Requesting)
          /\ TasksIn(q, Begun)' = TasksIn(q, Begun) /\ phase'[q] = phase[q]
      BY <2>1, <2>3, <3>1
    <3> QED BY <1>1, <3>1, <3>2 DEF FullSlots
  <2>6. ASSUME NEW q \in ActorRuns PROVE ActorSlots(q)'
    <3>1. q \in Runs /\ ActorSlots(q)
      BY <1>2 DEF SlotsInv
    <3>2. CASE q = r
      BY <1>1, <2>1, <2>4, <3>1, <3>2 DEF ActorSlots
    <3>3. CASE q # r
      <4>1. TasksIn(q, Resolving)' = TasksIn(q, Resolving) /\ phase'[q] = phase[q]
        BY <2>1, <2>3, <3>1, <3>3
      <4> QED BY <1>1, <3>1, <4>1 DEF ActorSlots
    <3> QED BY <3>2, <3>3
  <2> QED BY <1>1, <2>5, <2>6 DEF SlotsInv
<1>7. CASE Discover(r)
  <2>1. r \in FullRuns /\ phase' = phase /\ phase[r] = "discover"
    BY <1>3, <1>7 DEF Discover
  <2>2. \A t \in Tasks : pc'[t] = pc[t] \/ (RunOf(t) = r /\ pc'[t] = "queued")
    BY <1>1, <1>7 DEF Discover
  <2>3. ASSUME NEW q \in Runs, q # r, NEW labels PROVE TasksIn(q, labels)' = TasksIn(q, labels)
    <3>1. ASSUME NEW d \in Repos PROVE pc'[<<q, d>>] = pc[<<q, d>>]
      BY <2>2, <2>3 DEF Tasks, RunOf
    <3> QED BY <3>1 DEF TasksIn
  <2>4. TasksIn(r, Begun) = {} /\ FullSlots(r)
    BY <2>1 DEF SlotsInv, FullSlots
  <2>5. ASSUME NEW d \in Repos PROVE pc[<<r, d>>] \notin Begun /\ pc'[<<r, d>>] \notin Begun
    <3>1. <<r, d>> \in Tasks /\ "queued" \notin Begun
      BY DEF Tasks, Begun
    <3> QED BY <2>2, <2>4, <3>1 DEF TasksIn
  <2>6. Requesting \subseteq Begun
    BY DEF Requesting, Begun, Labels
  <2>7. /\ TasksIn(r, Begun)' = {} /\ TasksIn(r, Requesting)' = {} /\ TasksIn(r, Requesting) = {}
    BY <2>5, <2>6 DEF TasksIn
  <2>8. ASSUME NEW q \in FullRuns PROVE FullSlots(q)'
    <3>1. CASE q = r
      BY <1>1, <2>1, <2>4, <2>7, <3>1 DEF FullSlots
    <3>2. CASE q # r
      <4>1. q \in Runs /\ FullSlots(q)
        BY <1>2 DEF SlotsInv
      <4>2. /\ TasksIn(q, Requesting)' = TasksIn(q, Requesting)
            /\ TasksIn(q, Begun)' = TasksIn(q, Begun)
        BY <2>3, <3>2, <4>1
      <4> QED BY <1>1, <2>1, <4>1, <4>2 DEF FullSlots
    <3> QED BY <3>1, <3>2
  <2>9. ASSUME NEW q \in ActorRuns PROVE ActorSlots(q)'
    <3>1. q # r /\ q \in Runs /\ ActorSlots(q)
      BY <1>2, <2>1 DEF SlotsInv
    <3>2. TasksIn(q, Resolving)' = TasksIn(q, Resolving)
      BY <2>3, <3>1
    <3> QED BY <1>1, <2>1, <3>1, <3>2 DEF ActorSlots
  <2> QED BY <1>1, <2>8, <2>9 DEF SlotsInv
<1> QED BY <1>5, <1>6, <1>7 DEF RunStep

LEMMA NextSlotsInv == ASSUME Inv, RunInv, SlotsInv, [Next]_vars PROVE SlotsInv'
<1>1. CASE \/ HandleCommit \/ CommitLost
           \/ \E u \in Edited, c \in Cids \union {NoCid} : Commit(u, c)
           \/ UNCHANGED vars
  <2>1. UNCHANGED <<http, phase, pc>>
    BY <1>1 DEF HandleCommit, CommitLost, Commit, vars, runs
  <2> QED BY <2>1 DEF SlotsInv, FullSlots, ActorSlots, TasksIn
<1>2. CASE \E r \in Runs : StartRun(r) \/ StartActor(r) \/ RunStep(r)
  BY <1>2, RunStepSlots
<1>3. CASE \E t \in Tasks : TaskStep(t)
  BY <1>3, TaskStepSlots
<1> QED BY <1>1, <1>2, <1>3 DEF Next

LEMMA SlotsInvariance == Spec => [](Inv /\ RunInv /\ SlotsInv)
<1>1. Init => RunInv /\ SlotsInv
  BY RunInitInv, SlotsInit
<1>2. Inv /\ RunInv /\ SlotsInv /\ [Next]_vars => RunInv' /\ SlotsInv'
  BY NextRunInv, NextSlotsInv
<1> QED BY <1>1, <1>2, Invariance, PTL DEF Spec

(* For any repositories, runs and limits, a slot of httpSem is taken for    *)
(* each request under way and for nothing else, unless a request panics,    *)
(* and never more of them than there are.                                   *)
THEOREM SlotsAreReturned == Spec => []SlotsAreRequests
<1>1. SlotsInv => SlotsAreRequests
  BY DEF SlotsInv, FullSlots, SlotsAreRequests
<1> QED BY <1>1, SlotsInvariance, PTL

CommitsOK == commits \in 0..MaxCommits

LEMMA CommitsCounted == ASSUME CommitsOK, [Next]_vars PROVE CommitsOK'
<1>1. CASE \E u \in Edited, c \in Cids \union {NoCid} : Commit(u, c)
  BY <1>1, BackfillAssumption DEF Commit, CommitsOK
<1>2. CASE ~ \E u \in Edited, c \in Cids \union {NoCid} : Commit(u, c)
  <2>1. commits' = commits
    BY <1>2 DEF Next, HandleCommit, CommitLost, StartRun, StartActor, RunStep, StartResolving,
            StartProcessing, FinishRun, Discover, TaskStep, Resolve, ResolveOnce, ResolveAgain,
            Fetch, FetchReturns, NextList, ListReturns, EndLegacy, EmptyBatch, LockDID, Classify,
            Write, WriteFails, Panic, vars, accounts
  <2> QED BY <2>1 DEF CommitsOK
<1> QED BY <1>1, <1>2

(* Every variable of the backfill stays within its type, the requests under *)
(* way within MaxHTTPConcurrent.                                            *)
THEOREM BackfillTypes == Spec => []TypeOK
<1>1. Init => CommitsOK
  BY BackfillAssumption DEF Init, CommitsOK
<1>2. CommitsOK /\ [Next]_vars => CommitsOK'
  BY CommitsCounted
<1>3. Inv /\ RunInv /\ SlotsInv /\ CommitsOK => TypeOK
  <2> SUFFICES ASSUME Inv, RunInv, SlotsInv, CommitsOK PROVE TypeOK
    OBVIOUS
  <2>1. http \in [Runs -> 0..MaxHTTPConcurrent]
    <3>1. ASSUME NEW r \in Runs PROVE http[r] \in 0..MaxHTTPConcurrent
      BY BackfillAssumption DEF SlotsInv, FullSlots, ActorSlots, Runs
    <3> QED BY <3>1 DEF SlotsInv
  <2> QED BY <2>1 DEF TypeOK, CommitsOK, Inv, Types, RunInv, RunTypes, Labels
<1> QED BY <1>1, <1>2, <1>3, SlotsInvariance, PTL DEF Spec

=============================================================================
