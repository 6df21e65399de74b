--------------------------- MODULE AdminAPIProofs ---------------------------
(***************************************************************************)
(* The admin API for any number of processes, workers, Lexicons, labels,   *)
(* reports and labelers: no interleaving of admin mutations saves a set of *)
(* Lexicons that the next start would refuse, a registration never         *)
(* replaces a row, a resolved report has its label, a labeler that was     *)
(* removed comes back only through an overlapping removal, and pages of    *)
(* labels and reports are complete.                                        *)
(***************************************************************************)
EXTENDS AdminAPI, FiniteSetTheorems, WellFoundedInduction, TLAPS

(* A worker inside its transaction holds the database's lock, *)
Locked == \A w \in Workers : change[w].at \in {"read", "write", "check"} => dbLock = w

(* so what it read, and what it will check, is the table as it is now. *)
ViewsAreCurrent ==
  \A w \in Workers :
    /\ change[w].at = "write" => change[w].view = saved
    /\ change[w].at = "check" => change[w].view = DeleteAndUpsert(change[w], saved)

(* A registration writes the id it asked for, *)
OwnDocuments ==
  \A w \in Workers :
    /\ change[w].at # "idle" => change[w].kind # "none"
    /\ change[w].at = "resolve" => change[w].ids # {}
    /\ change[w].kind = "register"
         => \A doc \in change[w].puts : doc.id \in change[w].ids

(* and that id has no row once build accepted it. *)
StillFree ==
  \A w \in Workers : change[w].kind = "register" /\ change[w].at \in {"write", "check"}
    => \A i \in change[w].ids : saved[i] = NoDocument

LexInv ==
  LexTypeOK /\ SnapshotAlwaysLoads /\ Locked /\ ViewsAreCurrent /\ OwnDocuments /\ StillFree

-----------------------------------------------------------------------------
(* The rows a mutation leaves are rows. *)
LEMMA DeleteAndUpsertType ==
  ASSUME NEW c \in Changes, NEW table \in Tables
  PROVE  DeleteAndUpsert(c, table) \in Tables
<1> DEFINE D(i) == {doc \in c.puts : doc.id = i}
<1>1. c.puts \subseteq Documents
  BY DEF Changes
<1>2. ASSUME NEW i \in LexiconIds, \E doc \in c.puts : doc.id = i
      PROVE  (CHOOSE doc \in c.puts : doc.id = i) \in Documents
  BY <1>1, <1>2
<1>3. ASSUME NEW i \in LexiconIds
      PROVE  table[i] \in Documents \union {NoDocument}
  BY DEF Tables
<1> QED BY <1>2, <1>3 DEF DeleteAndUpsert, Tables

(* What a mutation does depends on what it asks for alone. *)
LEMMA DeleteAndUpsertSame ==
  ASSUME NEW c, NEW d, NEW table,
         c.kind = d.kind, c.ids = d.ids, c.puts = d.puts
  PROVE  DeleteAndUpsert(c, table) = DeleteAndUpsert(d, table)
BY Zenon DEF DeleteAndUpsert

(* A row that a registration finds stays as it is. *)
LEMMA RegisterKeeps ==
  ASSUME NEW c \in Changes, NEW table \in Tables, c.kind = "register",
         \A doc \in c.puts : doc.id \in c.ids,
         \A i \in c.ids : table[i] = NoDocument,
         NEW j \in LexiconIds, table[j] # NoDocument
  PROVE  DeleteAndUpsert(c, table)[j] = table[j]
<1>1. j \notin c.ids
  OBVIOUS
<1>2. ~ \E doc \in c.puts : doc.id = j
  BY <1>1
<1> QED BY <1>2 DEF DeleteAndUpsert

LEMMA EmptyType ==
  Empty \in Tables /\ NoChange \in Changes
BY DEF Empty, Tables, NoChange, Changes, Stages, Kinds

-----------------------------------------------------------------------------
LEMMA LexInitInv ==
  LexInit => LexInv
<1> SUFFICES ASSUME LexInit PROVE LexInv
  OBVIOUS
<1>1. LexTypeOK
  BY EmptyType DEF LexInit, LexTypeOK
<1> QED BY <1>1 DEF LexInit, LexInv, SnapshotAlwaysLoads, Locked, ViewsAreCurrent,
           OwnDocuments, StillFree, NoChange

(* Only a commit changes the table: every other step is judged on the       *)
(* worker it moves.                                                         *)
LEMMA SameTable ==
  ASSUME LexInv, LexTypeOK', saved' = saved, started' = started,
         \A w \in Workers :
           \/ change'[w] = change[w] /\ (dbLock = w => dbLock' = w)
           \/ /\ change'[w].at \in {"read", "write", "check"} => dbLock' = w
              /\ change'[w].at = "write" => change'[w].view = saved
              /\ change'[w].at = "check" => change'[w].view = DeleteAndUpsert(change'[w], saved)
              /\ change'[w].at # "idle" => change'[w].kind # "none"
              /\ change'[w].at = "resolve" => change'[w].ids # {}
              /\ change'[w].kind = "register"
                   => \A doc \in change'[w].puts : doc.id \in change'[w].ids
              /\ change'[w].kind = "register" /\ change'[w].at \in {"write", "check"}
                   => \A i \in change'[w].ids : saved[i] = NoDocument
  PROVE  LexInv'
<1>1. SnapshotAlwaysLoads'
  BY DEF LexInv, SnapshotAlwaysLoads, CheckLexiconSet, LexiconSetWithFilesystem
<1>2. Locked'
  BY DEF LexInv, Locked
<1>3. ViewsAreCurrent'
  <2>1. \A w \in Workers : DeleteAndUpsert(change[w], saved)' = DeleteAndUpsert(change'[w], saved)
    BY DEF DeleteAndUpsert
  <2>2. \A w \in Workers : change'[w] = change[w]
          => DeleteAndUpsert(change'[w], saved) = DeleteAndUpsert(change[w], saved)
    BY Zenon
  <2> QED BY <2>1, <2>2 DEF LexInv, ViewsAreCurrent
<1>4. OwnDocuments'
  BY DEF LexInv, OwnDocuments
<1>5. StillFree'
  BY DEF LexInv, StillFree
<1> QED BY <1>1, <1>2, <1>3, <1>4, <1>5 DEF LexInv

LEMMA TypeStep ==
  LexTypeOK /\ [LexNext]_lexVars => LexTypeOK'
<1> SUFFICES ASSUME LexTypeOK, [LexNext]_lexVars PROVE LexTypeOK'
  OBVIOUS
<1> USE LexiconsAssumption
<1>0. \A w \in Workers : change[w] \in Changes
  BY DEF LexTypeOK
<1>t. LexiconSetWithFilesystem(saved) \in Tables
  BY DEF LexTypeOK, LexiconSetWithFilesystem, Tables
<1>e. ASSUME NEW w \in Workers, EndMutation(w)
      PROVE  /\ change' \in [Workers -> Changes]
             /\ mutex' \in [Processes -> Workers \union {NoWorker}]
             /\ dbLock' \in Workers \union {NoWorker}
  BY <1>e, EmptyType DEF EndMutation, LexTypeOK
<1>1. CASE UNCHANGED lexVars
  BY <1>1 DEF lexVars, LexTypeOK
<1>2. ASSUME NEW p \in Processes, LexStart(p) PROVE LexTypeOK'
  BY <1>2, <1>t DEF LexStart, LexTypeOK
<1>3. ASSUME NEW p \in Processes, LexCrash(p) PROVE LexTypeOK'
  BY <1>3, EmptyType DEF LexCrash, LexTypeOK
<1>4. ASSUME NEW w \in Workers, NEW docs \in SUBSET Documents, UploadLexicons(w, docs)
      PROVE  LexTypeOK'
  <2> DEFINE c == [NoChange EXCEPT !.at = "lock", !.kind = "upload", !.puts = docs]
  <2>1. c \in Changes
    BY EmptyType DEF Changes, Stages, Kinds
  <2> QED BY <1>4, <2>1 DEF UploadLexicons, LexTypeOK
<1>5. ASSUME NEW w \in Workers, NEW id \in LexiconIds, RegisterLexicon(w, id)
      PROVE  LexTypeOK'
  <2> DEFINE c == [NoChange EXCEPT !.at = "resolve", !.kind = "register", !.ids = {id}]
  <2>1. c \in Changes
    BY EmptyType DEF Changes, Stages, Kinds
  <2> QED BY <1>5, <2>1 DEF RegisterLexicon, LexTypeOK
<1>6. ASSUME NEW w \in Workers, NEW id \in LexiconIds, DeleteLexicon(w, id)
      PROVE  LexTypeOK'
  <2> DEFINE c == [NoChange EXCEPT !.at = "lock", !.kind = "delete", !.ids = {id}]
  <2>1. c \in Changes
    BY EmptyType DEF Changes, Stages, Kinds
  <2> QED BY <1>6, <2>1 DEF DeleteLexicon, LexTypeOK
<1>7. ASSUME NEW w \in Workers, NEW doc \in Documents, ResolveLexicon(w, doc)
      PROVE  LexTypeOK'
  <2>1. [change[w] EXCEPT !.at = "lock", !.puts = {doc}] \in Changes
    BY <1>0 DEF Changes, Stages
  <2> QED BY <1>7, <2>1 DEF ResolveLexicon, LexTypeOK
<1>8. ASSUME NEW w \in Workers, LockMutationMu(w) PROVE LexTypeOK'
  <2>1. [change[w] EXCEPT !.at = "begin"] \in Changes
    BY <1>0 DEF Changes, Stages
  <2> QED BY <1>8, <2>1 DEF LockMutationMu, LexTypeOK
<1>9. ASSUME NEW w \in Workers, AcquireMutationLock(w) PROVE LexTypeOK'
  <2>1. [change[w] EXCEPT !.at = "read"] \in Changes
    BY <1>0 DEF Changes, Stages
  <2> QED BY <1>9, <2>1 DEF AcquireMutationLock, LexTypeOK
<1>10. ASSUME NEW w \in Workers, ReadAndBuild(w) PROVE LexTypeOK'
  <2>0. saved \in Tables
    BY DEF LexTypeOK
  <2>1. [change[w] EXCEPT !.at = "write", !.view = saved] \in Changes
    BY <1>0, <2>0 DEF Changes, Stages
  <2>2. CASE EndMutation(w)
    BY <1>10, <2>2, <1>e DEF ReadAndBuild, LexTypeOK
  <2>3. CASE /\ change' = [change EXCEPT ![w].at = "write", ![w].view = saved]
             /\ UNCHANGED <<mutex, dbLock>>
    BY <1>10, <2>1, <2>3 DEF ReadAndBuild, LexTypeOK
  <2> QED BY <1>10, <2>2, <2>3 DEF ReadAndBuild
<1>11. ASSUME NEW w \in Workers, WriteInTransaction(w) PROVE LexTypeOK'
  <2>1. change[w].view \in Tables
    BY <1>0 DEF Changes
  <2>2. DeleteAndUpsert(change[w], change[w].view) \in Tables
    BY <1>0, <2>1, DeleteAndUpsertType
  <2>3. [change[w] EXCEPT !.at = "check",
                          !.view = DeleteAndUpsert(change[w], change[w].view)] \in Changes
    BY <1>0, <2>2 DEF Changes, Stages
  <2> QED BY <1>11, <2>3 DEF WriteInTransaction, LexTypeOK
<1>12. ASSUME NEW w \in Workers, CheckAndCommit(w) PROVE LexTypeOK'
  <2>1. DeleteAndUpsert(change[w], saved) \in Tables
    BY <1>0, DeleteAndUpsertType DEF LexTypeOK
  <2>2. saved' \in Tables
    BY <1>12, <2>1 DEF CheckAndCommit, LexTypeOK
  <2> QED BY <1>12, <2>2, <1>e DEF CheckAndCommit, LexTypeOK
<1>13. ASSUME NEW w \in Workers, MutationFails(w) PROVE LexTypeOK'
  BY <1>13, <1>e DEF MutationFails, LexTypeOK
<1> QED BY <1>1, <1>2, <1>3, <1>4, <1>5, <1>6, <1>7, <1>8, <1>9, <1>10, <1>11, <1>12, <1>13
        DEF LexNext, LexRequest, LexStep

-----------------------------------------------------------------------------
LEMMA LexInvStep ==
  LexInv /\ [LexNext]_lexVars => LexInv'
<1> SUFFICES ASSUME LexInv, [LexNext]_lexVars PROVE LexInv'
  OBVIOUS
<1> USE LexiconsAssumption
<1>t. LexTypeOK /\ LexTypeOK'
  BY TypeStep DEF LexInv
<1>0. \A w \in Workers : change[w] \in Changes
  BY <1>t DEF LexTypeOK
<1>n. NoChange.at = "idle" /\ NoChange.kind = "none" /\ NoChange.puts = {}
  BY DEF NoChange
<1>d. DOMAIN change = Workers
  BY <1>t DEF LexTypeOK
<1>e. ASSUME NEW w \in Workers, EndMutation(w)
      PROVE  /\ change'[w] = NoChange
             /\ \A v \in Workers : v # w => /\ change'[v] = change[v]
                                            /\ dbLock = v => dbLock' = v
  BY <1>e, <1>t DEF EndMutation, LexTypeOK
<1>1. CASE UNCHANGED lexVars
  BY <1>1, <1>t, SameTable DEF lexVars
<1>2. ASSUME NEW p \in Processes, LexStart(p) PROVE LexInv'
  <2>1. SnapshotAlwaysLoads'
    BY <1>2 DEF LexStart, SnapshotAlwaysLoads, CheckLexiconSet, LexiconSetWithFilesystem
  <2> QED BY <1>2, <1>t, <2>1 DEF LexStart, LexInv, Locked, ViewsAreCurrent, OwnDocuments,
             StillFree, DeleteAndUpsert
<1>3. ASSUME NEW p \in Processes, LexCrash(p) PROVE LexInv'
  <2>1. \A w \in Workers : \/ change'[w] = NoChange
                           \/ change'[w] = change[w] /\ (dbLock = w => dbLock' = w)
    BY <1>3, <1>t DEF LexCrash, LexTypeOK
  <2> QED BY <1>3, <1>t, <1>n, <2>1, SameTable DEF LexCrash
<1>4. ASSUME NEW w \in Workers, NEW docs \in SUBSET Documents, UploadLexicons(w, docs)
      PROVE  LexInv'
  <2>1. change'[w].at = "lock" /\ change'[w].kind = "upload"
    BY <1>4, <1>t, EmptyType DEF UploadLexicons, LexTypeOK, Changes
  <2>2. \A v \in Workers : v # w => change'[v] = change[v]
    BY <1>4, <1>t DEF UploadLexicons, LexTypeOK
  <2> QED BY <1>4, <1>t, <2>1, <2>2, SameTable DEF UploadLexicons
<1>5. ASSUME NEW w \in Workers, NEW id \in LexiconIds, RegisterLexicon(w, id)
      PROVE  LexInv'
  <2>1. /\ change'[w].at = "resolve" /\ change'[w].kind = "register"
        /\ change'[w].puts = {} /\ change'[w].ids = {id}
    BY <1>5, <1>t, <1>n, EmptyType DEF RegisterLexicon, LexTypeOK, Changes
  <2>2. \A v \in Workers : v # w => change'[v] = change[v]
    BY <1>5, <1>t DEF RegisterLexicon, LexTypeOK
  <2> QED BY <1>5, <1>t, <2>1, <2>2, SameTable DEF RegisterLexicon
<1>6. ASSUME NEW w \in Workers, NEW id \in LexiconIds, DeleteLexicon(w, id)
      PROVE  LexInv'
  <2>1. change'[w].at = "lock" /\ change'[w].kind = "delete"
    BY <1>6, <1>t, EmptyType DEF DeleteLexicon, LexTypeOK, Changes
  <2>2. \A v \in Workers : v # w => change'[v] = change[v]
    BY <1>6, <1>t DEF DeleteLexicon, LexTypeOK
  <2> QED BY <1>6, <1>t, <2>1, <2>2, SameTable DEF DeleteLexicon
<1>7. ASSUME NEW w \in Workers, NEW doc \in Documents, ResolveLexicon(w, doc)
      PROVE  LexInv'
  <2>1. /\ change'[w].at = "lock" /\ change'[w].puts = {doc}
        /\ change'[w].kind = change[w].kind /\ change'[w].ids = change[w].ids
    BY <1>7, <1>0, <1>t DEF ResolveLexicon, LexTypeOK, Changes
  <2>2. \A v \in Workers : v # w => change'[v] = change[v]
    BY <1>7, <1>t DEF ResolveLexicon, LexTypeOK
  <2>3. change[w].kind # "none"
    BY <1>7 DEF ResolveLexicon, LexInv, OwnDocuments
  <2>4. doc.id \in change[w].ids
    BY <1>7 DEF ResolveLexicon, CheckLexiconBytes, LexInv, OwnDocuments
  <2> QED BY <1>7, <1>t, <2>1, <2>2, <2>3, <2>4, SameTable DEF ResolveLexicon
<1>8. ASSUME NEW w \in Workers, LockMutationMu(w) PROVE LexInv'
  <2>1. /\ change'[w].at = "begin" /\ change'[w].puts = change[w].puts
        /\ change'[w].kind = change[w].kind /\ change'[w].ids = change[w].ids
    BY <1>8, <1>0, <1>t DEF LockMutationMu, LexTypeOK, Changes
  <2>2. \A v \in Workers : v # w => change'[v] = change[v]
    BY <1>8, <1>t DEF LockMutationMu, LexTypeOK
  <2>3. /\ change[w].kind # "none"
        /\ change[w].kind = "register" => \A doc \in change[w].puts : doc.id \in change[w].ids
    BY <1>8 DEF LockMutationMu, LexInv, OwnDocuments
  <2> QED BY <1>8, <1>t, <2>1, <2>2, <2>3, SameTable DEF LockMutationMu
<1>9. ASSUME NEW w \in Workers, AcquireMutationLock(w) PROVE LexInv'
  <2>1. /\ change'[w].at = "read" /\ change'[w].puts = change[w].puts
        /\ change'[w].kind = change[w].kind /\ change'[w].ids = change[w].ids
    BY <1>9, <1>0, <1>t DEF AcquireMutationLock, LexTypeOK, Changes
  <2>2. \A v \in Workers : v # w => change'[v] = change[v] /\ dbLock # v
    BY <1>9, <1>t DEF AcquireMutationLock, LexTypeOK
  <2>3. /\ change[w].kind # "none"
        /\ change[w].kind = "register" => \A doc \in change[w].puts : doc.id \in change[w].ids
    BY <1>9 DEF AcquireMutationLock, LexInv, OwnDocuments
  <2> QED BY <1>9, <1>t, <2>1, <2>2, <2>3, SameTable DEF AcquireMutationLock
<1>10. ASSUME NEW w \in Workers, ReadAndBuild(w) PROVE LexInv'
  <2>1. CASE EndMutation(w)
    BY <1>10, <1>t, <1>n, <1>e, <2>1, SameTable DEF ReadAndBuild
  <2>2. CASE ~BuildFails(change[w], saved)
    <3>1. /\ change'[w].at = "write" /\ change'[w].puts = change[w].puts
          /\ change'[w].kind = change[w].kind /\ change'[w].ids = change[w].ids
          /\ change'[w].view = saved
      BY <1>10, <2>2, <1>0, <1>t DEF ReadAndBuild, LexTypeOK, Changes
    <3>2. \A v \in Workers : v # w => change'[v] = change[v]
      BY <1>10, <2>2, <1>t DEF ReadAndBuild, LexTypeOK
    <3>3. /\ change[w].kind # "none" /\ dbLock = w
          /\ change[w].kind = "register" => \A doc \in change[w].puts : doc.id \in change[w].ids
      BY <1>10 DEF ReadAndBuild, LexInv, OwnDocuments, Locked
    <3>4. change[w].kind = "register" => \A i \in change[w].ids : saved[i] = NoDocument
      BY <2>2 DEF BuildFails
    <3>5. dbLock' = dbLock
      BY <1>10, <2>2 DEF ReadAndBuild
    <3> QED BY <1>10, <1>t, <3>1, <3>2, <3>3, <3>4, <3>5, SameTable DEF ReadAndBuild
  <2> QED BY <1>10, <2>1, <2>2 DEF ReadAndBuild
<1>11. ASSUME NEW w \in Workers, WriteInTransaction(w) PROVE LexInv'
  <2>1. /\ change'[w].at = "check" /\ change'[w].puts = change[w].puts
        /\ change'[w].kind = change[w].kind /\ change'[w].ids = change[w].ids
        /\ change'[w].view = DeleteAndUpsert(change[w], change[w].view)
    BY <1>11, <1>0, <1>t DEF WriteInTransaction, LexTypeOK, Changes
  <2>2. \A v \in Workers : v # w => change'[v] = change[v]
    BY <1>11, <1>t DEF WriteInTransaction, LexTypeOK
  <2>3. /\ change[w].kind # "none" /\ dbLock = w /\ change[w].view = saved
        /\ change[w].kind = "register" => \A doc \in change[w].puts : doc.id \in change[w].ids
        /\ change[w].kind = "register" => \A i \in change[w].ids : saved[i] = NoDocument
    BY <1>11 DEF WriteInTransaction, LexInv, OwnDocuments, Locked, StillFree, ViewsAreCurrent
  <2>4. DeleteAndUpsert(change'[w], saved) = DeleteAndUpsert(change[w], saved)
    BY <2>1, DeleteAndUpsertSame
  <2>5. change'[w].view = DeleteAndUpsert(change'[w], saved)
    BY <2>1, <2>3, <2>4
  <2> QED BY <1>11, <1>t, <2>1, <2>2, <2>3, <2>5, SameTable DEF WriteInTransaction
<1>12. ASSUME NEW w \in Workers, CheckAndCommit(w) PROVE LexInv'
  <2>1. /\ dbLock = w /\ change[w].view = DeleteAndUpsert(change[w], saved)
    BY <1>12 DEF CheckAndCommit, LexInv, Locked, ViewsAreCurrent
  <2>2. /\ change'[w] = NoChange
        /\ \A v \in Workers : v # w => change'[v] = change[v]
    BY <1>12, <1>e DEF CheckAndCommit
  <2>3. \A v \in Workers : v # w => change[v].at \notin {"read", "write", "check"}
    BY <2>1 DEF LexInv, Locked
  <2>4. \A v \in Workers : change'[v].at \notin {"read", "write", "check"}
    BY <2>2, <2>3, <1>n
  <2>5. started' => CheckLexiconSet(LexiconSetWithFilesystem(saved'))
    <3>1. CASE saved' = saved
      BY <1>12, <3>1 DEF CheckAndCommit, LexInv, SnapshotAlwaysLoads
    <3>2. CASE /\ saved' = DeleteAndUpsert(change[w], saved)
               /\ CheckLexiconSet(LexiconSetWithFilesystem(change[w].view))
      BY <3>2, <2>1
    <3> QED BY <1>12, <3>1, <3>2 DEF CheckAndCommit
  <2>6. SnapshotAlwaysLoads'
    BY <2>5 DEF SnapshotAlwaysLoads, CheckLexiconSet, LexiconSetWithFilesystem
  <2>7. OwnDocuments'
    BY <2>2, <1>n DEF LexInv, OwnDocuments
  <2> QED BY <1>t, <2>4, <2>6, <2>7 DEF LexInv, Locked, ViewsAreCurrent, StillFree
<1>13. ASSUME NEW w \in Workers, MutationFails(w) PROVE LexInv'
  BY <1>13, <1>t, <1>n, <1>e, SameTable DEF MutationFails
<1> QED BY <1>1, <1>2, <1>3, <1>4, <1>5, <1>6, <1>7, <1>8, <1>9, <1>10, <1>11, <1>12, <1>13
        DEF LexNext, LexRequest, LexStep

-----------------------------------------------------------------------------
(* Whatever admins upload, register and delete, in any number of processes  *)
(* at once and with failures and crashes at any step, the next start gets   *)
(* its Lexicon snapshot (NewValidatorFromLexiconBytes).                     *)
THEOREM SnapshotLoads == LexSpec => []SnapshotAlwaysLoads
<1>1. LexInv => SnapshotAlwaysLoads
  BY DEF LexInv
<1> QED BY <1>1, LexInitInv, LexInvStep, PTL DEF LexSpec

(* A step that changes a row is the commit of an upload or a deletion. *)
LEMMA ReplacingStep ==
  ASSUME LexInv, [LexNext]_lexVars,
         NEW i \in LexiconIds, saved[i] # NoDocument, saved'[i] # saved[i]
  PROVE  \E w \in Workers : change[w].kind \in {"upload", "delete"}
                            /\ change[w].at = "check" /\ change'[w].at = "idle"
<1>1. PICK w \in Workers : CheckAndCommit(w)
  BY DEF LexNext, LexRequest, LexStep, lexVars, LexStart, LexCrash, UploadLexicons,
         RegisterLexicon, DeleteLexicon, ResolveLexicon, LockMutationMu,
         AcquireMutationLock, ReadAndBuild, WriteInTransaction, MutationFails
<1>2. change[w] \in Changes /\ saved \in Tables
  BY DEF LexInv, LexTypeOK
<1>3. change[w].at = "check" /\ saved' = DeleteAndUpsert(change[w], saved)
  BY <1>1 DEF CheckAndCommit
<1>4. change'[w].at = "idle"
  BY <1>1 DEF CheckAndCommit, EndMutation, LexInv, LexTypeOK, NoChange
<1>5. change[w].kind # "register"
  BY <1>2, <1>3, RegisterKeeps DEF LexInv, OwnDocuments, StillFree
<1>6. change[w].kind \in {"upload", "delete"}
  BY <1>2, <1>3, <1>5 DEF LexInv, OwnDocuments, Changes, Kinds
<1> QED BY <1>3, <1>4, <1>6

(* A registration never replaces the row another request saved while its    *)
(* schema was being resolved.                                               *)
THEOREM RegistrationIsFirst == LexSpec => RegistrationReplacesNothing
<1>1. LexInv /\ [LexNext]_lexVars
        => [\A i \in LexiconIds : saved[i] # NoDocument /\ saved'[i] # saved[i]
              => \E w \in Workers : change[w].kind \in {"upload", "delete"}
                    /\ change[w].at = "check" /\ change'[w].at = "idle"]_lexVars
  BY ReplacingStep
<1> QED BY <1>1, LexInitInv, LexInvStep, PTL DEF LexSpec, RegistrationReplacesNothing
-----------------------------------------------------------------------------
(* The requests of AdminAPI beside the Lexicons' *)

Labelled(u) == \E l \in labels : l.uri = u /\ ~l.neg

(* The task is to resolve or dismiss that report. *)
Concerns(t, r) == t.at \in {"applyLabel", "setStatus"} /\ t.report = r.id

(* An id stands for one report for good: it is never given again. *)
OneSubject ==
  /\ \A r, q \in reports : r.id = q.id => r.subject = q.subject
  /\ \A w \in Workers : task[w].at \in {"applyLabel", "setStatus"}
       => task[w].report <= lastReport
  /\ \A w \in Workers, r \in reports :
       Concerns(task[w], r) /\ task[w].status = "resolved" => task[w].subject = r.subject

(* A resolution is about to be recorded only of a subject that is labelled, *)
(* a reset in between excepted.                                             *)
ResolvesLabelled ==
  \A w \in Workers, r \in reports :
    Concerns(task[w], r) /\ task[w].at = "setStatus" /\ task[w].status = "resolved"
      /\ r.id \notin filedInReset
    => Labelled(r.subject)

(* Between the two deletions of a reset only reports filed since are left. *)
ResetIsEmpty ==
  \A w \in Workers : task[w].at = "resetLabels" => \A r \in reports : r.id \in filedInReset

ReportInv == OneSubject /\ ResolvesLabelled /\ ResetIsEmpty /\ ResolvedIsLabelled

(* A removal under way writes what is stored now, or may bring it back. *)
RemovalInv ==
  \A w \in Workers : task[w].at = "storeURLs"
    => task[w].urls \subseteq LabelerSubscribeURLList(FALSE) \union mayReturn[w]

(* What was read is at or above the cursor; what has lasted is a row still, *)
(* and was read or lies below it.                                           *)
WalkInv ==
  /\ walk.lasting # {} => walk.of # "none" /\ walk.lasting \subseteq Rows(walk.of)
  /\ IF walk.after = 0 THEN walk.got = {} ELSE \A i \in walk.got : walk.after <= i
  /\ walk.at = "reading" => \A i \in walk.lasting : i \in walk.got \/ walk.after = 0 \/ i < walk.after
  /\ walk.at = "end" => walk.lasting \subseteq walk.got

AdminInv == TypeOK /\ ReportInv /\ RemovalInv /\ WalkInv

-----------------------------------------------------------------------------
(* To the Lexicons every other request is a stuttering step. *)
LEMMA ComposedStep ==
  [Next]_vars => [LexNext]_lexVars
<1> SUFFICES ASSUME [Next]_vars PROVE [LexNext]_lexVars
  OBVIOUS
<1> USE DEF LexNext
<1>1. CASE UNCHANGED vars
  BY <1>1 DEF vars
<1>2. ASSUME NEW p \in Processes, Start(p) \/ Crash(p) \/ BackfillEnds(p)
      PROVE  [LexNext]_lexVars
  BY <1>2 DEF Start, Crash, BackfillEnds
<1>3. ASSUME NEW w \in Workers, LexiconRequest(w) \/ LexiconStep(w)
      PROVE  [LexNext]_lexVars
  BY <1>3 DEF LexiconRequest, LexiconStep
<1>4. ASSUME NEW w \in Workers, Mutation(w)
      PROVE  UNCHANGED lexVars
  BY <1>4 DEF Mutation, LabelMutation, ReportMutation, CreateLabel, NegateLabel,
     CreateLabelDefinition, ResolveReport, DismissReport, ResetAll,
     RemoveLabelerSubscribeURL, TriggerBackfill
<1>5. ASSUME NEW w \in Workers, Statement(w)
      PROVE  UNCHANGED lexVars
  BY <1>5 DEF Statement, InsertLabel, InsertDefinition, ApplyLabel, SetStatus, ResetReports,
     ResetLabels, ResetRest, StoreURLs, RequestFails
<1>6. ASSUME \/ \E u \in Subjects : FileReport(u)
             \/ \E of \in {"label", "report"} : StartWalk(of)
             \/ Labels \/ Reports
      PROVE  UNCHANGED lexVars
  BY <1>6 DEF FileReport, StartWalk, Labels, Reports, ReadPage
<1> QED BY <1>1, <1>2, <1>3, <1>4, <1>5, <1>6 DEF Next

(* The requests of the admin API leave the Lexicons to their own rules. *)
THEOREM AdminRefinesLexicons == Spec => LexSpec
<1>1. Init => LexInit
  BY DEF Init
<1> QED BY <1>1, ComposedStep, PTL DEF Spec, LexSpec

(* With every admin request going on: the next start gets its snapshot, *)
THEOREM SnapshotLoadsWithAdmin == Spec => []SnapshotAlwaysLoads
BY AdminRefinesLexicons, SnapshotLoads, PTL

(* and a registration replaces nothing. *)
THEOREM RegistrationIsFirstWithAdmin == Spec => RegistrationReplacesNothing
BY AdminRefinesLexicons, RegistrationIsFirst, PTL

-----------------------------------------------------------------------------
LEMMA AdminInitType ==
  Init => TypeOK
<1> SUFFICES ASSUME Init PROVE TypeOK
  OBVIOUS
<1> USE AdminAssumption
<1>1. LexTypeOK
  BY LexInitInv DEF Init, LexInv
<1>2. Cardinality(OldLabels) \in Nat /\ Cardinality(OldReports) \in Nat
  BY FS_CardinalityType
<1>3. Done \in Tasks /\ Complete(Done)
  BY DEF Done, Tasks, TaskSteps, Complete
<1>4. NoWalk \in Walks
  BY DEF NoWalk, Walks
<1>5. labels \subseteq [id: 1..lastLabel, uri: Subjects, val: Vals, neg: BOOLEAN]
  BY DEF Init
<1>6. reports \subseteq [id: 1..lastReport, subject: Subjects, status: Statuses]
  BY DEF Init, Statuses
<1>7. backfilling \in [Processes -> BOOLEAN]
  BY DEF Init
<1>8. /\ definitions \subseteq Vals
      /\ lastLabel \in Nat /\ lastReport \in 0..MaxReports
      /\ urls \in (SUBSET URLs) \union {NotStored}
      /\ task \in [Workers -> Tasks] /\ \A w \in Workers : Complete(task[w])
  BY <1>2, <1>3 DEF Init
<1>9. /\ walk \in Walks
      /\ served \in 0..MaxRequests
      /\ filedInReset \subseteq 1..MaxReports
      /\ mayReturn \in [Workers -> SUBSET URLs]
  BY <1>4 DEF Init
<1> QED BY <1>1, <1>5, <1>6, <1>7, <1>8, <1>9 DEF TypeOK

(* A request that is admitted, and what is left of one *)
LEMMA TaskTypes ==
  /\ Done \in Tasks /\ Complete(Done) /\ Done.at = "idle"
  /\ \A at \in {"resetReports", "resetLabels", "resetRest"} :
       Task(at) \in Tasks /\ Complete(Task(at)) /\ Task(at).at = at
BY AdminAssumption DEF Done, Task, Tasks, TaskSteps, Complete

(* A step that moves one worker to a task of the right type, or none, and   *)
(* leaves tables and pages alone                                            *)
LEMMA TaskStepType ==
  ASSUME TypeOK, LexTypeOK', NEW w \in Workers, NEW t \in Tasks, Complete(t),
         Goto(w, t), served' \in 0..MaxRequests,
         UNCHANGED <<definitions, labels, lastLabel, reports, lastReport, urls, backfilling,
                     walk, filedInReset>>,
         mayReturn' \in [Workers -> SUBSET URLs]
  PROVE  TypeOK'
<1>1. task' \in [Workers -> Tasks] /\ \A v \in Workers : Complete(task'[v])
  BY DEF Goto, TypeOK
<1>2. \A v \in Workers : Complete(task[v])'
  BY <1>1 DEF Complete
<1> QED BY <1>1, <1>2 DEF TypeOK

LEMMA LeastOf ==
  ASSUME NEW S, S \subseteq Nat, S # {}
  PROVE  Min(S) \in S /\ \A y \in S : Min(S) <= y
<1>1. \E x \in S : \A y \in S : ~ (<<y, x>> \in OpToRel(<, Nat))
  BY NatLessThanWellFounded, WFMin
<1>2. PICK x \in S : \A y \in S : ~ (<<y, x>> \in OpToRel(<, Nat))
  BY <1>1
<1>3. ASSUME NEW y \in S PROVE x <= y
  <2>1. <<y, x>> \notin {ss \in Nat \X Nat : ss[1] < ss[2]}
    BY <1>2 DEF OpToRel
  <2>2. <<y, x>> \in Nat \X Nat /\ <<y, x>>[1] = y /\ <<y, x>>[2] = x
    OBVIOUS
  <2>3. ~ (y < x)
    BY <2>1, <2>2, Zenon
  <2> QED BY <2>3
<1> QED BY <1>3 DEF Min

(* A page leaves out only rows below it. *)
LEMMA PageIsOnTop ==
  ASSUME NEW ids, ids \subseteq Nat, IsFiniteSet(ids),
         NEW i \in PageOf(ids), NEW j \in ids, i < j
  PROVE  j \in PageOf(ids)
<1> DEFINE above(k) == {n \in ids : n > k}
<1>0. i \in Nat /\ j \in Nat
  BY DEF PageOf
<1>a. ASSUME NEW n \in ids, n > j PROVE n > i
  BY <1>0, <1>a
<1>1. above(j) \subseteq above(i) /\ above(i) \subseteq ids
  BY <1>a, Zenon
<1>2. IsFiniteSet(above(i))
  BY <1>1, FS_Subset
<1>3. /\ Cardinality(above(j)) <= Cardinality(above(i))
      /\ Cardinality(above(i)) \in Nat /\ Cardinality(above(j)) \in Nat
  BY <1>1, <1>2, FS_Subset, FS_CardinalityType
<1>4. Cardinality(above(i)) < PageSize
  BY DEF PageOf
<1> HIDE DEF above
<1>5. Cardinality(above(j)) < PageSize
  BY <1>3, <1>4, AdminAssumption
<1> QED BY <1>5 DEF PageOf, above

LEMMA RowsAreFinite ==
  ASSUME TypeOK, NEW of
  PROVE  Rows(of) \subseteq Nat \ {0} /\ IsFiniteSet(Rows(of))
<1>1. /\ LabelIds \subseteq 1..lastLabel /\ PendingReportIds \subseteq 1..lastReport
      /\ lastLabel \in Int /\ lastReport \in Int
  BY AdminAssumption DEF TypeOK, LabelIds, PendingReportIds
<1>2. IsFiniteSet(1..lastLabel) /\ IsFiniteSet(1..lastReport)
  BY <1>1, FS_Interval
<1>3. IsFiniteSet(LabelIds) /\ IsFiniteSet(PendingReportIds)
  BY <1>1, <1>2, FS_Subset
<1> QED BY <1>1, <1>3 DEF Rows

LEMMA AdminTypeStep ==
  TypeOK /\ [Next]_vars => TypeOK'
<1> SUFFICES ASSUME TypeOK, [Next]_vars PROVE TypeOK'
  OBVIOUS
<1> USE AdminAssumption, TaskTypes
<1>l. LexTypeOK'
  BY ComposedStep, TypeStep DEF TypeOK
<1>t. task \in [Workers -> Tasks] /\ \A w \in Workers : Complete(task[w])
  BY DEF TypeOK
<1>m. mayReturn \in [Workers -> SUBSET URLs] /\ served \in 0..MaxRequests
  BY DEF TypeOK
<1>a. ASSUME NEW w \in Workers, Admitted(w) PROVE served' \in 0..MaxRequests
  BY <1>a, <1>m DEF Admitted
<1>i. ASSUME NEW u \in Subjects, NEW v \in Vals, NEW neg \in BOOLEAN, InsertRow(u, v, neg)
      PROVE  /\ lastLabel' \in Nat
             /\ labels' \subseteq [id: 1..lastLabel', uri: Subjects, val: Vals, neg: BOOLEAN]
  BY <1>i DEF InsertRow, Label, TypeOK
<1>1. CASE UNCHANGED vars
  BY <1>1, <1>l DEF vars, modVars, TypeOK, Complete
<1>2. ASSUME NEW p \in Processes, Start(p) PROVE TypeOK'
  BY <1>2, <1>l DEF Start, modVars, TypeOK, Complete
<1>3. ASSUME NEW p \in Processes, Crash(p) PROVE TypeOK'
  <2>1. task' \in [Workers -> Tasks] /\ \A w \in Workers : Complete(task'[w])
    BY <1>3, <1>t DEF Crash
  <2>2. backfilling' \in [Processes -> BOOLEAN]
    BY <1>3 DEF Crash, TypeOK
  <2>3. \A v \in Workers : Complete(task[v])'
    BY <2>1 DEF Complete
  <2> QED BY <1>3, <1>l, <2>1, <2>2, <2>3 DEF Crash, TypeOK
<1>4. ASSUME NEW p \in Processes, BackfillEnds(p) PROVE TypeOK'
  <2>1. backfilling' \in [Processes -> BOOLEAN]
    BY <1>4 DEF BackfillEnds, TypeOK
  <2> QED BY <1>4, <1>l, <2>1 DEF BackfillEnds, TypeOK, Complete
<1>5. ASSUME NEW w \in Workers, LexiconRequest(w) PROVE TypeOK'
  BY <1>5, <1>l, <1>a DEF LexiconRequest, TypeOK, Complete
<1>6. ASSUME NEW w \in Workers, LexiconStep(w) PROVE TypeOK'
  BY <1>6, <1>l DEF LexiconStep, modVars, TypeOK, Complete
<1>7. ASSUME NEW w \in Workers, NEW u \in Subjects, NEW v \in Vals, CreateLabel(w, u, v)
      PROVE  TypeOK'
  <2> DEFINE t == [Task("insertLabel") EXCEPT !.subject = u, !.val = v]
  <2>1. t \in Tasks /\ Complete(t)
    BY DEF Done, Task, Tasks, TaskSteps, Complete
  <2> QED BY <1>7, <1>l, <1>a, <1>m, <2>1, TaskStepType DEF CreateLabel
<1>8. ASSUME NEW w \in Workers, InsertLabel(w) PROVE TypeOK'
  <2>1. task[w].subject \in Subjects /\ task[w].val \in Vals
    BY <1>8, <1>t DEF InsertLabel, Complete
  <2>2. /\ lastLabel' \in Nat
        /\ labels' \subseteq [id: 1..lastLabel', uri: Subjects, val: Vals, neg: BOOLEAN]
    BY <1>8, <1>i, <2>1 DEF InsertLabel
  <2>3. task' \in [Workers -> Tasks] /\ \A v \in Workers : Complete(task'[v])
    BY <1>8, <1>t DEF InsertLabel, Goto
  <2>4. \A v \in Workers : Complete(task[v])'
    BY <2>3 DEF Complete
  <2> QED BY <1>8, <1>l, <2>2, <2>3, <2>4 DEF InsertLabel, TypeOK
<1>9. ASSUME NEW w \in Workers, NEW u \in Subjects, NEW v \in Vals, NegateLabel(w, u, v)
      PROVE  TypeOK'
  <2>1. /\ lastLabel' \in Nat
        /\ labels' \subseteq [id: 1..lastLabel', uri: Subjects, val: Vals, neg: BOOLEAN]
    BY <1>9, <1>i DEF NegateLabel
  <2> QED BY <1>9, <1>l, <1>a, <2>1 DEF NegateLabel, TypeOK, Complete
<1>10. ASSUME NEW w \in Workers, NEW v \in Vals, CreateLabelDefinition(w, v) PROVE TypeOK'
  <2> DEFINE t == [Task("insertDefinition") EXCEPT !.val = v]
  <2>1. t \in Tasks /\ Complete(t)
    BY DEF Done, Task, Tasks, TaskSteps, Complete
  <2> QED BY <1>10, <1>l, <1>a, <1>m, <2>1, TaskStepType DEF CreateLabelDefinition
<1>11. ASSUME NEW w \in Workers, InsertDefinition(w) PROVE TypeOK'
  <2>1. definitions' \subseteq Vals
    BY <1>11, <1>t DEF InsertDefinition, Complete, TypeOK
  <2>2. task' \in [Workers -> Tasks] /\ \A v \in Workers : Complete(task'[v])
    BY <1>11, <1>t DEF InsertDefinition, Goto
  <2>3. \A v \in Workers : Complete(task[v])'
    BY <2>2 DEF Complete
  <2> QED BY <1>11, <1>l, <2>1, <2>2, <2>3 DEF InsertDefinition, TypeOK
<1>12. ASSUME NEW w \in Workers, NEW r \in reports, NEW v \in Vals, ResolveReport(w, r, v)
       PROVE  TypeOK'
  <2> DEFINE t == [Task("applyLabel") EXCEPT !.subject = r.subject, !.val = v,
                                             !.report = r.id, !.status = "resolved"]
  <2>1. r.id \in 0..MaxReports /\ r.subject \in Subjects
    BY DEF TypeOK
  <2>2. t \in Tasks /\ Complete(t)
    BY <2>1 DEF Done, Task, Tasks, TaskSteps, Complete, Statuses
  <2> QED BY <1>12, <1>l, <1>a, <1>m, <2>2, TaskStepType DEF ResolveReport
<1>13. ASSUME NEW w \in Workers, NEW r \in reports, DismissReport(w, r) PROVE TypeOK'
  <2> DEFINE t == [Task("setStatus") EXCEPT !.report = r.id, !.status = "dismissed"]
  <2>1. r.id \in 0..MaxReports
    BY DEF TypeOK
  <2>2. t \in Tasks /\ Complete(t)
    BY <2>1 DEF Done, Task, Tasks, TaskSteps, Complete, Statuses
  <2> QED BY <1>13, <1>l, <1>a, <1>m, <2>2, TaskStepType DEF DismissReport
<1>14. ASSUME NEW w \in Workers, ApplyLabel(w) PROVE TypeOK'
  <2>1. task[w].subject \in Subjects /\ task[w].val \in Vals
    BY <1>14, <1>t DEF ApplyLabel, Complete
  <2>2. /\ lastLabel' \in Nat
        /\ labels' \subseteq [id: 1..lastLabel', uri: Subjects, val: Vals, neg: BOOLEAN]
    BY <1>14, <1>i, <2>1 DEF ApplyLabel
  <2>3. task' \in [Workers -> Tasks] /\ \A v \in Workers : Complete(task'[v])
    BY <1>14, <1>t DEF ApplyLabel, Complete, Tasks, TaskSteps
  <2>4. \A v \in Workers : Complete(task[v])'
    BY <2>3 DEF Complete
  <2> QED BY <1>14, <1>l, <2>2, <2>3, <2>4 DEF ApplyLabel, TypeOK
<1>15. ASSUME NEW w \in Workers, SetStatus(w) PROVE TypeOK'
  <2>1. task[w].status \in Statuses
    BY <1>15, <1>t DEF SetStatus, Complete
  <2>2. reports' \subseteq [id: 1..lastReport', subject: Subjects, status: Statuses]
    BY <1>15, <2>1 DEF SetStatus, Resolved, TypeOK
  <2>3. task' \in [Workers -> Tasks] /\ \A v \in Workers : Complete(task'[v])
    BY <1>15, <1>t DEF SetStatus, Goto
  <2>4. \A v \in Workers : Complete(task[v])'
    BY <2>3 DEF Complete
  <2>5. walk' \in Walks
    BY <1>15 DEF SetStatus, TypeOK, Walks
  <2> QED BY <1>15, <1>l, <2>2, <2>3, <2>4, <2>5 DEF SetStatus, TypeOK
<1>16. ASSUME NEW w \in Workers, ResetAll(w) PROVE TypeOK'
  BY <1>16, <1>l, <1>a, <1>m, TaskStepType DEF ResetAll
<1>17. ASSUME NEW w \in Workers, ResetReports(w) PROVE TypeOK'
  <2>1. task' \in [Workers -> Tasks] /\ \A v \in Workers : Complete(task'[v])
    BY <1>17, <1>t DEF ResetReports, Goto
  <2>2. \A v \in Workers : Complete(task[v])'
    BY <2>1 DEF Complete
  <2>3. walk' \in Walks
    BY <1>17 DEF ResetReports, TypeOK, Walks
  <2> QED BY <1>17, <1>l, <2>1, <2>2, <2>3 DEF ResetReports, TypeOK
<1>18. ASSUME NEW w \in Workers, ResetLabels(w) PROVE TypeOK'
  <2>1. task' \in [Workers -> Tasks] /\ \A v \in Workers : Complete(task'[v])
    BY <1>18, <1>t DEF ResetLabels, Goto
  <2>2. \A v \in Workers : Complete(task[v])'
    BY <2>1 DEF Complete
  <2>3. walk' \in Walks
    BY <1>18 DEF ResetLabels, TypeOK, Walks
  <2> QED BY <1>18, <1>l, <2>1, <2>2, <2>3 DEF ResetLabels, TypeOK
<1>19. ASSUME NEW w \in Workers, ResetRest(w) \/ RequestFails(w) PROVE TypeOK'
  BY <1>19, <1>l, <1>m, TaskStepType DEF ResetRest, RequestFails
<1>20. ASSUME NEW w \in Workers, NEW u \in URLs, NEW readFails \in BOOLEAN,
              RemoveLabelerSubscribeURL(w, u, readFails)
       PROVE  TypeOK'
  <2> DEFINE list == LabelerSubscribeURLList(readFails)
             t == [Task("storeURLs") EXCEPT !.urls = list \ {u}]
  <2>1. list \subseteq URLs
    BY DEF LabelerSubscribeURLList, TypeOK
  <2>2. t \in Tasks /\ Complete(t)
    BY <2>1 DEF Done, Task, Tasks, TaskSteps, Complete
  <2>3. mayReturn' \in [Workers -> SUBSET URLs]
    BY <1>20, <1>m DEF RemoveLabelerSubscribeURL
  <2> QED BY <1>20, <1>l, <1>a, <2>2, <2>3, TaskStepType DEF RemoveLabelerSubscribeURL
<1>21. ASSUME NEW w \in Workers, StoreURLs(w) PROVE TypeOK'
  <2>1. LabelerSubscribeURLList(FALSE) \subseteq URLs
    BY DEF LabelerSubscribeURLList, TypeOK
  <2>2. mayReturn' \in [Workers -> SUBSET URLs]
    BY <1>21, <1>m, <2>1 DEF StoreURLs
  <2>3. urls' \in SUBSET URLs
    BY <1>21, <1>t DEF StoreURLs, Tasks
  <2>4. task' \in [Workers -> Tasks] /\ \A v \in Workers : Complete(task'[v])
    BY <1>21, <1>t DEF StoreURLs, Goto
  <2>5. \A v \in Workers : Complete(task[v])'
    BY <2>4 DEF Complete
  <2> QED BY <1>21, <1>l, <2>2, <2>3, <2>4, <2>5 DEF StoreURLs, TypeOK
<1>22. ASSUME NEW w \in Workers, TriggerBackfill(w) PROVE TypeOK'
  <2>1. backfilling' \in [Processes -> BOOLEAN]
    BY <1>22 DEF TriggerBackfill, TypeOK
  <2> QED BY <1>22, <1>l, <1>a, <2>1 DEF TriggerBackfill, TypeOK, Complete
<1>23. ASSUME NEW u \in Subjects, FileReport(u) PROVE TypeOK'
  <2>1. lastReport' \in 0..MaxReports /\ lastReport' = lastReport + 1 /\ lastReport \in Nat
    BY <1>23 DEF FileReport, TypeOK
  <2>2. reports' \subseteq [id: 1..lastReport', subject: Subjects, status: Statuses]
    BY <1>23, <2>1 DEF FileReport, TypeOK, Statuses
  <2>3. filedInReset' \subseteq 1..MaxReports
    <3>1. filedInReset' \subseteq filedInReset \union {lastReport + 1}
      BY <1>23 DEF FileReport
    <3>2. filedInReset \subseteq 1..MaxReports
      BY DEF TypeOK
    <3> QED BY <2>1, <3>1, <3>2
  <2> QED BY <1>23, <1>l, <2>1, <2>2, <2>3 DEF FileReport, TypeOK, Complete
<1>24. ASSUME NEW of \in {"label", "report"}, StartWalk(of) PROVE TypeOK'
  <2>1. walk' \in Walks
    BY <1>24, RowsAreFinite DEF StartWalk, NoWalk, Walks
  <2> QED BY <1>24, <1>l, <2>1 DEF StartWalk, TypeOK, Complete
<1>25. ASSUME NEW of \in {"label", "report"}, ReadPage(of) PROVE TypeOK'
  <2> DEFINE ids == Below(of, walk.after)
             page == PageOf(ids)
  <2>1. page \subseteq Nat /\ (page # {} => Min(page) \in Nat)
    BY RowsAreFinite, LeastOf DEF Below, PageOf
  <2>2. walk \in Walks
    BY DEF TypeOK
  <2>3. /\ walk' = [walk EXCEPT !.at = IF ids = page THEN "end" ELSE "reading",
                                !.after = IF page = {} THEN walk.after ELSE Min(page),
                                !.got = walk.got \union page]
        /\ UNCHANGED <<lexVars, definitions, labels, lastLabel, reports, lastReport, urls,
                     backfilling, task, served, filedInReset, mayReturn>>
    BY <1>25 DEF ReadPage
  <2> HIDE DEF ids, page
  <2>4. walk' \in Walks
    BY <2>1, <2>2, <2>3 DEF Walks
  <2> QED BY <1>l, <2>3, <2>4 DEF TypeOK, Complete
<1> QED BY <1>1, <1>2, <1>3, <1>4, <1>5, <1>6, <1>7, <1>8, <1>9, <1>10, <1>11, <1>12, <1>13,
           <1>14, <1>15, <1>16, <1>17, <1>18, <1>19, <1>20, <1>21, <1>22, <1>23, <1>24, <1>25
        DEF Next, Mutation, LabelMutation, ReportMutation, Statement, Labels, Reports

-----------------------------------------------------------------------------
(* What a step leaves alone *)

(* Labels may be added, and workers do anything but resolve and reset. *)
LEMMA ReportsKept ==
  ASSUME ReportInv, labels \subseteq labels',
         UNCHANGED <<reports, lastReport, filedInReset>>,
         \A w \in Workers : \/ task'[w] = task[w]
                            \/ task'[w].at \notin {"applyLabel", "setStatus", "resetLabels"}
  PROVE  ReportInv'
<1>1. \A u : Labelled(u) => Labelled(u)'
  BY DEF Labelled
<1>2. OneSubject'
  BY DEF ReportInv, OneSubject, Concerns
<1>3. ResolvesLabelled'
  BY <1>1 DEF ReportInv, ResolvesLabelled, Concerns
<1>4. ResetIsEmpty'
  BY DEF ReportInv, ResetIsEmpty
<1>5. ResolvedIsLabelled'
  BY DEF ReportInv, ResolvedIsLabelled
<1> QED BY <1>2, <1>3, <1>4, <1>5 DEF ReportInv

LEMMA RemovalsKept ==
  ASSUME RemovalInv, UNCHANGED <<urls, mayReturn>>,
         \A w \in Workers : task'[w] = task[w] \/ task'[w].at # "storeURLs"
  PROVE  RemovalInv'
BY DEF RemovalInv, LabelerSubscribeURLList

LEMMA WalkKept ==
  ASSUME WalkInv, labels \subseteq labels', reports \subseteq reports', walk' = walk
  PROVE  WalkInv'
<1>1. LabelIds \subseteq LabelIds' /\ PendingReportIds \subseteq PendingReportIds'
  BY DEF LabelIds, PendingReportIds
<1>2. Rows(walk.of) \subseteq Rows(walk.of)'
  BY <1>1 DEF Rows
<1> QED BY <1>2 DEF WalkInv

LEMMA QuietStep ==
  ASSUME AdminInv, TypeOK', labels \subseteq labels',
         UNCHANGED <<reports, lastReport, urls, walk, filedInReset, mayReturn>>,
         \A w \in Workers :
           \/ task'[w] = task[w]
           \/ task'[w].at \notin {"applyLabel", "setStatus", "resetLabels", "storeURLs"}
  PROVE  AdminInv'
BY ReportsKept, RemovalsKept, WalkKept DEF AdminInv

LEMMA AdminInitInv ==
  Init => AdminInv
<1> SUFFICES ASSUME Init PROVE AdminInv
  OBVIOUS
<1>0. Done.at = "idle" /\ \A w \in Workers : task[w] = Done
  BY DEF Init, Done
<1>1. TypeOK
  BY AdminInitType
<1>2. ReportInv
  <2>1. \A r \in reports : r.status = "pending"
    BY AdminAssumption DEF Init
  <2>2. OneSubject
    BY <1>0, AdminAssumption DEF Init, OneSubject, Concerns
  <2> QED BY <1>0, <2>1, <2>2 DEF ReportInv, ResolvesLabelled, ResetIsEmpty,
             ResolvedIsLabelled, Concerns
<1>3. RemovalInv
  BY <1>0 DEF RemovalInv
<1>4. WalkInv
  BY DEF Init, NoWalk, WalkInv
<1> QED BY <1>1, <1>2, <1>3, <1>4 DEF AdminInv

(* The steps that file, resolve and reset reports *)
LEMMA ReportStep ==
  ASSUME AdminInv, TypeOK', NEW w \in Workers,
         \/ \E r \in reports, v \in Vals : ResolveReport(w, r, v)
         \/ \E r \in reports : DismissReport(w, r)
         \/ ApplyLabel(w) \/ SetStatus(w) \/ ResetReports(w) \/ ResetLabels(w)
  PROVE  ReportInv'
<1> USE AdminAssumption
<1>t. /\ task \in [Workers -> Tasks]
      /\ reports \subseteq [id: 1..lastReport, subject: Subjects, status: Statuses]
      /\ lastReport \in Nat
  BY DEF AdminInv, TypeOK
<1>g. ASSUME NEW t, Goto(w, t)
      PROVE  task'[w] = t /\ \A v \in Workers : v # w => task'[v] = task[v]
  BY <1>t, <1>g DEF Goto
<1>i. OneSubject /\ ResolvesLabelled /\ ResetIsEmpty /\ ResolvedIsLabelled
  BY DEF AdminInv, ReportInv
<1>1. ASSUME NEW r \in reports, NEW v \in Vals, ResolveReport(w, r, v)
      PROVE  ReportInv'
  <2> DEFINE t == [Task("applyLabel") EXCEPT !.subject = r.subject, !.val = v,
                                             !.report = r.id, !.status = "resolved"]
  <2>1. /\ t.at = "applyLabel" /\ t.subject = r.subject /\ t.report = r.id
        /\ t.status = "resolved"
    BY DEF Task, Done
  <2>2. task'[w] = t /\ \A x \in Workers : x # w => task'[x] = task[x]
    BY <1>1, <1>g DEF ResolveReport
  <2>3. UNCHANGED <<labels, reports, lastReport, filedInReset>>
    BY <1>1 DEF ResolveReport
  <2> HIDE DEF t
  <2>4. OneSubject'
    BY <1>t, <1>i, <2>1, <2>2, <2>3 DEF OneSubject, Concerns
  <2>5. ResolvesLabelled'
    BY <1>i, <2>1, <2>2, <2>3 DEF ResolvesLabelled, Concerns, Labelled
  <2>6. ResetIsEmpty'
    BY <1>i, <2>1, <2>2, <2>3 DEF ResetIsEmpty
  <2>7. ResolvedIsLabelled'
    BY <1>i, <2>3 DEF ResolvedIsLabelled
  <2> QED BY <2>4, <2>5, <2>6, <2>7 DEF ReportInv
<1>2. ASSUME NEW r \in reports, DismissReport(w, r)
      PROVE  ReportInv'
  <2> DEFINE t == [Task("setStatus") EXCEPT !.report = r.id, !.status = "dismissed"]
  <2>1. t.at = "setStatus" /\ t.report = r.id /\ t.status = "dismissed"
    BY DEF Task, Done
  <2>2. task'[w] = t /\ \A x \in Workers : x # w => task'[x] = task[x]
    BY <1>2, <1>g DEF DismissReport
  <2>3. UNCHANGED <<labels, reports, lastReport, filedInReset>>
    BY <1>2 DEF DismissReport
  <2> HIDE DEF t
  <2>4. OneSubject'
    BY <1>t, <1>i, <2>1, <2>2, <2>3 DEF OneSubject, Concerns
  <2>5. ResolvesLabelled'
    BY <1>i, <2>1, <2>2, <2>3 DEF ResolvesLabelled, Concerns, Labelled
  <2>6. ResetIsEmpty'
    BY <1>i, <2>1, <2>2, <2>3 DEF ResetIsEmpty
  <2>7. ResolvedIsLabelled'
    BY <1>i, <2>3 DEF ResolvedIsLabelled
  <2> QED BY <2>4, <2>5, <2>6, <2>7 DEF ReportInv
<1>3. CASE ApplyLabel(w)
  <2>1. /\ task[w].at = "applyLabel" /\ task'[w].at = "setStatus"
        /\ task'[w].report = task[w].report /\ task'[w].status = task[w].status
        /\ task'[w].subject = task[w].subject
    BY <1>3, <1>t DEF ApplyLabel, Tasks
  <2>2. \A x \in Workers : x # w => task'[x] = task[x]
    BY <1>3, <1>t DEF ApplyLabel
  <2>3. UNCHANGED <<reports, lastReport, filedInReset>> /\ labels \subseteq labels'
    BY <1>3 DEF ApplyLabel, InsertRow
  <2>4. Labelled(task[w].subject)' /\ \A u : Labelled(u) => Labelled(u)'
    <3>1. Label(lastLabel + 1, task[w].subject, task[w].val, FALSE) \in labels'
      BY <1>3 DEF ApplyLabel, InsertRow
    <3>2. PICK l \in labels' : l.uri = task[w].subject /\ l.neg = FALSE
      BY <3>1 DEF Label
    <3>3. Labelled(task[w].subject)'
      BY <2>1, <3>2 DEF Labelled
    <3>4. \A u : Labelled(u) => Labelled(u)'
      BY <2>3 DEF Labelled
    <3> QED BY <3>3, <3>4
  <2>5. OneSubject'
    BY <1>i, <2>1, <2>2, <2>3 DEF OneSubject, Concerns
  <2>6. ResolvesLabelled'
    BY <1>i, <2>1, <2>2, <2>3, <2>4, <2>5 DEF ResolvesLabelled, OneSubject, Concerns
  <2>7. ResetIsEmpty'
    BY <1>i, <2>1, <2>2, <2>3 DEF ResetIsEmpty
  <2>8. ResolvedIsLabelled'
    BY <1>i, <2>3 DEF ResolvedIsLabelled
  <2> QED BY <2>5, <2>6, <2>7, <2>8 DEF ReportInv
<1>4. CASE SetStatus(w)
  <2>1. task'[w].at = "idle" /\ \A x \in Workers : x # w => task'[x] = task[x]
    BY <1>4, <1>g DEF SetStatus, Done
  <2>2. /\ task[w].at = "setStatus"
        /\ reports' = {Resolved(r, task[w]) : r \in reports}
        /\ UNCHANGED <<labels, lastReport, filedInReset>>
    BY <1>4 DEF SetStatus
  <2>3. ASSUME NEW q \in reports'
        PROVE  \E r \in reports :
                 /\ q.id = r.id /\ q.subject = r.subject
                 /\ \/ q = r
                    \/ r.id = task[w].report /\ q.status = task[w].status
    <3>1. PICK r \in reports : q = Resolved(r, task[w])
      BY <2>2
    <3>2. r \in [id: 1..lastReport, subject: Subjects, status: Statuses]
      BY <1>t
    <3>3. CASE r.id = task[w].report
      BY <3>1, <3>2, <3>3 DEF Resolved
    <3>4. CASE r.id # task[w].report
      BY <3>1, <3>4 DEF Resolved
    <3> QED BY <3>3, <3>4
  <2>4. OneSubject'
    <3>1. \A r, q \in reports' : r.id = q.id => r.subject = q.subject
      BY <1>i, <2>3 DEF OneSubject
    <3>2. \A x \in Workers : task'[x].at \in {"applyLabel", "setStatus"}
            => task'[x].report <= lastReport'
      BY <1>i, <2>1, <2>2 DEF OneSubject
    <3>3. \A x \in Workers, q \in reports' :
             task'[x].at \in {"applyLabel", "setStatus"} /\ task'[x].report = q.id
               /\ task'[x].status = "resolved" => task'[x].subject = q.subject
      BY <1>i, <2>1, <2>3 DEF OneSubject, Concerns
    <3> QED BY <3>1, <3>2, <3>3 DEF OneSubject, Concerns
  <2>5. \A u : Labelled(u)' <=> Labelled(u)
    BY <2>2 DEF Labelled
  <2>6. ResolvesLabelled'
    <3>1. ASSUME NEW x \in Workers, NEW q \in reports', task'[x].at = "setStatus",
                 task'[x].report = q.id, task'[x].status = "resolved",
                 q.id \notin filedInReset'
          PROVE  \E l \in labels' : l.uri = q.subject /\ ~l.neg
      <4>1. PICK r \in reports : q.id = r.id /\ q.subject = r.subject
        BY <2>3
      <4>2. task'[x] = task[x]
        BY <2>1, <3>1
      <4>3. Labelled(r.subject)
        BY <1>i, <2>2, <3>1, <4>1, <4>2 DEF ResolvesLabelled, Concerns
      <4> QED BY <2>2, <4>1, <4>3 DEF Labelled
    <3> QED BY <3>1 DEF ResolvesLabelled, Concerns, Labelled
  <2>7. ResetIsEmpty'
    BY <1>i, <2>1, <2>2, <2>3 DEF ResetIsEmpty
  <2>8. ResolvedIsLabelled'
    <3>1. ASSUME NEW q \in reports', q.status = "resolved", q.id \notin filedInReset'
          PROVE  \E l \in labels' : l.uri = q.subject /\ ~l.neg
      <4>1. PICK r \in reports :
              /\ q.id = r.id /\ q.subject = r.subject
              /\ \/ q = r
                 \/ r.id = task[w].report /\ q.status = task[w].status
        BY <2>3
      <4>2. CASE q = r
        BY <1>i, <2>2, <3>1, <4>2 DEF ResolvedIsLabelled
      <4>3. CASE r.id = task[w].report /\ q.status = task[w].status
        BY <1>i, <2>2, <3>1, <4>1, <4>3 DEF ResolvesLabelled, Concerns, Labelled
      <4> QED BY <4>1, <4>2, <4>3
    <3> QED BY <3>1 DEF ResolvedIsLabelled
  <2> QED BY <2>4, <2>6, <2>7, <2>8 DEF ReportInv
<1>5. CASE ResetReports(w)
  <2>1. reports' = {} /\ lastReport' = lastReport
    BY <1>5 DEF ResetReports
  <2>2. task'[w].at = "resetLabels" /\ \A x \in Workers : x # w => task'[x] = task[x]
    BY <1>5, <1>g, TaskTypes DEF ResetReports
  <2>3. \A x \in Workers : task'[x].at \in {"applyLabel", "setStatus"}
          => task'[x].report <= lastReport'
    BY <1>i, <2>1, <2>2 DEF OneSubject
  <2> QED BY <2>1, <2>3 DEF ReportInv, OneSubject, ResolvesLabelled, ResetIsEmpty,
             ResolvedIsLabelled
<1>6. CASE ResetLabels(w)
  <2>1. UNCHANGED <<reports, lastReport, filedInReset>>
    BY <1>6 DEF ResetLabels
  <2>2. task'[w].at = "resetRest" /\ \A x \in Workers : x # w => task'[x] = task[x]
    BY <1>6, <1>g, TaskTypes DEF ResetLabels
  <2>3. \A r \in reports : r.id \in filedInReset
    BY <1>i, <1>6 DEF ResetLabels, ResetIsEmpty
  <2>4. OneSubject'
    BY <1>i, <2>1, <2>2 DEF OneSubject, Concerns
  <2> QED BY <2>1, <2>3, <2>4 DEF ReportInv, ResolvesLabelled, ResetIsEmpty,
             ResolvedIsLabelled
<1> QED BY <1>1, <1>2, <1>3, <1>4, <1>5, <1>6

LEMMA FileStep ==
  ASSUME AdminInv, TypeOK', NEW u \in Subjects, FileReport(u)
  PROVE  ReportInv'
<1> DEFINE new == [id |-> lastReport + 1, subject |-> u, status |-> "pending"]
<1>1. /\ reports' = reports \union {new} /\ lastReport' = lastReport + 1
      /\ UNCHANGED <<labels, task>>
      /\ filedInReset \subseteq filedInReset'
  BY DEF FileReport
<1>2. /\ lastReport \in Nat /\ \A r \in reports : r.id \in 1..lastReport
      /\ \A w \in Workers : task[w].report \in Nat
  BY AdminAssumption DEF AdminInv, TypeOK, Tasks
<1>3. new.id = lastReport + 1 /\ new.subject = u /\ new.status = "pending"
  OBVIOUS
<1>i. OneSubject /\ ResolvesLabelled /\ ResetIsEmpty /\ ResolvedIsLabelled
  BY DEF AdminInv, ReportInv
<1>r. ASSUME NEW w \in Workers, task[w].at = "resetLabels" PROVE new.id \in filedInReset'
  BY <1>r DEF FileReport
<1> HIDE DEF new
<1>n. \A r \in reports : r.id # new.id
  BY <1>2, <1>3
<1>w. \A w \in Workers : ~Concerns(task[w], new)
  BY <1>i, <1>2, <1>3 DEF OneSubject, Concerns
<1>4. OneSubject'
  <2>1. \A r, q \in reports' : r.id = q.id => r.subject = q.subject
    BY <1>i, <1>1, <1>n DEF OneSubject
  <2>2. \A w \in Workers : task[w].at \in {"applyLabel", "setStatus"}
          => task[w].report <= lastReport + 1
    BY <1>i, <1>2 DEF OneSubject
  <2>3. \A w \in Workers, r \in reports' :
          Concerns(task[w], r) /\ task[w].status = "resolved" => task[w].subject = r.subject
    BY <1>i, <1>1, <1>w DEF OneSubject
  <2> QED BY <1>1, <2>1, <2>2, <2>3 DEF OneSubject, Concerns
<1>5. ResolvesLabelled'
  <2>1. ASSUME NEW w \in Workers, NEW r \in reports',
               Concerns(task[w], r), task[w].at = "setStatus", task[w].status = "resolved",
               r.id \notin filedInReset'
        PROVE  Labelled(r.subject)
    BY <1>i, <1>1, <1>w, <2>1 DEF ResolvesLabelled
  <2> QED BY <1>1, <2>1 DEF ResolvesLabelled, Concerns, Labelled
<1>6. ResetIsEmpty'
  BY <1>i, <1>1, <1>r DEF ResetIsEmpty
<1>7. ResolvedIsLabelled'
  BY <1>i, <1>1, <1>3 DEF ResolvedIsLabelled
<1> QED BY <1>4, <1>5, <1>6, <1>7 DEF ReportInv

-----------------------------------------------------------------------------
(* The list of labelers *)
LEMMA RemovalStep ==
  ASSUME AdminInv, TypeOK', NEW w \in Workers,
         \/ \E u \in URLs, readFails \in BOOLEAN : RemoveLabelerSubscribeURL(w, u, readFails)
         \/ StoreURLs(w)
  PROVE  RemovalInv'
<1>t. /\ task \in [Workers -> Tasks] /\ mayReturn \in [Workers -> SUBSET URLs]
      /\ urls \in (SUBSET URLs) \union {NotStored}
      /\ \A v \in Workers : task[v].urls \subseteq URLs
  BY DEF AdminInv, TypeOK, Tasks
<1>g. ASSUME NEW t, Goto(w, t)
      PROVE  task'[w] = t /\ \A v \in Workers : v # w => task'[v] = task[v]
  BY <1>t, <1>g DEF Goto
<1>1. ASSUME NEW u \in URLs, NEW readFails \in BOOLEAN,
             RemoveLabelerSubscribeURL(w, u, readFails)
      PROVE  RemovalInv'
  <2> DEFINE list == LabelerSubscribeURLList(readFails)
             t == [Task("storeURLs") EXCEPT !.urls = list \ {u}]
  <2>1. task'[w] = t /\ \A v \in Workers : v # w => task'[v] = task[v]
    BY <1>1, <1>g DEF RemoveLabelerSubscribeURL
  <2>2. t.urls = list \ {u}
    BY DEF Task, Done
  <2>3. urls' = urls /\ mayReturn'[w] = (IF readFails THEN URLs ELSE {})
        /\ \A v \in Workers : v # w => mayReturn'[v] = mayReturn[v]
    BY <1>1, <1>t DEF RemoveLabelerSubscribeURL
  <2>4. list \subseteq LabelerSubscribeURLList(FALSE) \union mayReturn'[w]
    BY <1>t, <2>3 DEF LabelerSubscribeURLList
  <2>5. LabelerSubscribeURLList(FALSE)' = LabelerSubscribeURLList(FALSE)
    BY <2>3 DEF LabelerSubscribeURLList
  <2> HIDE DEF list, t
  <2>6. \A v \in Workers : task'[v].at = "storeURLs"
          => task'[v].urls \subseteq LabelerSubscribeURLList(FALSE) \union mayReturn'[v]
    BY <2>1, <2>2, <2>3, <2>4 DEF AdminInv, RemovalInv
  <2> QED BY <2>5, <2>6 DEF RemovalInv
<1>2. CASE StoreURLs(w)
  <2> DEFINE L == LabelerSubscribeURLList(FALSE)
  <2>1. task'[w].at = "idle" /\ \A v \in Workers : v # w => task'[v] = task[v]
    BY <1>2, <1>g DEF StoreURLs, Done
  <2>2. /\ urls' = task[w].urls
        /\ \A v \in Workers : mayReturn'[v] = mayReturn[v] \union (L \ task[w].urls)
    BY <1>2 DEF StoreURLs
  <2> HIDE DEF L
  <2>3. \A v \in Workers : task[v].at = "storeURLs"
          => task[v].urls \subseteq task[w].urls \union mayReturn'[v]
    BY <2>2 DEF AdminInv, RemovalInv, L
  <2>4. CASE task[w].urls = NotStored
    BY <1>t, <2>1, <2>2, <2>4 DEF RemovalInv, LabelerSubscribeURLList
  <2>5. CASE task[w].urls # NotStored
    BY <2>1, <2>2, <2>3, <2>5 DEF RemovalInv, LabelerSubscribeURLList
  <2> QED BY <2>4, <2>5
<1> QED BY <1>1, <1>2

-----------------------------------------------------------------------------
(* Pages *)

(* Rows that go are no longer awaited. *)
LEMMA WalkShrinks ==
  ASSUME AdminInv, NEW lost, \A i \in walk.lasting \ lost : i \in Rows(walk.of)',
         walk' = [walk EXCEPT !.lasting = @ \ lost]
  PROVE  WalkInv'
<1>1. walk \in Walks
  BY DEF AdminInv, TypeOK
<1>2. /\ walk'.at = walk.at /\ walk'.of = walk.of /\ walk'.after = walk.after
      /\ walk'.got = walk.got /\ walk'.lasting = walk.lasting \ lost
  BY <1>1 DEF Walks
<1> QED BY <1>2 DEF AdminInv, WalkInv, Rows

LEMMA WalkStep ==
  ASSUME AdminInv, TypeOK',
         \/ \E w \in Workers : SetStatus(w) \/ ResetReports(w) \/ ResetLabels(w)
         \/ \E of \in {"label", "report"} : StartWalk(of) \/ ReadPage(of)
  PROVE  WalkInv'
<1>t. walk \in Walks
  BY DEF AdminInv, TypeOK
<1>i. /\ walk.lasting # {} => walk.of # "none" /\ walk.lasting \subseteq Rows(walk.of)
      /\ IF walk.after = 0 THEN walk.got = {} ELSE \A i \in walk.got : walk.after <= i
      /\ walk.at = "reading"
           => \A i \in walk.lasting : i \in walk.got \/ walk.after = 0 \/ i < walk.after
      /\ walk.at = "end" => walk.lasting \subseteq walk.got
  BY DEF AdminInv, WalkInv
<1>o. walk.of \in {"none", "label", "report"}
  BY <1>t DEF Walks
<1>1. ASSUME NEW w \in Workers, SetStatus(w) PROVE WalkInv'
  <2>1. UNCHANGED labels /\ reports' = {Resolved(r, task[w]) : r \in reports}
    BY <1>1 DEF SetStatus
  <2>2. CASE walk.of = "report"
    <3>1. walk' = [walk EXCEPT !.lasting = @ \ {task[w].report}]
      BY <1>1, <2>2 DEF SetStatus
    <3>2. ASSUME NEW i \in walk.lasting \ {task[w].report} PROVE i \in PendingReportIds'
      <4>1. PICK r \in reports : r.id = i /\ r.status = "pending"
        BY <1>i, <2>2 DEF Rows, PendingReportIds
      <4>2. r \in reports'
        BY <2>1, <4>1 DEF Resolved
      <4> QED BY <4>1, <4>2 DEF PendingReportIds
    <3>3. walk'.of = "report"
      BY <1>t, <2>2, <3>1 DEF Walks
    <3>4. \A i \in walk.lasting \ {task[w].report} : i \in Rows(walk.of)'
      BY <3>2, <3>3 DEF Rows
    <3> QED BY <3>1, <3>4, WalkShrinks
  <2>3. CASE walk.of # "report"
    <3>1. walk' = walk
      BY <1>1, <2>3 DEF SetStatus
    <3>2. walk.lasting # {} => walk.of = "label"
      BY <1>i, <1>o, <2>3
    <3>3. walk.lasting \subseteq LabelIds' \/ walk.lasting = {}
      BY <1>i, <2>1, <3>2 DEF Rows, LabelIds
    <3> QED BY <1>i, <3>1, <3>2, <3>3 DEF WalkInv, Rows
  <2> QED BY <2>2, <2>3
<1>2. ASSUME NEW w \in Workers, ResetReports(w) \/ ResetLabels(w) PROVE WalkInv'
  <2>1. CASE walk' = [walk EXCEPT !.lasting = {}]
    <3>1. /\ walk'.at = walk.at /\ walk'.of = walk.of /\ walk'.after = walk.after
          /\ walk'.got = walk.got /\ walk'.lasting = {}
      BY <1>t, <2>1 DEF Walks
    <3> QED BY <1>i, <3>1 DEF WalkInv
  <2>2. CASE ResetReports(w) /\ walk.of # "report" /\ walk' = walk
    <3>1. labels' = labels
      BY <2>2 DEF ResetReports
    <3>2. walk.lasting # {} => walk.of = "label"
      BY <1>i, <1>o, <2>2
    <3>3. walk.lasting \subseteq LabelIds' \/ walk.lasting = {}
      BY <1>i, <3>1, <3>2 DEF Rows, LabelIds
    <3> QED BY <1>i, <2>2, <3>2, <3>3 DEF WalkInv, Rows
  <2>3. CASE ResetLabels(w) /\ walk.of # "label" /\ walk' = walk
    <3>1. reports' = reports
      BY <2>3 DEF ResetLabels
    <3>2. walk.lasting # {} => walk.of = "report"
      BY <1>i, <1>o, <2>3
    <3>3. walk.lasting \subseteq PendingReportIds' \/ walk.lasting = {}
      BY <1>i, <3>1, <3>2 DEF Rows, PendingReportIds
    <3> QED BY <1>i, <2>3, <3>2, <3>3 DEF WalkInv, Rows
  <2> QED BY <1>2, <2>1, <2>2, <2>3 DEF ResetReports, ResetLabels
<1>3. ASSUME NEW of \in {"label", "report"}, StartWalk(of) PROVE WalkInv'
  <2>1. /\ walk'.at = "reading" /\ walk'.of = of /\ walk'.after = 0
        /\ walk'.got = {} /\ walk'.lasting = Rows(of)
    BY <1>3 DEF StartWalk, NoWalk
  <2>2. UNCHANGED <<labels, reports>>
    BY <1>3 DEF StartWalk
  <2>3. Rows(walk.of)' = Rows(of)
    BY <2>1, <2>2 DEF Rows, LabelIds, PendingReportIds
  <2> QED BY <2>1, <2>3 DEF WalkInv
<1>4. ASSUME NEW of \in {"label", "report"}, ReadPage(of) PROVE WalkInv'
  <2> DEFINE ids == Below(of, walk.after)
             page == PageOf(ids)
  <2>1. /\ walk.at = "reading" /\ walk.of = of
        /\ walk' = [walk EXCEPT !.at = IF ids = page THEN "end" ELSE "reading",
                                !.after = IF page = {} THEN walk.after ELSE Min(page),
                                !.got = walk.got \union page]
        /\ UNCHANGED <<labels, reports>>
    BY <1>4 DEF ReadPage
  <2>2. /\ Rows(of) \subseteq Nat \ {0} /\ IsFiniteSet(Rows(of))
    BY RowsAreFinite DEF AdminInv
  <2>3. /\ ids \subseteq Rows(of) /\ page \subseteq ids
        /\ \A i \in ids : walk.after = 0 \/ i < walk.after
        /\ \A i \in Rows(of) : (walk.after = 0 \/ i < walk.after) => i \in ids
    BY DEF Below, PageOf
  <2>4. ids \subseteq Nat /\ IsFiniteSet(ids)
    BY <2>2, <2>3, FS_Subset
  <2>5. \A i \in page, j \in ids : i < j => j \in page
    BY <2>4, PageIsOnTop
  <2>6. page # {} => Min(page) \in page /\ \A i \in page : Min(page) <= i
    BY <2>3, <2>4, LeastOf
  <2> HIDE DEF ids, page
  <2>7. /\ walk'.at = (IF ids = page THEN "end" ELSE "reading") /\ walk'.of = of
        /\ walk'.after = (IF page = {} THEN walk.after ELSE Min(page))
        /\ walk'.got = walk.got \union page /\ walk'.lasting = walk.lasting
    BY <1>t, <2>1 DEF Walks
  <2>8. Rows(walk.of)' = Rows(of)
    BY <2>1, <2>7 DEF Rows, LabelIds, PendingReportIds
  <2>9. /\ walk.after \in Nat /\ walk.got \subseteq Nat /\ walk.lasting \subseteq Rows(of)
    BY <1>t, <1>i, <2>1 DEF Walks
  <2>10. ASSUME NEW i \in walk.lasting PROVE i \in walk.got \/ i \in ids
    BY <1>i, <2>1, <2>3, <2>9
  <2>11. walk'.at = "end" => walk'.lasting \subseteq walk'.got
    BY <2>7, <2>10
  <2>12. ASSUME walk'.at = "reading", NEW i \in walk.lasting
         PROVE  i \in walk'.got \/ walk'.after = 0 \/ i < walk'.after
    <3>1. CASE page = {}
      BY <1>i, <2>1, <2>7, <3>1
    <3>2. CASE page # {}
      <4>1. i \in walk.got \/ i = Min(page) \/ i < Min(page) \/ (i \in ids /\ Min(page) < i)
        <5>1. i \in Nat
          BY <2>2, <2>9
        <5>2. Min(page) \in Nat
          BY <2>3, <2>4, <2>6, <3>2
        <5>3. i = Min(page) \/ i < Min(page) \/ Min(page) < i
          BY <5>1, <5>2
        <5> QED BY <2>10, <5>3
      <4> QED BY <2>5, <2>6, <2>7, <3>2, <4>1
    <3> QED BY <3>1, <3>2
  <2>13. IF walk'.after = 0 THEN walk'.got = {} ELSE \A i \in walk'.got : walk'.after <= i
    <3>1. CASE page = {}
      BY <1>i, <2>7, <3>1
    <3>2. CASE page # {}
      <4>1. Min(page) \in Nat /\ Min(page) # 0 /\ walk'.after = Min(page)
        BY <2>2, <2>3, <2>6, <2>7, <3>2
      <4>2. \A i \in walk.got : Min(page) <= i
        BY <1>i, <2>3, <2>6, <2>9, <3>2, <4>1
      <4> QED BY <2>6, <2>7, <3>2, <4>1, <4>2
    <3> QED BY <3>1, <3>2
  <2> QED BY <2>1, <2>7, <2>8, <2>9, <2>11, <2>12, <2>13 DEF WalkInv
<1> QED BY <1>1, <1>2, <1>3, <1>4

-----------------------------------------------------------------------------
LEMMA AdminInvStep ==
  AdminInv /\ [Next]_vars => AdminInv'
<1> SUFFICES ASSUME AdminInv, [Next]_vars PROVE AdminInv'
  OBVIOUS
<1> USE TaskTypes
<1>t. TypeOK'
  BY AdminTypeStep DEF AdminInv
<1>d. task \in [Workers -> Tasks]
  BY DEF AdminInv, TypeOK
<1>g. ASSUME NEW w \in Workers, NEW t, Goto(w, t)
      PROVE  task'[w] = t /\ \A v \in Workers : v # w => task'[v] = task[v]
  BY <1>d, <1>g DEF Goto
<1>q. ASSUME NEW w \in Workers, NEW t, Goto(w, t),
             t.at \notin {"applyLabel", "setStatus", "resetLabels", "storeURLs"},
             labels \subseteq labels',
             UNCHANGED <<reports, lastReport, urls, walk, filedInReset, mayReturn>>
      PROVE  AdminInv'
  BY <1>q, <1>g, <1>t, QuietStep
<1>1. CASE UNCHANGED vars
  BY <1>1, <1>t, QuietStep DEF vars, modVars
<1>2. ASSUME NEW p \in Processes, Start(p) \/ BackfillEnds(p) PROVE AdminInv'
  BY <1>2, <1>t, QuietStep DEF Start, modVars, BackfillEnds
<1>3. ASSUME NEW p \in Processes, Crash(p) PROVE AdminInv'
  <2>1. \A w \in Workers : task'[w] = task[w] \/ task'[w].at = "idle"
    BY <1>3 DEF Crash
  <2> QED BY <1>3, <1>t, <2>1, QuietStep DEF Crash
<1>4. ASSUME NEW w \in Workers, LexiconRequest(w) \/ LexiconStep(w) \/ TriggerBackfill(w)
      PROVE  AdminInv'
  BY <1>4, <1>t, QuietStep DEF LexiconRequest, LexiconStep, modVars, TriggerBackfill
<1>5. ASSUME NEW w \in Workers, LabelMutation(w) PROVE AdminInv'
  <2>1. ASSUME NEW u \in Subjects, NEW v \in Vals, CreateLabel(w, u, v) PROVE AdminInv'
    <3> DEFINE t == [Task("insertLabel") EXCEPT !.subject = u, !.val = v]
    <3>1. t.at = "insertLabel"
      BY DEF Task, Done
    <3> QED BY <2>1, <3>1, <1>q DEF CreateLabel
  <2>2. ASSUME NEW u \in Subjects, NEW v \in Vals, NegateLabel(w, u, v) PROVE AdminInv'
    BY <2>2, <1>t, QuietStep DEF NegateLabel, InsertRow
  <2>3. ASSUME NEW v \in Vals, CreateLabelDefinition(w, v) PROVE AdminInv'
    <3> DEFINE t == [Task("insertDefinition") EXCEPT !.val = v]
    <3>1. t.at = "insertDefinition"
      BY DEF Task, Done
    <3> QED BY <2>3, <3>1, <1>q DEF CreateLabelDefinition
  <2> QED BY <1>5, <2>1, <2>2, <2>3 DEF LabelMutation
<1>6. ASSUME NEW w \in Workers,
             InsertLabel(w) \/ InsertDefinition(w) \/ ResetAll(w) \/ ResetRest(w)
               \/ RequestFails(w)
      PROVE  AdminInv'
  BY <1>6, <1>q DEF InsertLabel, InsertRow, InsertDefinition, ResetAll, ResetRest, RequestFails
<1>7. ASSUME NEW w \in Workers, ReportMutation(w) PROVE AdminInv'
  <2>1. ReportInv'
    BY <1>7, <1>t, ReportStep DEF ReportMutation
  <2>2. /\ UNCHANGED <<labels, reports, urls, walk, mayReturn>>
        /\ \A v \in Workers : task'[v] = task[v] \/ task'[v].at # "storeURLs"
    <3>1. ASSUME NEW r \in reports, NEW v \in Vals, ResolveReport(w, r, v)
          PROVE  \A x \in Workers : task'[x] = task[x] \/ task'[x].at # "storeURLs"
      <4> DEFINE t == [Task("applyLabel") EXCEPT !.subject = r.subject, !.val = v,
                                                 !.report = r.id, !.status = "resolved"]
      <4>1. t.at = "applyLabel"
        BY DEF Task, Done
      <4>2. Goto(w, t)
        BY <3>1 DEF ResolveReport
      <4> HIDE DEF t
      <4>3. task'[w] = t /\ \A x \in Workers : x # w => task'[x] = task[x]
        BY <4>2, <1>g
      <4> QED BY <4>1, <4>3
    <3>2. ASSUME NEW r \in reports, DismissReport(w, r)
          PROVE  \A x \in Workers : task'[x] = task[x] \/ task'[x].at # "storeURLs"
      <4> DEFINE t == [Task("setStatus") EXCEPT !.report = r.id, !.status = "dismissed"]
      <4>1. t.at = "setStatus"
        BY DEF Task, Done
      <4>2. Goto(w, t)
        BY <3>2 DEF DismissReport
      <4> HIDE DEF t
      <4>3. task'[w] = t /\ \A x \in Workers : x # w => task'[x] = task[x]
        BY <4>2, <1>g
      <4> QED BY <4>1, <4>3
    <3> QED BY <1>7, <3>1, <3>2 DEF ReportMutation, ResolveReport, DismissReport
  <2> QED BY <1>t, <2>1, <2>2, RemovalsKept, WalkKept DEF AdminInv
<1>8. ASSUME NEW w \in Workers, ApplyLabel(w) PROVE AdminInv'
  <2>1. ReportInv'
    BY <1>8, <1>t, ReportStep
  <2>2. /\ UNCHANGED <<reports, urls, walk, mayReturn>> /\ labels \subseteq labels'
    BY <1>8 DEF ApplyLabel, InsertRow
  <2>3. \A v \in Workers : task'[v] = task[v] \/ task'[v].at # "storeURLs"
    BY <1>8, <1>d DEF ApplyLabel, Tasks
  <2> QED BY <1>t, <2>1, <2>2, <2>3, RemovalsKept, WalkKept DEF AdminInv
<1>9. ASSUME NEW w \in Workers, SetStatus(w) \/ ResetReports(w) \/ ResetLabels(w)
      PROVE  AdminInv'
  <2>1. ReportInv' /\ WalkInv'
    BY <1>9, <1>t, ReportStep, WalkStep
  <2>2. UNCHANGED <<urls, mayReturn>>
    BY <1>9 DEF SetStatus, ResetReports, ResetLabels
  <2>3. \A v \in Workers : task'[v] = task[v] \/ task'[v].at # "storeURLs"
    BY <1>9, <1>g DEF SetStatus, ResetReports, ResetLabels
  <2> QED BY <1>t, <2>1, <2>2, <2>3, RemovalsKept DEF AdminInv
<1>10. ASSUME NEW w \in Workers,
              \/ \E u \in URLs, readFails \in BOOLEAN :
                   RemoveLabelerSubscribeURL(w, u, readFails)
              \/ StoreURLs(w)
       PROVE  AdminInv'
  <2>1. RemovalInv'
    BY <1>10, <1>t, RemovalStep
  <2>2. UNCHANGED <<labels, reports, lastReport, filedInReset, walk>>
    BY <1>10 DEF RemoveLabelerSubscribeURL, StoreURLs
  <2>3. \A v \in Workers : \/ task'[v] = task[v]
                           \/ task'[v].at \notin {"applyLabel", "setStatus", "resetLabels"}
    <3>1. ASSUME NEW u \in URLs, NEW readFails \in BOOLEAN,
                 RemoveLabelerSubscribeURL(w, u, readFails)
          PROVE  task'[w].at = "storeURLs" /\ \A v \in Workers : v # w => task'[v] = task[v]
      BY <3>1, <1>g DEF RemoveLabelerSubscribeURL, Task, Done
    <3>2. CASE StoreURLs(w)
      BY <3>2, <1>g DEF StoreURLs
    <3> QED BY <1>10, <3>1, <3>2
  <2> QED BY <1>t, <2>1, <2>2, <2>3, ReportsKept, WalkKept DEF AdminInv
<1>11. ASSUME NEW u \in Subjects, FileReport(u) PROVE AdminInv'
  <2>1. ReportInv'
    BY <1>11, <1>t, FileStep
  <2>2. UNCHANGED <<labels, urls, walk, mayReturn, task>> /\ reports \subseteq reports'
    BY <1>11 DEF FileReport
  <2> QED BY <1>t, <2>1, <2>2, RemovalsKept, WalkKept DEF AdminInv
<1>12. ASSUME NEW of \in {"label", "report"}, StartWalk(of) \/ ReadPage(of) PROVE AdminInv'
  <2>1. WalkInv'
    BY <1>12, <1>t, WalkStep
  <2>2. UNCHANGED <<labels, reports, lastReport, filedInReset, task, urls, mayReturn>>
    BY <1>12 DEF StartWalk, ReadPage
  <2> QED BY <1>t, <2>1, <2>2, ReportsKept, RemovalsKept DEF AdminInv
<1> QED BY <1>1, <1>2, <1>3, <1>4, <1>5, <1>6, <1>7, <1>8, <1>9, <1>10, <1>11, <1>12
        DEF Next, Mutation, Statement, Labels, Reports

-----------------------------------------------------------------------------
(* Every variable of the admin API keeps its type. *)
THEOREM AdminTypes == Spec => []TypeOK
<1>1. AdminInv => TypeOK
  BY DEF AdminInv
<1> QED BY <1>1, AdminInitInv, AdminInvStep, PTL DEF Spec

(* A resolved report has its label, whatever fails between the two          *)
(* statements of a resolution and whoever resolves the same report; only    *)
(* reports filed inside a reset are excepted.                               *)
THEOREM ResolutionsAreLabelled == Spec => []ResolvedIsLabelled
<1>1. AdminInv => ResolvedIsLabelled
  BY DEF AdminInv, ReportInv
<1> QED BY <1>1, AdminInitInv, AdminInvStep, PTL DEF Spec

(* Pages read to the end hold every row that was there throughout, and none *)
(* twice.                                                                   *)
THEOREM WalksAreComplete == Spec => []WalkIsComplete
<1>1. ASSUME AdminInv PROVE WalkIsComplete
  <2>1. walk.at = "end" => walk.lasting \subseteq walk.got
    BY <1>1 DEF AdminInv, WalkInv
  <2>2. walk \in Walks
    BY <1>1 DEF AdminInv, TypeOK
  <2>3. ASSUME walk.after # 0, NEW i \in Below(walk.of, walk.after), i \in walk.got
        PROVE  FALSE
    <3>1. i < walk.after /\ walk.after <= i
      BY <1>1, <2>3 DEF AdminInv, WalkInv, Below
    <3>2. i \in Nat /\ walk.after \in Nat
      BY <2>2, <2>3 DEF Walks
    <3> QED BY <3>1, <3>2
  <2> QED BY <2>1, <2>3 DEF WalkIsComplete
<1> QED BY <1>1, AdminInitInv, AdminInvStep, PTL DEF Spec

(* A step that brings a labeler back is the store of a removal that         *)
(* overlapped another, or could not read the list.                          *)
LEMMA ReturningStep ==
  ASSUME AdminInv, [Next]_vars, urls # NotStored
  PROVE  urls' \ urls \subseteq UNION {mayReturn[w] : w \in {v \in Workers :
            task[v].at = "storeURLs" /\ task'[v].at = "idle"}}
<1>1. SUFFICES ASSUME urls' # urls
               PROVE  urls' \ urls \subseteq UNION {mayReturn[w] : w \in {v \in Workers :
                         task[v].at = "storeURLs" /\ task'[v].at = "idle"}}
  OBVIOUS
<1>2. PICK w \in Workers : StoreURLs(w)
  BY <1>1 DEF Next, Start, Crash, BackfillEnds, LexiconRequest, LexiconStep, Mutation,
     LabelMutation, ReportMutation, Statement, CreateLabel, NegateLabel,
     CreateLabelDefinition, ResolveReport, DismissReport, ResetAll,
     RemoveLabelerSubscribeURL, TriggerBackfill, InsertLabel, InsertDefinition, ApplyLabel,
     SetStatus, ResetReports, ResetLabels, ResetRest, RequestFails, FileReport, StartWalk,
     Labels, Reports, ReadPage, vars, modVars
<1>3. task[w].at = "storeURLs" /\ urls' = task[w].urls /\ Goto(w, Done)
  BY <1>2 DEF StoreURLs
<1>4. task'[w].at = "idle"
  BY <1>3, TaskTypes DEF AdminInv, TypeOK, Goto
<1>5. urls' \ urls \subseteq mayReturn[w]
  BY <1>3 DEF AdminInv, RemovalInv, LabelerSubscribeURLList
<1> QED BY <1>3, <1>4, <1>5

(* A labeler that was removed stays removed, but for a removal that         *)
(* overlapped its own or could not read the list.                           *)
THEOREM RemovalsLastUnlessOverlapped == Spec => RemovalsUndoneOnlyByOverlap
<1>1. AdminInv /\ [Next]_vars
        => [urls # NotStored =>
              urls' \ urls \subseteq UNION {mayReturn[w] : w \in {v \in Workers :
                 task[v].at = "storeURLs" /\ task'[v].at = "idle"}}]_vars
  BY ReturningStep
<1> QED BY <1>1, AdminInitInv, AdminInvStep, PTL DEF Spec, RemovalsUndoneOnlyByOverlap

=============================================================================
