------------------------------ MODULE Lexicons ------------------------------
(***************************************************************************)
(* The saved Lexicons: the table lexicon, the admin mutations that change  *)
(* it (graphql/admin/resolvers.go), the transaction they share             *)
(* (repositories/lexicons.go, MutateValidated) and the start of a process, *)
(* which loads the table over the documents of its Lexicon directory,      *)
(* builds the GraphQL schema from them and refuses to start on a set it    *)
(* cannot use (setupGraphQL).                                              *)
(*                                                                         *)
(* Several processes share the database.  A mutation takes its process's   *)
(* mutex, then the database's lock, then reads, writes, checks the whole   *)
(* prospective set and commits; it may fail, or its process may die, after *)
(* any of these steps.                                                     *)
(*                                                                         *)
(* A document is what the checks tell apart: its id, whether its main      *)
(* definition is one the parser knows (record or object) and whether both  *)
(* parsers accept it, the names it defines and the definitions it refers   *)
(* to.  The schema builder refuses more: a record with a field that a      *)
(* collection filter extension has as well, types of one name.             *)
(***************************************************************************)
EXTENDS Naturals, FiniteSets

CONSTANTS
  Processes, Workers,
  ProcessOf,      \* the process a worker serves requests of
  LexiconIds, DefNames,
  Documents,      \* every document an upload, a PDS or an older version may bring
  NoDocument, NoWorker,
  Clashes,        \* sets of documents that cannot be in one GraphQL schema
  Filesystem,     \* the documents of LEXICON_DIR, which all processes share
  MaxUpload       \* bound: documents of one uploaded ZIP

Definitions == LexiconIds \X DefNames
Tables == [LexiconIds -> Documents \union {NoDocument}]

ASSUME LexiconsAssumption ==
  /\ ProcessOf \in [Workers -> Processes]
  /\ NoDocument \notin Documents
  /\ NoWorker \notin Workers
  /\ Documents \subseteq [id: LexiconIds, indexable: BOOLEAN, valid: BOOLEAN,
                          defs: SUBSET DefNames, refs: SUBSET Definitions]
  /\ Clashes \subseteq SUBSET Documents
  /\ Filesystem \in Tables

VARIABLES
  saved,      \* the table lexicon
  up,         \* the processes that are running
  mutex,      \* mutex[p]: the worker that holds lexiconMutationMu of p
  dbLock,     \* the worker whose transaction holds the lexicon lock
  change,     \* change[w]: the mutation that worker w carries out
  \* history
  started     \* a process has started on this database

lexVars == <<saved, up, mutex, dbLock, change, started>>

Stages == {"idle", "resolve", "lock", "begin", "read", "write", "check"}
Kinds == {"none", "upload", "register", "delete"}

(* puts: the documents to upsert, or the ones resolved; ids: the id asked   *)
(* for (register, delete); view: the set as the transaction sees it         *)
Changes == [at: Stages, kind: Kinds, ids: SUBSET LexiconIds,
            puts: SUBSET Documents, view: Tables]

Empty == [i \in LexiconIds |-> NoDocument]
NoChange == [at |-> "idle", kind |-> "none", ids |-> {}, puts |-> {}, view |-> Empty]

LexTypeOK ==
  /\ saved \in Tables
  /\ up \subseteq Processes
  /\ mutex \in [Processes -> Workers \union {NoWorker}]
  /\ dbLock \in Workers \union {NoWorker}
  /\ change \in [Workers -> Changes]
  /\ started \in BOOLEAN

-----------------------------------------------------------------------------
(* The checks of internal/validation *)

(* One document on its own, under the id it is meant for. *)
CheckLexiconBytes(id, doc) == doc.id = id /\ doc.indexable /\ doc.valid

WithoutNonRecordLexicons(set) ==
  [i \in LexiconIds |-> IF set[i] # NoDocument /\ ~set[i].indexable
                        THEN NoDocument ELSE set[i]]

(* The nodes of the reference graph: every definition of every document. *)
ReferenceGraphNodes(set) ==
  {d \in Definitions : set[d[1]] # NoDocument /\ d[2] \in set[d[1]].defs}

ValidateReferenceClosure(set) ==
  \A i \in LexiconIds : set[i] # NoDocument => set[i].refs \subseteq ReferenceGraphNodes(set)

(* NewValidatorFromLexiconBytes succeeds. *)
CheckLexiconSet(set) ==
  LET kept == WithoutNonRecordLexicons(set)
  IN  /\ \A i \in LexiconIds : set[i] # NoDocument => set[i].id = i
      /\ \A i \in LexiconIds : kept[i] # NoDocument => kept[i].valid
      /\ ValidateReferenceClosure(kept)

(* Builder.Build succeeds on the registry of the snapshot. *)
BuildSchema(set) ==
  LET docs == {WithoutNonRecordLexicons(set)[i] : i \in LexiconIds} \ {NoDocument}
  IN  \A clash \in Clashes : ~(clash \subseteq docs)

(* Database rows override the filesystem's documents with the same id. *)
LexiconSetWithFilesystem(db) ==
  [i \in LexiconIds |-> IF db[i] # NoDocument THEN db[i] ELSE Filesystem[i]]

-----------------------------------------------------------------------------
(* What a mutation does to the table, inside its transaction. *)

(* A mutated form: only the first look finds a registered Lexicon. *)
BuildTrustsFirstLook(c, current) ==
  c.kind = "delete" /\ \E i \in c.ids : current[i] = NoDocument

BuildFails(c, current) ==
  \/ c.kind = "register" /\ \E i \in c.ids : current[i] # NoDocument
  \/ c.kind = "delete" /\ \E i \in c.ids : current[i] = NoDocument

DeleteAndUpsert(c, table) ==
  [i \in LexiconIds |->
     IF \E doc \in c.puts : doc.id = i THEN CHOOSE doc \in c.puts : doc.id = i
     ELSE IF c.kind = "delete" /\ i \in c.ids THEN NoDocument
     ELSE table[i]]

-----------------------------------------------------------------------------
(* A process starts when it can load its set and build the schema, or exits *)
(* at once.                                                                 *)
LexStart(p) ==
  /\ p \notin up
  /\ CheckLexiconSet(LexiconSetWithFilesystem(saved))
  /\ BuildSchema(LexiconSetWithFilesystem(saved))
  /\ up' = up \union {p}
  /\ started' = TRUE
  /\ UNCHANGED <<saved, mutex, dbLock, change>>

(* UploadLexicons: every file of the ZIP is checked on its own, and no two  *)
(* may carry the same id, before anything is saved.                         *)
UploadLexicons(w, docs) ==
  /\ ProcessOf[w] \in up /\ change[w].at = "idle"
  /\ Cardinality(docs) <= MaxUpload
  /\ \A doc \in docs : CheckLexiconBytes(doc.id, doc)
  /\ \A d1, d2 \in docs : d1.id = d2.id => d1 = d2
  /\ change' = [change EXCEPT ![w] = [NoChange EXCEPT !.at = "lock", !.kind = "upload",
                                                      !.puts = docs]]
  /\ UNCHANGED <<saved, up, mutex, dbLock, started>>

(* RegisterLexicon: not if a row exists already *)
RegisterLexicon(w, id) ==
  /\ ProcessOf[w] \in up /\ change[w].at = "idle"
  /\ saved[id] = NoDocument
  /\ change' = [change EXCEPT ![w] = [NoChange EXCEPT !.at = "resolve", !.kind = "register",
                                                      !.ids = {id}]]
  /\ UNCHANGED <<saved, up, mutex, dbLock, started>>

(* ... then the DNS, the PLC directory and the PDS answer, with any         *)
(* document, which has to pass the check of one document.                   *)
ResolveLexicon(w, doc) ==
  /\ change[w].at = "resolve"
  /\ \A id \in change[w].ids : CheckLexiconBytes(id, doc)
  /\ change' = [change EXCEPT ![w].at = "lock", ![w].puts = {doc}]
  /\ UNCHANGED <<saved, up, mutex, dbLock, started>>

DeleteLexicon(w, id) ==
  /\ ProcessOf[w] \in up /\ change[w].at = "idle"
  /\ change' = [change EXCEPT ![w] = [NoChange EXCEPT !.at = "lock", !.kind = "delete",
                                                      !.ids = {id}]]
  /\ UNCHANGED <<saved, up, mutex, dbLock, started>>

LockMutationMu(w) ==
  /\ change[w].at = "lock"
  /\ mutex[ProcessOf[w]] = NoWorker
  /\ mutex' = [mutex EXCEPT ![ProcessOf[w]] = w]
  /\ change' = [change EXCEPT ![w].at = "begin"]
  /\ UNCHANGED <<saved, up, dbLock, started>>

(* A mutated form: the mutex of the process is the only lock. *)
AcquireNoLock(w) ==
  /\ change[w].at = "begin"
  /\ change' = [change EXCEPT ![w].at = "read"]
  /\ UNCHANGED <<saved, up, mutex, dbLock, started>>

(* pg_advisory_xact_lock, or the write that takes SQLite's write lock *)
AcquireMutationLock(w) ==
  /\ change[w].at = "begin"
  /\ dbLock = NoWorker
  /\ dbLock' = w
  /\ change' = [change EXCEPT ![w].at = "read"]
  /\ UNCHANGED <<saved, up, mutex, started>>

(* The transaction ends, and what the worker holds with it. *)
EndMutation(w) ==
  /\ change' = [change EXCEPT ![w] = NoChange]
  /\ mutex' = [p \in Processes |-> IF mutex[p] = w THEN NoWorker ELSE mutex[p]]
  /\ dbLock' = IF dbLock = w THEN NoWorker ELSE dbLock

(* getAllTx, then build: an error of build rolls back *)
ReadAndBuild(w) ==
  /\ change[w].at = "read"
  /\ IF BuildFails(change[w], saved)
     THEN EndMutation(w)
     ELSE /\ change' = [change EXCEPT ![w].at = "write", ![w].view = saved]
          /\ UNCHANGED <<mutex, dbLock>>
  /\ UNCHANGED <<saved, up, started>>

(* The deletes and upserts, which only the transaction sees *)
WriteInTransaction(w) ==
  /\ change[w].at = "write"
  /\ change' = [change EXCEPT ![w].at = "check",
                              ![w].view = DeleteAndUpsert(change[w], change[w].view)]
  /\ UNCHANGED <<saved, up, mutex, dbLock, started>>

(* validate, then commit: the rows the transaction wrote become visible *)
CheckAndCommit(w) ==
  /\ change[w].at = "check"
  /\ saved' = IF CheckLexiconSet(LexiconSetWithFilesystem(change[w].view))
              THEN DeleteAndUpsert(change[w], saved) ELSE saved
  /\ EndMutation(w)
  /\ UNCHANGED <<up, started>>

(* A statement fails, the schema is not found or not acceptable, or the     *)
(* request is cancelled: nothing of the transaction remains.                *)
MutationFails(w) ==
  /\ change[w].at # "idle"
  /\ EndMutation(w)
  /\ UNCHANGED <<saved, up, started>>

LexCrash(p) ==
  LET mine == {w \in Workers : ProcessOf[w] = p}
  IN  /\ p \in up
      /\ up' = up \ {p}
      /\ change' = [w \in Workers |-> IF w \in mine THEN NoChange ELSE change[w]]
      /\ mutex' = [mutex EXCEPT ![p] = NoWorker]
      /\ dbLock' = IF dbLock \in mine THEN NoWorker ELSE dbLock
      /\ UNCHANGED <<saved, started>>

-----------------------------------------------------------------------------
(* A table that holds what an older version left there, or nothing. *)
LexInit ==
  /\ saved \in Tables
  /\ \A i \in LexiconIds : saved[i] # NoDocument => saved[i].id = i
  /\ up = {}
  /\ mutex = [p \in Processes |-> NoWorker]
  /\ dbLock = NoWorker
  /\ change = [w \in Workers |-> NoChange]
  /\ started = FALSE

LexRequest(w) ==
  \/ \E docs \in SUBSET Documents : UploadLexicons(w, docs)
  \/ \E id \in LexiconIds : RegisterLexicon(w, id) \/ DeleteLexicon(w, id)

LexStep(w) ==
  \/ \E doc \in Documents : ResolveLexicon(w, doc)
  \/ LockMutationMu(w)
  \/ AcquireMutationLock(w)
  \/ ReadAndBuild(w)
  \/ WriteInTransaction(w)
  \/ CheckAndCommit(w)
  \/ MutationFails(w)

LexNext ==
  \/ \E p \in Processes : LexStart(p) \/ LexCrash(p)
  \/ \E w \in Workers : LexRequest(w) \/ LexStep(w)

LexSpec == LexInit /\ [][LexNext]_lexVars

-----------------------------------------------------------------------------
(* Once a process could start, the next start gets its Lexicon snapshot:    *)
(* no order of uploads, registrations and deletions, in any number of       *)
(* processes, with failures and crashes at any step, commits a set that     *)
(* NewValidatorFromLexiconBytes would refuse, or lets two mutations that    *)
(* are fine on their own combine into one.  The GraphQL schema, which no    *)
(* mutation builds, may still refuse it.                                    *)
SnapshotAlwaysLoads == started => CheckLexiconSet(LexiconSetWithFilesystem(saved))

(* "Validate before saving so the next startup cannot be broken by a schema *)
(* that GraphQL or Indigo cannot load" (resolvers.go, RegisterLexicon; also *)
(* UploadLexicons): the next start gets the GraphQL schema as well.         *)
NextStartSucceeds ==
  started => CheckLexiconSet(LexiconSetWithFilesystem(saved))
             /\ BuildSchema(LexiconSetWithFilesystem(saved))

(* A row changes only through an upload or a deletion: a RegisterLexicon    *)
(* that found no row before it resolved the schema never replaces the row   *)
(* that another request saved in the meantime.                              *)
RegistrationReplacesNothing ==
  [][\A i \in LexiconIds : saved[i] # NoDocument /\ saved'[i] # saved[i]
       => \E w \in Workers : change[w].kind \in {"upload", "delete"}
                             /\ change[w].at = "check" /\ change'[w].at = "idle"]_lexVars

=============================================================================
