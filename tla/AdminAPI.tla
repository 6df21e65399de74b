------------------------------ MODULE AdminAPI ------------------------------
(***************************************************************************)
(* The mutations of the admin GraphQL API (graphql/admin/resolvers.go)     *)
(* beside the Lexicons': label definitions, labels, the reports users file *)
(* and their resolution, the list of labelers, a full backfill, and the    *)
(* reset of everything; and the pages in which the admin UI reads labels   *)
(* and reports.                                                            *)
(*                                                                         *)
(* A request is served by a worker of some process, one statement of the   *)
(* database per step and no transaction around them: it can end after any  *)
(* of them.  Workers and processes are those of Lexicons, which this       *)
(* module composes with its own requests.                                  *)
(***************************************************************************)
EXTENDS Lexicons, FiniteSetsExt

CONSTANTS
  Users, Nobody,
  AdminDIDs,       \* ADMIN_DIDS
  Subjects, Vals, SeededVals,
  OldLabels,       \* rows of label from before, ids 1, 2, ...
  OldReports,      \* rows of report from before
  URLs,            \* LABELER_SUBSCRIBE_URLS
  NotStored,       \* no config row labeler_subscribe_urls
  PageSize,        \* first, of a page of labels or reports
  MaxRequests,     \* bound: mutations
  MaxReports       \* bound: reports, the old ones included

ASSUME AdminAssumption ==
  /\ AdminDIDs \subseteq Users /\ Nobody \notin Users
  /\ SeededVals \subseteq Vals
  /\ IsFiniteSet(OldLabels) /\ IsFiniteSet(OldReports)
  /\ OldLabels \subseteq [id: 1..Cardinality(OldLabels), uri: Subjects, val: SeededVals,
                          neg: BOOLEAN]
  /\ OldReports \subseteq [id: 1..Cardinality(OldReports), subject: Subjects,
                           status: {"pending"}]
  /\ \A r, q \in OldReports : r.id = q.id => r = q
  /\ Cardinality(OldReports) <= MaxReports
  /\ PageSize \in Nat \ {0} /\ MaxRequests \in Nat /\ MaxReports \in Nat

VARIABLES
  definitions,  \* label values of the table label_definition
  labels,       \* the table label
  lastLabel,    \* its AUTOINCREMENT
  reports,      \* the table report
  lastReport,
  urls,         \* config row labeler_subscribe_urls
  backfilling,  \* backfillActive of every process
  task,         \* task[w]: what is left of the request of worker w
  walk,         \* the admin UI reading labels or reports, page by page
  served,
  \* history
  filedInReset, \* reports filed between the two deletions of a ResetAll
  mayReturn     \* mayReturn[w]: URLs removed since w read the list, or all
                \* when w could not read it

modVars == <<definitions, labels, lastLabel, reports, lastReport, urls, backfilling, task,
             walk, served, filedInReset, mayReturn>>
vars == <<lexVars, modVars>>

Done == [at |-> "idle", subject |-> "none", val |-> "none", report |-> 0, status |-> "none",
         urls |-> {}]
Task(at) == [Done EXCEPT !.at = at]
Label(id, u, v, neg) == [id |-> id, uri |-> u, val |-> v, neg |-> neg]

(* The pages read so far: of which table, where the next one starts, the    *)
(* rows read, and the rows that have been there since the first page.       *)
NoWalk == [at |-> "no", of |-> "none", after |-> 0, got |-> {}, lasting |-> {}]

TaskSteps == {"idle", "insertLabel", "insertDefinition", "applyLabel", "setStatus",
              "resetReports", "resetLabels", "resetRest", "storeURLs"}
Statuses == {"pending", "resolved", "dismissed"}
Tasks == [at: TaskSteps, subject: Subjects \union {"none"}, val: Vals \union {"none"},
          report: 0..MaxReports, status: Statuses \union {"none"}, urls: SUBSET URLs]
Complete(t) ==
  /\ t.at \in {"insertLabel", "applyLabel"} => t.subject \in Subjects
  /\ t.at \in {"insertLabel", "applyLabel", "insertDefinition"} => t.val \in Vals
  /\ t.at \in {"applyLabel", "setStatus"} => t.status \in Statuses
Walks == [at: {"no", "reading", "end"}, of: {"none", "label", "report"}, after: Nat,
          got: SUBSET Nat, lasting: SUBSET Nat]

TypeOK ==
  /\ LexTypeOK
  /\ definitions \subseteq Vals
  /\ lastLabel \in Nat /\ lastReport \in 0..MaxReports
  /\ labels \subseteq [id: 1..lastLabel, uri: Subjects, val: Vals, neg: BOOLEAN]
  /\ reports \subseteq [id: 1..lastReport, subject: Subjects, status: Statuses]
  /\ urls \in (SUBSET URLs) \union {NotStored}
  /\ backfilling \in [Processes -> BOOLEAN]
  /\ task \in [Workers -> Tasks] /\ \A w \in Workers : Complete(task[w])
  /\ walk \in Walks
  /\ served \in 0..MaxRequests
  /\ filedInReset \subseteq 1..MaxReports
  /\ mayReturn \in [Workers -> SUBSET URLs]

-----------------------------------------------------------------------------
(* Handler.ServeHTTP: the DID of the access token, or of the X-User-DID     *)
(* header when the request brings the admin API key; requireAdmin: what     *)
(* every mutation asks first.                                               *)
UserDID(token, header, keyIsValid) ==
  IF token # Nobody THEN token ELSE IF keyIsValid THEN header ELSE Nobody

RequireAdmin(user) == user \in AdminDIDs

Callers == {UserDID(token, header, keyIsValid) :
              token \in Users \union {Nobody}, header \in Users \union {Nobody},
              keyIsValid \in BOOLEAN}

(* A request that may change something: it is taken by an idle worker. *)
Admitted(w) ==
  /\ ProcessOf[w] \in up /\ change[w].at = "idle" /\ task[w].at = "idle"
  /\ served < MaxRequests
  /\ {user \in Callers : RequireAdmin(user)} # {}
  /\ served' = served + 1

Goto(w, t) == task' = [task EXCEPT ![w] = t]

-----------------------------------------------------------------------------
(* Labels and their definitions *)

InsertRow(u, v, neg) ==
  /\ labels' = labels \union {Label(lastLabel + 1, u, v, neg)}
  /\ lastLabel' = lastLabel + 1

(* CreateLabel: the value has to be defined *)
CreateLabel(w, u, v) ==
  /\ Admitted(w) /\ v \in definitions
  /\ Goto(w, [Task("insertLabel") EXCEPT !.subject = u, !.val = v])
  /\ UNCHANGED <<lexVars, definitions, labels, lastLabel, reports, lastReport, urls,
                 backfilling, walk, filedInReset, mayReturn>>

InsertLabel(w) ==
  /\ task[w].at = "insertLabel"
  /\ InsertRow(task[w].subject, task[w].val, FALSE)
  /\ Goto(w, Done)
  /\ UNCHANGED <<lexVars, definitions, reports, lastReport, urls, backfilling, walk, served,
                 filedInReset, mayReturn>>

(* NegateLabel: one insert; the foreign key refuses a value not defined *)
NegateLabel(w, u, v) ==
  /\ Admitted(w) /\ v \in definitions
  /\ InsertRow(u, v, TRUE)
  /\ UNCHANGED <<lexVars, definitions, reports, lastReport, urls, backfilling, task, walk,
                 filedInReset, mayReturn>>

CreateLabelDefinition(w, v) ==
  /\ Admitted(w) /\ v \notin definitions
  /\ Goto(w, [Task("insertDefinition") EXCEPT !.val = v])
  /\ UNCHANGED <<lexVars, definitions, labels, lastLabel, reports, lastReport, urls,
                 backfilling, walk, filedInReset, mayReturn>>

(* The primary key refuses the second of two. *)
InsertDefinition(w) ==
  /\ task[w].at = "insertDefinition"
  /\ definitions' = definitions \union {task[w].val}
  /\ Goto(w, Done)
  /\ UNCHANGED <<lexVars, labels, lastLabel, reports, lastReport, urls, backfilling, walk,
                 served, filedInReset, mayReturn>>

-----------------------------------------------------------------------------
(* Reports *)

(* Another user files a report. *)
FileReport(u) ==
  /\ lastReport < MaxReports
  /\ reports' = reports \union {[id |-> lastReport + 1, subject |-> u, status |-> "pending"]}
  /\ lastReport' = lastReport + 1
  /\ filedInReset' = IF \E w \in Workers : task[w].at = "resetLabels"
                     THEN filedInReset \union {lastReport + 1} ELSE filedInReset
  /\ UNCHANGED <<lexVars, definitions, labels, lastLabel, urls, backfilling, task, walk,
                 served, mayReturn>>

(* A mutated form: the status first. *)
ResolveStatusFirst(w, r, v) ==
  /\ Admitted(w) /\ r \in reports
  /\ Goto(w, [Task("setStatus") EXCEPT !.report = r.id, !.status = "resolved"])
  /\ UNCHANGED <<lexVars, definitions, labels, lastLabel, reports, lastReport, urls,
                 backfilling, walk, filedInReset, mayReturn>>

(* ResolveReport, action apply_label: of any report, resolved or not *)
ResolveReport(w, r, v) ==
  /\ Admitted(w) /\ r \in reports
  /\ Goto(w, [Task("applyLabel") EXCEPT !.subject = r.subject, !.val = v, !.report = r.id,
                                        !.status = "resolved"])
  /\ UNCHANGED <<lexVars, definitions, labels, lastLabel, reports, lastReport, urls,
                 backfilling, walk, filedInReset, mayReturn>>

ApplyLabel(w) ==
  /\ task[w].at = "applyLabel"
  /\ task[w].val \in definitions
  /\ InsertRow(task[w].subject, task[w].val, FALSE)
  /\ task' = [task EXCEPT ![w].at = "setStatus"]
  /\ UNCHANGED <<lexVars, definitions, reports, lastReport, urls, backfilling, walk, served,
                 filedInReset, mayReturn>>

(* ResolveReport, action dismiss *)
DismissReport(w, r) ==
  /\ Admitted(w) /\ r \in reports
  /\ Goto(w, [Task("setStatus") EXCEPT !.report = r.id, !.status = "dismissed"])
  /\ UNCHANGED <<lexVars, definitions, labels, lastLabel, reports, lastReport, urls,
                 backfilling, walk, filedInReset, mayReturn>>

(* ReportsRepository.Resolve: the row of that id, if it is still there,     *)
(* whatever its status                                                      *)
Resolved(r, t) == IF r.id = t.report THEN [r EXCEPT !.status = t.status] ELSE r

SetStatus(w) ==
  /\ task[w].at = "setStatus"
  /\ reports' = {Resolved(r, task[w]) : r \in reports}
  /\ walk' = IF walk.of = "report" THEN [walk EXCEPT !.lasting = @ \ {task[w].report}]
             ELSE walk
  /\ Goto(w, Done)
  /\ UNCHANGED <<lexVars, definitions, labels, lastLabel, lastReport, urls, backfilling,
                 served, filedInReset, mayReturn>>

-----------------------------------------------------------------------------
(* ResetAll: activity, reports, labels, records, actors, one by one.  The   *)
(* tables of records, actors and activity are not of this module.           *)
ResetAll(w) ==
  /\ Admitted(w)
  /\ Goto(w, Task("resetReports"))
  /\ UNCHANGED <<lexVars, definitions, labels, lastLabel, reports, lastReport, urls,
                 backfilling, walk, filedInReset, mayReturn>>

ResetReports(w) ==
  /\ task[w].at = "resetReports"
  /\ reports' = {}
  /\ walk' = IF walk.of = "report" THEN [walk EXCEPT !.lasting = {}] ELSE walk
  /\ Goto(w, Task("resetLabels"))
  /\ UNCHANGED <<lexVars, definitions, labels, lastLabel, lastReport, urls, backfilling,
                 served, filedInReset, mayReturn>>

ResetLabels(w) ==
  /\ task[w].at = "resetLabels"
  /\ labels' = {}
  /\ walk' = IF walk.of = "label" THEN [walk EXCEPT !.lasting = {}] ELSE walk
  /\ Goto(w, Task("resetRest"))
  /\ UNCHANGED <<lexVars, definitions, lastLabel, reports, lastReport, urls, backfilling,
                 served, filedInReset, mayReturn>>

ResetRest(w) ==
  /\ task[w].at = "resetRest"
  /\ Goto(w, Done)
  /\ UNCHANGED <<lexVars, definitions, labels, lastLabel, reports, lastReport, urls,
                 backfilling, walk, served, filedInReset, mayReturn>>

-----------------------------------------------------------------------------
(* The list of labelers to subscribe to *)

(* A mutated form: always the configured default. *)
LabelerSubscribeURLDefault(readFails) == URLs

(* labelerSubscribeURLList: the config row, or the configured default when  *)
(* there is none or it cannot be read                                       *)
LabelerSubscribeURLList(readFails) ==
  IF readFails \/ urls = NotStored THEN URLs ELSE urls

RemoveLabelerSubscribeURL(w, u, readFails) ==
  LET list == LabelerSubscribeURLList(readFails)
  IN  /\ Admitted(w) /\ u \in list
      /\ Goto(w, [Task("storeURLs") EXCEPT !.urls = list \ {u}])
      /\ mayReturn' = [mayReturn EXCEPT ![w] = IF readFails THEN URLs ELSE {}]
      /\ UNCHANGED <<lexVars, definitions, labels, lastLabel, reports, lastReport, urls,
                     backfilling, walk, filedInReset>>

StoreURLs(w) ==
  /\ task[w].at = "storeURLs"
  /\ urls' = task[w].urls
  /\ mayReturn' = [v \in Workers |->
                      mayReturn[v] \union (LabelerSubscribeURLList(FALSE) \ task[w].urls)]
  /\ Goto(w, Done)
  /\ UNCHANGED <<lexVars, definitions, labels, lastLabel, reports, lastReport, backfilling,
                 walk, served, filedInReset>>

-----------------------------------------------------------------------------
(* TriggerBackfill: CompareAndSwap(false, true), then a goroutine *)
TriggerBackfill(w) ==
  /\ Admitted(w) /\ ~backfilling[ProcessOf[w]]
  /\ backfilling' = [backfilling EXCEPT ![ProcessOf[w]] = TRUE]
  /\ UNCHANGED <<lexVars, definitions, labels, lastLabel, reports, lastReport, urls, task,
                 walk, filedInReset, mayReturn>>

BackfillEnds(p) ==
  /\ backfilling[p]
  /\ backfilling' = [backfilling EXCEPT ![p] = FALSE]
  /\ UNCHANGED <<lexVars, definitions, labels, lastLabel, reports, lastReport, urls, task,
                 walk, served, filedInReset, mayReturn>>

-----------------------------------------------------------------------------
(* Labels of every subject and value; reports with status pending *)
LabelIds == {l.id : l \in labels}
PendingReportIds == {r.id : r \in {q \in reports : q.status = "pending"}}
Rows(of) == IF of = "label" THEN LabelIds ELSE PendingReportIds

(* A mutated form: the row at the cursor again. *)
FromCursor(of, after) == {i \in Rows(of) : after = 0 \/ i <= after}

(* GetPaginated: id descending, below the cursor *)
Below(of, after) == {i \in Rows(of) : after = 0 \/ i < after}

PageOf(ids) == {i \in ids : Cardinality({j \in ids : j > i}) < PageSize}

StartWalk(of) ==
  /\ walk.at = "no"
  /\ walk' = [NoWalk EXCEPT !.at = "reading", !.of = of, !.lasting = Rows(of)]
  /\ UNCHANGED <<lexVars, definitions, labels, lastLabel, reports, lastReport, urls,
                 backfilling, task, served, filedInReset, mayReturn>>

(* The next page, and the cursor of its last row *)
ReadPage(of) ==
  LET ids == Below(of, walk.after)
      page == PageOf(ids)
  IN  /\ walk.at = "reading" /\ walk.of = of
      /\ walk' = [walk EXCEPT
                    !.at = IF ids = page THEN "end" ELSE "reading",
                    !.after = IF page = {} THEN walk.after ELSE Min(page),
                    !.got = walk.got \union page]
      /\ UNCHANGED <<lexVars, definitions, labels, lastLabel, reports, lastReport, urls,
                     backfilling, task, served, filedInReset, mayReturn>>

Labels == ReadPage("label")
Reports == ReadPage("report")

-----------------------------------------------------------------------------
(* A request ends early: a statement fails, or it is cancelled. *)
RequestFails(w) ==
  /\ task[w].at # "idle"
  /\ Goto(w, Done)
  /\ UNCHANGED <<lexVars, definitions, labels, lastLabel, reports, lastReport, urls,
                 backfilling, walk, served, filedInReset, mayReturn>>

Crash(p) ==
  /\ LexCrash(p)
  /\ task' = [w \in Workers |-> IF ProcessOf[w] = p THEN Done ELSE task[w]]
  /\ backfilling' = [backfilling EXCEPT ![p] = FALSE]
  /\ UNCHANGED <<definitions, labels, lastLabel, reports, lastReport, urls, walk, served,
                 filedInReset, mayReturn>>

Start(p) == LexStart(p) /\ UNCHANGED modVars

LexiconRequest(w) ==
  /\ Admitted(w) /\ LexRequest(w)
  /\ UNCHANGED <<definitions, labels, lastLabel, reports, lastReport, urls, backfilling,
                 task, walk, filedInReset, mayReturn>>

LexiconStep(w) == LexStep(w) /\ UNCHANGED modVars

Init ==
  /\ LexInit
  /\ definitions = SeededVals
  /\ labels = OldLabels /\ lastLabel = Cardinality(OldLabels)
  /\ reports = OldReports /\ lastReport = Cardinality(OldReports)
  /\ urls = NotStored
  /\ backfilling = [p \in Processes |-> FALSE]
  /\ task = [w \in Workers |-> Done]
  /\ walk = NoWalk
  /\ served = 0
  /\ filedInReset = {}
  /\ mayReturn = [w \in Workers |-> {}]

LabelMutation(w) ==
  \/ \E u \in Subjects, v \in Vals : CreateLabel(w, u, v) \/ NegateLabel(w, u, v)
  \/ \E v \in Vals : CreateLabelDefinition(w, v)

ReportMutation(w) ==
  \/ \E r \in reports, v \in Vals : ResolveReport(w, r, v)
  \/ \E r \in reports : DismissReport(w, r)

Mutation(w) ==
  \/ LabelMutation(w) \/ ReportMutation(w)
  \/ ResetAll(w)
  \/ \E u \in URLs, readFails \in BOOLEAN : RemoveLabelerSubscribeURL(w, u, readFails)
  \/ TriggerBackfill(w)

Statement(w) ==
  \/ InsertLabel(w) \/ InsertDefinition(w)
  \/ ApplyLabel(w) \/ SetStatus(w)
  \/ ResetReports(w) \/ ResetLabels(w) \/ ResetRest(w)
  \/ StoreURLs(w)
  \/ RequestFails(w)

Next ==
  \/ \E p \in Processes : Start(p) \/ Crash(p) \/ BackfillEnds(p)
  \/ \E w \in Workers : LexiconRequest(w) \/ LexiconStep(w) \/ Mutation(w) \/ Statement(w)
  \/ \E u \in Subjects : FileReport(u)
  \/ \E of \in {"label", "report"} : StartWalk(of)
  \/ Labels \/ Reports

Spec == Init /\ [][Next]_vars

-----------------------------------------------------------------------------
(* A report marked resolved has its label: ResolveReport applies the label  *)
(* before it changes the status, no failure between the two nor another     *)
(* request on the same report leaves a resolved report whose subject was    *)
(* never labelled.  A ResetAll, which deletes reports and labels in two     *)
(* statements, spoils it only for a report filed between the two.           *)
ResolvedIsLabelled ==
  \A r \in reports : r.status = "resolved" /\ r.id \notin filedInReset
    => \E l \in labels : l.uri = r.subject /\ ~l.neg

(* RemoveLabelerSubscribeURL reads the list, then writes it back without    *)
(* the URL: a URL that was removed comes back only through a removal that   *)
(* was already under way, or one that could not read the list and fell back *)
(* on the configured default.                                               *)
RemovalsUndoneOnlyByOverlap ==
  [][urls # NotStored =>
       urls' \ urls \subseteq UNION {mayReturn[w] : w \in {v \in Workers :
          task[v].at = "storeURLs" /\ task'[v].at = "idle"}}]_vars

(* Pages of labels, or of pending reports, walked to the end while labels   *)
(* are created and negated, reports filed and resolved, and both reset,     *)
(* hold every row that was there throughout, and never repeat one: each     *)
(* page is below what was read.                                             *)
WalkIsComplete ==
  /\ walk.at = "end" => walk.lasting \subseteq walk.got
  /\ walk.at = "reading" /\ walk.after # 0
       => Below(walk.of, walk.after) \intersect walk.got = {}
=============================================================================
