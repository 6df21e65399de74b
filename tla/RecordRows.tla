----------------------------- MODULE RecordRows -----------------------------
(***************************************************************************)
(* The rows of the tables `record` and `record_version`, and what single   *)
(* SQL statements of the repositories do to one row.  The modules of the   *)
(* writers (Tap consumer, startup refresh, ...) put these statements in    *)
(* the order, and with the interleavings, in which the code runs them.     *)
(*                                                                         *)
(* A record body is a model value.  A CID is content addressed, so the CID *)
(* of a body is the body itself; NoCID is the empty CID of an event that   *)
(* carries none.  The Lexicon set a process selects at startup is a        *)
(* snapshot, and the fingerprint (lexicon_hash) it gives a collection is   *)
(* the snapshot itself; NoHash is SQL NULL.                                *)
(***************************************************************************)
EXTENDS FiniteSets

CONSTANTS
  Uris,       \* record URIs
  Bodies,     \* record bodies
  Dated,      \* the bodies with a parseable createdAt
  Snapshots,  \* startup Lexicon sets
  Disabled,   \* the validator of RECORD_VALIDATION_ENABLED=false
  Covered,    \* <<s, u>>: snapshot s has a Lexicon for the collection of u
  Verdict,    \* what a covering snapshot says of a body
  NoBody, NoCID, NoHash, NoRow

ASSUME RowsAssumption ==
  /\ Dated \subseteq Bodies
  /\ Disabled \notin Snapshots
  /\ NoBody \notin Bodies
  /\ NoCID \notin Bodies
  /\ NoHash \notin Snapshots
  /\ Covered \subseteq Snapshots \X Uris
  /\ Verdict \in [Snapshots \X Bodies -> {"valid", "invalid", "validation_error"}]

Validators == Snapshots \union {Disabled}

Statuses == {"valid", "invalid", "validation_error", "unknown_schema", "unvalidated"}

(* checked: validated_at is not NULL; dated: record_created_at is not NULL. *)
Row == [cid: Bodies \union {NoCID}, body: Bodies, status: Statuses,
        hash: Snapshots \union {NoHash}, checked: BOOLEAN, dated: BOOLEAN]

ASSUME NoRowAssumption == NoRow \notin Row

(* A row written before migration 012 added the validation columns. *)
LegacyRow(b, cid) ==
  [cid |-> cid, body |-> b, status |-> "unknown_schema", hash |-> NoHash,
   checked |-> FALSE, dated |-> FALSE]

-----------------------------------------------------------------------------
(* ClassifyRecord with Validator.ValidateRecord or Disabled.ValidateRecord. *)
ClassifyRecord(v, u, b) ==
  IF v = Disabled THEN [status |-> "unvalidated", hash |-> NoHash]
  ELSE IF <<v, u>> \notin Covered THEN [status |-> "unknown_schema", hash |-> NoHash]
  ELSE [status |-> Verdict[<<v, b>>], hash |-> v]

(* What every statement that stores a classification sets. *)
WithMetadata(row, c) ==
  [row EXCEPT !.status = c.status, !.hash = c.hash, !.checked = TRUE]

(* Mutant of UpsertRow: the status is kept while the fingerprint is the same. *)
UpsertKeepsStatus(old, b, cid, c) ==
  [cid |-> cid, body |-> b, hash |-> c.hash, checked |-> TRUE,
   status |-> IF old # NoRow /\ old.hash = c.hash THEN old.status ELSE c.status,
   dated |-> (old # NoRow /\ old.dated) \/ b \in Dated]

(* The full upsert: content and metadata move in one statement, and         *)
(* record_created_at keeps the first value it got.                          *)
UpsertRow(old, b, cid, c) ==
  [cid |-> cid, body |-> b, status |-> c.status, hash |-> c.hash, checked |-> TRUE,
   dated |-> (old # NoRow /\ old.dated) \/ b \in Dated]

(* Mutant of SameCID: two empty CIDs are taken for the same content. *)
SameEvenIfEmpty(row, cid) == row # NoRow /\ row.cid = cid

(* The incoming write names the CID that is already stored. *)
SameCID(row, cid) == row # NoRow /\ cid # NoCID /\ row.cid = cid

(* Such a write changes nothing: the metadata is current and                *)
(* record_created_at needs no repair.                                       *)
NothingToWrite(row, b, c) ==
  /\ row.status = c.status
  /\ row.hash = c.hash
  /\ row.checked
  /\ row.dated \/ b \notin Dated

(* UPDATE ... WHERE uri AND cid: only the metadata of the stored content. *)
RepairRow(row, b, c) ==
  [WithMetadata(row, c) EXCEPT !.dated = row.dated \/ b \in Dated]

-----------------------------------------------------------------------------
(* Mutant of NeedsValidation: the fingerprint is not looked at. *)
NeverChecked(s, row) == ~row.checked

NeedsValidation(s, row) == row.hash # s \/ ~row.checked

(* The startup refresh.  Records of a collection without a Lexicon are      *)
(* marked unknown_schema; the others are classified again unless their      *)
(* metadata is complete and carries the fingerprint of the snapshot.        *)
RefreshRow(s, u, row) ==
  IF row = NoRow THEN NoRow
  ELSE IF <<s, u>> \notin Covered
       THEN WithMetadata(row, [status |-> "unknown_schema", hash |-> NoHash])
  ELSE IF NeedsValidation(s, row)
       THEN WithMetadata(row, ClassifyRecord(s, u, row.body))
  ELSE row

-----------------------------------------------------------------------------
(* record_version: at most one row per URI and version key. *)
VersionKeys ==
  [by: {"cid", "sha256"}, of: Bodies] \union {[by |-> "baseline", of |-> NoBody]}

Version == [key: VersionKeys, cid: Bodies \union {NoCID}, body: Bodies]

VersionKey(b, cid) ==
  IF cid # NoCID THEN [by |-> "cid", of |-> cid] ELSE [by |-> "sha256", of |-> b]

(* INSERT ... ON CONFLICT(uri, version_key) DO NOTHING. *)
InsertVersion(vs, v) ==
  IF \E w \in vs : w.key = v.key THEN vs ELSE vs \union {v}

AppendVersion(vs, b, cid) ==
  InsertVersion(vs, [key |-> VersionKey(b, cid), cid |-> cid, body |-> b])

(* Mutant of SeedVersion: records without a CID get no baseline. *)
SeedOnlyWithCID(vs, row) ==
  IF row = NoRow \/ vs # {} \/ row.cid = NoCID THEN vs
  ELSE InsertVersion(vs,
         [key |-> VersionKey(row.body, row.cid), cid |-> row.cid, body |-> row.body])

(* SeedBaseline for one record: only when it has no history yet, and under  *)
(* the key 'baseline' when the record has no CID.                           *)
SeedVersion(vs, row) ==
  IF row = NoRow \/ vs # {} THEN vs
  ELSE InsertVersion(vs,
         [key |-> IF row.cid # NoCID THEN VersionKey(row.body, row.cid)
                  ELSE [by |-> "baseline", of |-> NoBody],
          cid |-> row.cid, body |-> row.body])

(* The stored version of a row's content is in its history. *)
InHistory(vs, row) == \E v \in vs : v.cid = row.cid /\ v.body = row.body

=============================================================================
