-------------------------- MODULE LabelerSubscriber --------------------------
(***************************************************************************)
(* One external labeler subscription: the goroutine labeler/subscriber.go  *)
(* runs for it in every process that has it configured, the row of its URL *)
(* in label_subscription_state and its rows in external_label              *)
(* (repositories/external_labels.go).                                      *)
(*                                                                         *)
(* The labeler numbers its events 1, 2, ..., keeps only the newest of them *)
(* and may start over, numbering new events from 1: an event is its number *)
(* and the numbering it belongs to.  Each event stands for all of its      *)
(* labels, which the code stores in one transaction.                       *)
(***************************************************************************)
EXTENDS Integers

CONSTANTS
  Workers,     \* the processes, which may overlap when one replaces another
  Malformed,   \* events with a label that ConvertLabels or PersistEvent rejects
  MaxEvents,   \* bound: events the labeler emits
  MaxFaults    \* bound: errors, crashes and losses of labeler history

ASSUME LabelerAssumption ==
  /\ MaxEvents \in Nat /\ MaxFaults \in Nat
  /\ Malformed \subseteq 1..MaxEvents

Seqs == 1..MaxEvents
Numberings == 1..MaxFaults + 1
Nothing == 0
FatalCodes == {"FutureCursor", "OutdatedCursor"}

VARIABLES
  numbering,         \* how often the labeler has begun to number its events
  emitted, oldest,   \* it has emitted 1..emitted since and still keeps oldest..emitted
  faults,            \* faults so far
  \* label_subscription_state and external_label
  lastSeq,           \* last_seq
  lastError,         \* last_error: "none", "error" or the code of a fatal cursor marker
  rows,              \* rows[e]: the numbering of the event e whose labels are stored, or Nothing
  \* the goroutine of each process
  pc, seen,          \* where it is; the last_seq it has read
  dialled,           \* the numbering of its connection and the frames from it, or Nothing
  next,              \* the next event its connection delivers
  frame,             \* the labels frame it has received and not yet handled, or Nothing
  notice,            \* the cursor error the labeler has sent it, or "none"
  skipped            \* events the labeler had dropped before they were first asked for

labelerState == <<numbering, emitted, oldest>>
database == <<lastSeq, lastError, rows>>
frames == <<frame, notice>>
connection == <<seen, dialled, next>>
vars == <<numbering, emitted, oldest, faults, lastSeq, lastError, rows, pc, seen, dialled, next,
          frame, notice, skipped>>

TypeOK ==
  /\ numbering \in 1..faults + 1
  /\ emitted \in 0..MaxEvents /\ oldest \in 1..MaxEvents + 1
  /\ faults \in 0..MaxFaults
  /\ lastSeq \in 0..MaxEvents
  /\ lastError \in {"none", "error"} \union FatalCodes
  /\ rows \in [Seqs -> Numberings \union {Nothing}]
  /\ pc \in [Workers -> {"down", "ensure", "dial", "connected", "stream", "record", "error",
                         "stopped"}]
  /\ seen \in [Workers -> 0..MaxEvents]
  /\ dialled \in [Workers -> Numberings \union {Nothing}]
  /\ next \in [Workers -> 0..MaxEvents + 1]
  /\ frame \in [Workers -> Seqs \union {Nothing}]
  /\ notice \in [Workers -> FatalCodes \union {"none"}]
  /\ skipped \subseteq Seqs

Init ==
  /\ numbering = 1 /\ emitted = 0 /\ oldest = 1 /\ faults = 0
  /\ lastSeq = 0 /\ lastError = "none" /\ rows = [e \in Seqs |-> Nothing]
  /\ pc = [w \in Workers |-> "down"]
  /\ seen = [w \in Workers |-> 0]
  /\ dialled = [w \in Workers |-> Nothing]
  /\ next = [w \in Workers |-> 0]
  /\ frame = [w \in Workers |-> Nothing]
  /\ notice = [w \in Workers |-> "none"]
  /\ skipped = {}

(* IsFatalCursorError, and the guard last_error NOT LIKE 'FATAL_CURSOR %'. *)
IsFatal == lastError \in FatalCodes

Goto(w, label) == pc' = [pc EXCEPT ![w] = label]

(* Its handler has nothing to do. *)
Idle(w) == frame[w] = Nothing /\ notice[w] = "none"

(* The callback is done with its frame. *)
DropFrames(w) ==
  /\ frame' = [frame EXCEPT ![w] = Nothing]
  /\ notice' = [notice EXCEPT ![w] = "none"]

(* runOnce returns: its connection is closed, its variables are gone. *)
Return(w, label) ==
  /\ Goto(w, label)
  /\ DropFrames(w)
  /\ seen' = [seen EXCEPT ![w] = 0]
  /\ dialled' = [dialled EXCEPT ![w] = Nothing]
  /\ next' = [next EXCEPT ![w] = 0]

Fault == faults < MaxFaults /\ faults' = faults + 1

-----------------------------------------------------------------------------
(* The labeler. *)

Emit ==
  /\ emitted < MaxEvents
  /\ emitted' = emitted + 1
  /\ UNCHANGED <<numbering, oldest, faults, database, pc, connection, frames, skipped>>

(* It drops its oldest event. *)
Prune ==
  /\ Fault
  /\ oldest <= emitted
  /\ oldest' = oldest + 1
  /\ UNCHANGED <<numbering, emitted, database, pc, connection, frames, skipped>>

(* It starts over, losing its history and its connections. *)
Restart ==
  /\ Fault
  /\ numbering' = numbering + 1
  /\ emitted' = 0 /\ oldest' = 1
  /\ UNCHANGED <<database, pc, connection, frames, skipped>>

-----------------------------------------------------------------------------
(* runSubscription and runOnce. *)

Start(w) ==
  /\ pc[w] = "down"
  /\ Goto(w, "ensure")
  /\ UNCHANGED <<labelerState, faults, database, connection, frames, skipped>>

(* The row of the URL is created if missing and read; a fatal marker ends   *)
(* the goroutine for good.                                                  *)
EnsureState(w) ==
  /\ pc[w] = "ensure"
  /\ \/ IsFatal /\ Return(w, "stopped")
     \/ /\ ~IsFatal
        /\ seen' = [seen EXCEPT ![w] = lastSeq]
        /\ Goto(w, "dial")
        /\ UNCHANGED <<dialled, next, frames>>
  /\ UNCHANGED <<labelerState, faults, database, skipped>>

(* What the labeler answers to a cursor: an error or info frame when it     *)
(* cannot replay what follows the cursor.                                   *)
Greeting(cursor) ==
  IF cursor > emitted THEN "FutureCursor"
  ELSE IF cursor > 0 /\ cursor + 1 < oldest THEN "OutdatedCursor"
  ELSE "none"

(* Mutant of Dial: the saved cursor is not sent. *)
DialWithoutCursor(w) ==
  /\ pc[w] = "dial"
  /\ seen' = [seen EXCEPT ![w] = 0]
  /\ dialled' = [dialled EXCEPT ![w] = numbering]
  /\ next' = [next EXCEPT ![w] = oldest]
  /\ skipped' = skipped \union 1..oldest - 1
  /\ Goto(w, "connected")
  /\ UNCHANGED <<labelerState, faults, database, frames>>

(* The websocket is dialled with ?cursor=last_seq. *)
Dial(w) ==
  /\ pc[w] = "dial"
  /\ LET cursor == seen[w]
     IN  /\ notice' = [notice EXCEPT ![w] = Greeting(cursor)]
         /\ seen' = [seen EXCEPT ![w] = 0]
         /\ dialled' = [dialled EXCEPT ![w] = numbering]
         /\ next' = [next EXCEPT ![w] = IF cursor + 1 < oldest THEN oldest ELSE cursor + 1]
         /\ skipped' = IF cursor = 0 THEN skipped \union 1..oldest - 1 ELSE skipped
  /\ Goto(w, "connected")
  /\ UNCHANGED <<labelerState, faults, database, frame>>

(* Mutant of UpdateConnected: a connection clears every error. *)
ConnectedClearsFatal(w) ==
  /\ pc[w] = "connected"
  /\ lastError' = "none"
  /\ Goto(w, "stream")
  /\ UNCHANGED <<labelerState, faults, lastSeq, rows, connection, frames, skipped>>

UpdateConnected(w) ==
  /\ pc[w] = "connected"
  /\ lastError' = IF IsFatal THEN lastError ELSE "none"
  /\ Goto(w, "stream")
  /\ UNCHANGED <<labelerState, faults, lastSeq, rows, connection, frames, skipped>>

(* Reading the row, dialling or recording the connection fails. *)
ConnectFails(w) ==
  /\ Fault
  /\ pc[w] \in {"ensure", "dial", "connected"}
  /\ Return(w, "error")
  /\ UNCHANGED <<labelerState, database, skipped>>

ReceiveLabels(w) ==
  /\ pc[w] = "stream"
  /\ Idle(w)
  /\ dialled[w] = numbering
  /\ next[w] \in oldest..emitted
  /\ frame' = [frame EXCEPT ![w] = next[w]]
  /\ next' = [next EXCEPT ![w] = @ + 1]
  /\ UNCHANGED <<labelerState, faults, database, pc, seen, dialled, notice, skipped>>

(* The connection is lost, by a fault, in a restart of the labeler, or      *)
(* because the labeler gives up a reader that has fallen behind.            *)
StreamEnds(w) ==
  /\ pc[w] = "stream"
  /\ Idle(w)
  /\ \/ (dialled[w] # numbering \/ next[w] < oldest) /\ UNCHANGED faults
     \/ Fault
  /\ Return(w, "error")
  /\ UNCHANGED <<labelerState, database, skipped>>

-----------------------------------------------------------------------------
(* The callbacks. *)

(* updateLastSeqTx's CASE; its mutant takes whatever comes.                *)
LatestSeq(e) == e
LaterSeq(e) == IF lastSeq < e THEN e ELSE lastSeq

(* insertExternalLabelTx: ON CONFLICT(subscription_url, seq, label_index)   *)
(* DO NOTHING, so that a row stays what it was, also when the labeler has   *)
(* given the number to another event since.                                 *)
InsertLabels(e, n) == [rows EXCEPT ![e] = IF @ = Nothing THEN n ELSE @]

(* The transaction of PersistEvent. *)
PersistTx(w) ==
  /\ rows' = InsertLabels(frame[w], dialled[w])
  /\ lastSeq' = IF IsFatal THEN lastSeq ELSE LaterSeq(frame[w])
  /\ lastError' = IF IsFatal THEN lastError ELSE "none"

PersistEvent(w) ==
  /\ pc[w] = "stream"
  /\ frame[w] \in Seqs \ Malformed
  /\ PersistTx(w)
  /\ DropFrames(w)
  /\ UNCHANGED <<labelerState, faults, pc, connection, skipped>>

(* It fails, with the transaction rolled back, or with the answer to its    *)
(* COMMIT lost.                                                             *)
PersistFails(w) ==
  /\ Fault
  /\ pc[w] = "stream"
  /\ frame[w] \in Seqs \ Malformed
  /\ PersistTx(w) \/ UNCHANGED database
  /\ Return(w, "record")
  /\ UNCHANGED <<labelerState, skipped>>

(* Mutant of RejectEvent: a malformed event is passed over. *)
PassMalformed(w) ==
  /\ pc[w] = "stream"
  /\ frame[w] \in Malformed
  /\ lastSeq' = IF IsFatal THEN lastSeq ELSE LaterSeq(frame[w])
  /\ DropFrames(w)
  /\ UNCHANGED <<labelerState, faults, lastError, rows, pc, connection, skipped>>

(* ConvertLabels or validateExternalLabelInputs refuses a label. *)
RejectEvent(w) ==
  /\ pc[w] = "stream"
  /\ frame[w] \in Malformed
  /\ Return(w, "record")
  /\ UNCHANGED <<labelerState, faults, database, skipped>>

(* handleInfo and the Error callback: the marker is written and the         *)
(* goroutine ends.                                                          *)
MarkFatalCursor(w) ==
  /\ pc[w] = "stream"
  /\ notice[w] \in FatalCodes
  /\ lastError' = notice[w]
  /\ Return(w, "stopped")
  /\ UNCHANGED <<labelerState, faults, lastSeq, rows, skipped>>

(* The marker cannot be written: an error like any other. *)
MarkFails(w) ==
  /\ Fault
  /\ pc[w] = "stream"
  /\ notice[w] \in FatalCodes
  /\ Return(w, "error")
  /\ UNCHANGED <<labelerState, database, skipped>>

(* Mutant of UpdateError: any error ends the subscription. *)
ErrorStops(w) ==
  /\ pc[w] \in {"record", "error"}
  /\ lastError' = IF IsFatal THEN lastError ELSE "error"
  /\ Goto(w, "stopped")
  /\ UNCHANGED <<labelerState, faults, lastSeq, rows, connection, frames, skipped>>

(* recordAndReturnError, then runSubscription, record the error; after the  *)
(* backoff the loop goes round.  A failing UPDATE is only logged.           *)
UpdateError(w) ==
  /\ pc[w] \in {"record", "error"}
  /\ \/ lastError' = (IF IsFatal THEN lastError ELSE "error") /\ UNCHANGED faults
     \/ Fault /\ UNCHANGED lastError
  /\ Goto(w, IF pc[w] = "record" THEN "error" ELSE "ensure")
  /\ UNCHANGED <<labelerState, lastSeq, rows, connection, frames, skipped>>

-----------------------------------------------------------------------------
(* The process ends at any point, by a crash or a shutdown. *)
Exit(w) ==
  /\ Fault
  /\ pc[w] # "down"
  /\ Return(w, "down")
  /\ UNCHANGED <<labelerState, database, skipped>>

(* The operator's repair: the saved cursor is reset, the labels purged or   *)
(* left to be replayed over, the marker cleared and the process restarted.  *)
Repair ==
  /\ Fault
  /\ IsFatal
  /\ \A w \in Workers : pc[w] \in {"down", "stopped"}
  /\ lastSeq' = 0
  /\ lastError' = "none"
  /\ rows' \in {rows, [e \in Seqs |-> Nothing]}
  /\ skipped' = {}
  /\ pc' = [w \in Workers |-> "down"]
  /\ UNCHANGED <<labelerState, connection, frames>>

Goroutine(w) ==
  \/ Start(w) \/ EnsureState(w) \/ Dial(w) \/ UpdateConnected(w)
  \/ ReceiveLabels(w) \/ StreamEnds(w)
  \/ PersistEvent(w) \/ RejectEvent(w) \/ MarkFatalCursor(w) \/ UpdateError(w)

Next ==
  \/ Emit \/ Prune \/ Restart \/ Repair
  \/ \E w \in Workers :
       Goroutine(w) \/ ConnectFails(w) \/ PersistFails(w) \/ MarkFails(w) \/ Exit(w)

Spec == Init /\ [][Next]_vars

FairSpec == Spec /\ \A w \in Workers : WF_vars(Goroutine(w))

-----------------------------------------------------------------------------
(* PersistEvent stores labels and cursor together and an error never moves  *)
(* the cursor: every number up to last_seq has its labels stored, except    *)
(* the ones the labeler no longer had when it was first asked.  In          *)
(* particular last_seq never passes a malformed event.                      *)
CursorCoversLabels == \A e \in 1..lastSeq : rows[e] # Nothing \/ e \in skipped

(* "Fatal cursor markers are sticky" (external_labels.go, UpdateError): no  *)
(* bookkeeping of any process clears one or moves the cursor under it; only *)
(* the operator's repair does.                                              *)
FatalIsSticky ==
  [][IsFatal => Repair \/ (lastError' \in FatalCodes /\ lastSeq' = lastSeq)]_vars

(* Only the repair moves last_seq back: a process that lags behind another  *)
(* one does not (updateLastSeqTx).                                          *)
CursorOnlyAdvances == [][lastSeq' >= lastSeq \/ Repair]_vars

(* No label is lost silently, but for a number that the labeler uses again: *)
(* once errors stop, an emitted event is stored, or the labeler forgot it   *)
(* before it was first asked or starts over, or the subscription is marked  *)
(* fatal for the operator to see, or its number is taken: labels from       *)
(* before the restart are stored under it, which the conflict clause keeps. *)
(* A malformed event holds up itself and what follows it.                   *)
StoredOrReported ==
  \A e \in {f \in Seqs : 1..f \intersect Malformed = {}} :
    e <= emitted ~>
      \/ rows[e] = numbering
      \/ e \in skipped \/ e > emitted
      \/ IsFatal
      \/ rows[e] \in 1..numbering - 1

(* A labeler that starts over behind the saved cursor is noticed, whatever  *)
(* becomes of the connections and of the attempts to write the marker:      *)
(* FutureCursor is recorded, unless the labeler gets past the cursor first. *)
(* That race the code cannot see; it is the only way to the case above that *)
(* needs no repair (runOnce, recordFatalCursorAndReturnError).              *)
AheadIsReported == lastSeq > emitted ~> (IsFatal \/ lastSeq <= emitted)

=============================================================================
