------------------------- MODULE JetstreamConsumer -------------------------
(***************************************************************************)
(* The legacy ingestion path: the Jetstream client (jetstream/client.go)   *)
(* and the consumer (jetstream/consumer.go) with its reconnect loop, one   *)
(* event processor and one cursor flusher per connection, and the cursor   *)
(* saved in the config table.                                              *)
(*                                                                         *)
(* The stream is the events 1, 2, ... in the order of their time_us.  The  *)
(* k-th connection of a process is k.  The processor and the flusher of a  *)
(* lost connection live on: the processor until the events it has buffered *)
(* are used up, the flusher until the process ends.                        *)
(***************************************************************************)
EXTENDS Integers, Sequences

CONSTANTS
  Commits,       \* the events that are commits; the others are identity or account events
  Malformed,     \* the events whose message ParseEvent rejects
  LoadMayFail,   \* reading the saved cursor may fail
  StopsCleanly,  \* the process may be stopped by a signal
  MaxEvents,     \* bound: events of the stream
  MaxConns,      \* bound: connections of one process
  MaxStarts,     \* bound: processes
  Buffer         \* EventChannelBufferSize

ASSUME JetstreamAssumption ==
  /\ MaxEvents \in Nat /\ MaxConns \in Nat /\ MaxStarts \in Nat
  /\ Buffer \in Nat \ {0}
  /\ Commits \subseteq 1..MaxEvents
  /\ Malformed \subseteq 1..MaxEvents
  /\ LoadMayFail \in BOOLEAN /\ StopsCleanly \in BOOLEAN

Stream == 1..MaxEvents
Conns == 1..MaxConns
None == 0

VARIABLES
  emitted,   \* events Jetstream has emitted
  \* the process
  starts,    \* processes so far
  pc,        \* the Start loop: "down", "load", "connect", "run", "backoff"
  ctxDone,   \* Stop has cancelled the context
  conn,      \* connections of this process so far
  from,      \* the cursor the next connection asks for
  next,      \* next[k]: the next event connection k delivers
  read,      \* an event Run has read and not yet put into the channel, or None
  open,      \* the connections whose event channel is not closed
  channel,   \* channel[k]: events waiting for processor k
  handling,  \* handling[k]: the event processor k is handling, or None
  handled,   \* handled[k]: it was handled successfully
  cursor,    \* Consumer.cursor
  flusher,   \* flusher[k]: the cursor flusher k is about to save, or None
  flushed,   \* flushed[k]: its lastFlushed
  ended,     \* the flushers that have made their final flush
  panicked,  \* a send on a closed channel
  \* the database
  saved,     \* jetstream_cursor; 0 when there is none
  \* what an observer remembers
  attempted, applied, \* events whose handler ran, and ran successfully
  skipped             \* events a start from live left out

stream == <<emitted, skipped>>
loop == <<pc, ctxDone, conn, from>>
reader == <<next, read, open>>
processors == <<channel, handling, handled>>
flushers == <<flusher, flushed, ended>>
results == <<attempted, applied>>
vars == <<emitted, starts, pc, ctxDone, conn, from, next, read, open, channel, handling,
          handled, cursor, flusher, flushed, ended, panicked, saved, attempted, applied, skipped>>

TypeOK ==
  /\ emitted \in 0..MaxEvents
  /\ starts \in 0..MaxStarts
  /\ pc \in {"down", "load", "connect", "run", "backoff"}
  /\ ctxDone \in BOOLEAN
  /\ conn \in 0..MaxConns
  /\ from \in 0..MaxEvents
  /\ next \in [Conns -> 0..MaxEvents + 1]
  /\ read \in Stream \union {None}
  /\ open \subseteq Conns
  /\ channel \in [Conns -> Seq(Stream)]
  /\ \A k \in Conns : Len(channel[k]) <= Buffer
  /\ handling \in [Conns -> Stream \union {None}]
  /\ handled \in [Conns -> BOOLEAN]
  /\ cursor \in 0..MaxEvents
  /\ flusher \in [Conns -> Stream \union {None}]
  /\ flushed \in [Conns -> 0..MaxEvents]
  /\ ended \subseteq Conns
  /\ panicked \in BOOLEAN
  /\ saved \in 0..MaxEvents
  /\ attempted \subseteq Stream /\ applied \subseteq Stream /\ skipped \subseteq Stream

(* The memory of a process that is not running. *)
NoProcess ==
  /\ pc' = "down"
  /\ ctxDone' = FALSE
  /\ conn' = 0
  /\ from' = 0
  /\ next' = [k \in Conns |-> 0]
  /\ read' = None
  /\ open' = {}
  /\ channel' = [k \in Conns |-> <<>>]
  /\ handling' = [k \in Conns |-> None]
  /\ handled' = [k \in Conns |-> FALSE]
  /\ cursor' = 0
  /\ flusher' = [k \in Conns |-> None]
  /\ flushed' = [k \in Conns |-> 0]
  /\ ended' = {}
  /\ panicked' = FALSE

Init ==
  /\ emitted = 0 /\ starts = 0 /\ pc = "down" /\ ctxDone = FALSE /\ conn = 0 /\ from = 0
  /\ next = [k \in Conns |-> 0]
  /\ read = None /\ open = {}
  /\ channel = [k \in Conns |-> <<>>]
  /\ handling = [k \in Conns |-> None]
  /\ handled = [k \in Conns |-> FALSE]
  /\ cursor = 0
  /\ flusher = [k \in Conns |-> None]
  /\ flushed = [k \in Conns |-> 0]
  /\ ended = {}
  /\ panicked = FALSE
  /\ saved = 0 /\ attempted = {} /\ applied = {} /\ skipped = {}

-----------------------------------------------------------------------------
Emit ==
  /\ emitted < MaxEvents
  /\ emitted' = emitted + 1
  /\ UNCHANGED <<starts, loop, reader, processors, cursor, flushers, panicked, saved, results,
                 skipped>>

(* The reconnect loop: Start, startInternal. *)

Start ==
  /\ pc = "down"
  /\ starts < MaxStarts
  /\ starts' = starts + 1
  /\ pc' = "load"
  /\ UNCHANGED <<stream, ctxDone, conn, from, reader, processors, cursor, flushers, panicked,
                 saved, results>>

(* Mutant of LoadCursor: resume behind the newest event. *)
ResumeFromLive ==
  /\ pc = "load"
  /\ pc' = "connect"
  /\ open' = {}
  /\ from' = emitted
  /\ UNCHANGED <<stream, starts, ctxDone, conn, next, read, processors, cursor, flushers,
                 panicked, saved, results>>

(* The client of the lost connection is stopped, which closes its channel,  *)
(* and the cursor read back from the database.  When that fails the         *)
(* connection starts from live.                                             *)
LoadCursor ==
  /\ pc = "load"
  /\ pc' = "connect"
  /\ open' = {}
  /\ from' \in {saved} \union (IF LoadMayFail THEN {0} ELSE {})
  /\ UNCHANGED <<stream, starts, ctxDone, conn, next, read, processors, cursor, flushers,
                 panicked, saved, results>>

(* Connect: Jetstream replays what follows the cursor, or goes on from live *)
(* when there is none.                                                      *)
Connect ==
  /\ pc = "connect"
  /\ conn < MaxConns
  /\ ~ctxDone
  /\ LET k == conn + 1
         first == IF from > 0 THEN from + 1 ELSE emitted + 1
     IN  /\ conn' = k
         /\ next' = [next EXCEPT ![k] = first]
         /\ open' = {k}
         /\ skipped' = IF from > 0 THEN skipped ELSE skipped \union (1..emitted \ attempted)
  /\ pc' = "run"
  /\ UNCHANGED <<emitted, starts, ctxDone, from, read, processors, cursor, flushers, panicked,
                 saved, results>>

ConnectFails ==
  /\ pc = "connect"
  /\ pc' = "backoff"
  /\ UNCHANGED <<stream, starts, ctxDone, conn, from, reader, processors, cursor, flushers,
                 panicked, saved, results>>

(* Run reads a message ... *)
ReadEvent ==
  /\ pc = "run"
  /\ read = None
  /\ conn \in open
  /\ next[conn] <= emitted
  /\ next[conn] \notin Malformed
  /\ read' = next[conn]
  /\ next' = [next EXCEPT ![conn] = @ + 1]
  /\ UNCHANGED <<stream, starts, loop, open, processors, cursor, flushers, panicked, saved,
                 results>>

(* ... passes over one that does not parse, with a warning ... *)
SkipUnparsed ==
  /\ pc = "run"
  /\ read = None
  /\ conn \in open
  /\ next[conn] <= emitted
  /\ next[conn] \in Malformed
  /\ next' = [next EXCEPT ![conn] = @ + 1]
  /\ UNCHANGED <<stream, starts, loop, read, open, processors, cursor, flushers, panicked,
                 saved, results>>

(* ... and puts it into the channel, waiting for room. *)
Deliver ==
  /\ pc = "run"
  /\ read # None
  /\ conn \in open
  /\ Len(channel[conn]) < Buffer
  /\ channel' = [channel EXCEPT ![conn] = Append(@, read)]
  /\ read' = None
  /\ UNCHANGED <<stream, starts, loop, next, open, handling, handled, cursor, flushers,
                 panicked, saved, results>>

(* Stop has closed the channel in between: the select may pick the send. *)
DeliverToClosed ==
  /\ pc = "run"
  /\ read # None
  /\ conn \notin open
  /\ panicked' = TRUE
  /\ UNCHANGED <<stream, starts, loop, reader, processors, cursor, flushers, saved, results>>

(* Run returns: the connection is lost, or the context is cancelled. *)
RunReturns ==
  /\ pc = "run"
  /\ read = None \/ ctxDone
  /\ read' = None
  /\ pc' = "backoff"
  /\ UNCHANGED <<stream, starts, ctxDone, conn, from, next, open, processors, cursor, flushers,
                 panicked, saved, results>>

Reconnect ==
  /\ pc = "backoff"
  /\ ~ctxDone
  /\ conn < MaxConns
  /\ pc' = "load"
  /\ UNCHANGED <<stream, starts, ctxDone, conn, from, reader, processors, cursor, flushers,
                 panicked, saved, results>>

-----------------------------------------------------------------------------
(* Processor k: processEvents. *)

(* Mutant of TakeEvent: the cursor moves before the event is handled. *)
TakeMovesCursor(k) ==
  /\ handling[k] = None
  /\ channel[k] # <<>>
  /\ handling' = [handling EXCEPT ![k] = Head(channel[k])]
  /\ channel' = [channel EXCEPT ![k] = Tail(@)]
  /\ cursor' = Head(channel[k])
  /\ UNCHANGED <<stream, starts, loop, reader, handled, flushers, panicked, saved, results>>

TakeEvent(k) ==
  /\ handling[k] = None
  /\ channel[k] # <<>>
  /\ handling' = [handling EXCEPT ![k] = Head(channel[k])]
  /\ channel' = [channel EXCEPT ![k] = Tail(@)]
  /\ UNCHANGED <<stream, starts, loop, reader, handled, cursor, flushers, panicked, saved,
                 results>>

(* handleCommit stores or deletes the record and publishes it; an event     *)
(* that is no commit has no handler.                                        *)
HandleOK(k) ==
  /\ handling[k] # None
  /\ ~handled[k]
  /\ handled' = [handled EXCEPT ![k] = TRUE]
  /\ attempted' = attempted \union {handling[k]}
  /\ applied' = applied \union {handling[k]}
  /\ UNCHANGED <<stream, starts, loop, reader, channel, handling, cursor, flushers, panicked,
                 saved>>

(* A statement of handleCommit fails, as every one does once the context is *)
(* cancelled: the event is skipped and the cursor not advanced.             *)
HandleFails(k) ==
  /\ handling[k] \in Commits
  /\ ~handled[k]
  /\ handling' = [handling EXCEPT ![k] = None]
  /\ attempted' = attempted \union {handling[k]}
  /\ UNCHANGED <<stream, starts, loop, reader, channel, handled, cursor, flushers, panicked,
                 saved, applied>>

AdvanceCursor(k) ==
  /\ handled[k]
  /\ cursor' = handling[k]
  /\ handling' = [handling EXCEPT ![k] = None]
  /\ handled' = [handled EXCEPT ![k] = FALSE]
  /\ UNCHANGED <<stream, starts, loop, reader, channel, flushers, panicked, saved, results>>

-----------------------------------------------------------------------------
(* Flusher k: cursorFlusher reads the cursor on a tick ... *)
ReadCursor(k) ==
  /\ k <= conn
  /\ flusher[k] = None
  /\ k \notin ended
  /\ cursor > flushed[k]
  /\ flusher' = [flusher EXCEPT ![k] = cursor]
  /\ UNCHANGED <<stream, starts, loop, reader, processors, cursor, flushed, ended, panicked,
                 saved, results>>

(* ... and, whatever it saved before, once more when the context is done.   *)
FinalFlush(k) ==
  /\ k <= conn
  /\ ctxDone
  /\ flusher[k] = None
  /\ k \notin ended
  /\ ended' = ended \union {k}
  /\ flusher' = [flusher EXCEPT ![k] = cursor]
  /\ UNCHANGED <<stream, starts, loop, reader, processors, cursor, flushed, panicked, saved,
                 results>>

SaveCursor(k) ==
  /\ flusher[k] # None
  /\ flusher' = [flusher EXCEPT ![k] = None]
  /\ \/ saved' = flusher[k] /\ flushed' = [flushed EXCEPT ![k] = flusher[k]]
     \/ UNCHANGED <<saved, flushed>>
  /\ UNCHANGED <<stream, starts, loop, reader, processors, cursor, ended, panicked, results>>

-----------------------------------------------------------------------------
(* Consumer.Stop: the context is cancelled, then the client is stopped.     *)
StopConsumer ==
  /\ StopsCleanly
  /\ pc # "down"
  /\ ~ctxDone
  /\ ctxDone' = TRUE
  /\ open' = {}
  /\ UNCHANGED <<stream, starts, pc, conn, from, next, read, processors, cursor, flushers,
                 panicked, saved, results>>

(* The process ends: after Stop, by the panic, or by a crash at any point.  *)
Exit ==
  /\ pc # "down"
  /\ NoProcess
  /\ UNCHANGED <<stream, starts, saved, results>>

Step ==
  \/ Emit \/ Start \/ LoadCursor \/ Connect \/ ConnectFails
  \/ ReadEvent \/ SkipUnparsed \/ Deliver \/ DeliverToClosed \/ RunReturns \/ Reconnect
  \/ \E k \in Conns : TakeEvent(k) \/ HandleOK(k) \/ HandleFails(k) \/ AdvanceCursor(k)
  \/ \E k \in Conns : ReadCursor(k) \/ FinalFlush(k) \/ SaveCursor(k)
  \/ StopConsumer

Next == (~panicked /\ Step) \/ Exit

Spec == Init /\ [][Next]_vars

-----------------------------------------------------------------------------
(* Everything up to the saved cursor was handled at least once, lies before *)
(* a start from live, or has a message that does not parse: whatever the    *)
(* processors of several connections and their flushers do to the shared    *)
(* cursor, a restart resumes behind no event that could have been tried and *)
(* was not.  An unparsable message is lost once a later event succeeds.     *)
CursorCoversAttempted == \A e \in 1..saved : e \in attempted \union skipped \union Malformed

(* While a connection is up, every event it has passed was handled, waits   *)
(* in the channel or in a processor of this process, lies before a start    *)
(* from live, or did not parse: a reconnect that resumes from the database  *)
(* leaves no other gap.                                                     *)
ConnectionLeavesNoGap ==
  pc = "run" => \A e \in 1..next[conn] - 1 :
    \/ e \in attempted \union skipped \union Malformed
    \/ e = read
    \/ \E k \in Conns : e = handling[k] \/ \E i \in DOMAIN channel[k] : e = channel[k][i]

(* "Update cursor only after successful processing" (consumer.go,           *)
(* processEvents): no commit behind the saved cursor has failed for good.   *)
CursorCoversApplied == \A e \in 1..saved \cap Commits : e \in applied \union skipped

=============================================================================
