--------------------------- MODULE LabelerProofs ---------------------------
(***************************************************************************)
(* Proofs about LabelerSubscriber for any set of processes and any bounds. *)
(*                                                                         *)
(* CursorCoversLabels is not inductive: PersistEvent moves last_seq to the *)
(* event in hand, so everything before it must be stored already.  That is *)
(* so because a connection starts right behind a last_seq that was covered *)
(* when the goroutine read it, and passes an event only by storing it.     *)
(***************************************************************************)
EXTENDS LabelerSubscriber, TLAPS

Covered(e) == rows[e] # Nothing \/ e \in skipped

(* What goroutine w relies on, from reading the row to the end of its       *)
(* connection.                                                              *)
GoroutineOK(w) ==
  /\ pc[w] = "dial" => \A e \in 1..seen[w] : Covered(e)
  /\ pc[w] \in {"connected", "stream"} /\ notice[w] = "none" =>
       \A e \in 1..next[w] - 1 : Covered(e) \/ e = frame[w]
  /\ pc[w] \in {"connected", "stream"} => dialled[w] # Nothing
  /\ frame[w] # Nothing => pc[w] = "stream" /\ notice[w] = "none" /\ next[w] = frame[w] + 1

GoroutinesOK == \A w \in Workers : GoroutineOK(w)

Inv == TypeOK /\ CursorCoversLabels /\ GoroutinesOK

LEMMA InitInv == Init => Inv
  BY LabelerAssumption DEF Init, Inv, TypeOK, CursorCoversLabels, GoroutinesOK, GoroutineOK,
     Covered, Seqs, Numberings, Nothing

(* Every step keeps the types. *)
LEMMA TypeStep == ASSUME TypeOK, [Next]_vars PROVE TypeOK'
<1> USE LabelerAssumption DEF TypeOK, Seqs, Numberings, Nothing, FatalCodes, connection
<1>1. CASE UNCHANGED vars
  BY <1>1 DEF vars
<1>2. CASE Emit \/ Prune \/ Restart \/ Repair
  <2>1. CASE Emit
    BY <2>1 DEF Emit, database, frames
  <2>2. CASE Prune
    BY <2>2 DEF Prune, Fault, database, frames
  <2>3. CASE Restart
    BY <2>3 DEF Restart, Fault, database, frames
  <2>4. CASE Repair
    BY <2>4 DEF Repair, Fault, labelerState, frames
  <2> QED
    BY <1>2, <2>1, <2>2, <2>3, <2>4
<1>3. ASSUME NEW w \in Workers, Goroutine(w) PROVE TypeOK'
  <2> USE DEF Goto, Return, DropFrames, labelerState, database, frames
  <2>1. CASE Start(w)
    BY <2>1 DEF Start
  <2>2. CASE EnsureState(w)
    <3>1. CASE IsFatal
      <4>1. /\ Return(w, "stopped")
            /\ UNCHANGED <<numbering, emitted, oldest, faults, lastSeq, lastError, rows, skipped>>
        BY <2>2, <3>1 DEF EnsureState
      <4>2. pc' = [pc EXCEPT ![w] = "stopped"] /\ frame' = [frame EXCEPT ![w] = Nothing]
            /\ notice' = [notice EXCEPT ![w] = "none"]
        BY <4>1
      <4>3. /\ seen' = [seen EXCEPT ![w] = 0] /\ dialled' = [dialled EXCEPT ![w] = Nothing]
            /\ next' = [next EXCEPT ![w] = 0]
        BY <4>1
      <4> HIDE DEF Return
      <4> QED
        BY <4>1, <4>2, <4>3
    <3>2. CASE ~IsFatal
      BY <2>2, <3>2 DEF EnsureState
    <3> QED
      BY <3>1, <3>2
  <2>3. CASE Dial(w)
    BY <2>3 DEF Dial, Greeting
  <2>4. CASE UpdateConnected(w)
    BY <2>4 DEF UpdateConnected
  <2>5. CASE ReceiveLabels(w)
    BY <2>5 DEF ReceiveLabels
  <2>6. CASE StreamEnds(w)
    BY <2>6 DEF StreamEnds, Fault
  <2>7. CASE PersistEvent(w)
    BY <2>7 DEF PersistEvent, PersistTx, InsertLabels, LaterSeq
  <2>8. CASE RejectEvent(w)
    BY <2>8 DEF RejectEvent
  <2>9. CASE MarkFatalCursor(w)
    BY <2>9 DEF MarkFatalCursor
  <2>10. CASE UpdateError(w)
    BY <2>10 DEF UpdateError, Fault
  <2> QED
    BY <1>3, <2>1, <2>2, <2>3, <2>4, <2>5, <2>6, <2>7, <2>8, <2>9, <2>10 DEF Goroutine
<1>4. ASSUME NEW w \in Workers, ConnectFails(w) \/ PersistFails(w) \/ MarkFails(w) \/ Exit(w)
      PROVE  TypeOK'
  <2> USE DEF Goto, Return, labelerState, database, frames, Fault, DropFrames
  <2>1. CASE ConnectFails(w)
    BY <2>1 DEF ConnectFails
  <2>2. CASE PersistFails(w)
    <3>1. CASE PersistTx(w)
      BY <2>2, <3>1 DEF PersistFails, PersistTx, InsertLabels, LaterSeq
    <3>2. CASE UNCHANGED database
      BY <2>2, <3>2 DEF PersistFails
    <3> QED
      BY <2>2, <3>1, <3>2 DEF PersistFails
  <2>3. CASE MarkFails(w)
    BY <2>3 DEF MarkFails
  <2>4. CASE Exit(w)
    BY <2>4 DEF Exit
  <2> QED
    BY <1>4, <2>1, <2>2, <2>3, <2>4
<1> QED
  BY <1>1, <1>2, <1>3, <1>4 DEF Next

(* Stored labels stay stored, except under Repair, so what a goroutine      *)
(* relies on survives the steps of the others.                              *)
LEMMA OthersStep ==
  ASSUME NEW w \in Workers, GoroutineOK(w), TypeOK,
         \A e \in Seqs : Covered(e) => Covered(e)',
         pc'[w] = pc[w], seen'[w] = seen[w], next'[w] = next[w], dialled'[w] = dialled[w],
         frame'[w] = frame[w], notice'[w] = notice[w]
  PROVE  GoroutineOK(w)'
  BY LabelerAssumption DEF GoroutineOK, TypeOK, Seqs, Nothing

(* PersistTx stores the event in hand and moves last_seq at most to it. *)
LEMMA PersistStep ==
  ASSUME TypeOK, CursorCoversLabels, NEW w \in Workers, GoroutineOK(w), pc[w] = "stream",
         frame[w] \in Seqs \ Malformed, PersistTx(w), UNCHANGED skipped
  PROVE  /\ \A e \in Seqs : Covered(e) => Covered(e)'
         /\ rows'[frame[w]] # Nothing
         /\ CursorCoversLabels'
<1> USE LabelerAssumption DEF TypeOK, Seqs, Numberings, Nothing, Covered
<1>1. \A e \in Seqs : Covered(e) => Covered(e)'
  BY DEF PersistTx, InsertLabels
<1>2. rows'[frame[w]] # Nothing
  BY DEF PersistTx, InsertLabels, GoroutineOK
<1>3. \A e \in 1..frame[w] - 1 : Covered(e)
  <2>1. frame[w] \in Nat \ {0} /\ notice[w] = "none" /\ next[w] = frame[w] + 1
    BY DEF GoroutineOK
  <2>2. \A e \in 1..frame[w] : Covered(e) \/ e = frame[w]
    BY <2>1 DEF GoroutineOK
  <2>3. ASSUME NEW e \in 1..frame[w] - 1 PROVE Covered(e)
    <3>1. e \in 1..frame[w] /\ e # frame[w]
      BY <2>1
    <3> HIDE DEF Covered
    <3> QED
      BY <2>2, <3>1
  <2> QED
    BY <2>3
<1>4. lastSeq' \in {lastSeq, frame[w]}
  BY DEF PersistTx, LaterSeq
<1>5. CursorCoversLabels'
  <2>1. CASE lastSeq' = lastSeq
    BY <2>1, <1>1 DEF CursorCoversLabels
  <2>2. CASE lastSeq' = frame[w]
    BY <2>2, <1>1, <1>2, <1>3 DEF CursorCoversLabels
  <2> QED
    BY <1>4, <2>1, <2>2
<1> QED
  BY <1>1, <1>2, <1>5

LEMMA InvInductive == Inv /\ [Next]_vars => Inv'
<1> SUFFICES ASSUME Inv, [Next]_vars PROVE CursorCoversLabels' /\ GoroutinesOK'
  BY TypeStep DEF Inv
<1> USE LabelerAssumption DEF Inv
<1>1. CASE UNCHANGED vars
  BY <1>1 DEF vars, CursorCoversLabels, GoroutinesOK, GoroutineOK, Covered
<1>2. CASE Emit \/ Prune
  BY <1>2 DEF Emit, Prune, database, frames, connection, CursorCoversLabels, GoroutinesOK, GoroutineOK,
     Covered
<1>3. CASE Restart
  BY <1>3 DEF Restart, database, frames, connection, CursorCoversLabels, GoroutinesOK,
     GoroutineOK, Covered
<1>4. CASE Repair
  BY <1>4 DEF Repair, labelerState, frames, connection, CursorCoversLabels, GoroutinesOK, GoroutineOK,
     TypeOK, Nothing
<1>5. ASSUME NEW w \in Workers,
             Goroutine(w) \/ ConnectFails(w) \/ PersistFails(w) \/ MarkFails(w) \/ Exit(w)
      PROVE  CursorCoversLabels' /\ GoroutinesOK'
  <2>1. \A v \in Workers \ {w} :
          /\ pc'[v] = pc[v] /\ seen'[v] = seen[v] /\ next'[v] = next[v]
          /\ dialled'[v] = dialled[v] /\ frame'[v] = frame[v] /\ notice'[v] = notice[v]
    BY <1>5 DEF TypeOK, Goroutine, Start, EnsureState, Dial, UpdateConnected, ReceiveLabels,
       StreamEnds, PersistEvent, RejectEvent, MarkFatalCursor, UpdateError, ConnectFails,
       PersistFails, MarkFails, Exit, Goto, Return, DropFrames, frames, connection
  <2>2. SUFFICES /\ \A e \in Seqs : Covered(e) => Covered(e)'
                 /\ CursorCoversLabels'
                 /\ GoroutineOK(w)'
    BY <2>1, OthersStep DEF GoroutinesOK
  <2> GoroutineOK(w)
    BY DEF GoroutinesOK
  <2>3. ASSUME UNCHANGED <<lastSeq, rows, skipped>>
        PROVE  (\A e \in Seqs : Covered(e) => Covered(e)') /\ CursorCoversLabels'
    BY <2>3 DEF Covered, CursorCoversLabels
  <2> USE DEF TypeOK, Goto, Return, DropFrames, labelerState, database, frames, connection, Nothing
  <2>4. CASE Start(w)
    BY <2>4, <2>3 DEF Start, GoroutineOK
  <2>5. CASE EnsureState(w)
    BY <2>5, <2>3 DEF EnsureState, GoroutineOK, CursorCoversLabels, Covered
  <2>6. CASE Dial(w)
    <3>1. (\A e \in Seqs : Covered(e) => Covered(e)') /\ CursorCoversLabels'
      BY <2>6 DEF Dial, Covered, CursorCoversLabels
    <3>2. notice'[w] = "none" => \A e \in 1..next'[w] - 1 : Covered(e)'
      BY <2>6 DEF Dial, Greeting, GoroutineOK, Covered
    <3> QED
      BY <2>6, <3>1, <3>2 DEF Dial, GoroutineOK
  <2>7. CASE UpdateConnected(w)
    BY <2>7, <2>3 DEF UpdateConnected, GoroutineOK, Covered
  <2>8. CASE ReceiveLabels(w)
    <3>1. \A e \in 1..next[w] - 1 : Covered(e)'
      BY <2>8 DEF ReceiveLabels, Idle, GoroutineOK, Covered, Seqs
    <3> QED
      BY <2>8, <2>3, <3>1 DEF ReceiveLabels, Idle, GoroutineOK
  <2>9. CASE StreamEnds(w)
    BY <2>9, <2>3 DEF StreamEnds, Idle, GoroutineOK
  <2>10. CASE PersistEvent(w)
    <3>1. /\ \A e \in Seqs : Covered(e) => Covered(e)'
          /\ rows'[frame[w]] # Nothing
          /\ CursorCoversLabels'
      BY <2>10, PersistStep DEF PersistEvent
    <3>2. \A e \in 1..next[w] - 1 : Covered(e)'
      BY <2>10, <3>1 DEF PersistEvent, GoroutineOK, Seqs, Covered
    <3> QED
      BY <2>10, <3>1, <3>2 DEF PersistEvent, GoroutineOK
  <2>11. CASE RejectEvent(w)
    BY <2>11, <2>3 DEF RejectEvent, GoroutineOK
  <2>12. CASE MarkFatalCursor(w)
    BY <2>12, <2>3 DEF MarkFatalCursor, GoroutineOK
  <2>13. CASE UpdateError(w)
    BY <2>13, <2>3 DEF UpdateError, GoroutineOK
  <2>14. CASE ConnectFails(w)
    BY <2>14, <2>3 DEF ConnectFails, GoroutineOK
  <2>15. CASE PersistFails(w)
    <3>1. (\A e \in Seqs : Covered(e) => Covered(e)') /\ CursorCoversLabels'
      BY <2>15, <2>3, PersistStep DEF PersistFails
    <3> QED
      BY <2>15, <3>1 DEF PersistFails, GoroutineOK
  <2>16. CASE MarkFails(w)
    BY <2>16, <2>3 DEF MarkFails, GoroutineOK
  <2>17. CASE Exit(w)
    BY <2>17, <2>3 DEF Exit, GoroutineOK
  <2> QED
    BY <1>5, <2>4, <2>5, <2>6, <2>7, <2>8, <2>9, <2>10, <2>11, <2>12, <2>13, <2>14, <2>15,
       <2>16, <2>17 DEF Goroutine
<1> QED
  BY <1>1, <1>2, <1>3, <1>4, <1>5 DEF Next

(* The types of the subscription's row, its labels and its goroutines. *)
THEOREM LabelerTypes == Spec => []TypeOK
  BY InitInv, InvInductive, PTL DEF Spec, Inv

(* PersistEvent's atomic transaction keeps every event up to last_seq       *)
(* stored, for any number of processes, any stream, any errors, crashes,    *)
(* losses of the labeler's history and repairs.                             *)
THEOREM CursorIsCovered == Spec => []CursorCoversLabels
  BY InitInv, InvInductive, PTL DEF Spec, Inv

(* Only the operator's repair ends a fatal marker or moves the cursor under *)
(* it: the NOT LIKE guards of UpdateConnected, UpdateError and              *)
(* updateLastSeqTx.                                                         *)
THEOREM FatalStays == Spec => FatalIsSticky
<1>1. [Next]_vars => [IsFatal => Repair \/ (lastError' \in FatalCodes /\ lastSeq' = lastSeq)]_vars
  <2> USE DEF IsFatal, database, labelerState
  <2>1. ASSUME Next, IsFatal PROVE Repair \/ (lastError' \in FatalCodes /\ lastSeq' = lastSeq)
    BY <2>1 DEF Next, Emit, Prune, Restart, Goroutine, Start, EnsureState, Dial,
       UpdateConnected, ReceiveLabels, StreamEnds, PersistEvent, PersistTx, RejectEvent,
       MarkFatalCursor, UpdateError, ConnectFails, PersistFails, MarkFails, Exit
  <2> QED
    BY <2>1
<1> QED
  BY <1>1, PTL DEF Spec, FatalIsSticky

(* What a step does to the row's cursor and to the labels: nothing, the     *)
(* transaction of one event, or the repair.                                 *)
LEMMA TablesStep ==
  ASSUME TypeOK, [Next]_vars
  PROVE  \/ UNCHANGED <<lastSeq, rows>>
         \/ \E w \in Workers : frame[w] \in Seqs \ Malformed /\ PersistTx(w)
         \/ Repair
<1> USE DEF database
<1>1. CASE UNCHANGED vars
  BY <1>1 DEF vars
<1>2. CASE Emit \/ Prune \/ Restart \/ Repair
  BY <1>2 DEF Emit, Prune, Restart
<1>3. ASSUME NEW w \in Workers,
             Goroutine(w) \/ ConnectFails(w) \/ PersistFails(w) \/ MarkFails(w) \/ Exit(w)
      PROVE  \/ UNCHANGED <<lastSeq, rows>>
             \/ frame[w] \in Seqs \ Malformed /\ PersistTx(w)
  BY <1>3 DEF Goroutine, Start, EnsureState, Dial, UpdateConnected, ReceiveLabels, StreamEnds,
     PersistEvent, RejectEvent, MarkFatalCursor, UpdateError, ConnectFails, PersistFails,
     MarkFails, Exit
<1> QED
  BY <1>1, <1>2, <1>3 DEF Next

(* Only the repair moves last_seq back, however far one process lags behind *)
(* another: the CASE of updateLastSeqTx.                                    *)
THEOREM CursorAdvances == Spec => CursorOnlyAdvances
<1>1. TypeOK /\ [Next]_vars => [lastSeq' >= lastSeq \/ Repair]_vars
  <2> SUFFICES ASSUME TypeOK, [Next]_vars PROVE lastSeq' >= lastSeq \/ Repair
    OBVIOUS
  <2>1. lastSeq \in Int /\ Seqs \subseteq Int
    BY LabelerAssumption DEF TypeOK, Seqs
  <2>2. CASE UNCHANGED <<lastSeq, rows>>
    BY <2>1, <2>2
  <2>3. ASSUME NEW w \in Workers, frame[w] \in Seqs \ Malformed, PersistTx(w)
        PROVE  lastSeq' >= lastSeq
    BY <2>1, <2>3 DEF PersistTx, LaterSeq
  <2> QED
    BY <2>2, <2>3, TablesStep
<1> QED
  BY <1>1, LabelerTypes, PTL DEF Spec, CursorOnlyAdvances

=============================================================================
