-------------------------- MODULE JetstreamProofs --------------------------
(***************************************************************************)
(* Proofs about JetstreamConsumer, for any stream, any number of           *)
(* connections and processes, and any size of the event channel.           *)
(*                                                                         *)
(* The cursor is shared by the processors of all connections, and moves    *)
(* back and forth between them.  The argument is local to a connection: an *)
(* event it holds has before it only events that were tried, that a start  *)
(* from live left out, that did not parse, or that the same connection     *)
(* holds in front of it.                                                   *)
(* So the event a processor has just handled has nothing untried before    *)
(* it, and whichever processor sets the cursor, whichever flusher saves    *)
(* it, and however late, nothing untried lies behind it.                   *)
(***************************************************************************)
EXTENDS JetstreamConsumer, TLAPS

(* Event e was tried, or never will be: it lies before a start from live,   *)
(* or its message does not parse.                                           *)
Tried(e) == e \in attempted \union skipped \union Malformed

(* Nothing untried at or before event c. *)
Behind(c) == \A e \in 1..c : Tried(e)

(* Event e is with the processor of connection k. *)
WithProcessor(k, e) ==
  e = handling[k] \/ \E i \in DOMAIN channel[k] : e = channel[k][i]

(* The cursor and its copies: in a flusher, in the database, and the one    *)
(* the next connection asks for.                                            *)
CursorsAreBehind ==
  /\ Behind(cursor)
  /\ Behind(saved)
  /\ \A k \in Conns : Behind(flusher[k])
  /\ pc = "connect" => Behind(from)

(* A processor works off its events in order. *)
ProcessorsInOrder ==
  \A k \in Conns :
    /\ handled[k] => handling[k] # None /\ Tried(handling[k])
    /\ handling[k] # None => Behind(handling[k] - 1)
    /\ \A i \in DOMAIN channel[k] : \A e \in 1..channel[k][i] - 1 :
         Tried(e) \/ e = handling[k] \/ \E j \in 1..i - 1 : e = channel[k][j]

(* So does the reader of the current connection. *)
ReaderInOrder ==
  /\ pc # "run" => read = None
  /\ pc = "run" => conn \in Conns /\ next[conn] >= 1
  /\ read # None => \A e \in 1..read - 1 : Tried(e) \/ WithProcessor(conn, e)
  /\ pc = "run" =>
       \A e \in 1..next[conn] - 1 : Tried(e) \/ e = read \/ WithProcessor(conn, e)

JetInv ==
  /\ TypeOK
  /\ CursorsAreBehind
  /\ ProcessorsInOrder
  /\ ReaderInOrder

-----------------------------------------------------------------------------
(* What was tried stays tried. *)
Remembers == attempted \subseteq attempted' /\ skipped \subseteq skipped'

LEMMA CursorsKept ==
  ASSUME JetInv, Remembers, UNCHANGED <<cursor, saved, flusher>>,
         pc' = "connect" => pc = "connect" /\ from' = from
  PROVE  CursorsAreBehind'
  BY DEF JetInv, CursorsAreBehind, Behind, Tried, Remembers

LEMMA ProcessorsKept ==
  ASSUME JetInv, Remembers, UNCHANGED <<channel, handling, handled>>
  PROVE  ProcessorsInOrder'
  BY DEF JetInv, ProcessorsInOrder, Behind, Tried, Remembers

LEMMA ReaderKept ==
  ASSUME JetInv, Remembers, UNCHANGED <<pc, conn, next, read, channel, handling>>
  PROVE  ReaderInOrder'
  BY DEF JetInv, ReaderInOrder, WithProcessor, Tried, Remembers

(* A connection that is not up has no reader. *)
LEMMA NoReader ==
  ASSUME pc' # "run", read' = None
  PROVE  ReaderInOrder'
  BY DEF ReaderInOrder

LEMMA JetInit == Init => JetInv
<1> SUFFICES ASSUME Init PROVE JetInv
  OBVIOUS
<1> USE JetstreamAssumption DEF Init, None
<1>1. TypeOK
  <2>1. /\ channel \in [Conns -> Seq(Stream)]
        /\ \A k \in Conns : Len(channel[k]) <= Buffer
    OBVIOUS
  <2>2. /\ next \in [Conns -> 0..MaxEvents + 1]
        /\ flushed \in [Conns -> 0..MaxEvents]
    OBVIOUS
  <2>3. /\ handling \in [Conns -> Stream \union {None}]
        /\ flusher \in [Conns -> Stream \union {None}]
        /\ handled \in [Conns -> BOOLEAN]
    OBVIOUS
  <2>4. /\ emitted \in 0..MaxEvents /\ starts \in 0..MaxStarts /\ conn \in 0..MaxConns
        /\ from \in 0..MaxEvents /\ cursor \in 0..MaxEvents /\ saved \in 0..MaxEvents
    OBVIOUS
  <2>5. /\ open = {} /\ ended = {} /\ attempted = {} /\ applied = {} /\ skipped = {}
        /\ pc = "down" /\ ctxDone = FALSE /\ panicked = FALSE /\ read = None
    OBVIOUS
  <2> HIDE DEF Init, None
  <2> QED
    BY <2>1, <2>2, <2>3, <2>4, <2>5 DEF TypeOK
<1>2. CursorsAreBehind
  BY DEF CursorsAreBehind, Behind
<1>3. ProcessorsInOrder
  BY DEF ProcessorsInOrder
<1>4. ReaderInOrder
  BY DEF ReaderInOrder
<1> QED
  BY <1>1, <1>2, <1>3, <1>4 DEF JetInv

-----------------------------------------------------------------------------
(* The stream and the reconnect loop. *)

LEMMA EmitKeeps == ASSUME JetInv, Emit PROVE JetInv'
<1> USE DEF Emit, loop, reader, processors, flushers, results
<1>1. TypeOK'
  BY JetstreamAssumption DEF JetInv, TypeOK
<1>2. Remembers
  BY DEF Remembers
<1> QED
  BY <1>1, <1>2, CursorsKept, ProcessorsKept, ReaderKept DEF JetInv

LEMMA StartKeeps == ASSUME JetInv, Start PROVE JetInv'
<1> USE DEF Start, stream, reader, processors, flushers, results
<1>1. TypeOK'
  BY JetstreamAssumption DEF JetInv, TypeOK
<1>2. Remembers
  BY DEF Remembers
<1>3. ReaderInOrder'
  BY NoReader DEF JetInv, ReaderInOrder
<1> QED
  BY <1>1, <1>2, <1>3, CursorsKept, ProcessorsKept DEF JetInv

LEMMA LoadCursorKeeps == ASSUME JetInv, LoadCursor PROVE JetInv'
<1> USE DEF LoadCursor, stream, processors, flushers, results
<1>1. TypeOK'
  BY JetstreamAssumption DEF JetInv, TypeOK
<1>2. Remembers
  BY DEF Remembers
<1>3. ReaderInOrder'
  BY NoReader DEF JetInv, ReaderInOrder
<1>4. from' = saved \/ from' = 0
  OBVIOUS
<1>5. CursorsAreBehind'
  BY <1>4 DEF JetInv, CursorsAreBehind, Behind, Tried
<1> QED
  BY <1>1, <1>2, <1>3, <1>5, ProcessorsKept DEF JetInv

(* A connection resumes behind a cursor, or from live: what it passes then  *)
(* is left out.                                                             *)
LEMMA ConnectKeeps == ASSUME JetInv, Connect PROVE JetInv'
<1> DEFINE k == conn + 1
           first == IF from > 0 THEN from + 1 ELSE emitted + 1
<1>1. /\ pc = "connect" /\ conn < MaxConns
      /\ conn' = k
      /\ next' = [next EXCEPT ![k] = first]
      /\ open' = {k}
      /\ skipped' = IF from > 0 THEN skipped ELSE skipped \union (1..emitted \ attempted)
      /\ pc' = "run"
      /\ UNCHANGED <<emitted, starts, ctxDone, from, read, channel, handling, handled, cursor,
                     flusher, flushed, ended, panicked, saved, attempted, applied>>
  BY DEF Connect, processors, flushers, results
<1>2. k \in Conns /\ first \in 1..MaxEvents + 1
  BY <1>1, JetstreamAssumption DEF JetInv, TypeOK, Conns
<1>3. Remembers
  BY <1>1 DEF Remembers
<1>4. next'[k] = first
  BY <1>1, <1>2 DEF JetInv, TypeOK
<1>5. read' = None
  BY <1>1 DEF JetInv, ReaderInOrder
<1>6. \A e \in 1..first - 1 : Tried(e)'
  <2>1. CASE from > 0
    BY <1>1, <2>1 DEF JetInv, TypeOK, CursorsAreBehind, Behind, Tried
  <2>2. CASE ~(from > 0)
    BY <1>1, <2>2 DEF JetInv, TypeOK, Tried
  <2> QED
    BY <2>1, <2>2
<1> HIDE DEF k, first
<1>7. TypeOK'
  <2>1. skipped' \subseteq Stream
    BY <1>1, JetstreamAssumption DEF JetInv, TypeOK, Stream
  <2>2. next' \in [Conns -> 0..MaxEvents + 1]
    BY <1>1, <1>2, JetstreamAssumption DEF JetInv, TypeOK
  <2>3. conn' \in 0..MaxConns /\ open' \subseteq Conns
    BY <1>1, <1>2, JetstreamAssumption DEF Conns
  <2> QED
    BY <1>1, <2>1, <2>2, <2>3 DEF JetInv, TypeOK
<1>8. ReaderInOrder'
  <2>1. next[conn]' = first /\ conn' \in Conns
    BY <1>1, <1>2, <1>4
  <2>2. \A e \in 1..next[conn]' - 1 : Tried(e)'
    BY <2>1, <1>6
  <2> QED
    BY <1>1, <1>2, <1>5, <2>1, <2>2 DEF ReaderInOrder
<1> QED
  BY <1>1, <1>3, <1>7, <1>8, CursorsKept, ProcessorsKept DEF JetInv

LEMMA BackoffKeeps == ASSUME JetInv, ConnectFails \/ RunReturns \/ Reconnect PROVE JetInv'
<1> USE DEF ConnectFails, RunReturns, Reconnect, stream, reader, processors, flushers, results
<1>1. TypeOK'
  BY JetstreamAssumption DEF JetInv, TypeOK, None
<1>2. Remembers
  BY DEF Remembers
<1>3. ReaderInOrder'
  BY NoReader DEF JetInv, ReaderInOrder
<1>4. CursorsAreBehind'
  BY <1>2, CursorsKept
<1>5. ProcessorsInOrder'
  BY <1>2, ProcessorsKept
<1> QED
  BY <1>1, <1>3, <1>4, <1>5 DEF JetInv

-----------------------------------------------------------------------------
(* The reader. *)

LEMMA ReadEventKeeps == ASSUME JetInv, ReadEvent PROVE JetInv'
<1>1. /\ pc = "run" /\ read = None /\ next[conn] <= emitted
      /\ read' = next[conn]
      /\ next' = [next EXCEPT ![conn] = next[conn] + 1]
      /\ UNCHANGED <<emitted, skipped, starts, pc, ctxDone, conn, from, open, channel, handling,
                     handled, cursor, flusher, flushed, ended, panicked, saved, attempted,
                     applied>>
  BY DEF ReadEvent, stream, loop, processors, flushers, results
<1>2. conn \in Conns /\ next[conn] \in 1..MaxEvents
  BY <1>1, JetstreamAssumption DEF JetInv, TypeOK, ReaderInOrder
<1>3. next'[conn] = next[conn] + 1 /\ read' # None
  BY <1>1, <1>2 DEF JetInv, TypeOK, None
<1>4. TypeOK'
  <2>1. next' \in [Conns -> 0..MaxEvents + 1] /\ read' \in Stream
    BY <1>1, <1>2, JetstreamAssumption DEF JetInv, TypeOK, Stream
  <2> QED
    BY <1>1, <2>1 DEF JetInv, TypeOK
<1>5. Remembers
  BY <1>1 DEF Remembers
<1>6. ReaderInOrder'
  <2>1. \A e \in 1..next[conn] - 1 : Tried(e) \/ WithProcessor(conn, e)
    BY <1>1, <1>2 DEF JetInv, ReaderInOrder, None
  <2>2. \A e : (Tried(e) \/ WithProcessor(conn, e)) => (Tried(e)' \/ WithProcessor(conn, e)')
    BY <1>1 DEF Tried, WithProcessor
  <2>3. \A e \in 1..next[conn]' - 1 : e = read' \/ e \in 1..next[conn] - 1
    BY <1>1, <1>2, <1>3
  <2> QED
    BY <1>1, <1>2, <1>3, <2>1, <2>2, <2>3 DEF ReaderInOrder
<1> QED
  BY <1>1, <1>4, <1>5, <1>6, CursorsKept, ProcessorsKept DEF JetInv

(* A message that does not parse is passed over. *)
LEMMA SkipUnparsedKeeps == ASSUME JetInv, SkipUnparsed PROVE JetInv'
<1>1. /\ pc = "run" /\ read = None /\ next[conn] <= emitted /\ next[conn] \in Malformed
      /\ next' = [next EXCEPT ![conn] = next[conn] + 1]
      /\ UNCHANGED <<emitted, skipped, starts, pc, ctxDone, conn, from, read, open, channel,
                     handling, handled, cursor, flusher, flushed, ended, panicked, saved,
                     attempted, applied>>
  BY DEF SkipUnparsed, stream, loop, processors, flushers, results
<1>2. conn \in Conns /\ next[conn] \in 1..MaxEvents
  BY <1>1, JetstreamAssumption DEF JetInv, TypeOK, ReaderInOrder
<1>3. next'[conn] = next[conn] + 1
  BY <1>1, <1>2 DEF JetInv, TypeOK
<1>4. TypeOK'
  <2>1. next' \in [Conns -> 0..MaxEvents + 1]
    BY <1>1, <1>2, JetstreamAssumption DEF JetInv, TypeOK
  <2> QED
    BY <1>1, <2>1 DEF JetInv, TypeOK
<1>5. Remembers
  BY <1>1 DEF Remembers
<1>6. ReaderInOrder'
  <2>1. \A e \in 1..next[conn] - 1 : Tried(e) \/ WithProcessor(conn, e)
    BY <1>1, <1>2 DEF JetInv, ReaderInOrder, None
  <2>2. \A e : (Tried(e) \/ WithProcessor(conn, e)) => (Tried(e)' \/ WithProcessor(conn, e)')
    BY <1>1 DEF Tried, WithProcessor
  <2>3. \A e \in 1..next[conn]' - 1 : e = next[conn] \/ e \in 1..next[conn] - 1
    BY <1>1, <1>2, <1>3
  <2>4. Tried(next[conn])
    BY <1>1 DEF Tried
  <2> QED
    BY <1>1, <1>2, <1>3, <2>1, <2>2, <2>3, <2>4 DEF ReaderInOrder
<1> QED
  BY <1>1, <1>4, <1>5, <1>6, CursorsKept, ProcessorsKept DEF JetInv

(* An event goes to the end of the channel: all that lies before it has     *)
(* been tried or is with the processor.                                     *)
LEMMA DeliverKeeps == ASSUME JetInv, Deliver PROVE JetInv'
<1>1. /\ pc = "run" /\ read # None /\ Len(channel[conn]) < Buffer
      /\ channel' = [channel EXCEPT ![conn] = Append(channel[conn], read)]
      /\ read' = None
      /\ UNCHANGED <<emitted, skipped, starts, pc, ctxDone, conn, from, next, open, handling,
                     handled, cursor, flusher, flushed, ended, panicked, saved, attempted,
                     applied>>
  BY DEF Deliver, stream, loop, flushers, results
<1> DEFINE old == channel[conn]
<1>2. conn \in Conns /\ read \in Stream /\ old \in Seq(Stream)
  BY <1>1 DEF JetInv, TypeOK, ReaderInOrder
<1>3. channel'[conn] = Append(old, read)
  BY <1>1, <1>2 DEF JetInv, TypeOK
<1> HIDE DEF old
<1>4. /\ Len(Append(old, read)) = Len(old) + 1
      /\ DOMAIN Append(old, read) = 1..Len(old) + 1
      /\ \A i \in 1..Len(old) : Append(old, read)[i] = old[i]
      /\ Append(old, read)[Len(old) + 1] = read
      /\ Append(old, read) \in Seq(Stream)
      /\ DOMAIN old = 1..Len(old) /\ Len(old) \in Nat
  BY <1>2
<1>5. \A k \in Conns : k # conn => channel'[k] = channel[k]
  BY <1>1 DEF JetInv, TypeOK
<1>6. TypeOK'
  <2>1. channel' \in [Conns -> Seq(Stream)]
    BY <1>1, <1>2, <1>4 DEF JetInv, TypeOK, old
  <2>2. \A k \in Conns : Len(channel'[k]) <= Buffer
    BY <1>1, <1>2, <1>3, <1>4, <1>5, JetstreamAssumption DEF JetInv, TypeOK, old
  <2> QED
    BY <1>1, <2>1, <2>2 DEF JetInv, TypeOK
<1>7. Remembers
  BY <1>1 DEF Remembers
<1>8. \A e : WithProcessor(conn, e) <=> e = handling[conn] \/ \E i \in 1..Len(old) : e = old[i]
  BY <1>4 DEF WithProcessor, old
<1>9. \A e : WithProcessor(conn, e) \/ e = read => WithProcessor(conn, e)'
  BY <1>1, <1>3, <1>4, <1>8 DEF WithProcessor
<1>10. ProcessorsInOrder'
  <2> SUFFICES ASSUME NEW k \in Conns
               PROVE  /\ handled'[k] => handling'[k] # None /\ Tried(handling[k])'
                      /\ handling'[k] # None => Behind(handling[k] - 1)'
                      /\ \A i \in DOMAIN channel'[k] : \A e \in 1..channel'[k][i] - 1 :
                           Tried(e)' \/ e = handling'[k] \/ \E j \in 1..i - 1 : e = channel'[k][j]
    BY DEF ProcessorsInOrder
  <2>1. \A e : Tried(e) <=> Tried(e)'
    BY <1>1 DEF Tried
  <2>2. /\ handled'[k] => handling'[k] # None /\ Tried(handling[k])'
        /\ handling'[k] # None => Behind(handling[k] - 1)'
    BY <1>1, <2>1 DEF JetInv, ProcessorsInOrder, Behind
  <2>3. CASE k # conn
    BY <1>1, <1>5, <2>1, <2>2, <2>3 DEF JetInv, ProcessorsInOrder
  <2>4. CASE k = conn
    <3> SUFFICES ASSUME NEW i \in 1..Len(old) + 1, NEW e \in 1..Append(old, read)[i] - 1
                 PROVE  \/ Tried(e) \/ e = handling[conn]
                        \/ \E j \in 1..i - 1 : e = Append(old, read)[j]
      <4>1. channel'[k] = Append(old, read) /\ handling'[k] = handling[conn]
        BY <1>1, <1>3, <2>4
      <4> HIDE DEF old
      <4> QED
        BY <1>4, <2>1, <2>2, <4>1
    <3>1. CASE i \in 1..Len(old)
      <4>1. Tried(e) \/ e = handling[conn] \/ \E j \in 1..i - 1 : e = old[j]
        BY <1>2, <1>4, <3>1 DEF JetInv, ProcessorsInOrder, old
      <4> QED
        BY <1>4, <3>1, <4>1
    <3>2. CASE i = Len(old) + 1
      <4>1. Tried(e) \/ WithProcessor(conn, e)
        BY <1>1, <1>4, <3>2 DEF JetInv, ReaderInOrder
      <4> QED
        BY <1>4, <1>8, <3>2, <4>1
    <3> QED
      BY <1>4, <3>1, <3>2
  <2> QED
    BY <2>3, <2>4
<1>11. ReaderInOrder'
  <2>1. \A e : Tried(e) <=> Tried(e)'
    BY <1>1 DEF Tried
  <2> QED
    BY <1>1, <1>9, <2>1 DEF JetInv, ReaderInOrder
<1> QED
  BY <1>1, <1>6, <1>7, <1>10, <1>11, CursorsKept DEF JetInv

LEMMA DeliverToClosedKeeps == ASSUME JetInv, DeliverToClosed PROVE JetInv'
<1> USE DEF DeliverToClosed, stream, loop, reader, processors, flushers, results
<1>1. TypeOK'
  BY DEF JetInv, TypeOK
<1>2. Remembers
  BY DEF Remembers
<1> QED
  BY <1>1, <1>2, CursorsKept, ProcessorsKept, ReaderKept DEF JetInv

-----------------------------------------------------------------------------
(* The processors. *)

(* The head of the channel has nothing untried before it. *)
LEMMA TakeEventKeeps == ASSUME JetInv, NEW k \in Conns, TakeEvent(k) PROVE JetInv'
<1> DEFINE old == channel[k]
           e1 == Head(old)
<1>1. /\ handling[k] = None /\ old # <<>>
      /\ handling' = [handling EXCEPT ![k] = e1]
      /\ channel' = [channel EXCEPT ![k] = Tail(old)]
      /\ UNCHANGED <<emitted, skipped, starts, pc, ctxDone, conn, from, next, read, open,
                     handled, cursor, flusher, flushed, ended, panicked, saved, attempted,
                     applied>>
  BY DEF TakeEvent, stream, loop, reader, flushers, results
<1>2. old \in Seq(Stream) /\ Len(old) <= Buffer
  BY DEF JetInv, TypeOK
<1>3. handling'[k] = e1 /\ channel'[k] = Tail(old)
  BY <1>1 DEF JetInv, TypeOK
<1>4. \A l \in Conns : l # k => handling'[l] = handling[l] /\ channel'[l] = channel[l]
  BY <1>1 DEF JetInv, TypeOK
<1>5. /\ Len(old) \in Nat \ {0} /\ DOMAIN old = 1..Len(old)
      /\ e1 = old[1] /\ e1 \in Stream
      /\ Tail(old) \in Seq(Stream) /\ Len(Tail(old)) = Len(old) - 1
      /\ DOMAIN Tail(old) = 1..Len(old) - 1
      /\ \A i \in 1..Len(old) - 1 : Tail(old)[i] = old[i + 1]
  BY <1>1, <1>2
<1>6. /\ ~handled[k]
      /\ \A i \in 1..Len(old) : \A e \in 1..old[i] - 1 :
           Tried(e) \/ \E j \in 1..i - 1 : e = old[j]
  BY <1>1, <1>5 DEF JetInv, ProcessorsInOrder, None
<1> HIDE DEF old, e1
<1>7. \A e : Tried(e) <=> Tried(e)'
  BY <1>1 DEF Tried
<1>8. TypeOK'
  <2>1. channel' \in [Conns -> Seq(Stream)] /\ handling' \in [Conns -> Stream \union {None}]
    BY <1>1, <1>5 DEF JetInv, TypeOK
  <2>2. \A l \in Conns : Len(channel'[l]) <= Buffer
    BY <1>2, <1>3, <1>4, <1>5, JetstreamAssumption DEF JetInv, TypeOK
  <2> QED
    BY <1>1, <2>1, <2>2 DEF JetInv, TypeOK
<1>9. ProcessorsInOrder'
  <2> SUFFICES ASSUME NEW l \in Conns
               PROVE  /\ handled'[l] => handling'[l] # None /\ Tried(handling[l])'
                      /\ handling'[l] # None => Behind(handling[l] - 1)'
                      /\ \A i \in DOMAIN channel'[l] : \A e \in 1..channel'[l][i] - 1 :
                           Tried(e)' \/ e = handling'[l] \/ \E j \in 1..i - 1 : e = channel'[l][j]
    BY DEF ProcessorsInOrder
  <2>1. CASE l # k
    BY <1>1, <1>4, <1>7, <2>1 DEF JetInv, ProcessorsInOrder, Behind
  <2>2. CASE l = k
    <3>1. \A e \in 1..e1 - 1 : Tried(e)'
      BY <1>5, <1>6, <1>7
    <3>2. Behind(handling[k] - 1)'
      BY <1>3, <3>1 DEF Behind
    <3>3. ASSUME NEW i \in 1..Len(old) - 1, NEW e \in 1..Tail(old)[i] - 1
          PROVE  Tried(e)' \/ e = e1 \/ \E j \in 1..i - 1 : e = Tail(old)[j]
      <4>1. i + 1 \in 1..Len(old) /\ Tail(old)[i] = old[i + 1]
        BY <1>5
      <4>2. Tried(e) \/ \E j \in 1..i : e = old[j]
        BY <1>6, <4>1
      <4>3. ASSUME NEW j \in 1..i, e = old[j], j # 1
            PROVE  \E m \in 1..i - 1 : e = Tail(old)[m]
        <5>1. j - 1 \in 1..i - 1 /\ Tail(old)[j - 1] = old[j]
          BY <1>5, <4>3
        <5> QED
          BY <5>1, <4>3
      <4> QED
        BY <1>5, <1>7, <4>2, <4>3
    <3>4. \A i \in DOMAIN channel'[k] : \A e \in 1..channel'[k][i] - 1 :
            Tried(e)' \/ e = handling'[k] \/ \E j \in 1..i - 1 : e = channel'[k][j]
      <4> DEFINE rest == Tail(old)
      <4>1. \A i \in 1..Len(old) - 1 : \A e \in 1..rest[i] - 1 :
              Tried(e)' \/ e = e1 \/ \E j \in 1..i - 1 : e = rest[j]
        BY <3>3
      <4>2. channel'[k] = rest /\ handling'[k] = e1 /\ DOMAIN rest = 1..Len(old) - 1
        BY <1>3, <1>5
      <4> HIDE DEF rest
      <4> QED
        BY <4>1, <4>2
    <3> QED
      BY <1>1, <1>6, <2>2, <3>2, <3>4
  <2> QED
    BY <2>1, <2>2
<1>10. ReaderInOrder'
  <2>1. ASSUME NEW e \in Nat \ {0}, WithProcessor(k, e)
        PROVE  WithProcessor(k, e)'
    <3>1. PICK i \in 1..Len(old) : e = old[i]
      BY <1>1, <1>5, <2>1 DEF WithProcessor, None, old
    <3>2. i = 1 \/ (i - 1 \in 1..Len(old) - 1 /\ Tail(old)[i - 1] = old[i])
      BY <1>5
    <3> QED
      BY <1>3, <1>5, <3>1, <3>2 DEF WithProcessor
  <2>2. \A e \in Nat \ {0} : WithProcessor(conn, e) => WithProcessor(conn, e)'
    <3>1. CASE conn = k
      BY <1>1, <2>1, <3>1
    <3>2. CASE conn # k /\ conn \in Conns
      BY <1>1, <1>4, <3>2 DEF WithProcessor
    <3>3. CASE conn \notin Conns
      <4>1. DOMAIN channel = Conns /\ DOMAIN channel' = Conns
            /\ DOMAIN handling = Conns /\ DOMAIN handling' = Conns
        BY <1>8 DEF JetInv, TypeOK
      <4>2. channel'[conn] = channel[conn] /\ handling'[conn] = handling[conn]
        BY <1>1, <3>3
      <4> QED
        BY <1>1, <4>2 DEF WithProcessor
    <3> QED
      BY <3>1, <3>2, <3>3
  <2>3. /\ pc # "run" => read = None
        /\ pc = "run" => conn \in Conns /\ next[conn] >= 1
        /\ read # None => \A e \in 1..read - 1 : Tried(e) \/ WithProcessor(conn, e)
        /\ pc = "run" =>
             \A e \in 1..next[conn] - 1 : Tried(e) \/ e = read \/ WithProcessor(conn, e)
    BY DEF JetInv, ReaderInOrder
  <2>4. read # None => \A e \in 1..read - 1 : Tried(e)' \/ WithProcessor(conn, e)'
    BY <1>7, <2>2, <2>3
  <2>5. pc = "run" =>
          \A e \in 1..next[conn] - 1 : Tried(e)' \/ e = read \/ WithProcessor(conn, e)'
    BY <1>7, <2>2, <2>3
  <2> QED
    BY <1>1, <2>3, <2>4, <2>5 DEF ReaderInOrder
<1> QED
  BY <1>1, <1>8, <1>9, <1>10, CursorsKept DEF JetInv, Remembers

(* Success and failure both count as a try. *)
LEMMA HandleOKKeeps == ASSUME JetInv, NEW k \in Conns, HandleOK(k) PROVE JetInv'
<1>1. /\ handling[k] # None
      /\ handled' = [handled EXCEPT ![k] = TRUE]
      /\ attempted' = attempted \union {handling[k]}
      /\ applied' = applied \union {handling[k]}
      /\ UNCHANGED <<emitted, skipped, starts, pc, ctxDone, conn, from, next, read, open, channel,
                     handling, cursor, flusher, flushed, ended, panicked, saved>>
  BY DEF HandleOK, stream, loop, reader, flushers
<1>2. handling[k] \in Stream
  BY <1>1 DEF JetInv, TypeOK
<1>3. TypeOK'
  BY <1>1, <1>2 DEF JetInv, TypeOK
<1>4. Remembers
  BY <1>1 DEF Remembers
<1>5. ProcessorsInOrder'
  <2>1. \A e : Tried(e) => Tried(e)'
    BY <1>1 DEF Tried
  <2>2. Tried(handling[k])'
    BY <1>1 DEF Tried
  <2>3. \A l \in Conns : l # k => handled'[l] = handled[l]
    BY <1>1 DEF JetInv, TypeOK
  <2> QED
    BY <1>1, <2>1, <2>2, <2>3 DEF JetInv, ProcessorsInOrder, Behind
<1> QED
  BY <1>1, <1>3, <1>4, <1>5, CursorsKept, ReaderKept DEF JetInv

(* The processor is done with the event it was handling, which was tried.   *)
LEMMA DoneKeepsOrder ==
  ASSUME JetInv, NEW k \in Conns, NEW d \in Stream, d = handling[k], Tried(d)',
         Remembers, UNCHANGED <<channel, pc, conn, next, read>>,
         handling' = [handling EXCEPT ![k] = None],
         handled' \in [Conns -> BOOLEAN], ~handled'[k],
         \A l \in Conns : l # k => handled'[l] = handled[l]
  PROVE  ProcessorsInOrder' /\ ReaderInOrder'
<1>1. handling'[k] = None /\ \A l \in Conns : l # k => handling'[l] = handling[l]
  BY DEF JetInv, TypeOK
<1>2. \A e : Tried(e) \/ e = handling[k] => Tried(e)'
  <2>1. \A e : Tried(e) => Tried(e)'
    BY DEF Tried, Remembers
  <2> QED
    BY <2>1
<1>3. ProcessorsInOrder'
  BY <1>1, <1>2 DEF JetInv, ProcessorsInOrder, Behind
<1>4. \A e : WithProcessor(conn, e) => Tried(e)' \/ WithProcessor(conn, e)'
  <2>1. CASE conn = k
    BY <1>1, <1>2, <2>1 DEF WithProcessor
  <2>2. CASE conn # k
    <3>1. handling'[conn] = handling[conn]
      BY <2>2 DEF JetInv, TypeOK
    <3> QED
      BY <3>1 DEF WithProcessor
  <2> QED
    BY <2>1, <2>2
<1>5. ReaderInOrder'
  <2>1. /\ pc # "run" => read = None
        /\ pc = "run" => conn \in Conns /\ next[conn] >= 1
        /\ read # None => \A e \in 1..read - 1 : Tried(e) \/ WithProcessor(conn, e)
        /\ pc = "run" =>
             \A e \in 1..next[conn] - 1 : Tried(e) \/ e = read \/ WithProcessor(conn, e)
    BY DEF JetInv, ReaderInOrder
  <2>2. read # None => \A e \in 1..read - 1 : Tried(e)' \/ WithProcessor(conn, e)'
    BY <1>2, <1>4, <2>1
  <2>3. pc = "run" =>
          \A e \in 1..next[conn] - 1 : Tried(e)' \/ e = read \/ WithProcessor(conn, e)'
    BY <1>2, <1>4, <2>1
  <2> QED
    BY <2>1, <2>2, <2>3 DEF ReaderInOrder
<1> QED
  BY <1>3, <1>5

LEMMA HandleFailsKeeps == ASSUME JetInv, NEW k \in Conns, HandleFails(k) PROVE JetInv'
<1>1. /\ handling[k] \in Commits /\ ~handled[k]
      /\ handling' = [handling EXCEPT ![k] = None]
      /\ attempted' = attempted \union {handling[k]}
      /\ UNCHANGED <<emitted, skipped, starts, pc, ctxDone, conn, from, next, read, open, channel,
                     handled, cursor, flusher, flushed, ended, panicked, saved, applied>>
  BY DEF HandleFails, stream, loop, reader, flushers
<1> DEFINE d == handling[k]
<1>2. d \in Stream
  BY <1>1, JetstreamAssumption DEF Stream
<1>3. TypeOK'
  <2>1. handling' \in [Conns -> Stream \union {None}]
    BY <1>1 DEF JetInv, TypeOK
  <2> QED
    BY <1>1, <1>2, <2>1 DEF JetInv, TypeOK
<1>4. Remembers
  BY <1>1 DEF Remembers
<1>5. PICK e \in Stream : e = d
  BY <1>2
<1>6. Tried(e)'
  BY <1>1, <1>5 DEF Tried
<1>7. ProcessorsInOrder' /\ ReaderInOrder'
  BY <1>1, <1>4, <1>5, <1>6, DoneKeepsOrder DEF JetInv, TypeOK
<1> QED
  BY <1>1, <1>3, <1>4, <1>7, CursorsKept DEF JetInv

(* The cursor moves to an event that was tried and has nothing untried      *)
(* before it.                                                               *)
LEMMA AdvanceCursorKeeps == ASSUME JetInv, NEW k \in Conns, AdvanceCursor(k) PROVE JetInv'
<1>1. /\ handled[k]
      /\ cursor' = handling[k]
      /\ handling' = [handling EXCEPT ![k] = None]
      /\ handled' = [handled EXCEPT ![k] = FALSE]
      /\ UNCHANGED <<emitted, skipped, starts, pc, ctxDone, conn, from, next, read, open, channel,
                     flusher, flushed, ended, panicked, saved, attempted, applied>>
  BY DEF AdvanceCursor, stream, loop, reader, flushers, results
<1>2. handling[k] \in Stream /\ Tried(handling[k]) /\ Behind(handling[k] - 1)
  BY <1>1 DEF JetInv, TypeOK, ProcessorsInOrder
<1>3. PICK d \in Stream : d = handling[k]
  BY <1>2
<1>4. \A e : Tried(e) <=> Tried(e)'
  BY <1>1 DEF Tried
<1>5. \A e \in 1..d : Tried(e)'
  BY <1>2, <1>3, <1>4 DEF Behind, Stream
<1>6. TypeOK'
  <2>1. handling' \in [Conns -> Stream \union {None}] /\ handled' \in [Conns -> BOOLEAN]
    BY <1>1 DEF JetInv, TypeOK
  <2>2. cursor' \in 0..MaxEvents
    BY <1>1, <1>2, JetstreamAssumption DEF Stream
  <2> QED
    BY <1>1, <2>1, <2>2 DEF JetInv, TypeOK
<1>7. CursorsAreBehind'
  BY <1>1, <1>3, <1>4, <1>5 DEF JetInv, CursorsAreBehind, Behind
<1>8. ProcessorsInOrder' /\ ReaderInOrder'
  <2>1. Tried(d)' /\ Remembers
    BY <1>1, <1>2, <1>3, <1>4 DEF Remembers
  <2>2. ~handled'[k] /\ \A l \in Conns : l # k => handled'[l] = handled[l]
    BY <1>1 DEF JetInv, TypeOK
  <2>3. handled' \in [Conns -> BOOLEAN]
    BY <1>6 DEF TypeOK
  <2> QED
    BY <1>1, <1>3, <2>1, <2>2, <2>3, DoneKeepsOrder
<1> QED
  BY <1>6, <1>7, <1>8 DEF JetInv

-----------------------------------------------------------------------------
(* The flushers: each holds a copy of the cursor. *)

LEMMA ReadCursorKeeps ==
  ASSUME JetInv, NEW k \in Conns, ReadCursor(k) \/ FinalFlush(k)
  PROVE  JetInv'
<1>1. /\ flusher' = [flusher EXCEPT ![k] = cursor]
      /\ UNCHANGED <<emitted, skipped, starts, pc, ctxDone, conn, from, next, read, open, channel,
                     handling, handled, cursor, flushed, panicked, saved, attempted, applied>>
      /\ ended' \subseteq ended \union {k}
  BY DEF ReadCursor, FinalFlush, stream, loop, reader, processors, results
<1>2. TypeOK'
  <2>1. cursor \in Stream \union {None}
    BY JetstreamAssumption DEF JetInv, TypeOK, Stream, None
  <2>2. flusher' \in [Conns -> Stream \union {None}]
    BY <1>1, <2>1 DEF JetInv, TypeOK
  <2> QED
    BY <1>1, <2>2 DEF JetInv, TypeOK
<1>3. Remembers
  BY <1>1 DEF Remembers
<1>4. CursorsAreBehind'
  <2>1. \A e : Tried(e) <=> Tried(e)'
    BY <1>1 DEF Tried
  <2>2. \A l \in Conns : flusher'[l] = flusher[l] \/ flusher'[l] = cursor
    BY <1>1 DEF JetInv, TypeOK
  <2> QED
    BY <1>1, <2>1, <2>2 DEF JetInv, CursorsAreBehind, Behind
<1> QED
  BY <1>1, <1>2, <1>3, <1>4, ProcessorsKept, ReaderKept DEF JetInv

LEMMA SaveCursorKeeps == ASSUME JetInv, NEW k \in Conns, SaveCursor(k) PROVE JetInv'
<1>1. /\ flusher[k] # None
      /\ flusher' = [flusher EXCEPT ![k] = None]
      /\ \/ saved' = flusher[k] /\ flushed' = [flushed EXCEPT ![k] = flusher[k]]
         \/ UNCHANGED <<saved, flushed>>
      /\ UNCHANGED <<emitted, skipped, starts, pc, ctxDone, conn, from, next, read, open, channel,
                     handling, handled, cursor, ended, panicked, attempted, applied>>
  BY DEF SaveCursor, stream, loop, reader, processors, results
<1>2. flusher[k] \in 0..MaxEvents
  BY <1>1, JetstreamAssumption DEF JetInv, TypeOK, Stream
<1>3. TypeOK'
  <2>1. flusher' \in [Conns -> Stream \union {None}]
    BY <1>1 DEF JetInv, TypeOK
  <2>2. saved' \in 0..MaxEvents /\ flushed' \in [Conns -> 0..MaxEvents]
    BY <1>1, <1>2 DEF JetInv, TypeOK
  <2> QED
    BY <1>1, <2>1, <2>2 DEF JetInv, TypeOK
<1>4. Remembers
  BY <1>1 DEF Remembers
<1>5. CursorsAreBehind'
  <2>1. \A e : Tried(e) <=> Tried(e)'
    BY <1>1 DEF Tried
  <2>2. \A l \in Conns : flusher'[l] = flusher[l] \/ flusher'[l] = 0
    BY <1>1 DEF JetInv, TypeOK, None
  <2>3. saved' = saved \/ saved' = flusher[k]
    BY <1>1
  <2> QED
    BY <1>1, <2>1, <2>2, <2>3 DEF JetInv, CursorsAreBehind, Behind
<1> QED
  BY <1>1, <1>3, <1>4, <1>5, ProcessorsKept, ReaderKept DEF JetInv

-----------------------------------------------------------------------------
(* Stop, and the end of the process at any point. *)

LEMMA StopConsumerKeeps == ASSUME JetInv, StopConsumer PROVE JetInv'
<1> USE DEF StopConsumer, stream, processors, flushers, results
<1>1. TypeOK'
  BY DEF JetInv, TypeOK
<1>2. Remembers
  BY DEF Remembers
<1> QED
  BY <1>1, <1>2, CursorsKept, ProcessorsKept, ReaderKept DEF JetInv

LEMMA ExitKeeps == ASSUME JetInv, Exit PROVE JetInv'
<1>1. NoProcess /\ UNCHANGED <<emitted, skipped, starts, saved, attempted, applied>>
  BY DEF Exit, stream, results
<1> USE JetstreamAssumption
<1>2. TypeOK'
  <2>1. /\ channel' \in [Conns -> Seq(Stream)]
        /\ \A k \in Conns : Len(channel'[k]) <= Buffer
    BY <1>1 DEF NoProcess
  <2>2. /\ next' \in [Conns -> 0..MaxEvents + 1]
        /\ flushed' \in [Conns -> 0..MaxEvents]
    BY <1>1 DEF NoProcess
  <2>3. /\ handling' \in [Conns -> Stream \union {None}]
        /\ flusher' \in [Conns -> Stream \union {None}]
        /\ handled' \in [Conns -> BOOLEAN]
    BY <1>1 DEF NoProcess
  <2>4. conn' \in 0..MaxConns /\ from' \in 0..MaxEvents /\ cursor' \in 0..MaxEvents
    BY <1>1 DEF NoProcess
  <2>5. /\ open' = {} /\ ended' = {} /\ pc' = "down" /\ ctxDone' = FALSE /\ panicked' = FALSE
        /\ read' = None
    BY <1>1 DEF NoProcess
  <2> QED
    BY <1>1, <2>1, <2>2, <2>3, <2>4, <2>5 DEF JetInv, TypeOK
<1>3. CursorsAreBehind'
  BY <1>1 DEF JetInv, NoProcess, CursorsAreBehind, Behind, Tried, None
<1>4. ProcessorsInOrder'
  BY <1>1 DEF NoProcess, ProcessorsInOrder, None
<1>5. ReaderInOrder'
  BY <1>1, NoReader DEF NoProcess
<1> QED
  BY <1>2, <1>3, <1>4, <1>5 DEF JetInv

LEMMA JetNext == JetInv /\ [Next]_vars => JetInv'
<1> SUFFICES ASSUME JetInv, [Next]_vars PROVE JetInv'
  OBVIOUS
<1>1. ASSUME Step PROVE JetInv'
  BY <1>1, EmitKeeps, StartKeeps, LoadCursorKeeps, ConnectKeeps, BackoffKeeps, ReadEventKeeps,
     SkipUnparsedKeeps, DeliverKeeps, DeliverToClosedKeeps, TakeEventKeeps, HandleOKKeeps, HandleFailsKeeps,
     AdvanceCursorKeeps, ReadCursorKeeps, SaveCursorKeeps, StopConsumerKeeps
     DEF Step
<1>2. ASSUME UNCHANGED vars PROVE JetInv'
  <2>1. TypeOK' /\ Remembers
    BY <1>2 DEF vars, JetInv, TypeOK, Remembers
  <2> QED
    BY <1>2, <2>1, CursorsKept, ProcessorsKept, ReaderKept DEF vars, JetInv
<1> QED
  BY <1>1, <1>2, ExitKeeps DEF Next

LEMMA JetInvariant == Spec => []JetInv
  BY JetInit, JetNext, PTL DEF Spec

-----------------------------------------------------------------------------
(* Every variable of the consumer stays within its type; in particular the  *)
(* channels stay within EventChannelBufferSize.                             *)
THEOREM JetstreamTypes == Spec => []TypeOK
<1>1. JetInv => TypeOK
  BY DEF JetInv
<1> QED
  BY <1>1, JetInvariant, PTL

(* Whatever processors and flushers of several connections do to the cursor *)
(* and whenever the process ends, nothing up to the saved cursor is         *)
(* untried, unless it lies before a start from live or did not parse.       *)
THEOREM SavedCursorIsCovered == Spec => []CursorCoversAttempted
<1>1. JetInv => CursorCoversAttempted
  BY DEF JetInv, CursorsAreBehind, Behind, Tried, CursorCoversAttempted
<1> QED
  BY <1>1, JetInvariant, PTL

(* A connection that resumes from the database leaves no gap: what it has   *)
(* passed was tried, is still held by this process, lies before a start     *)
(* from live or did not parse.                                              *)
THEOREM NoGapBehindConnection == Spec => []ConnectionLeavesNoGap
<1>1. JetInv => ConnectionLeavesNoGap
  BY DEF JetInv, ReaderInOrder, WithProcessor, Tried, ConnectionLeavesNoGap
<1> QED
  BY <1>1, JetInvariant, PTL

=============================================================================
