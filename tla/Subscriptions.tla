--------------------------- MODULE Subscriptions ---------------------------
(***************************************************************************)
(* GraphQL subscriptions: PubSub (internal/graphql/subscription/pubsub.go) *)
(* and one websocket client (handler.go) with its reader goroutine and one *)
(* goroutine per subscription operation.  Connections meet only in PubSub, *)
(* which treats every subscriber alike, so one connection is enough.       *)
(*                                                                         *)
(* A critical section under wsClient.mu or PubSub.mu is one step.  What    *)
(* GraphQL makes of an event is a choice: a payload, an empty result that  *)
(* is not sent, or errors.                                                 *)
(***************************************************************************)
EXTENDS Naturals, Sequences

CONSTANTS
  Ids,          \* operation ids a client uses
  NoId,         \* the empty operation id
  Collections,
  Any,          \* the empty collection filter
  MaxOps,       \* bound: subscribe messages that are accepted
  MaxFrames,    \* bound: client frames waiting to be read
  MaxSent,      \* bound: client frames sent
  MaxEvents,    \* bound: events published
  Buffer        \* SubscriberBufferSize

ASSUME SubscriptionsAssumption ==
  /\ Any \notin Collections /\ NoId \notin Ids
  /\ MaxOps \in Nat /\ MaxFrames \in Nat /\ MaxSent \in Nat /\ MaxEvents \in Nat
  /\ Buffer \in Nat \ {0}

Ops == 1..MaxOps
NoOp == 0

(* badSubscribe: no operation id, no valid payload, or an operation that    *)
(* validateSubscriptionOperation rejects.  other: ping, an unknown type, or *)
(* what is not JSON.                                                        *)
Frames ==
  [type: {"init", "other", "terminate"}]
  \union [type: {"badSubscribe"}, id: Ids \union {NoId}]
  \union [type: {"subscribe"}, id: Ids, filter: Collections \union {Any}]
  \union [type: {"complete"}, id: Ids]

(* Events by number, in the order in which they were published.  Their      *)
(* collection matters only to Publish.                                      *)
PublishedEvents == 1..MaxEvents

(* What is written under an id: a message of operation op about event n, or *)
(* the error that refuses a subscribe message when op was the newest        *)
(* operation of the connection.                                             *)
Messages ==
  [id: Ids \union {NoId}, op: 0..MaxOps, n: 0..MaxEvents,
   type: {"next", "error", "complete", "refused"}]

VARIABLES
  \* the connection
  frames,        \* client frames the reader has not seen yet
  sent,          \* how many the client has sent
  writable,      \* writes to the websocket succeed
  \* wsClient
  reading,       \* the reader goroutine is in its loop
  cancelling,    \* an operation the reader has removed and is about to cancel
  initialized, closed,
  subscriptions, \* the registered operation of an id, or NoOp
  \* operations and their goroutines
  op,            \* op[n]: id and filter of operation n, and (history) whether
                 \* the client was closed already when it was registered
  created,       \* operations so far
  pc, cancelled, event,
  \* PubSub
  subscribers, channel,
  published,     \* events so far
  \* what the client gets
  wire

client == <<reading, cancelling, initialized, closed, subscriptions>>
goroutines == <<op, created, pc, cancelled, event>>
pubsub == <<subscribers, channel, published>>
vars == <<frames, sent, writable, reading, cancelling, initialized, closed, subscriptions,
          op, created, pc, cancelled, event, subscribers, channel, published, wire>>

NoEvent == 0

TypeOK ==
  /\ frames \in Seq(Frames)
  /\ sent \in 0..MaxSent
  /\ writable \in BOOLEAN /\ reading \in BOOLEAN
  /\ cancelling \in Ops \union {NoOp}
  /\ initialized \in BOOLEAN /\ closed \in BOOLEAN
  /\ subscriptions \in [Ids -> Ops \union {NoOp}]
  /\ created \in 0..MaxOps
  /\ op \in [1..created -> [id: Ids, filter: Collections \union {Any}, late: BOOLEAN]]
  /\ pc \in [Ops -> {"none", "starting", "select", "execute", "unsubscribe", "finish",
                     "complete", "done"}]
  /\ cancelled \in [Ops -> BOOLEAN]
  /\ event \in [Ops -> PublishedEvents \union {NoEvent}]
  /\ subscribers \subseteq Ops
  /\ channel \in [Ops -> Seq(PublishedEvents)]
  /\ \A n \in Ops : Len(channel[n]) <= Buffer
  /\ published \in 0..MaxEvents
  /\ wire \in Seq(Messages)

Init ==
  /\ frames = <<>>
  /\ sent = 0
  /\ writable = TRUE
  /\ reading = TRUE
  /\ cancelling = NoOp
  /\ initialized = FALSE
  /\ closed = FALSE
  /\ subscriptions = [i \in Ids |-> NoOp]
  /\ op = <<>>
  /\ created = 0
  /\ pc = [n \in Ops |-> "none"]
  /\ cancelled = [n \in Ops |-> FALSE]
  /\ event = [n \in Ops |-> NoEvent]
  /\ subscribers = {}
  /\ channel = [n \in Ops |-> <<>>]
  /\ published = 0
  /\ wire = <<>>

-----------------------------------------------------------------------------
(* The client (external) and the network. *)

ClientSend(f) ==
  /\ writable
  /\ sent < MaxSent
  /\ Len(frames) < MaxFrames
  /\ sent' = sent + 1
  /\ frames' = Append(frames, f)
  /\ UNCHANGED <<writable, client, goroutines, pubsub, wire>>

Break ==
  /\ writable
  /\ writable' = FALSE
  /\ UNCHANGED <<frames, sent, client, goroutines, pubsub, wire>>

-----------------------------------------------------------------------------
(* The reader goroutine: run, handleMessage. *)

Idle == reading /\ cancelling = NoOp

Reads(type) ==
  /\ Idle
  /\ frames # <<>>
  /\ Head(frames).type = type
  /\ frames' = Tail(frames)
  /\ UNCHANGED sent

(* close and closeWithCode: only the first call does anything.  Closing the *)
(* connection makes writes fail; frames that are already in the read buffer *)
(* can still be read.                                                       *)
Close ==
  /\ closed' = TRUE
  /\ IF closed THEN UNCHANGED <<subscriptions, cancelled, writable>>
     ELSE /\ subscriptions' = [i \in Ids |-> NoOp]
          /\ cancelled' = [n \in Ops |->
                             cancelled[n] \/ \E i \in Ids : subscriptions[i] = n]
          /\ writable' = FALSE

(* ReadMessage fails: run returns and its deferred close runs. *)
ReadError ==
  /\ Idle
  /\ ~writable
  /\ reading' = FALSE
  /\ frames' = <<>>
  /\ Close
  /\ UNCHANGED <<sent, cancelling, initialized, op, created, pc, event, pubsub, wire>>

HandleInit ==
  /\ Reads("init")
  /\ IF initialized
     THEN Close /\ UNCHANGED initialized
     ELSE /\ initialized' = TRUE
          /\ UNCHANGED <<closed, subscriptions, cancelled, writable>>
  /\ UNCHANGED <<reading, cancelling, op, created, pc, event, pubsub, wire>>

HandleOther ==
  /\ Reads("other")
  /\ UNCHANGED <<writable, client, goroutines, pubsub, wire>>

HandleTerminate ==
  /\ Reads("terminate")
  /\ Close
  /\ UNCHANGED <<reading, cancelling, initialized, op, created, pc, event, pubsub, wire>>

Refuses(i) ==
  wire' = IF writable
          THEN Append(wire, [id |-> i, op |-> created, n |-> 0, type |-> "refused"]) ELSE wire

(* Mutant of RefuseSubscribe: the payload is looked at before the map is.   *)
RefuseBeforeLookup ==
  /\ Reads("badSubscribe")
  /\ IF ~initialized
     THEN Close /\ UNCHANGED wire
     ELSE /\ Refuses(Head(frames).id)
          /\ UNCHANGED <<closed, subscriptions, cancelled, writable>>
  /\ UNCHANGED <<reading, cancelling, initialized, op, created, pc, event, pubsub>>

(* handleSubscribe of what cannot be run: Unauthorized before init, close   *)
(* on a duplicate id, else an error under the id.                           *)
RefuseSubscribe ==
  /\ Reads("badSubscribe")
  /\ LET i == Head(frames).id IN
     IF ~initialized \/ (i \in Ids /\ subscriptions[i] # NoOp)
     THEN Close /\ UNCHANGED wire
     ELSE /\ Refuses(i)
          /\ UNCHANGED <<closed, subscriptions, cancelled, writable>>
  /\ UNCHANGED <<reading, cancelling, initialized, op, created, pc, event, pubsub>>

(* handleSubscribe of a valid operation: the same, but register it and      *)
(* start its goroutine.  Only the reader registers, so the two checks of    *)
(* the map are one.  closed is not looked at.                               *)
HandleSubscribe ==
  /\ Reads("subscribe")
  /\ LET f == Head(frames) IN
     IF ~initialized \/ subscriptions[f.id] # NoOp
     THEN /\ Close
          /\ UNCHANGED <<op, created, pc>>
     ELSE /\ created < MaxOps
          /\ created' = created + 1
          /\ op' = Append(op, [id |-> f.id, filter |-> f.filter, late |-> closed])
          /\ subscriptions' = [subscriptions EXCEPT ![f.id] = created']
          /\ pc' = [pc EXCEPT ![created'] = "starting"]
          /\ UNCHANGED <<closed, cancelled, writable>>
  /\ UNCHANGED <<reading, cancelling, initialized, event, pubsub, wire>>

(* cancelSubscription: remove under the lock, ... *)
HandleComplete ==
  /\ Reads("complete")
  /\ LET i == Head(frames).id IN
     /\ cancelling' = subscriptions[i]
     /\ subscriptions' = [subscriptions EXCEPT ![i] = NoOp]
  /\ UNCHANGED <<writable, reading, initialized, closed, goroutines, pubsub, wire>>

(* ... cancel after it. *)
Cancel ==
  /\ cancelling # NoOp
  /\ cancelled' = [cancelled EXCEPT ![cancelling] = TRUE]
  /\ cancelling' = NoOp
  /\ UNCHANGED <<frames, sent, writable, reading, initialized, closed, subscriptions,
                 op, created, pc, event, pubsub, wire>>

-----------------------------------------------------------------------------
(* The goroutine of operation n: runSubscription. *)

Registered(n) == subscriptions[op[n].id] = n
Unregister(n) == subscriptions' = [subscriptions EXCEPT ![op[n].id] = NoOp]
GoesTo(n, next) == pc' = [pc EXCEPT ![n] = next]

Writes(n, type, k) ==
  wire' = IF writable
          THEN Append(wire, [id |-> op[n].id, op |-> n, n |-> k, type |-> type]) ELSE wire

Subscribe(n) ==
  /\ pc[n] = "starting"
  /\ GoesTo(n, "select")
  /\ subscribers' = subscribers \union {n}
  /\ UNCHANGED <<frames, sent, writable, client, op, created, cancelled, event, channel,
                 published, wire>>

(* Mutant of ContextDone: only looked at when an event is there, too. *)
DoneNeedsEvent(n) ==
  /\ pc[n] = "select"
  /\ cancelled[n]
  /\ channel[n] # <<>>
  /\ GoesTo(n, "unsubscribe")
  /\ UNCHANGED <<frames, sent, writable, client, op, created, cancelled, event, pubsub, wire>>

ContextDone(n) ==
  /\ pc[n] = "select"
  /\ cancelled[n]
  /\ GoesTo(n, "unsubscribe")
  /\ UNCHANGED <<frames, sent, writable, client, op, created, cancelled, event, pubsub, wire>>

ReceiveEvent(n) ==
  /\ pc[n] = "select"
  /\ channel[n] # <<>>
  /\ event' = [event EXCEPT ![n] = Head(channel[n])]
  /\ channel' = [channel EXCEPT ![n] = Tail(@)]
  /\ GoesTo(n, "execute")
  /\ UNCHANGED <<frames, sent, writable, client, op, created, cancelled, subscribers,
                 published, wire>>

(* The result is empty: nothing is sent. *)
ResultEmpty(n) ==
  /\ pc[n] = "execute"
  /\ GoesTo(n, "select")
  /\ UNCHANGED <<frames, sent, writable, client, op, created, cancelled, event, pubsub, wire>>

(* Mutant of ResultNext: the operation is not looked up before the write. *)
NextWithoutCheck(n) ==
  /\ pc[n] = "execute"
  /\ IF writable
     THEN Writes(n, "next", event[n]) /\ GoesTo(n, "select")
     ELSE GoesTo(n, "unsubscribe") /\ UNCHANGED wire
  /\ UNCHANGED <<frames, sent, writable, client, op, created, cancelled, event, pubsub>>

(* sendOperationMessage of a payload. *)
ResultNext(n) ==
  /\ pc[n] = "execute"
  /\ IF Registered(n) /\ writable
     THEN Writes(n, "next", event[n]) /\ GoesTo(n, "select")
     ELSE GoesTo(n, "unsubscribe") /\ UNCHANGED wire
  /\ UNCHANGED <<frames, sent, writable, client, op, created, cancelled, event, pubsub>>

(* Mutant of ResultError: the operation goes on after its errors. *)
ErrorNotTerminal(n) ==
  /\ pc[n] = "execute"
  /\ IF Registered(n) /\ writable
     THEN Writes(n, "error", event[n]) /\ GoesTo(n, "select")
     ELSE GoesTo(n, "unsubscribe") /\ UNCHANGED wire
  /\ UNCHANGED <<frames, sent, writable, client, op, created, cancelled, event, pubsub>>

(* sendOperationMessage of errors: terminal. *)
ResultError(n) ==
  /\ pc[n] = "execute"
  /\ GoesTo(n, "unsubscribe")
  /\ IF Registered(n)
     THEN /\ Unregister(n)
          /\ cancelled' = [cancelled EXCEPT ![n] = TRUE]
          /\ Writes(n, "error", event[n])
     ELSE UNCHANGED <<subscriptions, cancelled, wire>>
  /\ UNCHANGED <<frames, sent, writable, reading, cancelling, initialized, closed, op, created,
                 event, pubsub>>

(* The deferred calls: Unsubscribe closes the channel, ... *)
Unsubscribe(n) ==
  /\ pc[n] = "unsubscribe"
  /\ subscribers' = subscribers \ {n}
  /\ channel' = [channel EXCEPT ![n] = <<>>]
  /\ GoesTo(n, "finish")
  /\ UNCHANGED <<frames, sent, writable, client, op, created, cancelled, event, published, wire>>

(* Mutant of FinishSubscription: whatever operation has the id is removed. *)
FinishWithoutCheck(n) ==
  /\ pc[n] = "finish"
  /\ Unregister(n)
  /\ GoesTo(n, IF subscriptions[op[n].id] # NoOp THEN "complete" ELSE "done")
  /\ UNCHANGED <<frames, sent, writable, reading, cancelling, initialized, closed, op, created,
                 cancelled, event, pubsub, wire>>

(* ... finishSubscription removes the operation unless its id has gone, or  *)
(* belongs to a later operation, ...                                        *)
FinishSubscription(n) ==
  /\ pc[n] = "finish"
  /\ IF Registered(n)
     THEN Unregister(n) /\ GoesTo(n, "complete")
     ELSE GoesTo(n, "done") /\ UNCHANGED subscriptions
  /\ UNCHANGED <<frames, sent, writable, reading, cancelling, initialized, closed, op, created,
                 cancelled, event, pubsub, wire>>

(* ... and tells the client in a critical section of its own. *)
SendComplete(n) ==
  /\ pc[n] = "complete"
  /\ Writes(n, "complete", 0)
  /\ GoesTo(n, "done")
  /\ UNCHANGED <<frames, sent, writable, client, op, created, cancelled, event, pubsub>>

Operation(n) ==
  \/ Subscribe(n) \/ ContextDone(n) \/ ReceiveEvent(n)
  \/ ResultEmpty(n) \/ ResultNext(n) \/ ResultError(n)
  \/ Unsubscribe(n) \/ FinishSubscription(n) \/ SendComplete(n)

-----------------------------------------------------------------------------
(* PubSub.Publish, called by ingestion: a full buffer loses the event. *)
Wants(n, c) == n \in subscribers /\ op[n].filter \in {Any, c}

Publish(c) ==
  /\ published < MaxEvents
  /\ published' = published + 1
  /\ channel' = [n \in Ops |-> IF Wants(n, c) /\ Len(channel[n]) < Buffer
                                THEN Append(channel[n], published') ELSE channel[n]]
  /\ UNCHANGED <<frames, sent, writable, client, goroutines, subscribers, wire>>

Reader ==
  \/ HandleInit \/ HandleOther \/ HandleTerminate \/ RefuseSubscribe \/ HandleSubscribe
  \/ HandleComplete \/ Cancel \/ ReadError

Next ==
  \/ \E f \in Frames : ClientSend(f)
  \/ Break
  \/ Reader
  \/ \E n \in Ops : Operation(n)
  \/ \E c \in Collections : Publish(c)

Spec == Init /\ [][Next]_vars

-----------------------------------------------------------------------------
(* Goroutines are scheduled, GraphQL execution ends, and select does not    *)
(* pass over a ready case for ever.                                         *)
Fairness ==
  /\ WF_vars(Reader)
  /\ \A n \in Ops :
       /\ WF_vars(Subscribe(n))
       /\ WF_vars(ReceiveEvent(n) \/ ResultEmpty(n) \/ ResultNext(n) \/ ResultError(n))
       /\ SF_vars(ContextDone(n))
       /\ WF_vars(Unsubscribe(n) \/ FinishSubscription(n) \/ SendComplete(n))

LiveSpec == Spec /\ Fairness

-----------------------------------------------------------------------------
Running(n) == pc[n] \in {"starting", "select", "execute"}

(* An operation whose goroutine runs can be stopped: it is cancelled, the   *)
(* reader is about to cancel it, or it is the one that a complete message   *)
(* and the close still to come will find, even when its id was used before  *)
(* by an operation that is winding down.  The exception: handleSubscribe    *)
(* also registers what it reads behind the frame that closed the client,    *)
(* and the deferred close does nothing then.                                *)
RunningIsReachable ==
  \A n \in 1..created :
    Running(n) => \/ cancelled[n] \/ cancelling = n
                  \/ Registered(n) /\ (closed => op[n].late)

(* The comment on close says it closes all subscriptions.  SubClose.cfg     *)
(* shows the exception above: it does not stop one that is registered late. *)
CloseStopsAll ==
  \A n \in 1..created : closed /\ Running(n) => cancelled[n] \/ cancelling = n

(* What the client reads under one id makes sense to it: an operation sends *)
(* events in the order they were published, also when its buffer was full   *)
(* between them, nothing after its error, and nothing once a subscribe      *)
(* message with its id was refused or a later operation with its id heard.  *)
StreamsAreClean ==
  \A i, j \in DOMAIN wire :
    i < j /\ wire[i].id = wire[j].id =>
      \/ wire[i].op < wire[j].op
      \/ wire[i].op = wire[j].op /\ wire[j].type = "refused"
      \/ wire[i].op = wire[j].op /\ wire[i].type = "next" /\ wire[i].n < wire[j].n

(* After the client's complete message is handled, the server sends nothing *)
(* more for that operation: sendOperationMessage checks under the same lock *)
(* that cancelSubscription takes.  A refusal is no operation's message.     *)
SilentOnceUnregistered ==
  [][\A n \in Ops : n <= created /\ Running(n) /\ ~Registered(n) =>
       \A k \in DOMAIN wire' : k > Len(wire) =>
         wire'[k].op # n \/ wire'[k].type = "refused"]_vars

(* A cancelled operation gives its place in PubSub back. *)
CancelledStops == \A n \in Ops : cancelled[n] ~> pc[n] = "done"

=============================================================================
