---------------------------- MODULE GraphQLProofs ----------------------------
(***************************************************************************)
(* Proofs about the two parts of the GraphQL API that answer a client over *)
(* several steps, Subscriptions and EndorsementClosure.                    *)
(*                                                                         *)
(* Subscriptions, for any operation ids, collections, frames and events,   *)
(* and any size of a subscriber's buffer: an id may be used again while    *)
(* the operation that had it winds down, so the map of the client and the  *)
(* goroutines must agree: a registered operation is the newest that was    *)
(* heard or refused under its id, it is not cancelled, and its goroutine   *)
(* runs for as long as it can be heard.                                    *)
(*                                                                         *)
(* EndorsementClosure, for any finite set of accounts, any records, caps,  *)
(* batches and page sizes: what is left of a ring, of its issuers and of   *)
(* its edges, accounts for every endorsement not followed yet; and over    *)
(* records that do not change a walk is determined by its request, so that *)
(* every page is a page of the same closure.                               *)
(***************************************************************************)
EXTENDS Subscriptions, EndorsementClosure, FiniteSetTheorems, SequenceTheorems,
        WellFoundedInduction, TLAPS

-----------------------------------------------------------------------------
(* Subscriptions.                                                           *)

(* The map names operations by their own id, and a cancelled operation, or  *)
(* one the reader is about to cancel, is not in it.                         *)
MapAgrees ==
  /\ \A i \in Ids : subscriptions[i] # NoOp =>
       subscriptions[i] \in 1..created /\ op[subscriptions[i]].id = i
  /\ \A n \in Ops : cancelled[n] => n <= created /\ ~Registered(n)
  /\ cancelling # NoOp => cancelling <= created /\ ~Registered(cancelling)
  /\ \A n \in Ops : n > created => pc[n] = "none"

(* A goroutine that ends while its operation is registered ends because the *)
(* connection is broken.                                                    *)
EndsUnheard ==
  \A n \in 1..created :
    /\ pc[n] \in {"unsubscribe", "finish"} /\ Registered(n) => ~writable
    /\ pc[n] = "complete" => ~writable

(* The events of an operation come in order: those it has sent, the one it  *)
(* is resolving, those in its buffer, those to be published.                *)
EventsInOrder ==
  \A n \in Ops :
    /\ event[n] <= published
    /\ \A i \in DOMAIN channel[n] :
         /\ channel[n][i] <= published
         /\ pc[n] = "execute" => event[n] < channel[n][i]
         /\ \A j \in DOMAIN channel[n] : i < j => channel[n][i] < channel[n][j]

(* A message of operation m, of type t and about event c, was sent; what    *)
(* may still be sent under the same id fits behind it.                      *)
Heard(m, t, c) ==
  /\ m <= created
  /\ c <= published
  /\ t # "next" => ~Running(m)
  /\ pc[m] = "execute" => c < event[m]
  /\ \A i \in DOMAIN channel[m] : c < channel[m][i]
  /\ \A n \in 1..created : Registered(n) /\ op[n].id = op[m].id => m <= n

SentBefore ==
  \A k \in DOMAIN wire : wire[k].type # "refused" =>
    /\ wire[k].op \in Ops /\ wire[k].id = op[wire[k].op].id
    /\ Heard(wire[k].op, wire[k].type, wire[k].n)

(* A subscribe message with id i was refused when m was the newest          *)
(* operation: what is registered under i since then came later.             *)
Refused(i, m) ==
  /\ m <= created
  /\ \A n \in 1..created : Registered(n) /\ op[n].id = i => m < n

RefusedBefore ==
  \A k \in DOMAIN wire : wire[k].type = "refused" => Refused(wire[k].id, wire[k].op)

SubInv ==
  /\ TypeOK
  /\ MapAgrees
  /\ RunningIsReachable
  /\ EndsUnheard
  /\ EventsInOrder
  /\ SentBefore
  /\ RefusedBefore
  /\ StreamsAreClean

-----------------------------------------------------------------------------
(* What a step must leave alone so that each part of the invariant holds.   *)

LEMMA Types ==
  ASSUME SubInv
  PROVE  /\ created \in Nat /\ 1..created \subseteq Ops /\ published \in Nat
         /\ \A n \in 1..created : op[n].id \in Ids
         /\ wire \in Seq(Messages) /\ DOMAIN wire = 1..Len(wire) /\ Len(wire) \in Nat
         /\ \A k \in DOMAIN wire : wire[k].op \in 0..created /\ wire[k].n \in Nat
         /\ \A k \in DOMAIN wire : wire[k].type # "refused" => wire[k].op \in 1..created
<1>1. created \in Nat /\ 1..created \subseteq Ops /\ published \in Nat
  BY SubscriptionsAssumption DEF SubInv, TypeOK, Ops
<1>2. \A n \in 1..created : op[n].id \in Ids
  BY DEF SubInv, TypeOK
<1>3. wire \in Seq(Messages) /\ DOMAIN wire = 1..Len(wire) /\ Len(wire) \in Nat
  BY DEF SubInv, TypeOK
<1>4. ASSUME NEW k \in DOMAIN wire
      PROVE  /\ wire[k].op \in 0..created /\ wire[k].n \in Nat
             /\ wire[k].type # "refused" => wire[k].op \in 1..created
  <2>1. wire[k] \in Messages
    BY <1>3
  <2>2. wire[k].op \in Nat /\ wire[k].n \in Nat
    BY <2>1, SubscriptionsAssumption DEF Messages
  <2>3. wire[k].type # "refused" => wire[k].op <= created /\ wire[k].op \in Ops
    BY DEF SubInv, SentBefore, Heard
  <2>4. wire[k].type = "refused" => wire[k].op <= created
    BY DEF SubInv, RefusedBefore, Refused
  <2> QED
    BY <1>1, <2>2, <2>3, <2>4 DEF Ops
<1> QED
  BY <1>1, <1>2, <1>3, <1>4

LEMMA MapKept ==
  ASSUME SubInv, UNCHANGED <<created, op, subscriptions, cancelled, cancelling>>,
         \A m \in Ops : m > created => pc'[m] = pc[m]
  PROVE  MapAgrees'
  BY DEF SubInv, MapAgrees, Registered

LEMMA ReachKept ==
  ASSUME SubInv, UNCHANGED <<created, op, subscriptions, cancelled, cancelling, closed>>,
         \A m \in 1..created : Running(m)' => Running(m)
  PROVE  RunningIsReachable'
  BY DEF SubInv, RunningIsReachable, Registered

LEMMA EndsKept ==
  ASSUME SubInv, UNCHANGED <<created, op>>, writable' => writable,
         \A i \in Ids : subscriptions'[i] \in {subscriptions[i], NoOp},
         \A m \in 1..created :
           /\ pc'[m] \in {"unsubscribe", "finish"} /\ Registered(m)' =>
                pc[m] \in {"unsubscribe", "finish"} \/ ~writable
           /\ pc'[m] = "complete" => pc[m] = "complete" \/ ~writable
  PROVE  EndsUnheard'
<1>1. \A m \in 1..created : op[m].id \in Ids
  BY Types
<1>2. \A m \in 1..created : Registered(m)' => Registered(m)
  BY <1>1, Types DEF Registered, NoOp
<1>3. \A m \in 1..created :
        /\ pc[m] \in {"unsubscribe", "finish"} /\ Registered(m) => ~writable
        /\ pc[m] = "complete" => ~writable
  BY DEF SubInv, EndsUnheard
<1>4. ASSUME NEW m \in 1..created
      PROVE  /\ pc'[m] \in {"unsubscribe", "finish"} /\ Registered(m)' => ~writable'
             /\ pc'[m] = "complete" => ~writable'
  BY <1>2, <1>3
<1> QED
  BY <1>4 DEF EndsUnheard

LEMMA EventsKept ==
  ASSUME SubInv, UNCHANGED <<event, channel, published>>,
         \A m \in Ops : pc'[m] = "execute" => pc[m] = "execute"
  PROVE  EventsInOrder'
  BY DEF SubInv, EventsInOrder

LEMMA HeardKept ==
  ASSUME SubInv, UNCHANGED <<created, op, published, event, channel>>,
         \A i \in Ids : subscriptions'[i] \in {subscriptions[i], NoOp},
         \A m \in Ops :
           /\ Running(m)' => Running(m)
           /\ pc'[m] = "execute" => pc[m] = "execute",
         NEW m \in 1..created, NEW t, NEW c, Heard(m, t, c)
  PROVE  Heard(m, t, c)'
<1>1. \A n \in 1..created : Registered(n)' => Registered(n)
  BY Types DEF Registered, NoOp
<1>2. m \in Ops
  BY Types
<1> QED
  BY <1>1, <1>2 DEF Heard

LEMMA SentKept ==
  ASSUME SubInv, wire' = wire, \A m \in 1..created : op'[m].id = op[m].id,
         \A m \in 1..created : \A t, c : Heard(m, t, c) => Heard(m, t, c)'
  PROVE  SentBefore'
<1>1. ASSUME NEW k \in DOMAIN wire, wire[k].type # "refused"
      PROVE  /\ wire[k].op \in Ops /\ wire[k].id = op'[wire[k].op].id
             /\ Heard(wire[k].op, wire[k].type, wire[k].n)'
  <2>1. PICK m, t, c : m = wire[k].op /\ t = wire[k].type /\ c = wire[k].n
    OBVIOUS
  <2>2. Heard(m, t, c) /\ m \in 1..created /\ m \in Ops /\ wire[k].id = op[m].id
    BY <1>1, <2>1, Types DEF SubInv, SentBefore
  <2>3. Heard(m, t, c)'
    BY <2>2
  <2> QED
    BY <2>1, <2>2, <2>3
<1> QED
  BY <1>1 DEF SentBefore

LEMMA RefusedKept ==
  ASSUME SubInv, UNCHANGED <<created, op>>,
         \A i \in Ids : subscriptions'[i] \in {subscriptions[i], NoOp},
         NEW j, NEW m, Refused(j, m)
  PROVE  Refused(j, m)'
<1>1. \A n \in 1..created : Registered(n)' => Registered(n)
  BY Types DEF Registered, NoOp
<1> QED
  BY <1>1 DEF Refused

LEMMA RefusalsKept ==
  ASSUME SubInv, UNCHANGED <<wire, created, op>>,
         \A i \in Ids : subscriptions'[i] \in {subscriptions[i], NoOp}
  PROVE  RefusedBefore'
<1>1. ASSUME NEW k \in DOMAIN wire, wire[k].type = "refused"
      PROVE  Refused(wire[k].id, wire[k].op)'
  <2>1. PICK j, m : j = wire[k].id /\ m = wire[k].op
    OBVIOUS
  <2>2. Refused(j, m)
    BY <1>1, <2>1 DEF SubInv, RefusedBefore
  <2>3. Refused(j, m)'
    BY <2>2, RefusedKept
  <2> QED
    BY <2>1, <2>3
<1> QED
  BY <1>1 DEF RefusedBefore

LEMMA CleanKept ==
  ASSUME SubInv, wire' = wire
  PROVE  StreamsAreClean'
  BY DEF SubInv, StreamsAreClean

LEMMA SubInit == Init => SubInv
<1> SUFFICES ASSUME Init PROVE SubInv
  OBVIOUS
<1> USE SubscriptionsAssumption
<1>1. TypeOK
  <2>1. channel \in [Ops -> Seq(PublishedEvents)] /\ \A n \in Ops : Len(channel[n]) <= Buffer
    BY DEF Init
  <2>2. op \in [1..created -> [id: Ids, filter: Collections \union {Any}, late: BOOLEAN]]
    BY DEF Init
  <2>3. sent \in 0..MaxSent /\ created \in 0..MaxOps /\ published \in 0..MaxEvents
    BY DEF Init
  <2>4. frames \in Seq(Frames)
    BY DEF Init
  <2>5. wire \in Seq(Messages)
    BY DEF Init
  <2> QED
    BY <2>1, <2>2, <2>3, <2>4, <2>5 DEF TypeOK, Init
<1>2. MapAgrees
  BY DEF Init, MapAgrees, NoOp
<1>3. RunningIsReachable /\ EndsUnheard
  BY DEF Init, RunningIsReachable, EndsUnheard
<1>4. EventsInOrder
  BY DEF Init, EventsInOrder, NoEvent
<1>5. SentBefore /\ RefusedBefore /\ StreamsAreClean
  BY DEF Init, SentBefore, RefusedBefore, StreamsAreClean
<1> QED
  BY <1>1, <1>2, <1>3, <1>4, <1>5 DEF SubInv

-----------------------------------------------------------------------------
(* The client, the network and the reader. *)

LEMMA ReadsFrame ==
  ASSUME SubInv, NEW type, Reads(type)
  PROVE  /\ frames' \in Seq(Frames) /\ Head(frames) \in Frames
         /\ Head(frames).type = type
         /\ sent' = sent /\ cancelling = NoOp /\ reading
  BY DEF SubInv, TypeOK, Reads, Idle

(* Steps that touch neither operations nor PubSub. *)
LEMMA NothingMoves ==
  ASSUME SubInv, TypeOK', writable' => writable,
         UNCHANGED <<created, op, subscriptions, cancelled, cancelling, closed, pc, event,
                     channel, published, wire>>
  PROVE  SubInv'
<1>1. /\ \A m \in Ops : (Running(m)' => Running(m)) /\ (pc'[m] = "execute" => pc[m] = "execute")
      /\ \A m \in 1..created : Running(m)' => Running(m)
  BY DEF Running
<1>2. \A m \in 1..created : \A t, c : Heard(m, t, c) => Heard(m, t, c)'
  BY DEF Heard, Running, Registered
<1>3. MapAgrees' /\ RunningIsReachable' /\ EventsInOrder' /\ SentBefore' /\ StreamsAreClean'
  BY <1>1, <1>2, MapKept, ReachKept, EventsKept, SentKept, CleanKept
<1>4. EndsUnheard' /\ RefusedBefore'
  BY EndsKept, RefusalsKept
<1> QED
  BY <1>3, <1>4 DEF SubInv

LEMMA ClientKeeps ==
  ASSUME SubInv, (\E f \in Frames : ClientSend(f)) \/ Break \/ HandleOther
  PROVE  SubInv'
<1>1. /\ UNCHANGED <<reading, cancelling, initialized, closed, subscriptions, op, created, pc,
                     cancelled, event, subscribers, channel, published, wire>>
      /\ writable' \in BOOLEAN /\ (writable' => writable)
  <2>1. writable \in BOOLEAN
    BY DEF SubInv, TypeOK
  <2>2. ASSUME NEW f \in Frames, ClientSend(f)
        PROVE  UNCHANGED <<writable, client, goroutines, pubsub, wire>>
    BY <2>2 DEF ClientSend
  <2>3. ASSUME Break PROVE writable' = FALSE /\ UNCHANGED <<client, goroutines, pubsub, wire>>
    BY <2>3 DEF Break
  <2>4. ASSUME HandleOther PROVE UNCHANGED <<writable, client, goroutines, pubsub, wire>>
    BY <2>4 DEF HandleOther
  <2>5. /\ UNCHANGED <<client, goroutines, pubsub, wire>>
        /\ writable' = writable \/ writable' = FALSE
    BY <2>2, <2>3, <2>4
  <2>6. writable' \in BOOLEAN /\ (writable' => writable)
    <3>1. CASE writable' = writable
      BY <2>1, <3>1
    <3>2. CASE writable' = FALSE
      BY <3>2
    <3> QED
      BY <2>5, <3>1, <3>2
  <2> QED
    BY <2>5, <2>6 DEF client, goroutines, pubsub
<1>2. frames' \in Seq(Frames) /\ sent' \in 0..MaxSent
  <2>1. CASE \E f \in Frames : ClientSend(f)
    BY <2>1, SubscriptionsAssumption DEF ClientSend, SubInv, TypeOK
  <2>2. CASE Break
    BY <2>2 DEF Break, SubInv, TypeOK
  <2>3. CASE HandleOther
    BY <2>3, ReadsFrame DEF HandleOther, SubInv, TypeOK
  <2> QED
    BY <2>1, <2>2, <2>3
<1>3. TypeOK'
  BY <1>1, <1>2 DEF SubInv, TypeOK
<1> QED
  BY <1>1, <1>3, NothingMoves

(* close cancels every registered operation, and empties the map. *)
LEMMA CloseKeeps ==
  ASSUME SubInv, Close, cancelling = NoOp, frames' \in Seq(Frames),
         reading' \in BOOLEAN, initialized' \in BOOLEAN,
         UNCHANGED <<sent, cancelling, op, created, pc, event, subscribers, channel, published,
                     wire>>
  PROVE  SubInv'
<1>1. /\ subscriptions' \in [Ids -> Ops \union {NoOp}]
      /\ cancelled' \in [Ops -> BOOLEAN] /\ writable' \in BOOLEAN /\ closed' = TRUE
      /\ writable' => writable
  BY DEF Close, SubInv, TypeOK
<1>2. TypeOK'
  BY <1>1 DEF SubInv, TypeOK
<1>3. CASE closed
  <2>1. UNCHANGED <<subscriptions, cancelled, writable, closed>>
    BY <1>1, <1>3 DEF Close, SubInv, TypeOK
  <2> QED
    BY <1>2, <2>1, NothingMoves
<1>4. CASE ~closed
  <2>1. /\ subscriptions' = [i \in Ids |-> NoOp]
        /\ cancelled' = [n \in Ops |-> cancelled[n] \/ \E i \in Ids : subscriptions[i] = n]
        /\ writable' = FALSE
    BY <1>4 DEF Close
  <2>2. \A i \in Ids : subscriptions'[i] = NoOp
    BY <2>1
  <2>3. \A n \in 1..created : ~Registered(n)'
    BY <2>2, Types DEF Registered, NoOp
  <2>4. MapAgrees'
    <3>1. ASSUME NEW n \in Ops, cancelled'[n] PROVE n \in 1..created
      <4>1. cancelled[n] \/ \E i \in Ids : subscriptions[i] = n
        BY <2>1, <3>1
      <4>2. subscriptions \in [Ids -> Ops \union {NoOp}] /\ n # NoOp /\ n \in Nat \ {0}
        BY SubscriptionsAssumption DEF SubInv, TypeOK, Ops, NoOp
      <4> QED
        BY <4>1, <4>2, Types DEF SubInv, MapAgrees
    <3>2. \A n \in Ops : n > created => pc[n] = "none"
      BY DEF SubInv, MapAgrees
    <3>3. \A n \in Ops : cancelled'[n] => n <= created /\ ~Registered(n)'
      BY <2>3, <3>1
    <3> QED
      BY <2>2, <3>2, <3>3 DEF MapAgrees
  <2>5. RunningIsReachable'
    <3>1. ASSUME NEW n \in 1..created, Running(n)' PROVE cancelled'[n]
      <4>1. cancelled[n] \/ Registered(n)
        <5>1. Running(n)
          BY <3>1 DEF Running
        <5>2. cancelling # n
          BY DEF NoOp
        <5> QED
          BY <5>1, <5>2 DEF SubInv, RunningIsReachable
      <4>2. n \in Ops /\ op[n].id \in Ids
        BY Types
      <4> QED
        BY <2>1, <4>1, <4>2 DEF Registered
    <3> QED
      BY <3>1 DEF RunningIsReachable
  <2>6. EndsUnheard'
    BY <2>1 DEF EndsUnheard
  <2>7. EventsInOrder'
    BY EventsKept
  <2>8. SentBefore' /\ RefusedBefore' /\ StreamsAreClean'
    <3>1. \A m \in Ops : (Running(m)' => Running(m)) /\ (pc'[m] = "execute" => pc[m] = "execute")
      BY DEF Running
    <3>2. \A m \in 1..created : \A t, c : Heard(m, t, c) => Heard(m, t, c)'
      BY <2>2, <3>1, HeardKept
    <3> QED
      BY <2>2, <3>2, SentKept, RefusalsKept, CleanKept
  <2> QED
    BY <1>2, <2>4, <2>5, <2>6, <2>7, <2>8 DEF SubInv
<1> QED
  BY <1>3, <1>4

LEMMA ReaderClosesKeeps ==
  ASSUME SubInv, ReadError \/ HandleInit \/ HandleTerminate
  PROVE  SubInv'
<1>1. CASE ReadError
  <2>1. /\ Close /\ cancelling = NoOp /\ frames' = <<>> /\ reading' = FALSE
        /\ UNCHANGED <<sent, cancelling, initialized, op, created, pc, event, subscribers,
                       channel, published, wire>>
    BY <1>1 DEF ReadError, Idle, pubsub
  <2>2. frames' \in Seq(Frames)
    BY <2>1
  <2>3. reading' \in BOOLEAN
    BY <2>1
  <2>4. initialized' \in BOOLEAN
    BY <2>1 DEF SubInv, TypeOK
  <2> QED
    BY <2>1, <2>2, <2>3, <2>4, CloseKeeps
<1>2. CASE HandleTerminate
  <2>1. /\ Close
        /\ UNCHANGED <<reading, cancelling, initialized, op, created, pc, event, subscribers,
                       channel, published, wire>>
    BY <1>2 DEF HandleTerminate, pubsub
  <2>2. frames' \in Seq(Frames) /\ sent' = sent /\ cancelling = NoOp
    BY <1>2, ReadsFrame DEF HandleTerminate
  <2> QED
    BY <2>1, <2>2, CloseKeeps DEF SubInv, TypeOK
<1>3. CASE HandleInit
  <2>1. /\ frames' \in Seq(Frames) /\ UNCHANGED <<sent, reading, cancelling, op, created, pc,
                                                  event, subscribers, channel, published, wire>>
        /\ cancelling = NoOp
    BY <1>3, ReadsFrame DEF HandleInit, pubsub
  <2>2. CASE initialized
    BY <1>3, <2>1, <2>2, CloseKeeps DEF HandleInit, SubInv, TypeOK
  <2>3. CASE ~initialized
    <3>1. initialized' = TRUE /\ UNCHANGED <<closed, subscriptions, cancelled, writable>>
      BY <1>3, <2>3 DEF HandleInit
    <3>2. TypeOK'
      BY <2>1, <3>1 DEF SubInv, TypeOK
    <3> QED
      BY <2>1, <3>1, <3>2, NothingMoves
  <2> QED
    BY <2>2, <2>3
<1> QED
  BY <1>1, <1>2, <1>3

LEMMA AppendToFunction ==
  ASSUME NEW S, NEW k \in Nat, NEW f \in [1..k -> S], NEW x \in S
  PROVE  /\ Append(f, x) \in [1..k + 1 -> S]
         /\ Append(f, x)[k + 1] = x
         /\ \A i \in 1..k : Append(f, x)[i] = f[i]
<1>1. f \in Seq(S) /\ Len(f) = k
  BY SeqDef, LenProperties
<1>2. /\ Append(f, x) \in Seq(S) /\ Len(Append(f, x)) = k + 1
      /\ Append(f, x)[k + 1] = x
      /\ \A i \in 1..k : Append(f, x)[i] = f[i]
  BY <1>1, AppendProperties
<1>3. Append(f, x) \in [1..k + 1 -> S]
  BY <1>2, LenProperties
<1> QED
  BY <1>2, <1>3

(* The operation that is registered is new: whatever ran under its id was   *)
(* cancelled before, and everything heard under its id came earlier.        *)
LEMMA HandleSubscribeKeeps == ASSUME SubInv, HandleSubscribe PROVE SubInv'
<1> DEFINE f == Head(frames)
<1>5. created \in Nat
  BY Types
<1>6. PICK n \in Nat : n = created + 1
  BY <1>5
<1>1. /\ frames' \in Seq(Frames) /\ f \in Frames /\ f.type = "subscribe"
      /\ sent' = sent /\ cancelling = NoOp
      /\ UNCHANGED <<reading, cancelling, initialized, event, subscribers, channel, published,
                     wire>>
  BY ReadsFrame DEF HandleSubscribe, pubsub
<1>2. f.id \in Ids /\ f.filter \in Collections \union {Any}
  BY <1>1 DEF Frames
<1>3. CASE ~initialized \/ subscriptions[f.id] # NoOp
  <2>1. Close /\ UNCHANGED <<op, created, pc>>
    BY <1>3 DEF HandleSubscribe
  <2>2. reading' \in BOOLEAN /\ initialized' \in BOOLEAN
    BY <1>1 DEF SubInv, TypeOK
  <2> QED
    BY <1>1, <2>1, <2>2, CloseKeeps
<1>4. CASE ~(~initialized \/ subscriptions[f.id] # NoOp)
  <2> DEFINE r == [id |-> f.id, filter |-> f.filter, late |-> closed]
  <2>1. /\ created < MaxOps /\ created' = n
        /\ op' = Append(op, r)
        /\ subscriptions' = [subscriptions EXCEPT ![f.id] = n]
        /\ pc' = [pc EXCEPT ![n] = "starting"]
        /\ UNCHANGED <<closed, cancelled, writable>>
        /\ subscriptions[f.id] = NoOp
    BY <1>4, <1>6 DEF HandleSubscribe
  <2>2. /\ n \in Ops /\ n \in Nat \ {0} /\ n # NoOp
        /\ created \in Nat /\ 1..n = 1..created \union {n} /\ n \notin 1..created
    BY <1>5, <1>6, <2>1, SubscriptionsAssumption DEF Ops, NoOp
  <2>3. /\ op' \in [1..n -> [id: Ids, filter: Collections \union {Any}, late: BOOLEAN]]
        /\ op'[n] = r
        /\ \A m \in 1..created : op'[m] = op[m]
    <3>1. op \in [1..created -> [id: Ids, filter: Collections \union {Any}, late: BOOLEAN]]
      BY DEF SubInv, TypeOK
    <3>2. r \in [id: Ids, filter: Collections \union {Any}, late: BOOLEAN]
      BY <1>2 DEF SubInv, TypeOK
    <3> DEFINE Operations == [id: Ids, filter: Collections \union {Any}, late: BOOLEAN]
    <3>3. op \in [1..created -> Operations] /\ r \in Operations
      BY <3>1, <3>2
    <3> HIDE DEF r, Operations
    <3>4. /\ op' \in [1..n -> Operations]
          /\ op'[n] = r
          /\ \A m \in 1..created : op'[m] = op[m]
      <4>2. PICK x \in Operations : x = r
        BY <3>3
      <4>3. PICK k \in Nat : k = created
        BY <1>5
      <4>4. PICK g \in [1..k -> Operations] : g = op
        BY <3>3, <4>3
      <4>5. Append(g, x) \in [1..k + 1 -> Operations]
        BY AppendToFunction
      <4>6. Append(g, x)[k + 1] = x
        BY AppendToFunction
      <4>7. \A i \in 1..k : Append(g, x)[i] = g[i]
        BY AppendToFunction
      <4>1. /\ Append(op, r) \in [1..created + 1 -> Operations]
            /\ Append(op, r)[created + 1] = r
            /\ \A m \in 1..created : Append(op, r)[m] = op[m]
        BY <4>2, <4>3, <4>4, <4>5, <4>6, <4>7
      <4> QED
        BY <1>6, <2>1, <4>1
    <3> QED
      BY <3>4 DEF Operations
  <2>4. op'[n].id = f.id /\ op'[n].late = closed
    BY <2>3
  <2> HIDE DEF f, r
  <2>5. /\ subscriptions'[f.id] = n
        /\ \A i \in Ids : i # f.id => subscriptions'[i] = subscriptions[i]
        /\ subscriptions' \in [Ids -> Ops \union {NoOp}]
        /\ pc'[n] = "starting"
        /\ \A m \in Ops : m # n => pc'[m] = pc[m]
    BY <1>2, <2>1, <2>2 DEF SubInv, TypeOK
  <2>6. /\ \A m \in 1..created : op[m].id \in Ids
        /\ \A m \in 1..created : m \in Ops
        /\ \A m \in 1..created : m # n /\ m # NoOp /\ m \in Nat
    BY <2>2, Types DEF NoOp
  <2>7. TypeOK'
    <3>1. pc' \in [Ops -> {"none", "starting", "select", "execute", "unsubscribe", "finish",
                           "complete", "done"}]
      BY <2>1, <2>2 DEF SubInv, TypeOK
    <3>2. created' \in 0..MaxOps
      BY <1>5, <1>6, <2>1, SubscriptionsAssumption
    <3>3. op' \in [1..created' -> [id: Ids, filter: Collections \union {Any}, late: BOOLEAN]]
      BY <2>1, <2>3
    <3> QED
      BY <1>1, <2>1, <2>5, <3>1, <3>2, <3>3 DEF SubInv, TypeOK
  (* An old operation is registered after the step iff it was before. *)
  <2>8. \A m \in 1..created : Registered(m)' <=> Registered(m)
    BY <2>1, <2>3, <2>5, <2>6 DEF Registered
  <2>9. MapAgrees'
    <3>1. ASSUME NEW i \in Ids, subscriptions'[i] # NoOp
          PROVE  subscriptions'[i] \in 1..n /\ op'[subscriptions'[i]].id = i
      <4>1. CASE i = f.id
        BY <2>2, <2>4, <2>5, <4>1
      <4>2. CASE i # f.id
        <5>1. subscriptions[i] \in 1..created /\ op[subscriptions[i]].id = i
          BY <2>5, <3>1, <4>2 DEF SubInv, MapAgrees
        <5> QED
          BY <2>2, <2>3, <2>5, <4>2, <5>1
      <4> QED
        BY <4>1, <4>2
    <3>2. ASSUME NEW m \in Ops, cancelled'[m] PROVE m <= n /\ ~Registered(m)'
      <4>1. m <= created /\ ~Registered(m)
        BY <2>1, <3>2 DEF SubInv, MapAgrees
      <4>2. m \in 1..created
        BY <2>2, <4>1 DEF Ops
      <4> QED
        BY <2>2, <2>8, <4>1, <4>2
    <3>3. \A m \in Ops : m > n => pc'[m] = "none"
      BY <2>2, <2>5 DEF SubInv, MapAgrees, Ops
    <3>4. cancelling' = NoOp
      BY <1>1
    <3> QED
      BY <2>1, <3>1, <3>2, <3>3, <3>4 DEF MapAgrees
  <2>10. RunningIsReachable'
    <3>1. Registered(n)'
      BY <2>4, <2>5 DEF Registered
    <3>2. ASSUME NEW m \in 1..created, Running(m)'
          PROVE  \/ cancelled'[m] \/ cancelling' = m
                 \/ Registered(m)' /\ (closed' => op'[m].late)
      <4>1. Running(m)
        BY <2>5, <2>6, <3>2 DEF Running
      <4> QED
        BY <1>1, <2>1, <2>3, <2>8, <4>1 DEF SubInv, RunningIsReachable
    <3>3. closed' => op'[n].late
      BY <2>1, <2>4
    <3> QED
      BY <2>1, <2>2, <3>1, <3>2, <3>3 DEF RunningIsReachable
  <2>11. EndsUnheard'
    <3>1. ASSUME NEW m \in 1..created
          PROVE  /\ pc'[m] \in {"unsubscribe", "finish"} /\ Registered(m)' => ~writable'
                 /\ pc'[m] = "complete" => ~writable'
      BY <2>1, <2>5, <2>6, <2>8 DEF SubInv, EndsUnheard
    <3> QED
      BY <2>1, <2>2, <2>5, <3>1 DEF EndsUnheard
  <2>12. EventsInOrder'
    <3>1. \A m \in Ops : pc'[m] = "execute" => pc[m] = "execute"
      BY <2>2, <2>5
    <3> QED
      BY <1>1, <3>1, EventsKept
  <2>13. SentBefore'
    <3>1. ASSUME NEW m \in 1..created, NEW t, NEW c, Heard(m, t, c) PROVE Heard(m, t, c)'
      <4>1. Running(m)' <=> Running(m)
        BY <2>5, <2>6 DEF Running
      <4>2. \A k \in 1..n : Registered(k)' /\ op'[k].id = op'[m].id => m <= k
        BY <2>2, <2>3, <2>6, <2>8, <3>1 DEF Heard
      <4>3. m <= created'
        BY <2>1, <2>2
      <4>4. pc'[m] = pc[m]
        BY <2>5, <2>6
      <4> QED
        BY <1>1, <2>1, <3>1, <4>1, <4>2, <4>3, <4>4 DEF Heard
    <3> QED
      BY <1>1, <2>3, <3>1, SentKept
  <2>14. StreamsAreClean'
    BY <1>1, CleanKept
  <2>15. RefusedBefore'
    <3>1. ASSUME NEW j, NEW m \in 0..created, Refused(j, m) PROVE Refused(j, m)'
      <4>1. \A k \in 1..created : Registered(k)' /\ op'[k].id = j => m < k
        BY <2>3, <2>8, <3>1 DEF Refused
      <4>2. m <= created' /\ m < n
        BY <1>5, <1>6, <2>1
      <4> QED
        BY <2>1, <2>2, <4>1, <4>2 DEF Refused
    <3>2. ASSUME NEW k \in DOMAIN wire, wire[k].type = "refused"
          PROVE  Refused(wire[k].id, wire[k].op)'
      <4>1. PICK j, m : j = wire[k].id /\ m = wire[k].op
        OBVIOUS
      <4>2. Refused(j, m) /\ m \in 0..created
        BY <3>2, <4>1, Types DEF SubInv, RefusedBefore
      <4>3. Refused(j, m)'
        BY <3>1, <4>2
      <4> QED
        BY <1>1, <4>1, <4>3
    <3> QED
      BY <1>1, <3>2 DEF RefusedBefore
  <2> QED
    BY <2>7, <2>9, <2>10, <2>11, <2>12, <2>13, <2>14, <2>15 DEF SubInv
<1> QED
  BY <1>3, <1>4

(* The operation that leaves the map is the one the reader will cancel. *)
LEMMA HandleCompleteKeeps == ASSUME SubInv, HandleComplete PROVE SubInv'
<1>1. PICK i \in Ids : i = Head(frames).id
  <2>1. Head(frames) \in Frames /\ Head(frames).type = "complete"
    BY ReadsFrame DEF HandleComplete
  <2> QED
    BY <2>1 DEF Frames
<1>2. /\ frames' \in Seq(Frames) /\ sent' = sent /\ cancelling = NoOp
      /\ cancelling' = subscriptions[i]
      /\ subscriptions' = [subscriptions EXCEPT ![i] = NoOp]
      /\ UNCHANGED <<writable, reading, initialized, closed, op, created, pc, cancelled, event,
                     subscribers, channel, published, wire>>
  BY <1>1, ReadsFrame DEF HandleComplete, goroutines, pubsub
<1>3. TypeOK'
  <2>1. subscriptions' \in [Ids -> Ops \union {NoOp}] /\ cancelling' \in Ops \union {NoOp}
    BY <1>2 DEF SubInv, TypeOK
  <2> QED
    BY <1>2, <2>1 DEF SubInv, TypeOK
<1>4. subscriptions'[i] = NoOp /\ \A j \in Ids : j # i => subscriptions'[j] = subscriptions[j]
  BY <1>2 DEF SubInv, TypeOK
<1>5. \A m \in 1..created : m # NoOp /\ m \in Ops /\ op[m].id \in Ids
  BY Types DEF NoOp
<1>6. \A m \in 1..created : Registered(m)' => Registered(m)
  BY <1>2, <1>4, <1>5 DEF Registered
<1>7. MapAgrees'
  <2>1. ASSUME NEW j \in Ids, subscriptions'[j] # NoOp
        PROVE  subscriptions'[j] \in 1..created /\ op[subscriptions'[j]].id = j
    BY <1>4, <2>1 DEF SubInv, MapAgrees
  <2>2. ASSUME NEW m \in Ops, cancelled[m] PROVE m <= created /\ ~Registered(m)'
    BY <1>6, <2>2, Types DEF SubInv, MapAgrees, Ops
  <2>3. ASSUME subscriptions[i] # NoOp
        PROVE  cancelling' <= created /\ ~Registered(cancelling)'
    <3>1. subscriptions[i] \in 1..created /\ op[subscriptions[i]].id = i
      BY <2>3 DEF SubInv, MapAgrees
    <3> QED
      BY <1>2, <1>4, <2>3, <3>1, Types DEF Registered
  <2> QED
    BY <1>2, <2>1, <2>2, <2>3 DEF MapAgrees, SubInv
<1>8. RunningIsReachable'
  <2>1. ASSUME NEW m \in 1..created, Running(m)'
        PROVE  \/ cancelled[m] \/ cancelling' = m
               \/ Registered(m)' /\ (closed => op[m].late)
    <3>1. cancelled[m] \/ (Registered(m) /\ (closed => op[m].late))
      BY <1>2, <1>5, <2>1 DEF SubInv, RunningIsReachable, Running
    <3> QED
      BY <1>2, <1>4, <1>5, <3>1 DEF Registered
  <2> QED
    BY <1>2, <2>1 DEF RunningIsReachable
<1>9. \A j \in Ids : subscriptions'[j] \in {subscriptions[j], NoOp}
  BY <1>4
<1>10. EndsUnheard' /\ EventsInOrder' /\ StreamsAreClean' /\ RefusedBefore'
  BY <1>2, <1>9, EndsKept, EventsKept, CleanKept, RefusalsKept
<1>11. SentBefore'
  <2>1. \A m \in Ops : (Running(m)' => Running(m)) /\ (pc'[m] = "execute" => pc[m] = "execute")
    BY <1>2 DEF Running
  <2>2. \A m \in 1..created : \A t, c : Heard(m, t, c) => Heard(m, t, c)'
    BY <1>2, <1>9, <2>1, HeardKept
  <2> QED
    BY <1>2, <2>2, SentKept
<1> QED
  BY <1>3, <1>7, <1>8, <1>10, <1>11 DEF SubInv

LEMMA CancelKeeps == ASSUME SubInv, Cancel PROVE SubInv'
<1>1. PICK x \in Ops : x = cancelling
  BY DEF Cancel, SubInv, TypeOK
<1>2. /\ cancelling # NoOp
      /\ cancelled' = [cancelled EXCEPT ![x] = TRUE]
      /\ cancelling' = NoOp
      /\ UNCHANGED <<frames, sent, writable, reading, initialized, closed, subscriptions, op,
                     created, pc, event, subscribers, channel, published, wire>>
  BY <1>1 DEF Cancel, pubsub
<1>3. cancelled' \in [Ops -> BOOLEAN]
  BY <1>2 DEF SubInv, TypeOK
<1>4. TypeOK'
  BY <1>2, <1>3 DEF SubInv, TypeOK
<1>5. x <= created /\ ~Registered(x)
  BY <1>1, <1>2 DEF SubInv, MapAgrees
<1>6. \A m \in Ops : cancelled'[m] <=> cancelled[m] \/ m = x
  BY <1>2 DEF SubInv, TypeOK
<1>7. \A m : Registered(m)' <=> Registered(m)
  BY <1>2 DEF Registered
<1>8. MapAgrees'
  BY <1>2, <1>5, <1>6, <1>7 DEF SubInv, MapAgrees
<1>9. RunningIsReachable'
  <2>1. ASSUME NEW m \in 1..created, Running(m)'
        PROVE  cancelled'[m] \/ (Registered(m)' /\ (closed => op[m].late))
    <3>1. m \in Ops /\ Running(m)
      BY <1>2, <2>1, Types DEF Running
    <3> QED
      BY <1>1, <1>6, <1>7, <3>1 DEF SubInv, RunningIsReachable
  <2> QED
    BY <1>2, <2>1 DEF RunningIsReachable
<1>10. EndsUnheard' /\ EventsInOrder' /\ StreamsAreClean' /\ RefusedBefore'
  BY <1>2, EndsKept, EventsKept, CleanKept, RefusalsKept
<1>11. SentBefore'
  <2>1. \A m \in 1..created : \A t, c : Heard(m, t, c) => Heard(m, t, c)'
    BY <1>2 DEF Heard, Running, Registered
  <2> QED
    BY <1>2, <2>1, SentKept
<1> QED
  BY <1>4, <1>8, <1>9, <1>10, <1>11 DEF SubInv

-----------------------------------------------------------------------------
(* The goroutines. *)

States == {"none", "starting", "select", "execute", "unsubscribe", "finish", "complete", "done"}

LEMMA HasStarted ==
  ASSUME SubInv, NEW n \in Ops, pc[n] # "none"
  PROVE  n \in 1..created /\ op[n].id \in Ids
  BY Types DEF SubInv, MapAgrees, Ops

LEMMA GoesToFacts ==
  ASSUME SubInv, NEW n \in Ops, NEW next \in States, GoesTo(n, next)
  PROVE  /\ pc' \in [Ops -> States]
         /\ pc'[n] = next
         /\ \A m \in Ops : m # n => pc'[m] = pc[m]
  BY DEF GoesTo, SubInv, TypeOK, States

(* A step after which the goroutine is heard no more than before. *)
LEMMA QuietStep ==
  ASSUME SubInv, TypeOK', NEW n \in Ops, NEW next \in States \ {"none", "execute"},
         GoesTo(n, next), pc[n] # "none",
         UNCHANGED <<writable, cancelling, closed, subscriptions, created, op, cancelled, event,
                     published, wire>>,
         channel' = channel \/ channel' = [channel EXCEPT ![n] = <<>>],
         next = "select" => Running(n),
         next # "starting",
         next \in {"unsubscribe", "finish"} /\ Registered(n) =>
           pc[n] \in {"unsubscribe", "finish"} \/ ~writable,
         next = "complete" => ~writable
  PROVE  SubInv'
<1>1. /\ n \in 1..created /\ pc'[n] = next
      /\ \A m \in Ops : m # n => pc'[m] = pc[m]
  BY HasStarted, GoesToFacts
<1>2. \A m \in Ops : (Running(m)' => Running(m)) /\ (pc'[m] = "execute" => pc[m] = "execute")
  BY <1>1 DEF Running, States
<1>3. \A m \in 1..created : m \in Ops
  BY Types
<1>4. MapAgrees'
  <2>1. \A m \in Ops : m > created => pc'[m] = pc[m]
    BY <1>1, Types
  <2> QED
    BY <2>1, MapKept
<1>5. RunningIsReachable'
  BY <1>2, <1>3, ReachKept
<1>6. EndsUnheard'
  <2>1. \A m : Registered(m)' <=> Registered(m)
    BY DEF Registered
  <2>2. \A m \in 1..created :
          /\ pc'[m] \in {"unsubscribe", "finish"} /\ Registered(m)' =>
               pc[m] \in {"unsubscribe", "finish"} \/ ~writable
          /\ pc'[m] = "complete" => pc[m] = "complete" \/ ~writable
    BY <1>1, <1>3, <2>1
  <2>3. \A i \in Ids : subscriptions'[i] \in {subscriptions[i], NoOp}
    OBVIOUS
  <2> QED
    BY <2>2, <2>3, EndsKept
<1>7. \A m \in Ops : channel'[m] = channel[m] \/ channel'[m] = <<>>
  BY DEF SubInv, TypeOK
<1>8. EventsInOrder'
  BY <1>2, <1>7 DEF SubInv, EventsInOrder
<1>9. SentBefore'
  <2>1. ASSUME NEW m \in 1..created, NEW t, NEW c, Heard(m, t, c) PROVE Heard(m, t, c)'
    BY <1>2, <1>3, <1>7, <2>1 DEF Heard, Registered
  <2> QED
    BY <2>1, SentKept
<1>10. StreamsAreClean' /\ RefusedBefore'
  BY CleanKept, RefusalsKept
<1> QED
  BY <1>4, <1>5, <1>6, <1>8, <1>9, <1>10 DEF SubInv

(* The types of a step of one goroutine. *)
LEMMA OperationTypes ==
  ASSUME SubInv, pc' \in [Ops -> States],
         subscriptions' \in [Ids -> Ops \union {NoOp}], cancelled' \in [Ops -> BOOLEAN],
         event' \in [Ops -> PublishedEvents \union {NoEvent}], subscribers' \subseteq Ops,
         channel' \in [Ops -> Seq(PublishedEvents)], \A n \in Ops : Len(channel'[n]) <= Buffer,
         wire' \in Seq(Messages),
         UNCHANGED <<frames, sent, writable, reading, cancelling, initialized, closed, op, created,
                     published>>
  PROVE  TypeOK'
  BY DEF SubInv, TypeOK, States

LEMMA QuietTypes ==
  ASSUME SubInv, NEW n \in Ops, NEW next \in States, GoesTo(n, next),
         UNCHANGED <<frames, sent, writable, client, op, created, cancelled, event, published,
                     wire>>,
         \/ UNCHANGED <<subscribers, channel>>
         \/ subscribers' = subscribers \union {n} /\ channel' = channel
         \/ subscribers' = subscribers \ {n} /\ channel' = [channel EXCEPT ![n] = <<>>]
  PROVE  TypeOK'
<1>1. pc' \in [Ops -> States]
  BY GoesToFacts
<1>2. /\ channel' \in [Ops -> Seq(PublishedEvents)]
      /\ \A m \in Ops : Len(channel'[m]) <= Buffer
      /\ subscribers' \subseteq Ops
  <2>1. /\ channel \in [Ops -> Seq(PublishedEvents)]
        /\ \A m \in Ops : Len(channel[m]) <= Buffer
        /\ subscribers \subseteq Ops
    BY DEF SubInv, TypeOK
  <2>2. CASE channel' = channel
    BY <2>1, <2>2
  <2>3. CASE subscribers' = subscribers \ {n} /\ channel' = [channel EXCEPT ![n] = <<>>]
    <3>1. \A m \in Ops : channel'[m] = channel[m] \/ channel'[m] = <<>>
      BY <2>1, <2>3
    <3>2. channel' \in [Ops -> Seq(PublishedEvents)]
      BY <2>1, <2>3
    <3> QED
      BY <2>1, <2>3, <3>1, <3>2, SubscriptionsAssumption
  <2> QED
    BY <2>2, <2>3
<1> QED
  BY <1>1, <1>2, OperationTypes DEF client, SubInv, TypeOK

LEMMA QuietKeeps ==
  ASSUME SubInv, NEW n \in Ops,
         \/ Subscribe(n) \/ ContextDone(n) \/ ResultEmpty(n) \/ Unsubscribe(n) \/ SendComplete(n)
  PROVE  SubInv'
<1> USE DEF States, client, pubsub
<1>1. CASE Subscribe(n)
  <2>1. TypeOK'
    BY <1>1, QuietTypes DEF Subscribe
  <2> QED
    BY <1>1, <2>1, QuietStep DEF Subscribe, Running
<1>2. CASE ContextDone(n)
  <2>1. TypeOK'
    BY <1>2, QuietTypes DEF ContextDone
  <2>2. ~Registered(n)
    BY <1>2 DEF ContextDone, SubInv, MapAgrees
  <2> QED
    BY <1>2, <2>1, <2>2, QuietStep DEF ContextDone
<1>3. CASE ResultEmpty(n)
  <2>1. TypeOK'
    BY <1>3, QuietTypes DEF ResultEmpty
  <2> QED
    BY <1>3, <2>1, QuietStep DEF ResultEmpty, Running
<1>4. CASE Unsubscribe(n)
  <2>1. TypeOK'
    BY <1>4, QuietTypes DEF Unsubscribe
  <2> QED
    BY <1>4, <2>1, QuietStep DEF Unsubscribe
<1>5. CASE SendComplete(n)
  <2>1. n \in 1..created /\ pc[n] = "complete"
    BY <1>5, HasStarted DEF SendComplete
  <2>2. ~writable
    BY <2>1 DEF SubInv, EndsUnheard
  <2>3. wire' = wire
    BY <1>5, <2>2 DEF SendComplete, Writes
  <2>4. TypeOK'
    BY <1>5, <2>3, QuietTypes DEF SendComplete, goroutines
  <2> QED
    BY <1>5, <2>1, <2>3, <2>4, QuietStep DEF SendComplete
<1> QED
  BY <1>1, <1>2, <1>3, <1>4, <1>5

(* The oldest event in the buffer is newer than all that was sent. *)
LEMMA ReceiveEventKeeps == ASSUME SubInv, NEW n \in Ops, ReceiveEvent(n) PROVE SubInv'
<1> DEFINE old == channel[n]
<1>1. /\ pc[n] = "select" /\ old # <<>>
      /\ event' = [event EXCEPT ![n] = Head(old)]
      /\ channel' = [channel EXCEPT ![n] = Tail(old)]
      /\ GoesTo(n, "execute")
      /\ UNCHANGED <<frames, sent, writable, reading, cancelling, initialized, closed,
                     subscriptions, op, created, cancelled, subscribers, published, wire>>
  BY DEF ReceiveEvent, client
<1>2. old \in Seq(PublishedEvents) /\ Len(old) <= Buffer
  BY DEF SubInv, TypeOK
<1>3. /\ event'[n] = Head(old) /\ channel'[n] = Tail(old)
      /\ \A m \in Ops : m # n => event'[m] = event[m] /\ channel'[m] = channel[m]
  BY <1>1 DEF SubInv, TypeOK
<1>4. /\ pc' \in [Ops -> States] /\ pc'[n] = "execute"
      /\ \A m \in Ops : m # n => pc'[m] = pc[m]
  BY <1>1, GoesToFacts DEF States
<1>5. n \in 1..created /\ \A m \in 1..created : m \in Ops
  BY <1>1, HasStarted, Types
<1>6. /\ \A i \in DOMAIN old : old[i] <= published
      /\ \A i, j \in DOMAIN old : i < j => old[i] < old[j]
  BY DEF SubInv, EventsInOrder
<1> HIDE DEF old
<1>7. /\ Head(old) = old[1] /\ 1 \in DOMAIN old /\ Head(old) \in PublishedEvents
      /\ Tail(old) \in Seq(PublishedEvents) /\ Len(Tail(old)) <= Buffer
      /\ \A i \in DOMAIN Tail(old) :
           i + 1 \in DOMAIN old /\ Tail(old)[i] = old[i + 1] /\ i \in Nat \ {0}
  BY <1>1, <1>2, SubscriptionsAssumption
<1>8. TypeOK'
  <2>1. event' \in [Ops -> PublishedEvents \union {NoEvent}]
    BY <1>1, <1>7 DEF SubInv, TypeOK
  <2>2. channel' \in [Ops -> Seq(PublishedEvents)] /\ \A m \in Ops : Len(channel'[m]) <= Buffer
    BY <1>1, <1>3, <1>7 DEF SubInv, TypeOK
  <2> QED
    BY <1>1, <1>4, <2>1, <2>2, OperationTypes DEF SubInv, TypeOK
<1>9. \A m \in Ops : Running(m)' <=> Running(m)
  BY <1>1, <1>4 DEF Running
<1>10. MapAgrees' /\ RunningIsReachable' /\ StreamsAreClean' /\ RefusedBefore'
  <2>1. \A m \in Ops : m > created => pc'[m] = pc[m]
    <3>1. n <= created
      BY <1>5, Types
    <3> QED
      BY <1>4, <3>1, Types, SubscriptionsAssumption DEF Ops
  <2> QED
    BY <1>1, <1>5, <1>9, <2>1, MapKept, ReachKept, CleanKept, RefusalsKept
<1>11. EndsUnheard'
  <2>1. \A m \in 1..created :
          /\ pc'[m] \in {"unsubscribe", "finish"} => pc[m] \in {"unsubscribe", "finish"}
          /\ pc'[m] = "complete" => pc[m] = "complete"
    BY <1>4, <1>5
  <2> QED
    BY <1>1, <2>1, EndsKept
<1>12. EventsInOrder'
  <2>1. ASSUME NEW i \in DOMAIN Tail(old)
        PROVE  /\ Tail(old)[i] <= published
               /\ Head(old) < Tail(old)[i]
               /\ \A j \in DOMAIN Tail(old) : i < j => Tail(old)[i] < Tail(old)[j]
    BY <1>6, <1>7
  <2>2. Head(old) <= published
    BY <1>6, <1>7
  <2>3. ASSUME NEW m \in Ops
        PROVE  /\ event'[m] <= published
               /\ \A i \in DOMAIN channel'[m] :
                    /\ channel'[m][i] <= published
                    /\ pc'[m] = "execute" => event'[m] < channel'[m][i]
                    /\ \A j \in DOMAIN channel'[m] : i < j => channel'[m][i] < channel'[m][j]
    <3>1. CASE m = n
      BY <1>3, <2>1, <2>2, <3>1
    <3>2. CASE m # n
      BY <1>3, <1>4, <3>2 DEF SubInv, EventsInOrder
    <3> QED
      BY <3>1, <3>2
  <2> QED
    BY <1>1, <2>3 DEF EventsInOrder
<1>13. SentBefore'
  <2>1. ASSUME NEW m \in 1..created, NEW t, NEW c, Heard(m, t, c) PROVE Heard(m, t, c)'
    <3>1. /\ pc'[m] = "execute" => c < event'[m]
          /\ \A i \in DOMAIN channel'[m] : c < channel'[m][i]
      <4>1. CASE m = n
        BY <1>3, <1>7, <2>1, <4>1 DEF Heard, old
      <4>2. CASE m # n
        BY <1>3, <1>4, <1>5, <2>1, <4>2 DEF Heard
      <4> QED
        BY <4>1, <4>2
    <3>2. \A k \in 1..created : Registered(k)' <=> Registered(k)
      BY <1>1 DEF Registered
    <3> QED
      BY <1>1, <1>5, <1>9, <2>1, <3>1, <3>2 DEF Heard
  <2> QED
    BY <1>1, <2>1, SentKept
<1> QED
  BY <1>8, <1>10, <1>11, <1>12, <1>13 DEF SubInv

(* A message that fits behind all that was written under its id. *)
LEMMA CleanAppended ==
  ASSUME SubInv, NEW x \in Messages, wire' = Append(wire, x),
         \A i \in DOMAIN wire : wire[i].id = x.id =>
           \/ wire[i].op < x.op
           \/ wire[i].op = x.op /\ x.type = "refused"
           \/ wire[i].op = x.op /\ wire[i].type = "next" /\ wire[i].n < x.n
  PROVE  StreamsAreClean' /\ wire' \in Seq(Messages)
<1>1. /\ wire' \in Seq(Messages) /\ DOMAIN wire' = 1..Len(wire) + 1
      /\ \A k \in 1..Len(wire) : wire'[k] = wire[k]
      /\ wire'[Len(wire) + 1] = x
      /\ Len(wire) \in Nat /\ DOMAIN wire = 1..Len(wire)
  BY Types
<1>2. ASSUME NEW i \in DOMAIN wire', NEW j \in DOMAIN wire', i < j, wire'[i].id = wire'[j].id
      PROVE  \/ wire'[i].op < wire'[j].op
             \/ wire'[i].op = wire'[j].op /\ wire'[j].type = "refused"
             \/ wire'[i].op = wire'[j].op /\ wire'[i].type = "next" /\ wire'[i].n < wire'[j].n
  <2>1. i \in 1..Len(wire)
    BY <1>1, <1>2
  <2>2. CASE j \in 1..Len(wire)
    BY <1>1, <1>2, <2>1, <2>2 DEF SubInv, StreamsAreClean
  <2>3. CASE j = Len(wire) + 1
    BY <1>1, <1>2, <2>1, <2>3
  <2> QED
    BY <1>1, <2>2, <2>3
<1> QED
  BY <1>1, <1>2 DEF StreamsAreClean

(* So does a message of a registered operation that is resolving an event. *)
LEMMA SendIsClean ==
  ASSUME SubInv, NEW n \in 1..created, NEW t \in {"next", "error"},
         pc[n] = "execute", Registered(n),
         wire' = Append(wire, [id |-> op[n].id, op |-> n, n |-> event[n], type |-> t])
  PROVE  StreamsAreClean' /\ wire' \in Seq(Messages)
<1>1. PICK x : x = [id |-> op[n].id, op |-> n, n |-> event[n], type |-> t]
  OBVIOUS
<1>2. x.id = op[n].id /\ x.op = n /\ x.type = t /\ x.n = event[n]
  BY <1>1
<1>3. x \in Messages
  <2>1. event[n] \in PublishedEvents \union {NoEvent} /\ n \in Ops /\ op[n].id \in Ids
    BY Types DEF SubInv, TypeOK
  <2>2. event[n] \in 0..MaxEvents
    BY <2>1, SubscriptionsAssumption DEF PublishedEvents, NoEvent
  <2>3. n \in 0..MaxOps
    BY <2>1, SubscriptionsAssumption DEF Ops
  <2> QED
    BY <1>1, <2>1, <2>2, <2>3 DEF Messages
<1>4. ASSUME NEW i \in DOMAIN wire, wire[i].id = op[n].id
      PROVE  \/ wire[i].op < n
             \/ wire[i].op = n /\ wire[i].type = "next" /\ wire[i].n < event[n]
  <2>1. CASE wire[i].type = "refused"
    BY <1>4, <2>1 DEF SubInv, RefusedBefore, Refused
  <2>2. CASE wire[i].type # "refused"
    <3>1. /\ Heard(wire[i].op, wire[i].type, wire[i].n) /\ wire[i].op \in 1..created
          /\ op[wire[i].op].id = op[n].id
      BY <1>4, <2>2, Types DEF SubInv, SentBefore
    <3>2. wire[i].op <= n
      BY <3>1 DEF Heard
    <3>3. Running(n)
      BY DEF Running
    <3> QED
      BY <3>1, <3>2, <3>3, Types DEF Heard
  <2> QED
    BY <2>1, <2>2
<1> QED
  BY <1>1, <1>2, <1>3, <1>4, CleanAppended

LEMMA SentAppended ==
  ASSUME SubInv, NEW i, NEW n, NEW t, NEW c,
         wire' = Append(wire, [id |-> i, op |-> n, n |-> c, type |-> t]),
         UNCHANGED <<created, op>>,
         \A j \in Ids : subscriptions'[j] \in {subscriptions[j], NoOp},
         \A m \in 1..created : \A u, d : Heard(m, u, d) => Heard(m, u, d)',
         t = "refused" => Refused(i, n)',
         t # "refused" => n \in Ops /\ i = op[n].id /\ Heard(n, t, c)'
  PROVE  SentBefore' /\ RefusedBefore'
<1>1. PICK x : x = [id |-> i, op |-> n, n |-> c, type |-> t]
  OBVIOUS
<1>2. x.id = i /\ x.op = n /\ x.type = t /\ x.n = c /\ wire' = Append(wire, x)
  BY <1>1
<1>3. /\ DOMAIN wire' = 1..Len(wire) + 1
      /\ \A k \in 1..Len(wire) : wire'[k] = wire[k]
      /\ wire'[Len(wire) + 1] = x
      /\ Len(wire) \in Nat /\ DOMAIN wire = 1..Len(wire)
  BY <1>2, Types
<1>4. ASSUME NEW k \in DOMAIN wire', wire'[k].type # "refused"
      PROVE  /\ wire'[k].op \in Ops /\ wire'[k].id = op[wire'[k].op].id
             /\ Heard(wire[k].op, wire[k].type, wire[k].n)'
  <2>1. PICK m, u, d : m = wire'[k].op /\ u = wire'[k].type /\ d = wire'[k].n
    OBVIOUS
  <2>2. Heard(m, u, d)' /\ m \in Ops /\ wire'[k].id = op[m].id
    <3>1. CASE k \in 1..Len(wire)
      <4>1. Heard(m, u, d) /\ m \in 1..created /\ m \in Ops /\ wire'[k].id = op[m].id
        BY <1>3, <1>4, <2>1, <3>1, Types DEF SubInv, SentBefore
      <4> QED
        BY <4>1
    <3>2. CASE k = Len(wire) + 1
      <4>1. m = n /\ u = t /\ d = c /\ wire'[k].id = i /\ t # "refused"
        BY <1>2, <1>3, <1>4, <2>1, <3>2
      <4> QED
        BY <4>1
    <3> QED
      BY <1>3, <3>1, <3>2
  <2> QED
    BY <2>1, <2>2
<1>5. ASSUME NEW k \in DOMAIN wire', wire'[k].type = "refused"
      PROVE  Refused(wire[k].id, wire[k].op)'
  <2>1. PICK j, m : j = wire'[k].id /\ m = wire'[k].op
    OBVIOUS
  <2>2. Refused(j, m)'
    <3>1. CASE k \in 1..Len(wire)
      <4>1. Refused(j, m)
        BY <1>3, <1>5, <2>1, <3>1 DEF SubInv, RefusedBefore
      <4> QED
        BY <4>1, RefusedKept
    <3>2. CASE k = Len(wire) + 1
      <4>1. j = i /\ m = n /\ t = "refused"
        BY <1>2, <1>3, <1>5, <2>1, <3>2
      <4> QED
        BY <4>1
    <3> QED
      BY <1>3, <3>1, <3>2
  <2> QED
    BY <2>1, <2>2
<1>6. SentBefore'
  BY <1>4 DEF SentBefore
<1>7. RefusedBefore'
  BY <1>5 DEF RefusedBefore
<1> QED
  BY <1>6, <1>7

(* A refusal comes when nothing is registered under the id. *)
LEMMA RefuseSubscribeKeeps == ASSUME SubInv, RefuseSubscribe PROVE SubInv'
<1>1. /\ frames' \in Seq(Frames) /\ Head(frames) \in Frames /\ Head(frames).type = "badSubscribe"
      /\ sent' = sent /\ cancelling = NoOp
      /\ UNCHANGED <<reading, cancelling, initialized, op, created, pc, event, subscribers,
                     channel, published>>
  BY ReadsFrame DEF RefuseSubscribe, pubsub
<1>2. PICK i \in Ids \union {NoId} : i = Head(frames).id
  BY <1>1 DEF Frames
<1>3. CASE ~initialized \/ (i \in Ids /\ subscriptions[i] # NoOp)
  <2>1. Close /\ wire' = wire
    BY <1>2, <1>3 DEF RefuseSubscribe
  <2>2. reading' \in BOOLEAN /\ initialized' \in BOOLEAN
    BY <1>1 DEF SubInv, TypeOK
  <2> QED
    BY <1>1, <2>1, <2>2, CloseKeeps
<1>4. CASE ~(~initialized \/ (i \in Ids /\ subscriptions[i] # NoOp))
  <2>1. Refuses(i) /\ UNCHANGED <<closed, subscriptions, cancelled, writable>>
    BY <1>2, <1>4 DEF RefuseSubscribe
  <2>2. wire' \in Seq(Messages) => TypeOK'
    BY <1>1, <2>1 DEF SubInv, TypeOK
  <2>3. CASE ~writable
    <3>1. wire' = wire
      BY <2>1, <2>3 DEF Refuses
    <3>2. TypeOK'
      BY <2>2, <3>1, Types
    <3> QED
      BY <1>1, <2>1, <3>1, <3>2, NothingMoves
  <2>4. CASE writable
    <3>1. wire' = Append(wire, [id |-> i, op |-> created, n |-> 0, type |-> "refused"])
      BY <2>1, <2>4 DEF Refuses
    <3>2. PICK x : x = [id |-> i, op |-> created, n |-> 0, type |-> "refused"]
      OBVIOUS
    <3>3. x \in Messages /\ x.op = created /\ x.type = "refused"
      <4>1. created \in 0..MaxOps /\ 0 \in 0..MaxEvents
        BY SubscriptionsAssumption DEF SubInv, TypeOK
      <4> QED
        BY <3>2, <4>1 DEF Messages
    <3>4. \A k \in DOMAIN wire : wire[k].op < created \/ wire[k].op = created
      BY Types
    <3>5. StreamsAreClean' /\ wire' \in Seq(Messages)
      BY <3>1, <3>2, <3>3, <3>4, CleanAppended
    <3>6. Refused(i, created)'
      <4>1. ASSUME NEW n \in 1..created, Registered(n)', op'[n].id = i PROVE FALSE
        <5>1. op[n].id = i /\ op[n].id \in Ids /\ n # NoOp /\ subscriptions[i] = n
          BY <1>1, <2>1, <4>1, Types DEF Registered, NoOp
        <5> QED
          BY <1>4, <5>1
      <4>2. created <= created'
        BY <1>1, Types
      <4> QED
        BY <1>1, <4>1, <4>2 DEF Refused
    <3>7. \A m \in 1..created : \A u, d : Heard(m, u, d) => Heard(m, u, d)'
      BY <1>1, <2>1 DEF Heard, Running, Registered
    <3>8. SentBefore' /\ RefusedBefore'
      BY <1>1, <2>1, <3>1, <3>6, <3>7, SentAppended
    <3>9. \A m \in 1..created : Running(m)' => Running(m)
      BY <1>1 DEF Running
    <3>10. MapAgrees' /\ RunningIsReachable' /\ EventsInOrder' /\ EndsUnheard'
      BY <1>1, <2>1, <3>9, MapKept, ReachKept, EventsKept, EndsKept
    <3> QED
      BY <2>2, <3>5, <3>8, <3>10 DEF SubInv
  <2> QED
    BY <2>3, <2>4
<1> QED
  BY <1>3, <1>4

(* At most one operation is registered under an id. *)
LEMMA OneRegistered ==
  ASSUME NEW n, NEW m, Registered(n), Registered(m), op[m].id = op[n].id
  PROVE  m = n
  BY DEF Registered

LEMMA ResultNextKeeps == ASSUME SubInv, NEW n \in Ops, ResultNext(n) PROVE SubInv'
<1>1. /\ pc[n] = "execute"
      /\ UNCHANGED <<frames, sent, writable, reading, cancelling, initialized, closed,
                     subscriptions, op, created, cancelled, event, subscribers, channel,
                     published>>
  BY DEF ResultNext, client, pubsub
<1>2. n \in 1..created /\ \A m \in 1..created : m \in Ops
  BY <1>1, HasStarted, Types
<1>3. CASE ~(Registered(n) /\ writable)
  <2>1. GoesTo(n, "unsubscribe") /\ wire' = wire
    BY <1>3 DEF ResultNext
  <2>2. TypeOK'
    BY <1>1, <2>1, QuietTypes DEF States, client
  <2> QED
    BY <1>1, <1>3, <2>1, <2>2, QuietStep DEF States
<1>4. CASE Registered(n) /\ writable
  <2>1. PICK c : c = event[n]
    OBVIOUS
  <2>2. GoesTo(n, "select") /\ wire' = Append(wire, [id |-> op[n].id, op |-> n, n |-> c, type |-> "next"])
    BY <1>4, <2>1 DEF ResultNext, Writes
  <2>3. /\ pc' \in [Ops -> States] /\ pc'[n] = "select"
        /\ \A m \in Ops : m # n => pc'[m] = pc[m]
    BY <2>2, GoesToFacts DEF States
  <2>4. StreamsAreClean' /\ wire' \in Seq(Messages)
    BY <1>1, <1>2, <1>4, <2>1, <2>2, SendIsClean
  <2>5. TypeOK'
    BY <1>1, <2>3, <2>4, OperationTypes DEF SubInv, TypeOK
  <2>6. \A m \in Ops : (Running(m)' <=> Running(m)) /\ (pc'[m] = "execute" => pc[m] = "execute")
    BY <1>1, <2>3 DEF Running
  <2>7. MapAgrees' /\ RunningIsReachable' /\ EventsInOrder'
    <3>1. \A m \in Ops : m > created => pc'[m] = pc[m]
      <4>1. n <= created
        BY <1>2, Types
      <4> QED
        BY <2>3, <4>1, Types, SubscriptionsAssumption DEF Ops
    <3> QED
      BY <1>1, <1>2, <2>6, <3>1, MapKept, ReachKept, EventsKept
  <2>8. EndsUnheard'
    <3>1. \A m \in 1..created :
            /\ pc'[m] \in {"unsubscribe", "finish"} => pc[m] \in {"unsubscribe", "finish"}
            /\ pc'[m] = "complete" => pc[m] = "complete"
      BY <1>2, <2>3
    <3> QED
      BY <1>1, <3>1, EndsKept
  <2>9. SentBefore' /\ RefusedBefore'
    <3>1. \A m \in 1..created : \A u, d : Heard(m, u, d) => Heard(m, u, d)'
      BY <1>1, <2>6, HeardKept
    <3>2. \A m : Registered(m)' <=> Registered(m)
      BY <1>1 DEF Registered
    <3>3. Heard(n, "next", c)'
      <4>1. n <= created /\ c <= published /\ \A i \in DOMAIN channel[n] : c < channel[n][i]
        BY <1>1, <1>2, <2>1, Types DEF SubInv, EventsInOrder
      <4>2. \A m \in 1..created : Registered(m) /\ op[m].id = op[n].id => n <= m
        BY <1>2, <1>4, OneRegistered, Types
      <4> QED
        BY <1>1, <2>3, <3>2, <4>1, <4>2 DEF Heard
    <3> QED
      BY <1>1, <2>2, <3>1, <3>3, SentAppended
  <2> QED
    BY <2>4, <2>5, <2>7, <2>8, <2>9 DEF SubInv
<1> QED
  BY <1>3, <1>4

(* An operation that stops leaves the map; no other is touched. *)
LEMMA UnregisterKeeps ==
  ASSUME SubInv, NEW n \in 1..created, Registered(n), Unregister(n),
         UNCHANGED <<created, op, cancelling, closed>>,
         cancelled' \in [Ops -> BOOLEAN],
         \A m \in Ops : cancelled'[m] => cancelled[m] \/ m = n,
         \A m \in Ops : cancelled[m] => cancelled'[m],
         pc'[n] \notin {"starting", "select", "execute"},
         \A m \in Ops : m # n => pc'[m] = pc[m]
  PROVE  /\ subscriptions' \in [Ids -> Ops \union {NoOp}]
         /\ \A i \in Ids : subscriptions'[i] \in {subscriptions[i], NoOp}
         /\ \A m \in 1..created : Registered(m)' <=> Registered(m) /\ m # n
         /\ MapAgrees'
         /\ RunningIsReachable'
<1>1. /\ \A m \in 1..created : m # NoOp /\ m \in Ops /\ op[m].id \in Ids
      /\ created \in Nat
  BY Types DEF NoOp
<1>2. PICK i \in Ids : i = op[n].id
  BY <1>1
<1>3. /\ subscriptions \in [Ids -> Ops \union {NoOp}]
      /\ subscriptions' = [subscriptions EXCEPT ![i] = NoOp]
      /\ subscriptions[i] = n
  BY <1>2 DEF Unregister, Registered, SubInv, TypeOK
<1>4. /\ subscriptions' \in [Ids -> Ops \union {NoOp}]
      /\ subscriptions'[i] = NoOp
      /\ \A j \in Ids : j # i => subscriptions'[j] = subscriptions[j]
  BY <1>3
<1>5. \A j \in Ids : subscriptions'[j] \in {subscriptions[j], NoOp}
  BY <1>4
<1>6. \A m \in 1..created : Registered(m)' <=> Registered(m) /\ m # n
  BY <1>1, <1>2, <1>3, <1>4 DEF Registered
<1>7. MapAgrees'
  <2>1. ASSUME NEW j \in Ids, subscriptions'[j] # NoOp
        PROVE  subscriptions'[j] \in 1..created /\ op[subscriptions'[j]].id = j
    BY <1>4, <2>1 DEF SubInv, MapAgrees
  <2>2. ASSUME NEW m \in Ops, cancelled'[m] PROVE m <= created /\ ~Registered(m)'
    <3>1. CASE m = n
      BY <1>1, <1>6, <3>1
    <3>2. CASE m # n
      <4>1. m <= created /\ ~Registered(m)
        BY <2>2, <3>2 DEF SubInv, MapAgrees
      <4>2. m \in 1..created
        BY <1>1, <4>1, SubscriptionsAssumption DEF Ops
      <4> QED
        BY <1>6, <4>1, <4>2
    <3> QED
      BY <3>1, <3>2
  <2>3. ASSUME cancelling # NoOp PROVE cancelling <= created /\ ~Registered(cancelling)'
    <3>1. PICK x \in Ops : x = cancelling
      BY <2>3 DEF SubInv, TypeOK
    <3>2. x <= created /\ ~Registered(x)
      BY <2>3, <3>1 DEF SubInv, MapAgrees
    <3>3. x \in 1..created
      BY <1>1, <3>2, SubscriptionsAssumption DEF Ops
    <3>4. ~Registered(x)'
      BY <1>6, <3>2, <3>3
    <3> QED
      BY <3>1, <3>2, <3>4
  <2>4. \A m \in Ops : m > created => pc'[m] = "none"
    <3>1. n <= created
      BY <1>1
    <3> QED
      BY <1>1, <3>1, SubscriptionsAssumption DEF SubInv, MapAgrees, Ops
  <2> QED
    BY <2>1, <2>2, <2>3, <2>4 DEF MapAgrees
<1>8. RunningIsReachable'
  <2>1. ASSUME NEW m \in 1..created, Running(m)'
        PROVE  \/ cancelled'[m] \/ cancelling' = m
               \/ Registered(m)' /\ (closed => op[m].late)
    <3>1. m \in Ops /\ m # n /\ Running(m)
      BY <1>1, <2>1 DEF Running
    <3> QED
      BY <1>6, <3>1 DEF SubInv, RunningIsReachable
  <2> QED
    BY <2>1 DEF RunningIsReachable
<1> QED
  BY <1>4, <1>5, <1>6, <1>7, <1>8

LEMMA ResultErrorKeeps == ASSUME SubInv, NEW n \in Ops, ResultError(n) PROVE SubInv'
<1>1. /\ pc[n] = "execute" /\ GoesTo(n, "unsubscribe")
      /\ UNCHANGED <<frames, sent, writable, reading, cancelling, initialized, closed, op, created,
                     event, subscribers, channel, published>>
  BY DEF ResultError, pubsub
<1>2. n \in 1..created /\ \A m \in 1..created : m \in Ops
  BY <1>1, HasStarted, Types
<1>3. CASE ~Registered(n)
  <2>1. UNCHANGED <<subscriptions, cancelled, wire>>
    BY <1>3 DEF ResultError
  <2>2. TypeOK'
    BY <1>1, <2>1, QuietTypes DEF States, client
  <2> QED
    BY <1>1, <1>3, <2>1, <2>2, QuietStep DEF States
<1>4. CASE Registered(n)
  <2>1. PICK c : c = event[n]
    OBVIOUS
  <2>2. /\ Unregister(n)
        /\ cancelled' = [cancelled EXCEPT ![n] = TRUE]
        /\ wire' = IF writable
                   THEN Append(wire, [id |-> op[n].id, op |-> n, n |-> c, type |-> "error"])
                   ELSE wire
    BY <1>4, <2>1 DEF ResultError, Writes
  <2>3. /\ pc' \in [Ops -> States] /\ pc'[n] = "unsubscribe"
        /\ \A m \in Ops : m # n => pc'[m] = pc[m]
    BY <1>1, GoesToFacts DEF States
  <2>4. /\ cancelled' \in [Ops -> BOOLEAN]
        /\ \A m \in Ops : cancelled'[m] => cancelled[m] \/ m = n
        /\ \A m \in Ops : cancelled[m] => cancelled'[m]
    BY <2>2 DEF SubInv, TypeOK
  <2>5. /\ subscriptions' \in [Ids -> Ops \union {NoOp}]
        /\ \A i \in Ids : subscriptions'[i] \in {subscriptions[i], NoOp}
        /\ \A m \in 1..created : Registered(m)' <=> Registered(m) /\ m # n
        /\ MapAgrees' /\ RunningIsReachable'
    BY <1>1, <1>2, <1>4, <2>2, <2>3, <2>4, UnregisterKeeps
  <2>6. \A m \in Ops : (Running(m)' => Running(m)) /\ (pc'[m] = "execute" => pc[m] = "execute")
    BY <1>1, <2>3 DEF Running
  <2>7. EventsInOrder'
    BY <1>1, <2>6, EventsKept
  <2>8. EndsUnheard'
    <3>1. \A m \in 1..created :
            /\ pc'[m] \in {"unsubscribe", "finish"} /\ Registered(m)' =>
                 pc[m] \in {"unsubscribe", "finish"}
            /\ pc'[m] = "complete" => pc[m] = "complete"
      BY <1>2, <2>3, <2>5
    <3> QED
      BY <1>1, <2>5, <3>1, EndsKept
  <2>9. \A m \in 1..created : \A u, d : Heard(m, u, d) => Heard(m, u, d)'
    BY <1>1, <2>5, <2>6, HeardKept
  <2>10. CASE ~writable
    <3>1. wire' = wire
      BY <2>2, <2>10
    <3>2. TypeOK'
      BY <1>1, <2>3, <2>4, <2>5, <3>1, OperationTypes DEF SubInv, TypeOK
    <3> QED
      BY <1>1, <2>5, <2>7, <2>8, <2>9, <3>1, <3>2, SentKept, RefusalsKept, CleanKept
         DEF SubInv
  <2>11. CASE writable
    <3>1. wire' = Append(wire, [id |-> op[n].id, op |-> n, n |-> c, type |-> "error"])
      BY <2>2, <2>11
    <3>2. StreamsAreClean' /\ wire' \in Seq(Messages)
      BY <1>1, <1>2, <1>4, <2>1, <3>1, SendIsClean
    <3>3. TypeOK'
      BY <1>1, <2>3, <2>4, <2>5, <3>2, OperationTypes DEF SubInv, TypeOK
    <3>4. Heard(n, "error", c)'
      <4>1. n <= created /\ c <= published /\ \A i \in DOMAIN channel[n] : c < channel[n][i]
        BY <1>1, <1>2, <2>1, Types DEF SubInv, EventsInOrder
      <4>2. ASSUME NEW m \in 1..created, Registered(m)', op[m].id = op[n].id PROVE n <= m
        BY <1>2, <1>4, <2>5, <4>2, OneRegistered
      <4>3. ~Running(n)'
        BY <2>3 DEF Running
      <4> QED
        BY <1>1, <2>3, <4>1, <4>2, <4>3 DEF Heard
    <3>5. SentBefore' /\ RefusedBefore'
      BY <1>1, <2>5, <2>9, <3>1, <3>4, SentAppended
    <3> QED
      BY <2>5, <2>7, <2>8, <3>2, <3>3, <3>5 DEF SubInv
  <2> QED
    BY <2>10, <2>11
<1> QED
  BY <1>3, <1>4

LEMMA FinishSubscriptionKeeps ==
  ASSUME SubInv, NEW n \in Ops, FinishSubscription(n)
  PROVE  SubInv'
<1>1. /\ pc[n] = "finish"
      /\ UNCHANGED <<frames, sent, writable, reading, cancelling, initialized, closed, op, created,
                     cancelled, event, subscribers, channel, published, wire>>
  BY DEF FinishSubscription, pubsub
<1>2. n \in 1..created /\ \A m \in 1..created : m \in Ops
  BY <1>1, HasStarted, Types
<1>3. CASE ~Registered(n)
  <2>1. GoesTo(n, "done") /\ UNCHANGED subscriptions
    BY <1>3 DEF FinishSubscription
  <2>2. TypeOK'
    BY <1>1, <2>1, QuietTypes DEF States, client
  <2> QED
    BY <1>1, <2>1, <2>2, QuietStep DEF States
<1>4. CASE Registered(n)
  <2>1. Unregister(n) /\ GoesTo(n, "complete")
    BY <1>4 DEF FinishSubscription
  <2>2. ~writable
    BY <1>1, <1>2, <1>4 DEF SubInv, EndsUnheard
  <2>3. /\ pc' \in [Ops -> States] /\ pc'[n] = "complete"
        /\ \A m \in Ops : m # n => pc'[m] = pc[m]
    BY <2>1, GoesToFacts DEF States
  <2>4. cancelled' \in [Ops -> BOOLEAN] /\ \A m \in Ops : cancelled'[m] <=> cancelled[m]
    BY <1>1 DEF SubInv, TypeOK
  <2>5. /\ subscriptions' \in [Ids -> Ops \union {NoOp}]
        /\ \A i \in Ids : subscriptions'[i] \in {subscriptions[i], NoOp}
        /\ \A m \in 1..created : Registered(m)' <=> Registered(m) /\ m # n
        /\ MapAgrees' /\ RunningIsReachable'
    BY <1>1, <1>2, <1>4, <2>1, <2>3, <2>4, UnregisterKeeps
  <2>6. \A m \in Ops : (Running(m)' => Running(m)) /\ (pc'[m] = "execute" => pc[m] = "execute")
    BY <1>1, <2>3 DEF Running
  <2>7. TypeOK'
    BY <1>1, <2>3, <2>4, <2>5, OperationTypes DEF SubInv, TypeOK
  <2>8. EndsUnheard'
    BY <1>1, <2>2 DEF EndsUnheard
  <2>9. \A m \in 1..created : \A u, d : Heard(m, u, d) => Heard(m, u, d)'
    BY <1>1, <2>5, <2>6, HeardKept
  <2> QED
    BY <1>1, <2>5, <2>6, <2>7, <2>8, <2>9, EventsKept, SentKept, RefusalsKept, CleanKept
       DEF SubInv
<1> QED
  BY <1>3, <1>4

-----------------------------------------------------------------------------
(* A published event is newer than all others. *)
LEMMA PublishKeeps == ASSUME SubInv, NEW x \in Collections, Publish(x) PROVE SubInv'
<1>1. PICK e : e = published + 1
  OBVIOUS
<1>2. /\ published < MaxEvents /\ published' = published + 1
      /\ channel' = [n \in Ops |-> IF Wants(n, x) /\ Len(channel[n]) < Buffer
                                   THEN Append(channel[n], e) ELSE channel[n]]
      /\ UNCHANGED <<frames, sent, writable, reading, cancelling, initialized, closed,
                     subscriptions, op, created, pc, cancelled, event, subscribers, wire>>
  BY <1>1 DEF Publish, client, goroutines
<1>3. published \in Nat /\ e \in PublishedEvents /\ e = published + 1
  BY <1>1, <1>2, SubscriptionsAssumption DEF SubInv, TypeOK, PublishedEvents
<1>4. ASSUME NEW n \in Ops
      PROVE  /\ channel'[n] \in Seq(PublishedEvents) /\ Len(channel'[n]) <= Buffer
             /\ \/ channel'[n] = channel[n]
                \/ /\ DOMAIN channel'[n] = 1..Len(channel[n]) + 1
                   /\ DOMAIN channel[n] = 1..Len(channel[n])
                   /\ Len(channel[n]) \in Nat
                   /\ \A i \in 1..Len(channel[n]) : channel'[n][i] = channel[n][i]
                   /\ channel'[n][Len(channel[n]) + 1] = e
  <2> DEFINE old == channel[n]
  <2>1. old \in Seq(PublishedEvents) /\ Len(old) <= Buffer
    BY DEF SubInv, TypeOK
  <2>2. channel'[n] = old \/ (channel'[n] = Append(old, e) /\ Len(old) < Buffer)
    BY <1>2
  <2> HIDE DEF old
  <2>3. /\ Append(old, e) \in Seq(PublishedEvents) /\ Len(Append(old, e)) = Len(old) + 1
        /\ DOMAIN Append(old, e) = 1..Len(old) + 1 /\ DOMAIN old = 1..Len(old)
        /\ Len(old) \in Nat
        /\ \A i \in 1..Len(old) : Append(old, e)[i] = old[i]
        /\ Append(old, e)[Len(old) + 1] = e
    BY <1>3, <2>1
  <2>4. channel'[n] \in Seq(PublishedEvents) /\ Len(channel'[n]) <= Buffer
    BY <2>1, <2>2, <2>3, SubscriptionsAssumption
  <2> QED
    BY <2>2, <2>3, <2>4 DEF old
<1>5. TypeOK'
  <2>1. channel' \in [Ops -> Seq(PublishedEvents)]
    BY <1>2, <1>4
  <2>2. published' \in 0..MaxEvents
    BY <1>2, <1>3, SubscriptionsAssumption
  <2> QED
    BY <1>2, <1>4, <2>1, <2>2 DEF SubInv, TypeOK
<1>6. \A m \in 1..created : m \in Ops
  BY Types
<1>7. MapAgrees' /\ RunningIsReachable' /\ EndsUnheard' /\ StreamsAreClean' /\ RefusedBefore'
  <2>1. \A m \in 1..created : Running(m)' => Running(m)
    BY <1>2 DEF Running
  <2> QED
    BY <1>2, <2>1, MapKept, ReachKept, EndsKept, CleanKept, RefusalsKept
<1>8. ASSUME NEW n \in Ops, NEW i \in DOMAIN channel'[n]
      PROVE  \/ i \in DOMAIN channel[n] /\ channel'[n][i] = channel[n][i]
             \/ channel'[n][i] = e /\ \A j \in DOMAIN channel'[n] : j <= i
  BY <1>4
<1>9. EventsInOrder'
  <2>1. ASSUME NEW n \in Ops
        PROVE  /\ event[n] \in Nat /\ event[n] <= published
               /\ \A i \in DOMAIN channel[n] : channel[n][i] \in Nat
    <3>1. event[n] \in PublishedEvents \union {NoEvent} /\ channel[n] \in Seq(PublishedEvents)
      BY DEF SubInv, TypeOK
    <3>2. event[n] \in Nat
      BY <3>1, SubscriptionsAssumption DEF PublishedEvents, NoEvent
    <3>3. \A i \in DOMAIN channel[n] : channel[n][i] \in PublishedEvents
      BY <3>1
    <3> QED
      BY <3>2, <3>3, SubscriptionsAssumption DEF PublishedEvents, SubInv, EventsInOrder
  <2>2. ASSUME NEW n \in Ops, NEW i \in DOMAIN channel'[n]
        PROVE  /\ channel'[n][i] <= published + 1
               /\ pc[n] = "execute" => event[n] < channel'[n][i]
    <3>1. CASE i \in DOMAIN channel[n] /\ channel'[n][i] = channel[n][i]
      BY <1>3, <2>1, <3>1 DEF SubInv, EventsInOrder
    <3>2. CASE channel'[n][i] = e
      BY <1>3, <2>1, <3>2
    <3> QED
      BY <1>8, <3>1, <3>2
  <2>3. ASSUME NEW n \in Ops, NEW i \in DOMAIN channel'[n], NEW j \in DOMAIN channel'[n], i < j
        PROVE  channel'[n][i] < channel'[n][j]
    <3>1. i \in Nat /\ j \in Nat
      BY <1>4
    <3>2. i \in DOMAIN channel[n] /\ channel'[n][i] = channel[n][i]
      BY <1>8, <2>3, <3>1
    <3>3. channel[n][i] <= published
      BY <3>2 DEF SubInv, EventsInOrder
    <3>4. CASE j \in DOMAIN channel[n] /\ channel'[n][j] = channel[n][j]
      BY <2>3, <3>2, <3>4 DEF SubInv, EventsInOrder
    <3>5. CASE channel'[n][j] = e
      BY <1>3, <2>1, <3>2, <3>3, <3>5
    <3> QED
      BY <1>8, <3>4, <3>5
  <2>4. \A n \in Ops : event[n] <= published + 1
    BY <1>3, <2>1
  <2> QED
    BY <1>2, <2>2, <2>3, <2>4 DEF EventsInOrder
<1>10. SentBefore'
  <2>1. ASSUME NEW k \in DOMAIN wire, wire[k].type # "refused"
        PROVE  /\ wire[k].op \in Ops /\ wire[k].id = op[wire[k].op].id
               /\ Heard(wire[k].op, wire[k].type, wire[k].n)'
    <3>1. PICK m, t, c : m = wire[k].op /\ t = wire[k].type /\ c = wire[k].n
      OBVIOUS
    <3>2. /\ m \in 1..created /\ m \in Ops /\ c \in Nat /\ Heard(m, t, c)
          /\ wire[k].id = op[m].id
      BY <1>6, <2>1, <3>1, Types DEF SubInv, SentBefore
    <3>3. ASSUME NEW i \in DOMAIN channel'[m] PROVE c < channel'[m][i]
      <4>1. CASE i \in DOMAIN channel[m] /\ channel'[m][i] = channel[m][i]
        BY <3>2, <4>1 DEF Heard
      <4>2. CASE channel'[m][i] = e
        BY <1>3, <3>2, <4>2 DEF Heard
      <4> QED
        BY <1>8, <3>2, <4>1, <4>2
    <3>4. Heard(m, t, c)'
      <4>1. c <= published + 1
        BY <1>3, <3>2 DEF Heard
      <4> QED
        BY <1>2, <3>2, <3>3, <4>1 DEF Heard, Running, Registered
    <3> QED
      BY <1>2, <3>1, <3>2, <3>4
  <2> QED
    BY <1>2, <2>1 DEF SentBefore
<1> QED
  BY <1>5, <1>7, <1>9, <1>10 DEF SubInv

LEMMA SubNext == SubInv /\ [Next]_vars => SubInv'
<1> SUFFICES ASSUME SubInv, [Next]_vars PROVE SubInv'
  OBVIOUS
<1>1. ASSUME UNCHANGED vars PROVE SubInv'
  <2>1. TypeOK'
    BY <1>1 DEF vars, SubInv, TypeOK
  <2> QED
    BY <1>1, <2>1, NothingMoves DEF vars
<1>2. ASSUME Reader PROVE SubInv'
  BY <1>2, ClientKeeps, ReaderClosesKeeps, RefuseSubscribeKeeps, HandleSubscribeKeeps,
     HandleCompleteKeeps, CancelKeeps
     DEF Reader
<1>3. ASSUME NEW n \in Ops, Operation(n) PROVE SubInv'
  BY <1>3, QuietKeeps, ReceiveEventKeeps, ResultNextKeeps, ResultErrorKeeps,
     FinishSubscriptionKeeps
     DEF Operation
<1> QED
  BY <1>1, <1>2, <1>3, ClientKeeps, PublishKeeps DEF Next

LEMMA SubInvariant == Spec => []SubInv
  BY SubInit, SubNext, PTL DEF Spec

-----------------------------------------------------------------------------
(* Every variable stays within its type; in particular a subscriber's       *)
(* channel within SubscriberBufferSize.                                     *)
THEOREM SubscriptionsTypes == Spec => []TypeOK
<1>1. SubInv => TypeOK
  BY DEF SubInv
<1> QED
  BY <1>1, SubInvariant, PTL

(* No goroutine gets out of reach: it is cancelled, about to be, or the     *)
(* operation the map of a client that is not closed holds under its id,     *)
(* unless it was registered by a client that was closed already.            *)
THEOREM RunningCanBeStopped == Spec => []RunningIsReachable
<1>1. SubInv => RunningIsReachable
  BY DEF SubInv
<1> QED
  BY <1>1, SubInvariant, PTL

(* What a client hears under an id are the events of one operation after    *)
(* the other, in order, and nothing of an operation after its error or      *)
(* after a subscribe message with its id was refused.                       *)
THEOREM ClientHearsCleanStreams == Spec => []StreamsAreClean
<1>1. SubInv => StreamsAreClean
  BY DEF SubInv
<1> QED
  BY <1>1, SubInvariant, PTL

(* Only registered operations are heard. *)
LEMMA OnlyRegisteredWrite ==
  ASSUME SubInv, Next
  PROVE  \/ wire' = wire
         \/ \E x : /\ wire' = Append(wire, x)
                   /\ x.type = "refused" \/ (x.op \in 1..created /\ Registered(x.op))
<1> DEFINE Goal == \/ wire' = wire
                   \/ \E x : /\ wire' = Append(wire, x)
                             /\ x.type = "refused" \/ (x.op \in 1..created /\ Registered(x.op))
<1>a. ASSUME NEW n \in 1..created, NEW t, Registered(n), Writes(n, t, event[n]) PROVE Goal
  <2>1. PICK x : x = [id |-> op[n].id, op |-> n, n |-> event[n], type |-> t]
    OBVIOUS
  <2>2. x.op = n /\ (wire' = wire \/ wire' = Append(wire, x))
    BY <1>a, <2>1 DEF Writes
  <2> QED
    BY <1>a, <2>2
<1>1. ASSUME NEW n \in Ops, ResultNext(n) PROVE Goal
  <2>1. n \in 1..created
    BY <1>1, HasStarted DEF ResultNext
  <2>2. wire' = wire \/ (Registered(n) /\ Writes(n, "next", event[n]))
    BY <1>1 DEF ResultNext
  <2> QED
    BY <1>a, <2>1, <2>2
<1>2. ASSUME NEW n \in Ops, ResultError(n) PROVE Goal
  <2>1. n \in 1..created
    BY <1>2, HasStarted DEF ResultError
  <2>2. wire' = wire \/ (Registered(n) /\ Writes(n, "error", event[n]))
    BY <1>2 DEF ResultError
  <2> QED
    BY <1>a, <2>1, <2>2
<1>3. ASSUME NEW n \in Ops, SendComplete(n) PROVE wire' = wire
  <2>1. n \in 1..created /\ pc[n] = "complete"
    BY <1>3, HasStarted DEF SendComplete
  <2> QED
    BY <1>3, <2>1 DEF SendComplete, Writes, SubInv, EndsUnheard
<1>4. ASSUME RefuseSubscribe PROVE Goal
  <2>1. PICK x : x = [id |-> Head(frames).id, op |-> created, n |-> 0, type |-> "refused"]
    OBVIOUS
  <2>2. x.type = "refused"
    BY <2>1
  <2>3. wire' = wire \/ wire' = Append(wire, x)
    BY <1>4, <2>1 DEF RefuseSubscribe, Refuses
  <2> QED
    BY <2>2, <2>3
<1>5. ASSUME NEW n \in Ops,
             \/ Subscribe(n) \/ ContextDone(n) \/ ReceiveEvent(n) \/ ResultEmpty(n)
             \/ Unsubscribe(n) \/ FinishSubscription(n)
      PROVE  wire' = wire
  BY <1>5 DEF Subscribe, ContextDone, ReceiveEvent, ResultEmpty, Unsubscribe, FinishSubscription
<1>6. ASSUME NEW n \in Ops, Operation(n) PROVE Goal
  BY <1>1, <1>2, <1>3, <1>5, <1>6 DEF Operation
<1>7. ASSUME (\E f \in Frames : ClientSend(f)) \/ Break \/ \E x \in Collections : Publish(x)
      PROVE  wire' = wire
  BY <1>7 DEF ClientSend, Break, Publish
<1>8. ASSUME Reader PROVE Goal
  <2>1. \/ RefuseSubscribe \/ wire' = wire
    BY <1>8 DEF Reader, HandleInit, HandleOther, HandleTerminate, HandleSubscribe,
                HandleComplete, Cancel, ReadError
  <2> QED
    BY <1>4, <2>1
<1> HIDE DEF Goal
<1>9. Goal
  <2>1. wire' = wire => Goal
    BY DEF Goal
  <2> QED
    BY <1>6, <1>7, <1>8, <2>1 DEF Next
<1> QED
  BY <1>9 DEF Goal

(* sendOperationMessage looks the operation up under the lock under which   *)
(* it leaves the map: what is no longer in it sends nothing.                *)
THEOREM UnregisteredIsSilent == Spec => SilentOnceUnregistered
<1>1. ASSUME SubInv, [Next]_vars
      PROVE  [\A n \in Ops : n <= created /\ Running(n) /\ ~Registered(n) =>
                \A k \in DOMAIN wire' : k > Len(wire) =>
                  wire'[k].op # n \/ wire'[k].type = "refused"]_vars
  <2> SUFFICES ASSUME Next,
                      NEW n \in Ops, n <= created, Running(n), ~Registered(n),
                      NEW k \in DOMAIN wire', k > Len(wire)
               PROVE  wire'[k].op # n \/ wire'[k].type = "refused"
    BY <1>1
  <2>1. DOMAIN wire = 1..Len(wire) /\ Len(wire) \in Nat
    BY <1>1, Types
  <2>2. wire' # wire
    BY <2>1
  <2>3. PICK x : /\ wire' = Append(wire, x)
                 /\ x.type = "refused" \/ (x.op \in 1..created /\ Registered(x.op))
    BY <1>1, <2>2, OnlyRegisteredWrite
  <2>4. k = Len(wire) + 1 /\ wire'[k] = x
    BY <1>1, <2>1, <2>3, Types
  <2> QED
    BY <2>3, <2>4
<1> QED
  BY <1>1, SubInvariant, PTL DEF Spec, SilentOnceUnregistered

-----------------------------------------------------------------------------
(* EndorsementClosure: the order of pairs, and a set of them as a sequence. *)

LEMMA BeforeIsAnOrder ==
  ASSUME NEW a \in Nat \X Nat, NEW b \in Nat \X Nat, NEW c \in Nat \X Nat
  PROVE  /\ Before(a, b) \/ Before(b, a) \/ a = b
         /\ ~ (Before(a, b) /\ Before(b, a))
         /\ ~ Before(a, a)
         /\ Before(a, b) /\ Before(b, c) => Before(a, c)
<1>1. PICK i \in Nat, j \in Nat : a = <<i, j>>
  OBVIOUS
<1>2. PICK k \in Nat, l \in Nat : b = <<k, l>>
  OBVIOUS
<1>3. PICK m \in Nat, n \in Nat : c = <<m, n>>
  OBVIOUS
<1> QED BY <1>1, <1>2, <1>3 DEF Before

(* The pairs of a set before one of them are fewer than all, and fewer than *)
(* those before a later one.                                                *)
LEMMA PlacesGrow ==
  ASSUME NEW S, IsFiniteSet(S), S \subseteq Nat \X Nat, NEW x \in S
  PROVE  /\ Place(x, S) \in Nat /\ Place(x, S) < Cardinality(S)
         /\ \A y \in S : Before(y, x) => Place(y, S) < Place(x, S)
<1> DEFINE ahead(e) == {f \in S : Before(f, e)}
<1>1. \A s \in S : s \in Nat \X Nat
  OBVIOUS
<1>2. ASSUME NEW e \in S
      PROVE  /\ IsFiniteSet(ahead(e)) /\ Cardinality(ahead(e)) \in Nat
             /\ e \notin ahead(e) /\ Place(e, S) = Cardinality(ahead(e))
  <2>1. ahead(e) \in SUBSET S
    OBVIOUS
  <2>2. IsFiniteSet(ahead(e))
    BY <2>1, FS_Subset
  <2>3. Cardinality(ahead(e)) \in Nat
    BY <2>2, FS_CardinalityType
  <2>4. ~ Before(e, e)
    BY <1>1, BeforeIsAnOrder
  <2> QED BY <2>2, <2>3, <2>4 DEF Place
<1>3. Cardinality(ahead(x)) < Cardinality(S)
  <2>1. ahead(x) \in SUBSET S
    OBVIOUS
  <2>2. /\ Cardinality(ahead(x)) <= Cardinality(S)
        /\ Cardinality(S) = Cardinality(ahead(x)) => S = ahead(x)
    BY <2>1, FS_Subset
  <2>3. Cardinality(S) # Cardinality(ahead(x))
    BY <2>2, <1>2
  <2>4. Cardinality(S) \in Nat
    BY FS_CardinalityType
  <2> QED BY <2>2, <2>3, <2>4, <1>2
<1>4. ASSUME NEW y \in S, Before(y, x) PROVE Cardinality(ahead(y)) < Cardinality(ahead(x))
  <2>1. ASSUME NEW s \in ahead(y) PROVE s \in ahead(x)
    <3>1. s \in S /\ Before(s, y)
      OBVIOUS
    <3>2. Before(s, x)
      BY <3>1, <1>1, <1>4, BeforeIsAnOrder
    <3> QED BY <3>1, <3>2
  <2>2. ahead(y) \in SUBSET ahead(x)
    BY <2>1
  <2>3. y \in ahead(x) /\ y \notin ahead(y)
    BY <1>4, <1>2
  <2>4. /\ Cardinality(ahead(y)) <= Cardinality(ahead(x))
        /\ Cardinality(ahead(x)) = Cardinality(ahead(y)) => ahead(x) = ahead(y)
    BY <2>2, <1>2, FS_Subset
  <2>5. Cardinality(ahead(x)) # Cardinality(ahead(y))
    BY <2>3, <2>4
  <2> QED BY <2>4, <2>5, <1>2
<1> QED BY <1>2, <1>3, <1>4

(* Every place is taken, so that InOrder is the set in strictly rising      *)
(* order.                                                                   *)
LEMMA InOrderRises ==
  ASSUME NEW S, IsFiniteSet(S), S \subseteq Nat \X Nat
  PROVE  /\ Cardinality(S) \in Nat
         /\ InOrder(S) \in Seq(S)
         /\ Len(InOrder(S)) = Cardinality(S)
         /\ \A i, j \in 1..Cardinality(S) : i < j => Before(InOrder(S)[i], InOrder(S)[j])
<1> DEFINE n == Cardinality(S)
           rank == [e \in S |-> Place(e, S) + 1]
           s == InOrder(S)
<1>0. n \in Nat
  BY FS_CardinalityType
<1>00. \A e \in S : e \in Nat \X Nat
  OBVIOUS
<1>1. rank \in [S -> 1..n]
  <2>1. ASSUME NEW e \in S PROVE Place(e, S) + 1 \in 1..n
    BY PlacesGrow, <1>0
  <2> QED BY <2>1
<1>2. ASSUME NEW d \in S, NEW e \in S, d # e PROVE Place(d, S) # Place(e, S)
  <2>1. Before(d, e) \/ Before(e, d)
    BY <1>00, <1>2, BeforeIsAnOrder
  <2>2. Place(d, S) \in Nat /\ Place(e, S) \in Nat
    BY PlacesGrow
  <2>3. Before(d, e) => Place(d, S) < Place(e, S)
    BY PlacesGrow
  <2>4. Before(e, d) => Place(e, S) < Place(d, S)
    BY PlacesGrow
  <2> QED BY <2>1, <2>2, <2>3, <2>4
<1>3. rank \in Injection(S, 1..n)
  <2>1. ASSUME NEW d \in S, NEW e \in S, rank[d] = rank[e] PROVE d = e
    <3>1. Place(d, S) \in Nat /\ Place(e, S) \in Nat
      BY PlacesGrow
    <3>2. Place(d, S) = Place(e, S)
      BY <2>1, <3>1
    <3> QED BY <3>2, <1>2
  <2> HIDE DEF rank
  <2> QED BY <2>1, <1>1 DEF Injection, IsInjective
<1>4. IsFiniteSet(1..n) /\ Cardinality(1..n) = n
  BY <1>0, FS_Interval
<1>5. rank \in Surjection(S, 1..n)
  BY <1>3, <1>4, FS_Injection
<1>6. ASSUME NEW i \in 1..n PROVE s[i] \in S /\ Place(s[i], S) = i - 1
  <2>1. PICK e \in S : rank[e] = i
    <3> HIDE DEF rank
    <3> QED BY <1>5 DEF Surjection
  <2>2. Place(e, S) \in Nat
    BY PlacesGrow
  <2>3. Place(e, S) = i - 1
    BY <2>1, <2>2, <1>0
  <2>4. s[i] = CHOOSE x \in S : Place(x, S) = i - 1
    BY DEF InOrder
  <2> QED BY <2>3, <2>4
<1>7. s = [i \in 1..n |-> s[i]]
  BY DEF InOrder
<1> HIDE DEF s
<1>8. s \in [1..n -> S]
  BY <1>6, <1>7
<1>9. s \in Seq(S) /\ Len(s) = n
  BY <1>0, <1>8
<1>10. ASSUME NEW i \in 1..n, NEW j \in 1..n, i < j PROVE Before(s[i], s[j])
  <2>1. Place(s[i], S) = i - 1 /\ Place(s[j], S) = j - 1 /\ s[i] \in S /\ s[j] \in S
    BY <1>6
  <2>2. s[i] # s[j]
    BY <2>1, <1>10, <1>0
  <2>3. Before(s[i], s[j]) \/ Before(s[j], s[i])
    BY <2>1, <2>2, <1>00, BeforeIsAnOrder
  <2>4. Before(s[j], s[i]) => Place(s[j], S) < Place(s[i], S)
    BY <2>1, PlacesGrow
  <2> QED BY <2>1, <2>3, <2>4, <1>10, <1>0
<1> QED BY <1>0, <1>9, <1>10 DEF s
-----------------------------------------------------------------------------
(* The invariant of a walk.                                                 *)

Among(s, d) == \E i \in 1..Len(s) : s[i] = d

Walking == query.at # "idle"

(* What the history keeps: endorsements active throughout are active now,   *)
(* and those active now have been so at some moment of the walk.            *)
HistoryOK == always \subseteq Active /\ (Walking => Active \subseteq ever)

(* The root alone has degree 0, and no account is beyond the current one. *)
DegreesOK ==
  Walking =>
    /\ query.root \in DIDs /\ query.degree <= LastDegree(query)
    /\ \A d \in DIDs : /\ query.seen[d] = 0 <=> d = query.root
                       /\ query.seen[d] # Unseen => query.seen[d] <= query.degree

(* The ring to be read is the degree before, the next one the degree that   *)
(* is being filled; edges come out of the ring.                             *)
RingOK ==
  /\ query.at = "ring" =>
       /\ ~query.truncated /\ Len(query.next) = 0
       /\ \A d \in DIDs : Among(query.frontier, d) <=> query.seen[d] = query.degree
  /\ query.at \in {"batch", "expand"} =>
       /\ query.degree >= 1
       /\ \A d \in DIDs : /\ Among(query.frontier, d) <=> query.seen[d] + 1 = query.degree
                          /\ Among(query.next, d) <=> query.seen[d] = query.degree
       /\ \A e \in query.edges : e \in ever /\ query.seen[e[1]] + 1 = query.degree
  /\ query.at = "page" /\ ~query.truncated =>
       query.degree = LastDegree(query) \/ \A d \in DIDs : query.seen[d] # query.degree

(* An account has been reached from one of the degree before. *)
ViaOK ==
  Walking =>
    \A d \in DIDs :
      /\ IsFiniteSet(query.via[d]) /\ Cardinality(query.via[d]) <= MaxVia
      /\ \A v \in query.via[d] : query.seen[v] + 1 = query.seen[d] /\ <<v, d>> \in ever
      /\ query.seen[d] \in 2..MaxDegree => query.via[d] # {}
      /\ query.seen[d] = 1 => <<query.root, d>> \in ever

(* An endorsement of d by v that has been followed *)
Followed(v, d) ==
  \/ d = query.root
  \/ /\ query.seen[d] <= query.seen[v] + 1
     /\ query.seen[d] = query.seen[v] + 1 /\ query.seen[d] >= 2 =>
          v \in query.via[d] \/ Cardinality(query.via[d]) = MaxVia

(* ... and one that is still to be: of an issuer not read yet, or waiting   *)
(* among the edges, or left out where truncated will say so                 *)
ToFollow(v, d) ==
  \/ query.at = "batch" /\ \E i \in query.read + 1..Len(query.frontier) : query.frontier[i] = v
  \/ query.at \in {"batch", "expand"} /\ <<v, d>> \in query.edges
  \/ query.at = "expand" /\ query.cut

NoneMissed ==
  Walking /\ ~query.truncated =>
    \A v, d \in DIDs :
      <<v, d>> \in always /\ query.seen[v] < query.degree => Followed(v, d) \/ ToFollow(v, d)

(* The walk under way is the one the pages are of. *)
Requested ==
  /\ pages.at # "none" => pages.root \in DIDs
  /\ Walking => /\ pages.at = "more" /\ query.root = pages.root
                /\ query.want = pages.want /\ query.cap = pages.cap

ClosureInv ==
  ClosureTypeOK /\ Requested /\ HistoryOK /\ DegreesOK /\ RingOK /\ ViaOK /\ NoneMissed

-----------------------------------------------------------------------------
(* What the steps of a walk make of the query.                              *)

LEMMA ClosureConstants ==
  /\ MaxDegree \in Nat /\ MaxDegree >= 1 /\ MaxVia \in Nat /\ MaxVia >= 1
  /\ BatchSize \in Nat /\ BatchSize >= 1 /\ PageSize \in Nat /\ PageSize >= 1
  /\ Unseen = MaxDegree + 1 /\ Unseen \in Nat
  BY ClosureAssumption DEF Unseen

LEMMA LastDegrees ==
  ASSUME NEW q \in ClosureQueries
  PROVE  LastDegree(q) \in 1..MaxDegree
  BY ClosureConstants DEF ClosureQueries, LastDegree

LEMMA EdgesAreFinite ==
  ASSUME NEW S, S \subseteq DIDs \X DIDs
  PROVE  IsFiniteSet(S) /\ Cardinality(S) \in Nat
<1>1. IsFiniteSet(DIDs \X DIDs)
  BY ClosureAssumption, FS_Product
<1>2. S \in SUBSET (DIDs \X DIDs)
  OBVIOUS
<1>3. IsFiniteSet(S)
  BY <1>1, <1>2, FS_Subset
<1> QED BY <1>3, FS_CardinalityType

LEMMA ReachedIsANumber ==
  ASSUME NEW seen
  PROVE  Reached(seen) \in Nat
<1> DEFINE S == {d \in DIDs : seen[d] \in 1..MaxDegree}
<1>1. S \in SUBSET DIDs
  OBVIOUS
<1>2. IsFiniteSet(S)
  BY <1>1, ClosureAssumption, FS_Subset
<1> QED BY <1>2, FS_CardinalityType DEF Reached

LEMMA ActiveIsEdges ==
  ASSUME rows \subseteq Awards \union Badges \union Responses
  PROVE  Active \subseteq DIDs \X DIDs
<1> SUFFICES ASSUME NEW e \in Active PROVE e \in DIDs \X DIDs
  OBVIOUS
<1>1. PICK w \in Awards : e = <<w.issuer, w.subject>> /\ EndorsesAccount(w)
  BY DEF Active
<1>2. w.issuer \in DIDs /\ w.subject \in DIDs
  BY <1>1, ClosureAssumption DEF EndorsesAccount
<1> QED BY <1>1, <1>2

LEMMA AskedIs ==
  ASSUME NEW root \in DIDs, NEW want \in 0..MaxDegree, NEW cap \in Nat
  PROVE  LET q == Asked(root, want, cap)
         IN  /\ q \in ClosureQueries
             /\ q.at = "ring" /\ q.root = root /\ q.want = want /\ q.cap = cap
             /\ q.degree = 0 /\ Len(q.frontier) = 1 /\ q.frontier[1] = root
             /\ Len(q.next) = 0 /\ q.edges = {}
             /\ ~q.cut /\ ~q.truncated
             /\ \A d \in DIDs : /\ q.seen[d] = IF d = root THEN 0 ELSE Unseen
                                /\ q.via[d] = {}
<1> DEFINE seen == [d \in DIDs |-> IF d = root THEN 0 ELSE Unseen]
           via == [d \in DIDs |-> {}]
           q == [at |-> "ring", root |-> root, want |-> want, cap |-> cap, degree |-> 0,
                 seen |-> seen, via |-> via, frontier |-> <<root>>, next |-> <<>>, read |-> 0,
                 limit |-> 0, edges |-> {}, cut |-> FALSE, truncated |-> FALSE]
<1>1. [[d \in DIDs |-> Unseen] EXCEPT ![root] = 0] = seen
  OBVIOUS
<1>2. Asked(root, want, cap) = q
  <2>1. NoQuery.seen = [d \in DIDs |-> Unseen]
    BY DEF NoQuery
  <2>2. Asked(root, want, cap) =
          [NoQuery EXCEPT !.at = "ring", !.root = root, !.want = want, !.cap = cap,
                          !.seen = seen, !.frontier = <<root>>]
    BY <2>1, <1>1 DEF Asked
  <2> HIDE DEF seen
  <2> QED BY <2>2 DEF NoQuery
<1>3. seen \in [DIDs -> 0..Unseen]
  BY ClosureConstants
<1>4. via \in [DIDs -> SUBSET DIDs]
  OBVIOUS
<1>5. <<root>> \in Seq(DIDs) /\ <<>> \in Seq(DIDs) /\ {} \subseteq DIDs \X DIDs
  OBVIOUS
<1>6. 0 \in 0..MaxDegree
  BY ClosureConstants
<1> HIDE DEF seen, via
<1>7. q \in ClosureQueries
  BY <1>3, <1>4, <1>5, <1>6 DEF ClosureQueries
<1> QED BY <1>2, <1>7 DEF seen, via

LEMMA NextRingIs ==
  ASSUME NEW q \in ClosureQueries, q.degree <= LastDegree(q)
  PROVE  LET r == NextRing(q)
         IN  /\ r \in ClosureQueries
             /\ r.root = q.root /\ r.want = q.want /\ r.cap = q.cap
             /\ r.seen = q.seen /\ r.via = q.via
             /\ r.frontier = q.frontier /\ r.next = q.next
             /\ \/ /\ r.at = "page" /\ r.degree = q.degree
                   /\ r.truncated \/ (q.degree = LastDegree(q))
                   /\ q.truncated => r.truncated
                \/ /\ r.at = "batch" /\ r.degree = q.degree + 1 /\ q.degree < LastDegree(q)
                   /\ r.read = 0 /\ r.edges = {} /\ ~r.cut
                   /\ r.truncated = q.truncated
<1>1. Reached(q.seen) \in Nat
  BY ReachedIsANumber
<1>2. LastDegree(q) \in 1..MaxDegree
  BY LastDegrees
<1>3. q.degree \in 0..MaxDegree /\ q.cap \in Nat
  BY DEF ClosureQueries
<1>4. (q.cap - Reached(q.seen)) * MaxVia \in Int
  BY <1>1, <1>3, ClosureConstants
<1>5. CASE q.degree = LastDegree(q)
  <2>1. NextRing(q) = [q EXCEPT !.at = "page"]
    BY <1>5 DEF NextRing
  <2> QED BY <1>5, <2>1 DEF ClosureQueries
<1>6. CASE q.degree # LastDegree(q) /\ Reached(q.seen) >= q.cap
  <2>1. NextRing(q) = [q EXCEPT !.at = "page", !.truncated = TRUE]
    BY <1>6 DEF NextRing
  <2> QED BY <2>1 DEF ClosureQueries
<1>7. CASE q.degree # LastDegree(q) /\ ~ (Reached(q.seen) >= q.cap)
  <2> DEFINE limit == (q.cap - Reached(q.seen)) * MaxVia
  <2>1. NextRing(q) = [q EXCEPT !.at = "batch", !.degree = q.degree + 1, !.read = 0,
                                !.limit = limit, !.edges = {}, !.cut = FALSE]
    BY <1>7 DEF NextRing
  <2>2. limit \in Int
    BY <1>4
  <2>3. q.degree + 1 \in 0..MaxDegree /\ q.degree < LastDegree(q)
    BY <1>2, <1>3, <1>7, ClosureConstants
  <2> HIDE DEF limit
  <2>5. PICK k \in 0..MaxDegree : k = q.degree + 1
    BY <2>3
  <2>4. NextRing(q) \in ClosureQueries
    <3>1. NextRing(q) = [q EXCEPT !.at = "batch", !.degree = k, !.read = 0,
                                  !.limit = limit, !.edges = {}, !.cut = FALSE]
      BY <2>1, <2>5
    <3>2. PICK p \in ClosureQueries :
            p = [q EXCEPT !.at = "batch", !.degree = k, !.read = 0, !.limit = limit]
      BY <2>2 DEF ClosureQueries
    <3>3. [p EXCEPT !.edges = {}, !.cut = FALSE] \in ClosureQueries
      BY DEF ClosureQueries
    <3>4. NextRing(q) = [p EXCEPT !.edges = {}, !.cut = FALSE]
      BY <3>1, <3>2 DEF ClosureQueries
    <3> QED BY <3>3, <3>4
  <2> QED BY <2>1, <2>3, <2>4 DEF ClosureQueries
<1> QED BY <1>5, <1>6, <1>7

LEMMA NextBatchIs ==
  ASSUME NEW q \in ClosureQueries, NEW E, E \subseteq DIDs \X DIDs
  PROVE  LET r == NextBatch(q, E)
             issuers == {q.frontier[i] : i \in q.read + 1..r.read}
         IN  /\ r \in ClosureQueries
             /\ r.root = q.root /\ r.want = q.want /\ r.cap = q.cap /\ r.degree = q.degree
             /\ r.seen = q.seen /\ r.via = q.via /\ r.truncated = q.truncated
             /\ r.frontier = q.frontier /\ r.next = q.next
             /\ \A e \in r.edges : e \in q.edges \/ (e \in E /\ e[1] \in issuers)
             /\ q.edges \subseteq r.edges
             /\ r.cut \/ \A e \in E : e[1] \in issuers => e \in r.edges
             /\ r.at \in {"batch", "expand"}
             /\ r.at = "batch" => ~ r.cut
             /\ r.at = "expand" => r.cut \/ r.read = Len(q.frontier)
             /\ r.read <= Len(q.frontier)
<1> DEFINE last == IF q.read + BatchSize > Len(q.frontier)
                   THEN Len(q.frontier) ELSE q.read + BatchSize
           iss == {q.frontier[i] : i \in q.read + 1..last}
           found == {e \in E : e[1] \in iss}
           kept == FirstEdges(found, q.limit)
           more == last < Len(q.frontier)
           left == q.limit - Cardinality(kept)
           cut == kept # found \/ (left = 0 /\ more)
           at == IF more /\ ~cut THEN "batch" ELSE "expand"
           edges == q.edges \union kept
<1>1. NextBatch(q, E) = [q EXCEPT !.at = at, !.read = last, !.limit = left,
                                  !.edges = edges, !.cut = cut]
  BY DEF NextBatch
<1>2. kept \subseteq found /\ found \subseteq E
  BY DEF FirstEdges
<1>3. last \in Nat /\ last <= Len(q.frontier) /\ Len(q.frontier) \in Nat
  BY ClosureConstants DEF ClosureQueries
<1>4. kept \subseteq DIDs \X DIDs
  BY <1>2
<1>5. left \in Int
  <2>1. Cardinality(kept) \in Nat
    BY <1>4, EdgesAreFinite
  <2>2. q.limit \in Int
    BY DEF ClosureQueries
  <2> QED BY <2>1, <2>2
<1>6. edges \subseteq DIDs \X DIDs
  BY <1>4 DEF ClosureQueries
<1>7. cut \in BOOLEAN /\ at \in {"batch", "expand"}
  OBVIOUS
<1>8. /\ \A e \in edges : e \in q.edges \/ (e \in E /\ e[1] \in iss)
      /\ q.edges \subseteq edges
  BY <1>2
<1>9. cut \/ \A e \in E : e[1] \in iss => e \in edges
  OBVIOUS
<1>10. /\ at = "batch" => ~ cut
       /\ at = "expand" => cut \/ last = Len(q.frontier)
  BY <1>3
<1> HIDE DEF at, last, left, edges, cut
<1>11. LET r == NextBatch(q, E)
       IN  /\ r \in ClosureQueries
           /\ r.root = q.root /\ r.want = q.want /\ r.cap = q.cap /\ r.degree = q.degree
           /\ r.seen = q.seen /\ r.via = q.via /\ r.truncated = q.truncated
           /\ r.frontier = q.frontier /\ r.next = q.next
           /\ r.at = at /\ r.read = last /\ r.edges = edges /\ r.cut = cut
  BY <1>1, <1>3, <1>5, <1>6, <1>7 DEF ClosureQueries
<1> QED BY <1>11, <1>3, <1>7, <1>8, <1>9, <1>10

(* The four outcomes of an edge *)
SameWalk(q, r) ==
  /\ r.root = q.root /\ r.want = q.want /\ r.cap = q.cap /\ r.degree = q.degree
  /\ r.at = q.at /\ r.frontier = q.frontier /\ r.cut = q.cut

Ignored(q, r) == r.seen = q.seen /\ r.via = q.via /\ r.next = q.next

Credited(q, r, e) ==
  /\ r.seen = q.seen /\ r.next = q.next
  /\ q.seen[e[2]] = q.degree /\ q.degree > 1 /\ Cardinality(q.via[e[2]]) < MaxVia
  /\ r.via = [q.via EXCEPT ![e[2]] = q.via[e[2]] \union {e[1]}]

Discovered(q, r, e) ==
  /\ q.seen[e[2]] = Unseen
  /\ r.seen = [q.seen EXCEPT ![e[2]] = q.degree]
  /\ r.next = Append(q.next, e[2])
  /\ r.via = [q.via EXCEPT ![e[2]] = IF q.degree > 1 THEN {e[1]} ELSE {}]

LEMMA FollowIs ==
  ASSUME NEW q \in ClosureQueries, NEW e \in q.edges
  PROVE  LET r == [Follow(q, e) EXCEPT !.edges = q.edges \ {e}]
         IN  /\ r \in ClosureQueries /\ SameWalk(q, r) /\ r.edges = q.edges \ {e}
             /\ \/ /\ Ignored(q, r) /\ r.truncated = q.truncated
                   /\ \/ e[2] = q.root
                      \/ /\ q.seen[e[2]] # Unseen
                         /\ ~ (/\ q.seen[e[2]] = q.degree /\ q.degree > 1
                               /\ Cardinality(q.via[e[2]]) < MaxVia)
                \/ Credited(q, r, e) /\ e[2] # q.root /\ r.truncated = q.truncated
                \/ Ignored(q, r) /\ r.truncated = TRUE
                \/ Discovered(q, r, e) /\ e[2] # q.root /\ r.truncated = q.truncated
<1> DEFINE r == [Follow(q, e) EXCEPT !.edges = q.edges \ {e}]
           left == q.edges \ {e}
<1>1. e[1] \in DIDs /\ e[2] \in DIDs
  BY DEF ClosureQueries
<1>2. left \in SUBSET (DIDs \X DIDs)
  BY DEF ClosureQueries
<1>3. ASSUME Follow(q, e) = q
      PROVE  /\ r \in ClosureQueries /\ SameWalk(q, r) /\ r.edges = q.edges \ {e}
             /\ Ignored(q, r) /\ r.truncated = q.truncated
  BY <1>2, <1>3 DEF ClosureQueries, SameWalk, Ignored
<1>4. CASE e[2] = q.root
  <2>1. Follow(q, e) = q
    BY <1>4 DEF Follow
  <2> HIDE DEF r
  <2> QED BY <1>3, <1>4, <2>1 DEF r
<1>5. CASE e[2] # q.root /\ q.seen[e[2]] # Unseen
  <2> DEFINE again == /\ q.seen[e[2]] = q.degree /\ q.degree > 1
                      /\ Cardinality(q.via[e[2]]) < MaxVia
  <2>1. Follow(q, e) = MeetAgain(q, e)
    BY <1>5 DEF Follow
  <2>2. CASE ~ again
    <3>1. Follow(q, e) = q
      BY <2>1, <2>2 DEF MeetAgain
    <3> HIDE DEF r
    <3> QED BY <1>3, <1>5, <2>2, <3>1 DEF r
  <2>3. CASE again
    <3> DEFINE via == [q.via EXCEPT ![e[2]] = q.via[e[2]] \union {e[1]}]
    <3>1. Follow(q, e) = [q EXCEPT !.via = via]
      BY <2>1, <2>3 DEF MeetAgain
    <3>2. via \in [DIDs -> SUBSET DIDs]
      BY <1>1 DEF ClosureQueries
    <3> HIDE DEF via
    <3>3. r = [q EXCEPT !.via = via, !.edges = left]
      BY <3>1 DEF ClosureQueries
    <3> HIDE DEF left, r
    <3>4. r \in ClosureQueries
      BY <3>2, <3>3, <1>2 DEF ClosureQueries
    <3>5. r.via = via /\ r.edges = left /\ r.seen = q.seen /\ r.next = q.next
      BY <3>3 DEF ClosureQueries
    <3>6. SameWalk(q, r) /\ r.truncated = q.truncated
      BY <3>3 DEF ClosureQueries, SameWalk
    <3>7. Credited(q, r, e)
      BY <3>5, <2>3 DEF Credited, via
    <3> QED BY <3>4, <3>5, <3>6, <3>7, <1>5 DEF r, left
  <2> QED BY <2>2, <2>3
<1>6. CASE e[2] # q.root /\ q.seen[e[2]] = Unseen /\ Reached(q.seen) >= q.cap
  <2>1. Follow(q, e) = [q EXCEPT !.truncated = TRUE]
    BY <1>6 DEF Follow
  <2>2. r = [q EXCEPT !.truncated = TRUE, !.edges = left]
    BY <2>1 DEF ClosureQueries
  <2> HIDE DEF left, r
  <2>3. r \in ClosureQueries
    BY <2>2, <1>2 DEF ClosureQueries
  <2>4. Ignored(q, r) /\ SameWalk(q, r) /\ r.edges = left /\ r.truncated = TRUE
    BY <2>2 DEF ClosureQueries, Ignored, SameWalk
  <2> QED BY <2>3, <2>4 DEF r, left
<1>7. CASE e[2] # q.root /\ q.seen[e[2]] = Unseen /\ ~ (Reached(q.seen) >= q.cap)
  <2> DEFINE seen == [q.seen EXCEPT ![e[2]] = q.degree]
             next == Append(q.next, e[2])
             via == [q.via EXCEPT ![e[2]] = IF q.degree > 1 THEN {e[1]} ELSE {}]
  <2>1. Follow(q, e) = Discover(q, e)
    BY <1>7 DEF Follow
  <2>2. Follow(q, e) = [q EXCEPT !.seen = seen, !.next = next, !.via = via]
    BY <2>1 DEF Discover
  <2>3. q.degree \in 0..Unseen
    BY ClosureConstants DEF ClosureQueries
  <2>4. seen \in [DIDs -> 0..Unseen]
    BY <1>1, <2>3 DEF ClosureQueries
  <2>5. via \in [DIDs -> SUBSET DIDs]
    BY <1>1 DEF ClosureQueries
  <2>6. next \in Seq(DIDs)
    BY <1>1 DEF ClosureQueries
  <2> HIDE DEF seen, next, via
  <2>7. r = [q EXCEPT !.seen = seen, !.next = next, !.via = via, !.edges = left]
    BY <2>2 DEF ClosureQueries
  <2> HIDE DEF left, r
  <2>8. r \in ClosureQueries
    BY <2>4, <2>5, <2>6, <2>7, <1>2 DEF ClosureQueries
  <2>9. r.seen = seen /\ r.next = next /\ r.via = via /\ r.edges = left
    BY <2>7 DEF ClosureQueries
  <2>10. SameWalk(q, r) /\ r.truncated = q.truncated
    BY <2>7 DEF ClosureQueries, SameWalk
  <2>11. Discovered(q, r, e)
    BY <2>9, <1>7 DEF Discovered, seen, next, via
  <2> QED BY <2>8, <2>9, <2>10, <2>11, <1>7 DEF r, left
<1> QED BY <1>4, <1>5, <1>6, <1>7

LEMMA RingDoneIs ==
  ASSUME NEW q \in ClosureQueries
  PROVE  LET r == RingDone(q)
         IN  /\ r \in ClosureQueries
             /\ r.root = q.root /\ r.want = q.want /\ r.cap = q.cap /\ r.degree = q.degree
             /\ r.seen = q.seen /\ r.via = q.via
             /\ r.frontier = q.next /\ r.next = <<>> /\ r.edges = q.edges
             /\ r.truncated <=> q.truncated \/ q.cut
             /\ r.at = IF r.truncated \/ q.next = <<>> THEN "page" ELSE "ring"
<1> DEFINE t == q.truncated \/ q.cut
           at == IF q.truncated \/ q.cut \/ q.next = <<>> THEN "page" ELSE "ring"
<1>1. t \in BOOLEAN /\ at \in {"page", "ring"} /\ <<>> \in Seq(DIDs)
  OBVIOUS
<1>2. RingDone(q) = [q EXCEPT !.truncated = t, !.frontier = q.next, !.next = <<>>, !.at = at]
  BY DEF RingDone
<1> HIDE DEF t, at
<1>3. RingDone(q) \in ClosureQueries
  BY <1>1, <1>2 DEF ClosureQueries
<1>4. LET r == RingDone(q)
      IN  /\ r.root = q.root /\ r.want = q.want /\ r.cap = q.cap /\ r.degree = q.degree
          /\ r.seen = q.seen /\ r.via = q.via
          /\ r.frontier = q.next /\ r.next = <<>> /\ r.edges = q.edges
          /\ r.truncated = t /\ r.at = at
  BY <1>2 DEF ClosureQueries
<1> QED BY <1>3, <1>4 DEF t, at

-----------------------------------------------------------------------------
(* The accounts of a closure, and a page of them.                           *)

LEMMA AccountsRise ==
  ASSUME NEW q \in ClosureQueries
  PROVE  LET a == Accounts(q)
         IN  /\ a \in Seq(Nat \X Nat)
             /\ \A i \in 1..Len(a) : a[i] \in Nat \X Nat /\ a[i][1] >= 1
             /\ \A i, j \in 1..Len(a) : i < j => Before(a[i], a[j])
<1> DEFINE among == {e \in DIDs : q.seen[e] \in 1..MaxDegree /\ q.want \in {0, q.seen[e]}}
           S == {<<q.seen[d], d>> : d \in among}
           U == (0..MaxDegree) \X DIDs
<1>1. DIDs \subseteq Nat /\ MaxDegree \in Nat
  BY ClosureAssumption
<1>2. \A x \in S : x \in Nat \X Nat /\ x[1] >= 1 /\ x \in U
  BY <1>1
<1>3. IsFiniteSet(U)
  <2>1. IsFiniteSet(0..MaxDegree)
    BY <1>1, FS_Interval
  <2>2. IsFiniteSet(DIDs)
    BY ClosureAssumption
  <2> QED BY <2>1, <2>2, FS_Product
<1>4. S \in SUBSET U
  BY <1>2
<1>5. IsFiniteSet(S)
  BY <1>3, <1>4, FS_Subset
<1>6. S \subseteq Nat \X Nat
  BY <1>2
<1>7. Accounts(q) = InOrder(S)
  BY DEF Accounts
<1> HIDE DEF S
<1>8. /\ InOrder(S) \in Seq(S) /\ Len(InOrder(S)) = Cardinality(S)
      /\ \A i, j \in 1..Cardinality(S) : i < j => Before(InOrder(S)[i], InOrder(S)[j])
  BY <1>5, <1>6, InOrderRises
<1>9. PICK a \in Seq(S) : a = Accounts(q)
  BY <1>7, <1>8
<1>10. \A i \in 1..Len(a) : a[i] \in S
  OBVIOUS
<1>11. a \in Seq(Nat \X Nat)
  BY <1>6
<1> QED BY <1>2, <1>7, <1>8, <1>9, <1>10, <1>11

LEMMA OffsetIsANumber ==
  ASSUME NEW n \in Nat, NEW a, Len(a) = n, NEW after
  PROVE  StartOffset(a, after) \in 0..n
<1> DEFINE S == {i \in 1..Len(a) : ~Before(after, a[i])}
<1>1. IsFiniteSet(1..n) /\ Cardinality(1..n) = n
  BY FS_Interval
<1>2. S \in SUBSET (1..n)
  OBVIOUS
<1>3. IsFiniteSet(S) /\ Cardinality(S) <= n
  BY <1>1, <1>2, FS_Subset
<1>4. Cardinality(S) \in Nat
  BY <1>3, FS_CardinalityType
<1> QED BY <1>3, <1>4 DEF StartOffset

(* A page: the accounts from the offset on, up to PageSize of them *)
LEMMA SendPageIs ==
  ASSUME ClosureTypeOK, SendPage
  PROVE  LET a == Accounts(query)
             start == StartOffset(a, pages.after)
         IN  /\ start \in 0..Len(a)
             /\ pages' \in ClosurePages /\ query' \in ClosureQueries
             /\ query'.at = "idle" /\ query' = [query EXCEPT !.at = "idle"]
             /\ pages'.root = pages.root /\ pages'.want = pages.want
             /\ pages'.cap = pages.cap /\ pages'.count = pages.count
             /\ \E end \in start..Len(a) :
                  /\ end < Len(a) => end > start
                  /\ pages'.at = IF end < Len(a) THEN "more" ELSE "end"
                  /\ pages'.got = pages.got \o SubSeq(a, start + 1, end)
                  /\ pages'.after = IF end > start THEN a[end] ELSE pages.after
<1>1. PICK a \in Seq(Nat \X Nat) :
        /\ a = Accounts(query) /\ \A i \in 1..Len(a) : a[i] \in Nat \X Nat
  BY AccountsRise DEF ClosureTypeOK
<1>2. PICK start \in 0..Len(a) : start = StartOffset(a, pages.after)
  BY OffsetIsANumber
<1> DEFINE end == IF start + PageSize > Len(a) THEN Len(a) ELSE start + PageSize
           at == IF end < Len(a) THEN "more" ELSE "end"
           got == pages.got \o SubSeq(a, start + 1, end)
           after == IF end > start THEN a[end] ELSE pages.after
<1>3. end \in start..Len(a) /\ end \in Nat /\ (end < Len(a) => end > start)
  BY ClosureConstants
<1>4. pages' = [pages EXCEPT !.at = at, !.got = got, !.after = after]
  BY <1>1, <1>2 DEF SendPage
<1>5. pages.got \in Seq(Nat \X Nat) /\ pages.after \in Nat \X Nat /\ pages \in ClosurePages
  BY DEF ClosureTypeOK, ClosurePages
<1>6. SubSeq(a, start + 1, end) \in Seq(Nat \X Nat)
  <2> HIDE DEF end
  <2>1. \A i \in start + 1..end : a[i] \in Nat \X Nat
    BY <1>1, <1>3
  <2> QED BY <2>1, <1>3
<1>7. got \in Seq(Nat \X Nat)
  BY <1>5, <1>6
<1>8. after \in Nat \X Nat
  BY <1>1, <1>3, <1>5
<1>9. at \in {"none", "more", "end"}
  OBVIOUS
<1> HIDE DEF end, at, got, after
<1>10. pages' \in ClosurePages
  BY <1>4, <1>5, <1>7, <1>8, <1>9 DEF ClosurePages
<1>11. /\ pages'.at = at /\ pages'.got = got /\ pages'.after = after
       /\ pages'.root = pages.root /\ pages'.want = pages.want
       /\ pages'.cap = pages.cap /\ pages'.count = pages.count
  BY <1>4, <1>5 DEF ClosurePages
<1>12. query' = [query EXCEPT !.at = "idle"] /\ query \in ClosureQueries
  BY DEF SendPage, ClosureTypeOK
<1>13. query' \in ClosureQueries /\ query'.at = "idle"
  BY <1>12 DEF ClosureQueries
<1>14. /\ pages'.at = IF end < Len(a) THEN "more" ELSE "end"
       /\ pages'.got = pages.got \o SubSeq(a, start + 1, end)
       /\ pages'.after = IF end > start THEN a[end] ELSE pages.after
  BY <1>11 DEF at, got, after
<1> QED BY <1>1, <1>2, <1>3, <1>10, <1>11, <1>12, <1>13, <1>14

-----------------------------------------------------------------------------
(* Every step keeps the invariant.                                          *)

LEMMA AskKeeps ==
  ASSUME ClosureTypeOK, NEW root \in DIDs, NEW want \in 0..MaxDegree, NEW cap \in Nat,
         NEW p \in ClosurePages, p.at = "more", p.root = root, p.want = want, p.cap = cap,
         p.count <= MaxPages, steady' \in BOOLEAN,
         Ask(root, want, cap, p)
  PROVE  ClosureInv'
<1>0. PICK q \in ClosureQueries : q = Asked(root, want, cap)
  BY AskedIs
<1>1. /\ query' = q
      /\ q.at = "ring" /\ q.root = root /\ q.want = want /\ q.cap = cap
      /\ q.degree = 0 /\ Len(q.frontier) = 1 /\ q.frontier[1] = root
      /\ Len(q.next) = 0 /\ q.edges = {} /\ ~q.cut /\ ~q.truncated
      /\ \A d \in DIDs : q.seen[d] = (IF d = root THEN 0 ELSE Unseen) /\ q.via[d] = {}
  BY <1>0, AskedIs DEF Ask
<1>2. rows' = rows /\ changes' = changes /\ always' = Active /\ ever' = Active
  BY DEF Ask
<1>3. Active' = Active
  BY <1>2 DEF Active, Rejected
<1>4. /\ pages' \in ClosurePages /\ pages'.at = "more" /\ pages'.root = root
      /\ pages'.want = want /\ pages'.cap = cap /\ pages'.count = p.count + 1
  <2>1. PICK k \in Nat : k = p.count + 1
    BY DEF ClosurePages
  <2>2. pages' = [p EXCEPT !.count = k]
    BY <2>1 DEF Ask
  <2> QED BY <2>1, <2>2 DEF ClosurePages
<1>5. Active \subseteq DIDs \X DIDs
  BY ActiveIsEdges DEF ClosureTypeOK
<1>6. ClosureTypeOK'
  <2>1. p.count \in Nat /\ MaxPages \in Nat
    BY ClosureAssumption DEF ClosurePages
  <2>2. pages'.count <= MaxPages + 1
    BY <2>1, <1>4
  <2> QED BY <1>1, <1>2, <1>4, <1>5, <2>2 DEF ClosureTypeOK
<1>7. Requested'
  BY <1>1, <1>4 DEF Requested, Walking
<1>8. HistoryOK'
  BY <1>2, <1>3 DEF HistoryOK
<1>9. DegreesOK'
  <2>1. LastDegree(q) \in 1..MaxDegree
    BY LastDegrees
  <2> QED BY <1>1, <2>1, ClosureConstants DEF DegreesOK
<1>10. RingOK'
  <2>1. ASSUME NEW d \in DIDs PROVE Among(q.frontier, d) <=> d = root
    BY <1>1 DEF Among
  <2> QED BY <1>1, <2>1, ClosureConstants DEF RingOK
<1>11. ViaOK'
  <2>1. ASSUME NEW d \in DIDs
        PROVE  /\ IsFiniteSet(q.via[d]) /\ Cardinality(q.via[d]) <= MaxVia
               /\ q.via[d] = {} /\ q.seen[d] \notin 2..MaxDegree /\ q.seen[d] # 1
    <3>1. q.via[d] = {} /\ q.seen[d] = (IF d = root THEN 0 ELSE Unseen)
      BY <1>1
    <3>2. IsFiniteSet({}) /\ Cardinality({}) = 0
      BY FS_EmptySet
    <3>3. Cardinality(q.via[d]) <= MaxVia
      BY <3>1, <3>2, ClosureConstants
    <3> QED BY <3>1, <3>2, <3>3, ClosureConstants
  <2> QED BY <1>1, <2>1 DEF ViaOK
<1>12. NoneMissed'
  BY <1>1, ClosureConstants DEF NoneMissed
<1> QED BY <1>6, <1>7, <1>8, <1>9, <1>10, <1>11, <1>12 DEF ClosureInv

LEMMA FirstPageKeeps ==
  ASSUME ClosureInv, NEW root \in Roots, NEW want \in 0..MaxDegree, NEW cap \in Caps,
         FirstPage(root, want, cap)
  PROVE  ClosureInv'
<1> DEFINE p == [NoPages EXCEPT !.at = "more", !.root = root, !.want = want, !.cap = cap]
<1>1. root \in DIDs /\ cap \in Nat /\ MaxPages \in Nat
  BY ClosureAssumption
<1>2. NoPages \in ClosurePages /\ NoPages.count = 0
  <2>1. <<0, 0>> \in Nat \X Nat /\ <<>> \in Seq(Nat \X Nat)
    OBVIOUS
  <2> QED BY <2>1, ClosureConstants DEF NoPages, ClosurePages
<1>3. PICK none \in ClosurePages : none = NoPages /\ none.count = 0
  BY <1>2
<1>4. p = [none EXCEPT !.at = "more", !.root = root, !.want = want, !.cap = cap]
  BY <1>3
<1>5. /\ p \in ClosurePages
      /\ p.at = "more" /\ p.root = root /\ p.want = want /\ p.cap = cap /\ p.count = 0
  <2> HIDE DEF p
  <2> QED BY <1>1, <1>3, <1>4 DEF ClosurePages
<1>6. Ask(root, want, cap, p) /\ steady' \in BOOLEAN
  BY DEF FirstPage
<1> HIDE DEF p
<1>7. p.count <= MaxPages
  BY <1>1, <1>5
<1> QED BY <1>1, <1>5, <1>6, <1>7, AskKeeps DEF ClosureInv

LEMMA NextPageKeeps ==
  ASSUME ClosureInv, NextPage
  PROVE  ClosureInv'
<1>1. pages \in ClosurePages /\ pages.at = "more" /\ pages.count < MaxPages
  BY DEF ClosureInv, ClosureTypeOK, NextPage
<1>2. pages.root \in DIDs
  BY <1>1 DEF ClosureInv, Requested
<1>3. pages.want \in 0..MaxDegree /\ pages.cap \in Nat /\ pages.count \in Nat
  BY <1>1 DEF ClosurePages
<1>4. pages.count <= MaxPages
  BY <1>1, <1>3, ClosureAssumption
<1>5. Ask(pages.root, pages.want, pages.cap, pages) /\ steady' \in BOOLEAN
  BY DEF NextPage, ClosureInv, ClosureTypeOK
<1>6. PICK root \in DIDs : root = pages.root
  BY <1>2
<1>7. PICK want \in 0..MaxDegree : want = pages.want
  BY <1>3
<1>8. PICK cap \in Nat : cap = pages.cap
  BY <1>3
<1>9. PICK p \in ClosurePages : p = pages
  BY <1>1
<1>10. Ask(root, want, cap, p)
  BY <1>5, <1>6, <1>7, <1>8, <1>9
<1>11. /\ p.at = "more" /\ p.root = root /\ p.want = want /\ p.cap = cap
       /\ p.count <= MaxPages
  BY <1>1, <1>4, <1>6, <1>7, <1>8, <1>9
<1>12. ClosureTypeOK
  BY DEF ClosureInv
<1> QED BY <1>5, <1>10, <1>11, <1>12, AskKeeps

(* A step of the walk alone leaves the table and the history as they are. *)
LEMMA WalkStepTypes ==
  ASSUME ClosureInv, UNCHANGED <<rows, pages, changes, always, ever, steady>>,
         query' \in ClosureQueries, query'.root = query.root, query'.want = query.want,
         query'.cap = query.cap, Walking
  PROVE  ClosureTypeOK' /\ Requested' /\ HistoryOK'
<1>1. Active' = Active
  BY DEF Active, Rejected
<1>2. ClosureTypeOK'
  BY DEF ClosureInv, ClosureTypeOK
<1>3. Requested'
  BY DEF ClosureInv, Requested, Walking
<1>4. HistoryOK'
  BY <1>1 DEF ClosureInv, HistoryOK, Walking
<1> QED BY <1>2, <1>3, <1>4

LEMMA StartRingKeeps ==
  ASSUME ClosureInv, StartRing
  PROVE  ClosureInv'
<1>1. /\ query \in ClosureQueries /\ query.at = "ring" /\ query.degree <= LastDegree(query)
      /\ ~query.truncated
  BY DEF ClosureInv, ClosureTypeOK, StartRing, DegreesOK, RingOK, Walking
<1>2. PICK r \in ClosureQueries :
             /\ query' = r
             /\ r.root = query.root /\ r.want = query.want /\ r.cap = query.cap
             /\ r.seen = query.seen /\ r.via = query.via
             /\ r.frontier = query.frontier /\ r.next = query.next
             /\ \/ /\ r.at = "page" /\ r.degree = query.degree
                   /\ r.truncated \/ (query.degree = LastDegree(query))
                   /\ query.truncated => r.truncated
                \/ /\ r.at = "batch" /\ r.degree = query.degree + 1
                   /\ query.degree < LastDegree(query)
                   /\ r.read = 0 /\ r.edges = {} /\ ~r.cut
                   /\ r.truncated = query.truncated
  BY <1>1, NextRingIs DEF StartRing
<1>3. UNCHANGED <<rows, pages, changes, always, ever, steady>>
  BY DEF StartRing
<1>4. ClosureTypeOK' /\ Requested' /\ HistoryOK'
  BY <1>1, <1>2, <1>3, WalkStepTypes DEF Walking
<1>5. LastDegree(r) = LastDegree(query) /\ LastDegree(query) \in 1..MaxDegree
  BY <1>1, <1>2, LastDegrees DEF LastDegree
<1>6. query.degree \in Nat /\ \A d \in DIDs : query.seen[d] \in 0..Unseen
  BY <1>1 DEF ClosureQueries
<1>7. DegreesOK'
  BY <1>1, <1>2, <1>5, <1>6, ClosureConstants DEF ClosureInv, DegreesOK, Walking
<1>8. RingOK'
  <2>1. CASE r.at = "page"
    BY <1>2, <1>5, <2>1 DEF RingOK
  <2>2. CASE r.at = "batch"
    <3>1. Len(query.next) = 0
      BY <1>1 DEF ClosureInv, RingOK
    <3>2. r.degree = query.degree + 1 /\ r.degree >= 1 /\ r.edges = {}
      BY <1>2, <1>6, <2>2
    <3>3. ASSUME NEW d \in DIDs PROVE Among(r.frontier, d) <=> r.seen[d] + 1 = r.degree
      <4>1. Among(query.frontier, d) <=> query.seen[d] = query.degree
        BY <1>1 DEF ClosureInv, RingOK
      <4> QED BY <4>1, <1>2, <1>6, <3>2
    <3>4. ASSUME NEW d \in DIDs PROVE Among(r.next, d) <=> r.seen[d] = r.degree
      <4>1. ~ Among(r.next, d)
        BY <1>2, <3>1 DEF Among
      <4>2. query.seen[d] # Unseen => query.seen[d] <= query.degree
        BY <1>1 DEF ClosureInv, DegreesOK, Walking
      <4>3. query.degree + 1 < Unseen
        BY <1>2, <1>5, <1>6, <2>2, ClosureConstants
      <4> QED BY <4>1, <4>2, <4>3, <1>2, <1>6, <3>2
    <3> QED BY <1>2, <2>2, <3>2, <3>3, <3>4 DEF RingOK
  <2> QED BY <1>2, <2>1, <2>2
<1>9. ViaOK'
  BY <1>1, <1>2, <1>3 DEF ClosureInv, ViaOK, Walking
<1>10. NoneMissed'
  <2> SUFFICES ASSUME ~r.truncated, NEW v \in DIDs, NEW d \in DIDs,
                      <<v, d>> \in always, query.seen[v] < r.degree
               PROVE  Followed(v, d)' \/ ToFollow(v, d)'
    BY <1>2, <1>3 DEF NoneMissed
  <2>1. CASE query.seen[v] < query.degree
    <3>1. Followed(v, d) \/ ToFollow(v, d)
      BY <1>1, <2>1 DEF ClosureInv, NoneMissed, Walking
    <3>2. Followed(v, d)
      BY <3>1, <1>1 DEF ToFollow
    <3> QED BY <3>2, <1>2 DEF Followed
  <2>2. CASE ~ (query.seen[v] < query.degree)
    <3>1. r.at = "batch" /\ query.seen[v] = query.degree /\ r.read = 0
      BY <1>2, <1>6, <2>2
    <3>2. Among(query.frontier, v)
      BY <1>1, <3>1 DEF ClosureInv, RingOK
    <3> QED BY <3>1, <3>2, <1>2 DEF ToFollow, Among
  <2> QED BY <2>1, <2>2
<1> QED BY <1>4, <1>7, <1>8, <1>9, <1>10 DEF ClosureInv

LEMMA ReadBatchKeeps ==
  ASSUME ClosureInv, ReadBatch
  PROVE  ClosureInv'
<1>1. /\ query \in ClosureQueries /\ query.at = "batch"
      /\ rows \subseteq Awards \union Badges \union Responses
  BY DEF ClosureInv, ClosureTypeOK, ReadBatch
<1>2. Active \subseteq DIDs \X DIDs
  BY <1>1, ActiveIsEdges
<1>3. PICK r \in ClosureQueries :
             /\ query' = r
             /\ r.root = query.root /\ r.want = query.want /\ r.cap = query.cap
             /\ r.degree = query.degree
             /\ r.seen = query.seen /\ r.via = query.via /\ r.truncated = query.truncated
             /\ r.frontier = query.frontier /\ r.next = query.next
             /\ \A e \in r.edges :
                  \/ e \in query.edges
                  \/ e \in Active /\ e[1] \in {query.frontier[i] : i \in query.read + 1..r.read}
             /\ query.edges \subseteq r.edges
             /\ r.cut \/ \A e \in Active :
                  e[1] \in {query.frontier[i] : i \in query.read + 1..r.read} => e \in r.edges
             /\ r.at \in {"batch", "expand"}
             /\ r.at = "batch" => ~ r.cut
             /\ r.at = "expand" => r.cut \/ r.read = Len(query.frontier)
             /\ r.read <= Len(query.frontier)
  BY <1>1, <1>2, NextBatchIs DEF ReadBatch
<1>4. UNCHANGED <<rows, pages, changes, always, ever, steady>>
  BY DEF ReadBatch
<1>5. ClosureTypeOK' /\ Requested' /\ HistoryOK'
  BY <1>1, <1>3, <1>4, WalkStepTypes DEF Walking
<1>6. LastDegree(r) = LastDegree(query)
  BY <1>3 DEF LastDegree
<1>7. query.read \in Nat /\ r.read \in Nat /\ query.frontier \in Seq(DIDs)
  BY <1>1 DEF ClosureQueries
<1>8. DegreesOK'
  BY <1>1, <1>3, <1>6 DEF ClosureInv, DegreesOK, Walking
<1>9. RingOK'
  <2>1. ASSUME NEW e \in r.edges PROVE e \in ever /\ query.seen[e[1]] + 1 = query.degree
    <3>1. CASE e \in query.edges
      BY <1>1, <3>1 DEF ClosureInv, RingOK
    <3>2. CASE e \in Active /\ e[1] \in {query.frontier[i] : i \in query.read + 1..r.read}
      <4>1. PICK i \in query.read + 1..r.read : e[1] = query.frontier[i]
        BY <3>2
      <4>2. i \in 1..Len(query.frontier)
        BY <4>1, <1>3, <1>7
      <4>3. Among(query.frontier, e[1]) /\ e[1] \in DIDs
        BY <4>1, <4>2, <1>7 DEF Among
      <4>4. query.seen[e[1]] + 1 = query.degree
        BY <4>3, <1>1 DEF ClosureInv, RingOK
      <4> QED BY <3>2, <4>4, <1>1 DEF ClosureInv, HistoryOK, Walking
    <3> QED BY <3>1, <3>2, <1>3
  <2>2. /\ query.degree >= 1
        /\ \A d \in DIDs :
             /\ Among(query.frontier, d) <=> query.seen[d] + 1 = query.degree
             /\ Among(query.next, d) <=> query.seen[d] = query.degree
    BY <1>1 DEF ClosureInv, RingOK
  <2> QED BY <1>3, <1>4, <2>1, <2>2 DEF RingOK
<1>10. ViaOK'
  BY <1>1, <1>3, <1>4 DEF ClosureInv, ViaOK, Walking
<1>11. NoneMissed'
  <2> SUFFICES ASSUME ~query.truncated, NEW v \in DIDs, NEW d \in DIDs,
                      <<v, d>> \in always, query.seen[v] < query.degree
               PROVE  Followed(v, d)' \/ ToFollow(v, d)'
    BY <1>3, <1>4 DEF NoneMissed
  <2>1. Followed(v, d) \/ ToFollow(v, d)
    BY <1>1 DEF ClosureInv, NoneMissed, Walking
  <2>2. CASE Followed(v, d)
    BY <2>2, <1>3 DEF Followed
  <2>3. CASE <<v, d>> \in query.edges
    BY <2>3, <1>3 DEF ToFollow
  <2>4. CASE r.cut
    BY <2>4, <1>3 DEF ToFollow
  <2>5. ASSUME NEW i \in query.read + 1..Len(query.frontier), query.frontier[i] = v, ~r.cut
        PROVE  ToFollow(v, d)'
    <3>1. CASE i <= r.read
      <4>1. i \in query.read + 1..r.read
        BY <3>1, <1>7
      <4>2. <<v, d>> \in Active
        BY DEF ClosureInv, HistoryOK
      <4>3. <<v, d>>[1] \in {query.frontier[j] : j \in query.read + 1..r.read}
        BY <2>5, <4>1
      <4>4. <<v, d>> \in r.edges
        BY <1>3, <2>5, <4>2, <4>3
      <4> QED BY <4>4, <1>3 DEF ToFollow
    <3>2. CASE ~ (i <= r.read)
      <4>1. i \in r.read + 1..Len(r.frontier) /\ r.frontier[i] = v
        BY <3>2, <2>5, <1>3, <1>7
      <4>2. r.at = "batch"
        BY <3>2, <2>5, <1>3, <1>7
      <4> QED BY <4>1, <4>2, <1>3 DEF ToFollow
    <3> QED BY <3>1, <3>2
  <2> QED BY <1>1, <2>1, <2>2, <2>3, <2>4, <2>5 DEF ToFollow
<1> QED BY <1>5, <1>8, <1>9, <1>10, <1>11 DEF ClosureInv

LEMMA EndRingKeeps ==
  ASSUME ClosureInv, EndRing
  PROVE  ClosureInv'
<1>1. query \in ClosureQueries /\ query.at = "expand" /\ query.edges = {}
  BY DEF ClosureInv, ClosureTypeOK, EndRing
<1>2. PICK r \in ClosureQueries :
             /\ query' = r
             /\ r.root = query.root /\ r.want = query.want /\ r.cap = query.cap
             /\ r.degree = query.degree
             /\ r.seen = query.seen /\ r.via = query.via
             /\ r.frontier = query.next /\ r.next = <<>> /\ r.edges = query.edges
             /\ r.truncated <=> query.truncated \/ query.cut
             /\ r.at = IF r.truncated \/ query.next = <<>> THEN "page" ELSE "ring"
  BY <1>1, RingDoneIs DEF EndRing
<1>3. UNCHANGED <<rows, pages, changes, always, ever, steady>>
  BY DEF EndRing
<1>4. ClosureTypeOK' /\ Requested' /\ HistoryOK'
  BY <1>1, <1>2, <1>3, WalkStepTypes DEF Walking
<1>5. LastDegree(r) = LastDegree(query)
  BY <1>2 DEF LastDegree
<1>6. DegreesOK'
  BY <1>1, <1>2, <1>5 DEF ClosureInv, DegreesOK, Walking
<1>7. \A d \in DIDs : Among(query.next, d) <=> query.seen[d] = query.degree
  BY <1>1 DEF ClosureInv, RingOK
<1>8. RingOK'
  <2>1. CASE r.at = "ring"
    <3>1. ~r.truncated /\ Len(r.next) = 0
      BY <1>2, <2>1
    <3> QED BY <1>2, <1>7, <2>1, <3>1 DEF RingOK
  <2>2. CASE r.at = "page"
    <3>1. ASSUME ~r.truncated, NEW d \in DIDs PROVE query.seen[d] # query.degree
      <4>1. query.next = <<>>
        BY <1>2, <2>2, <3>1
      <4>2. ~Among(query.next, d)
        BY <4>1 DEF Among
      <4> QED BY <4>2, <1>7
    <3> QED BY <1>2, <2>2, <3>1 DEF RingOK
  <2> QED BY <1>2, <2>1, <2>2
<1>9. ViaOK'
  BY <1>1, <1>2, <1>3 DEF ClosureInv, ViaOK, Walking
<1>10. NoneMissed'
  <2> SUFFICES ASSUME ~r.truncated, NEW v \in DIDs, NEW d \in DIDs,
                      <<v, d>> \in always, query.seen[v] < query.degree
               PROVE  Followed(v, d)'
    BY <1>2, <1>3 DEF NoneMissed
  <2>1. ~query.truncated /\ ~query.cut
    BY <1>2
  <2>2. Followed(v, d) \/ ToFollow(v, d)
    BY <1>1, <2>1 DEF ClosureInv, NoneMissed, Walking
  <2>3. Followed(v, d)
    BY <2>1, <2>2, <1>1 DEF ToFollow
  <2> QED BY <2>3, <1>2 DEF Followed
<1> QED BY <1>4, <1>6, <1>8, <1>9, <1>10 DEF ClosureInv

LEMMA SendPageKeeps ==
  ASSUME ClosureInv, SendPage
  PROVE  ClosureInv'
<1>1. ClosureTypeOK /\ query.at = "page"
  BY DEF ClosureInv, SendPage
<1>2. /\ pages' \in ClosurePages /\ query' \in ClosureQueries /\ query'.at = "idle"
      /\ pages'.root = pages.root /\ pages'.count = pages.count
  BY <1>1, SendPageIs
<1>3. UNCHANGED <<rows, changes, always, ever, steady>>
  BY DEF SendPage
<1>4. ClosureTypeOK'
  BY <1>1, <1>2, <1>3 DEF ClosureTypeOK
<1>5. pages.root \in DIDs
  BY <1>1 DEF ClosureInv, Requested, Walking
<1>6. Active' = Active
  BY <1>3 DEF Active, Rejected
<1>7. Requested' /\ HistoryOK'
  BY <1>2, <1>3, <1>5, <1>6 DEF ClosureInv, Requested, HistoryOK, Walking
<1>8. DegreesOK' /\ RingOK' /\ ViaOK' /\ NoneMissed'
  BY <1>2 DEF DegreesOK, RingOK, ViaOK, NoneMissed, Walking
<1> QED BY <1>4, <1>7, <1>8 DEF ClosureInv

LEMMA RecordChangesKeeps ==
  ASSUME ClosureInv, NEW row \in Awards \union Badges \union Responses, NEW put \in BOOLEAN,
         RecordChanges(row, put)
  PROVE  ClosureInv'
<1>1. /\ query' = query /\ pages' = pages
      /\ always' = always \intersect Active' /\ ever' = ever \union Active'
  BY DEF RecordChanges
<1>2. rows' \subseteq Awards \union Badges \union Responses
  BY DEF RecordChanges, ClosureInv, ClosureTypeOK
<1>3. Active' \subseteq DIDs \X DIDs
  <2>1. ASSUME NEW e \in Active' PROVE e \in DIDs \X DIDs
    <3>1. PICK w \in Awards : e = <<w.issuer, w.subject>> /\ EndorsesAccount(w)
      BY <2>1 DEF Active, EndorsesAccount
    <3>2. w.issuer \in DIDs /\ w.subject \in DIDs
      BY <3>1, ClosureAssumption DEF EndorsesAccount
    <3> QED BY <3>1, <3>2
  <2> QED BY <2>1
<1>4. ClosureTypeOK'
  <2>1. changes' \in 0..MaxChanges /\ steady' \in BOOLEAN
    <3>1. changes' = changes + 1 /\ changes < MaxChanges /\ steady' \in BOOLEAN
      BY DEF RecordChanges
    <3>2. changes \in 0..MaxChanges /\ MaxChanges \in Nat
      BY ClosureAssumption DEF ClosureInv, ClosureTypeOK
    <3> QED BY <3>1, <3>2
  <2>2. always' \subseteq ever' /\ ever' \subseteq DIDs \X DIDs
    BY <1>1, <1>3 DEF ClosureInv, ClosureTypeOK
  <2> QED BY <1>1, <1>2, <2>1, <2>2 DEF ClosureInv, ClosureTypeOK
<1>5. Requested' /\ HistoryOK'
  BY <1>1 DEF ClosureInv, Requested, HistoryOK, Walking
<1>6. LastDegree(query)' = LastDegree(query)
  BY <1>1 DEF LastDegree
<1>7. DegreesOK'
  BY <1>1, <1>6 DEF ClosureInv, DegreesOK, Walking
<1>8. RingOK'
  BY <1>1, <1>6 DEF ClosureInv, RingOK, Among
<1>9. ViaOK'
  BY <1>1 DEF ClosureInv, ViaOK, Walking
<1>10. NoneMissed'
  <2> SUFFICES ASSUME Walking, ~query.truncated, NEW v \in DIDs, NEW d \in DIDs,
                      <<v, d>> \in always, query.seen[v] < query.degree
               PROVE  Followed(v, d)' \/ ToFollow(v, d)'
    BY <1>1 DEF NoneMissed, Walking
  <2>1. Followed(v, d) \/ ToFollow(v, d)
    BY DEF ClosureInv, NoneMissed
  <2> QED BY <2>1, <1>1 DEF Followed, ToFollow
<1> QED BY <1>4, <1>5, <1>7, <1>8, <1>9, <1>10 DEF ClosureInv

LEMMA FollowEdgeKeeps ==
  ASSUME ClosureInv, FollowEdge
  PROVE  ClosureInv'
<1>1. query \in ClosureQueries /\ query.at = "expand" /\ Walking
  BY DEF ClosureInv, ClosureTypeOK, FollowEdge, Walking
<1>2. PICK e \in query.edges :
        query' = [Follow(query, e) EXCEPT !.edges = query.edges \ {e}]
  BY DEF FollowEdge
<1>3. PICK r \in ClosureQueries : r = query'
  BY <1>1, <1>2, FollowIs
<1>4. SameWalk(query, r) /\ r.edges = query.edges \ {e}
  BY <1>1, <1>2, <1>3, FollowIs
<1>5. \/ /\ Ignored(query, r) /\ r.truncated = query.truncated
         /\ \/ e[2] = query.root
            \/ /\ query.seen[e[2]] # Unseen
               /\ ~ (/\ query.seen[e[2]] = query.degree /\ query.degree > 1
                     /\ Cardinality(query.via[e[2]]) < MaxVia)
      \/ Credited(query, r, e) /\ e[2] # query.root /\ r.truncated = query.truncated
      \/ Ignored(query, r) /\ r.truncated = TRUE
      \/ Discovered(query, r, e) /\ e[2] # query.root /\ r.truncated = query.truncated
  BY <1>1, <1>2, <1>3, FollowIs
<1>6. UNCHANGED <<rows, pages, changes, always, ever, steady>>
  BY DEF FollowEdge
<1>7. ClosureTypeOK' /\ Requested' /\ HistoryOK'
  BY <1>1, <1>3, <1>4, <1>6, WalkStepTypes DEF SameWalk
<1>8. PICK v \in DIDs, d \in DIDs : e = <<v, d>>
  BY <1>1 DEF ClosureQueries
<1>9. <<v, d>> \in ever /\ query.seen[v] + 1 = query.degree
  BY <1>1, <1>8 DEF ClosureInv, RingOK
<1>10. /\ query.degree \in 1..MaxDegree /\ query.degree < Unseen
       /\ \A x \in DIDs : query.seen[x] \in 0..Unseen /\ query.via[x] \subseteq DIDs
       /\ query.next \in Seq(DIDs)
       /\ query.seen \in [DIDs -> 0..Unseen] /\ query.via \in [DIDs -> SUBSET DIDs]
  <2>1. query.degree >= 1
    BY <1>1 DEF ClosureInv, RingOK
  <2>2. /\ query.next \in Seq(DIDs)
        /\ query.seen \in [DIDs -> 0..Unseen] /\ query.via \in [DIDs -> SUBSET DIDs]
        /\ query.degree \in 0..MaxDegree
    BY <1>1 DEF ClosureQueries
  <2>3. query.degree \in 1..MaxDegree /\ query.degree < Unseen
    BY <2>1, <2>2, ClosureConstants
  <2>4. \A x \in DIDs : query.seen[x] \in 0..Unseen /\ query.via[x] \subseteq DIDs
    BY <2>2
  <2> QED BY <2>2, <2>3, <2>4
<1>11. LastDegree(r) = LastDegree(query) /\ query.degree <= LastDegree(query)
  BY <1>1, <1>4 DEF SameWalk, LastDegree, ClosureInv, DegreesOK
<1>12. \A x \in DIDs : /\ query.seen[x] = 0 <=> x = query.root
                       /\ query.seen[x] # Unseen => query.seen[x] <= query.degree
  BY <1>1 DEF ClosureInv, DegreesOK
<1>13. \A x \in DIDs : /\ Among(query.frontier, x) <=> query.seen[x] + 1 = query.degree
                       /\ Among(query.next, x) <=> query.seen[x] = query.degree
  BY <1>1 DEF ClosureInv, RingOK
<1>14. \A x \in DIDs :
         /\ IsFiniteSet(query.via[x]) /\ Cardinality(query.via[x]) <= MaxVia
         /\ \A y \in query.via[x] : query.seen[y] + 1 = query.seen[x] /\ <<y, x>> \in ever
         /\ query.seen[x] \in 2..MaxDegree => query.via[x] # {}
         /\ query.seen[x] = 1 => <<query.root, x>> \in ever
  BY <1>1 DEF ClosureInv, ViaOK
<1>15. \A f \in query.edges : f \in ever /\ query.seen[f[1]] + 1 = query.degree /\ f[1] \in DIDs
  BY <1>1 DEF ClosureInv, RingOK, ClosureQueries
<1>16. ~r.truncated =>
         /\ ~query.truncated
         /\ \A x, y \in DIDs : <<x, y>> \in always /\ query.seen[x] < query.degree =>
              Followed(x, y) \/ <<x, y>> \in query.edges \/ query.cut
  BY <1>1, <1>5 DEF ClosureInv, NoneMissed, ToFollow
(* An account that is not the one discovered keeps its degree. *)
<1>17. ASSUME Ignored(query, r),
              r.truncated \/ e[2] = query.root
                \/ (/\ query.seen[e[2]] # Unseen
                    /\ ~ (/\ query.seen[e[2]] = query.degree /\ query.degree > 1
                          /\ Cardinality(query.via[e[2]]) < MaxVia))
       PROVE  ClosureInv'
  <2>1. r.seen = query.seen /\ r.via = query.via /\ r.next = query.next
    BY <1>17 DEF Ignored
  <2>2. DegreesOK'
    BY <1>1, <1>3, <1>4, <1>11, <2>1 DEF ClosureInv, DegreesOK, SameWalk
  <2>3. RingOK'
    BY <1>1, <1>3, <1>4, <1>6, <1>10, <1>13, <1>15, <2>1 DEF RingOK, SameWalk
  <2>4. ViaOK'
    BY <1>3, <1>4, <1>6, <1>14, <2>1 DEF ViaOK, SameWalk
  <2>5. NoneMissed'
    <3> SUFFICES ASSUME ~r.truncated, NEW x \in DIDs, NEW y \in DIDs,
                        <<x, y>> \in always, query.seen[x] < query.degree
                 PROVE  Followed(x, y)' \/ ToFollow(x, y)'
      BY <1>3, <1>4, <1>6, <2>1 DEF NoneMissed, SameWalk
    <3>1. CASE Followed(x, y)
      BY <3>1, <1>3, <1>4, <2>1 DEF Followed, SameWalk
    <3>2. CASE query.cut
      BY <3>2, <1>1, <1>3, <1>4 DEF ToFollow, SameWalk
    <3>3. CASE <<x, y>> \in query.edges /\ <<x, y>> # e
      BY <3>3, <1>1, <1>3, <1>4 DEF ToFollow, SameWalk
    <3>4. CASE <<x, y>> = e
      <4>1. x = v /\ y = d /\ e[2] = d
        BY <3>4, <1>8
      <4>2. \/ d = query.root
            \/ /\ query.seen[d] # Unseen
               /\ ~ (/\ query.seen[d] = query.degree /\ query.degree > 1
                     /\ Cardinality(query.via[d]) < MaxVia)
        BY <1>17, <4>1
      <4>3. ASSUME d # query.root, query.seen[d] = query.degree, query.degree >= 2
            PROVE  Cardinality(query.via[d]) = MaxVia
        <5>1. IsFiniteSet(query.via[d]) /\ Cardinality(query.via[d]) <= MaxVia
          BY <1>14
        <5>2. Cardinality(query.via[d]) \in Nat
          BY <5>1, FS_CardinalityType
        <5> QED BY <4>2, <4>3, <5>1, <5>2, <1>10, ClosureConstants
      <4>4. Followed(v, d)
        BY <1>9, <1>10, <1>12, <4>2, <4>3 DEF Followed
      <4> QED BY <4>1, <4>4, <3>1
    <3> QED BY <1>16, <3>1, <3>2, <3>3, <3>4
  <2> QED BY <1>7, <2>2, <2>3, <2>4, <2>5 DEF ClosureInv
<1>18. CASE Credited(query, r, e) /\ e[2] # query.root /\ r.truncated = query.truncated
  <2>1. /\ r.seen = query.seen /\ r.next = query.next
        /\ query.seen[d] = query.degree /\ query.degree > 1
        /\ Cardinality(query.via[d]) < MaxVia
        /\ r.via = [query.via EXCEPT ![d] = query.via[d] \union {v}]
    BY <1>8, <1>18 DEF Credited
  <2>2. r.via[d] = query.via[d] \union {v} /\ \A x \in DIDs \ {d} : r.via[x] = query.via[x]
    BY <1>10, <2>1
  <2>3. DegreesOK'
    BY <1>1, <1>3, <1>4, <1>11, <2>1 DEF ClosureInv, DegreesOK, SameWalk
  <2>4. RingOK'
    BY <1>1, <1>3, <1>4, <1>6, <1>10, <1>13, <1>15, <2>1 DEF RingOK, SameWalk
  <2>5. IsFiniteSet(r.via[d]) /\ Cardinality(r.via[d]) <= MaxVia
    <3>1. IsFiniteSet(query.via[d])
      BY <1>14
    <3>2. Cardinality(query.via[d]) \in Nat
      BY <3>1, FS_CardinalityType
    <3>3. /\ IsFiniteSet(query.via[d] \union {v})
          /\ Cardinality(query.via[d] \union {v}) <= Cardinality(query.via[d]) + 1
      BY <3>1, <3>2, FS_AddElement
    <3>4. Cardinality(query.via[d] \union {v}) \in Nat
      BY <3>3, FS_CardinalityType
    <3>5. Cardinality(query.via[d] \union {v}) <= MaxVia
      BY <2>1, <3>2, <3>3, <3>4, ClosureConstants
    <3> QED BY <2>2, <3>3, <3>5
  <2>6. ViaOK'
    <3>1. ASSUME NEW x \in DIDs
          PROVE  /\ IsFiniteSet(r.via[x]) /\ Cardinality(r.via[x]) <= MaxVia
                 /\ \A y \in r.via[x] : r.seen[y] + 1 = r.seen[x] /\ <<y, x>> \in ever
                 /\ r.seen[x] \in 2..MaxDegree => r.via[x] # {}
                 /\ r.seen[x] = 1 => <<query.root, x>> \in ever
      <4>1. CASE x = d
        BY <4>1, <2>1, <2>2, <2>5, <1>9, <1>14
      <4>2. CASE x # d
        BY <4>2, <2>1, <2>2, <1>14
      <4> QED BY <4>1, <4>2
    <3> QED BY <3>1, <1>3, <1>4, <1>6 DEF ViaOK, SameWalk
  <2>7. NoneMissed'
    <3> SUFFICES ASSUME ~r.truncated, NEW x \in DIDs, NEW y \in DIDs,
                        <<x, y>> \in always, query.seen[x] < query.degree
                 PROVE  Followed(x, y)' \/ ToFollow(x, y)'
      BY <1>3, <1>4, <1>6, <2>1 DEF NoneMissed, SameWalk
    <3>1. CASE Followed(x, y)
      <4>1. CASE y # d
        BY <3>1, <4>1, <1>3, <1>4, <2>1, <2>2 DEF Followed, SameWalk
      <4>2. CASE y = d
        <5>1. Cardinality(query.via[d]) # MaxVia
          <6>1. IsFiniteSet(query.via[d])
            BY <1>14
          <6>2. Cardinality(query.via[d]) \in Nat
            BY <6>1, FS_CardinalityType
          <6> QED BY <6>2, <2>1, ClosureConstants
        <5> QED BY <3>1, <4>2, <5>1, <1>3, <1>4, <2>1, <2>2 DEF Followed, SameWalk
      <4> QED BY <4>1, <4>2
    <3>2. CASE query.cut
      BY <3>2, <1>1, <1>3, <1>4 DEF ToFollow, SameWalk
    <3>3. CASE <<x, y>> \in query.edges /\ <<x, y>> # e
      BY <3>3, <1>1, <1>3, <1>4 DEF ToFollow, SameWalk
    <3>4. CASE <<x, y>> = e
      <4>1. x = v /\ y = d
        BY <3>4, <1>8
      <4>2. Followed(x, y)'
        BY <4>1, <1>3, <1>4, <1>9, <1>10, <2>1, <2>2 DEF Followed, SameWalk
      <4> QED BY <4>2
    <3> QED BY <1>16, <3>1, <3>2, <3>3, <3>4
  <2> QED BY <1>7, <2>3, <2>4, <2>6, <2>7 DEF ClosureInv
<1>19. CASE Discovered(query, r, e) /\ e[2] # query.root /\ r.truncated = query.truncated
  <2>1. /\ query.seen[d] = Unseen /\ d # query.root
        /\ r.seen = [query.seen EXCEPT ![d] = query.degree]
        /\ r.next = Append(query.next, d)
        /\ r.via = [query.via EXCEPT ![d] = IF query.degree > 1 THEN {v} ELSE {}]
    BY <1>8, <1>19 DEF Discovered
  <2>2. /\ r.seen[d] = query.degree /\ \A x \in DIDs \ {d} : r.seen[x] = query.seen[x]
        /\ r.via[d] = IF query.degree > 1 THEN {v} ELSE {}
        /\ \A x \in DIDs \ {d} : r.via[x] = query.via[x]
    BY <1>10, <2>1
  <2>3. v # d
    BY <1>9, <1>10, <2>1
  <2>4. DegreesOK'
    <3>1. ASSUME NEW x \in DIDs
          PROVE  /\ r.seen[x] = 0 <=> x = query.root
                 /\ r.seen[x] # Unseen => r.seen[x] <= query.degree
      BY <1>10, <1>12, <2>1, <2>2
    <3>2. query.root \in DIDs
      BY <1>1 DEF ClosureInv, DegreesOK
    <3> QED BY <1>3, <1>4, <1>11, <3>1, <3>2 DEF DegreesOK, SameWalk
  <2>5. RingOK'
    <3>1. ASSUME NEW x \in DIDs
          PROVE  Among(query.frontier, x) <=> r.seen[x] + 1 = query.degree
      BY <1>10, <1>13, <2>1, <2>2, ClosureConstants
    <3>2. ASSUME NEW x \in DIDs PROVE Among(r.next, x) <=> r.seen[x] = query.degree
      <4>1. Among(r.next, x) <=> Among(query.next, x) \/ x = d
        <5>1. Len(r.next) = Len(query.next) + 1 /\ r.next[Len(query.next) + 1] = d
          BY <1>10, <2>1
        <5>2. \A i \in 1..Len(query.next) : r.next[i] = query.next[i]
          BY <1>10, <2>1
        <5>3. Len(query.next) \in Nat
          BY <1>10
        <5>4. PICK k \in Nat : k = Len(query.next)
          BY <5>3
        <5>5. Among(query.next, x) => Among(r.next, x)
          BY <5>1, <5>2, <5>4 DEF Among
        <5>6. x = d => Among(r.next, x)
          <6>1. k + 1 \in 1..Len(r.next) /\ r.next[k + 1] = d
            BY <5>1, <5>4
          <6> QED BY <6>1 DEF Among
        <5>7. ASSUME NEW i \in 1..k + 1, r.next[i] = x PROVE Among(query.next, x) \/ x = d
          <6>1. CASE i = k + 1
            BY <5>1, <5>4, <5>7, <6>1
          <6>2. CASE i \in 1..k
            BY <5>2, <5>4, <5>7, <6>2 DEF Among
          <6> QED BY <5>4, <6>1, <6>2
        <5> QED BY <5>1, <5>4, <5>5, <5>6, <5>7 DEF Among
      <4> QED BY <4>1, <1>10, <1>13, <2>1, <2>2
    <3>3. ASSUME NEW f \in r.edges PROVE f \in ever /\ r.seen[f[1]] + 1 = query.degree
      <4>1. f \in query.edges
        BY <1>4
      <4>2. f[1] # d
        BY <4>1, <1>10, <1>15, <2>1
      <4> QED BY <4>1, <4>2, <1>15, <2>2
    <3> QED BY <1>1, <1>3, <1>4, <1>6, <1>10, <3>1, <3>2, <3>3 DEF RingOK, SameWalk
  <2>6. ViaOK'
    <3>1. ASSUME NEW x \in DIDs
          PROVE  /\ IsFiniteSet(r.via[x]) /\ Cardinality(r.via[x]) <= MaxVia
                 /\ \A y \in r.via[x] : r.seen[y] + 1 = r.seen[x] /\ <<y, x>> \in ever
                 /\ r.seen[x] \in 2..MaxDegree => r.via[x] # {}
                 /\ r.seen[x] = 1 => <<query.root, x>> \in ever
      <4>1. CASE x = d
        <5>1. IsFiniteSet(r.via[d]) /\ Cardinality(r.via[d]) <= MaxVia
          <6>1. /\ IsFiniteSet({v}) /\ Cardinality({v}) = 1
                /\ IsFiniteSet({}) /\ Cardinality({}) = 0
            BY FS_Singleton, FS_EmptySet
          <6>2. CASE query.degree > 1
            BY <6>1, <6>2, <2>2, ClosureConstants
          <6>3. CASE ~ (query.degree > 1)
            BY <6>1, <6>3, <2>2, ClosureConstants
          <6> QED BY <6>2, <6>3
        <5>2. query.degree = 1 => v = query.root
          BY <1>9, <1>10, <1>12
        <5>3. ASSUME NEW y \in r.via[d] PROVE r.seen[y] + 1 = r.seen[d] /\ <<y, d>> \in ever
          <6>1. y = v
            BY <5>3, <2>2
          <6> QED BY <6>1, <1>9, <2>2, <2>3
        <5>4. r.seen[d] \in 2..MaxDegree => r.via[d] # {}
          BY <1>10, <2>2
        <5>5. r.seen[d] = 1 => <<query.root, d>> \in ever
          BY <5>2, <1>9, <2>2
        <5> QED BY <4>1, <5>1, <5>3, <5>4, <5>5
      <4>2. CASE x # d
        <5>1. ASSUME NEW y \in query.via[x] PROVE y # d /\ y \in DIDs
          <6>1. y \in DIDs
            BY <5>1, <1>10
          <6>2. query.seen[y] + 1 = query.seen[x] /\ query.seen[x] \in 0..Unseen
            BY <5>1, <1>10, <1>14
          <6>3. query.seen[y] \in 0..Unseen
            BY <6>1, <1>10
          <6> QED BY <6>1, <6>2, <6>3, <2>1, ClosureConstants
        <5> QED BY <4>2, <5>1, <1>14, <2>2
      <4> QED BY <4>1, <4>2
    <3> QED BY <3>1, <1>3, <1>4, <1>6 DEF ViaOK, SameWalk
  <2>7. NoneMissed'
    <3> SUFFICES ASSUME ~r.truncated, NEW x \in DIDs, NEW y \in DIDs,
                        <<x, y>> \in always, r.seen[x] < query.degree
                 PROVE  Followed(x, y)' \/ ToFollow(x, y)'
      BY <1>3, <1>4, <1>6 DEF NoneMissed, SameWalk
    <3>1. x # d /\ r.seen[x] = query.seen[x] /\ query.seen[x] < query.degree
      BY <1>10, <2>2
    <3>2. CASE Followed(x, y)
      <4>1. y # d
        BY <3>1, <3>2, <1>10, <2>1, ClosureConstants DEF Followed
      <4> QED BY <3>1, <3>2, <4>1, <1>3, <1>4, <2>2 DEF Followed, SameWalk
    <3>3. CASE query.cut
      BY <3>3, <1>1, <1>3, <1>4 DEF ToFollow, SameWalk
    <3>4. CASE <<x, y>> \in query.edges /\ <<x, y>> # e
      BY <3>4, <1>1, <1>3, <1>4 DEF ToFollow, SameWalk
    <3>5. CASE <<x, y>> = e
      <4>1. x = v /\ y = d
        BY <3>5, <1>8
      <4>2. Followed(x, y)'
        BY <4>1, <3>1, <1>3, <1>4, <1>9, <1>10, <2>2 DEF Followed, SameWalk
      <4> QED BY <4>2
    <3> QED BY <1>16, <3>1, <3>2, <3>3, <3>4, <3>5
  <2> QED BY <1>7, <2>4, <2>5, <2>6, <2>7 DEF ClosureInv
<1> QED BY <1>5, <1>17, <1>18, <1>19

LEMMA ClosureInitInv ==
  ASSUME ClosureInit
  PROVE  ClosureInv
<1>1. /\ query = NoQuery /\ pages = NoPages /\ changes = 0 /\ always = {} /\ ever = {}
      /\ steady = TRUE /\ rows \subseteq Awards \union Badges \union Responses
  BY DEF ClosureInit
<1>2. query.at = "idle" /\ pages.at = "none" /\ pages.count = 0
  BY <1>1 DEF NoQuery, NoPages
<1>3. query \in ClosureQueries
  <2> DEFINE seen == [d \in DIDs |-> Unseen]
             via == [d \in DIDs |-> {}]
  <2>1. seen \in [DIDs -> 0..Unseen]
    BY ClosureConstants
  <2>2. via \in [DIDs -> SUBSET DIDs]
    OBVIOUS
  <2>3. <<>> \in Seq(DIDs) /\ {} \subseteq DIDs \X DIDs /\ 0 \in 0..MaxDegree
    BY ClosureConstants
  <2>4. query = [at |-> "idle", root |-> 0, want |-> 0, cap |-> 0, degree |-> 0,
                 seen |-> seen, via |-> via, frontier |-> <<>>, next |-> <<>>, read |-> 0,
                 limit |-> 0, edges |-> {}, cut |-> FALSE, truncated |-> FALSE]
    BY <1>1 DEF NoQuery
  <2> HIDE DEF seen, via
  <2> QED BY <2>1, <2>2, <2>3, <2>4 DEF ClosureQueries
<1>4. pages \in ClosurePages
  <2>1. <<0, 0>> \in Nat \X Nat /\ <<>> \in Seq(Nat \X Nat)
    OBVIOUS
  <2> QED BY <1>1, <2>1, ClosureConstants DEF NoPages, ClosurePages
<1>5. ClosureTypeOK
  <2>1. changes \in 0..MaxChanges /\ pages.count <= MaxPages + 1
    BY <1>1, <1>2, ClosureAssumption
  <2> QED BY <1>1, <1>3, <1>4, <2>1 DEF ClosureTypeOK
<1>6. HistoryOK /\ Requested
  BY <1>1, <1>2 DEF HistoryOK, Requested, Walking
<1>7. DegreesOK /\ RingOK /\ ViaOK /\ NoneMissed
  BY <1>2 DEF DegreesOK, RingOK, ViaOK, NoneMissed, Walking
<1> QED BY <1>5, <1>6, <1>7 DEF ClosureInv

LEMMA ClosureStutterKeeps ==
  ASSUME ClosureInv, UNCHANGED closureVars
  PROVE  ClosureInv'
<1>1. /\ rows' = rows /\ query' = query /\ pages' = pages /\ changes' = changes
      /\ always' = always /\ ever' = ever /\ steady' = steady
  BY DEF closureVars
<1>2. ClosureTypeOK' /\ Requested'
  BY <1>1 DEF ClosureInv, ClosureTypeOK, Requested, Walking
<1>3. HistoryOK'
  BY <1>1 DEF ClosureInv, HistoryOK, Walking, Active, Rejected
<1>4. LastDegree(query)' = LastDegree(query)
  BY <1>1 DEF LastDegree
<1>5. DegreesOK' /\ RingOK' /\ ViaOK'
  BY <1>1, <1>4 DEF ClosureInv, DegreesOK, RingOK, ViaOK, Among, Walking
<1>6. NoneMissed'
  BY <1>1 DEF ClosureInv, NoneMissed, Followed, ToFollow, Walking
<1> QED BY <1>2, <1>3, <1>5, <1>6 DEF ClosureInv

LEMMA ClosureNextInv ==
  ASSUME ClosureInv, [ClosureNext]_closureVars
  PROVE  ClosureInv'
<1>1. ASSUME NEW root \in Roots, NEW want \in 0..MaxDegree, NEW cap \in Caps,
             FirstPage(root, want, cap)
      PROVE  ClosureInv'
  BY <1>1, FirstPageKeeps
<1>2. ASSUME NEW row \in Awards \union Badges \union Responses, NEW put \in BOOLEAN,
             RecordChanges(row, put)
      PROVE  ClosureInv'
  BY <1>2, RecordChangesKeeps
<1>3. CASE NextPage
  BY <1>3, NextPageKeeps
<1>4. CASE StartRing
  BY <1>4, StartRingKeeps
<1>5. CASE ReadBatch
  BY <1>5, ReadBatchKeeps
<1>6. CASE FollowEdge
  BY <1>6, FollowEdgeKeeps
<1>7. CASE EndRing
  BY <1>7, EndRingKeeps
<1>8. CASE SendPage
  BY <1>8, SendPageKeeps
<1>9. CASE UNCHANGED closureVars
  BY <1>9, ClosureStutterKeeps
<1> QED BY <1>1, <1>2, <1>3, <1>4, <1>5, <1>6, <1>7, <1>8, <1>9 DEF ClosureNext

LEMMA ClosureInvariant == ClosureSpec => []ClosureInv
<1>1. ClosureInit => ClosureInv
  BY ClosureInitInv
<1>2. ClosureInv /\ [ClosureNext]_closureVars => ClosureInv'
  BY ClosureNextInv
<1> QED BY <1>1, <1>2, PTL DEF ClosureSpec

(* The type invariant: degrees up to the largest one or beyond it, edges    *)
(* between accounts, pages of pairs of numbers (Compute,                    *)
(* endorsementClosurePageForArgs).                                          *)
THEOREM ClosureTypes == ClosureSpec => []ClosureTypeOK
<1>1. ClosureInv => ClosureTypeOK
  BY DEF ClosureInv
<1> QED BY <1>1, ClosureInvariant, PTL

-----------------------------------------------------------------------------
(* From edges to paths.                                                     *)

LEMMA LeastOf ==
  ASSUME NEW S, S \subseteq Nat, S # {}
  PROVE  \E x \in S : \A y \in S : x <= y
<1>1. \E x \in S : \A y \in S : ~ (<<y, x>> \in OpToRel(<, Nat))
  BY NatLessThanWellFounded, WFMin
<1>2. PICK x \in S : \A y \in S : ~ (<<y, x>> \in OpToRel(<, Nat))
  BY <1>1
<1>3. ASSUME NEW y \in S PROVE x <= y
  <2>1. <<y, x>> \notin {ss \in Nat \X Nat : ss[1] < ss[2]}
    BY <1>2 DEF OpToRel
  <2>2. <<y, x>> \in Nat \X Nat /\ <<y, x>>[1] = y /\ <<y, x>>[2] = x
    OBVIOUS
  <2>3. ~ (y < x)
    BY <2>1, <2>2, Zenon
  <2> QED BY <2>3
<1> QED BY <1>3

(* An account is at the end of a path of its degree: the account it was     *)
(* reached from is at the end of a path one endorsement shorter.            *)
LEMMA DegreeIsAPath ==
  ASSUME ClosureInv, Walking, NEW d0 \in DIDs, query.seen[d0] # Unseen
  PROVE  \E p \in Paths(ever, query.root, query.seen[d0]) : p[query.seen[d0]] = d0
<1> DEFINE ends(k, d) == \E p \in Paths(ever, query.root, k) : p[k] = d
           bad == {k \in 0..MaxDegree : \E d \in DIDs : query.seen[d] = k /\ ~ends(k, d)}
<1>1. \A d \in DIDs : query.seen[d] \in 0..Unseen
  BY DEF ClosureInv, ClosureTypeOK, ClosureQueries
<1>2. query.root \in DIDs /\ \A d \in DIDs : query.seen[d] = 0 <=> d = query.root
  BY DEF ClosureInv, DegreesOK
<1>3. ASSUME bad # {} PROVE FALSE
  <2>1. bad \subseteq Nat
    OBVIOUS
  <2>2. PICK k \in bad : \A j \in bad : k <= j
    BY <1>3, <2>1, LeastOf
  <2>3. k \in 0..MaxDegree /\ k \in Nat
    BY <2>2
  <2>4. PICK d \in DIDs : query.seen[d] = k /\ ~ends(k, d)
    BY <2>2
  <2>5. CASE k = 0
    <3> DEFINE p == [i \in 0..0 |-> query.root]
    <3>1. d = query.root
      BY <2>4, <2>5, <1>2
    <3>2. p \in [0..0 -> DIDs] /\ p[0] = query.root
      BY <1>2
    <3>3. p \in Paths(ever, query.root, 0)
      BY <3>2 DEF Paths
    <3> QED BY <2>4, <2>5, <3>1, <3>2, <3>3
  <2>6. CASE k # 0
    <3>1. PICK v \in DIDs : query.seen[v] + 1 = k /\ <<v, d>> \in ever
      <4>1. CASE k = 1
        BY <4>1, <2>4, <1>2 DEF ClosureInv, ViaOK
      <4>2. CASE k # 1
        <5>1. k \in 2..MaxDegree
          BY <4>2, <2>3, <2>6
        <5>2. query.via[d] # {} /\ query.via[d] \subseteq DIDs
          BY <5>1, <2>4 DEF ClosureInv, ViaOK, ClosureTypeOK, ClosureQueries
        <5>3. \A v \in query.via[d] : query.seen[v] + 1 = k /\ <<v, d>> \in ever
          BY <2>4 DEF ClosureInv, ViaOK
        <5> QED BY <5>2, <5>3
      <4> QED BY <4>1, <4>2
    <3>2. query.seen[v] = k - 1 /\ k - 1 \in 0..MaxDegree
      <4>1. query.seen[v] \in 0..Unseen
        BY <1>1
      <4>2. query.seen[v] \in Nat
        BY <4>1, ClosureConstants
      <4>3. k - 1 \in 0..MaxDegree
        BY <2>3, <2>6, ClosureConstants
      <4> HIDE DEF bad
      <4> QED BY <3>1, <2>3, <4>2, <4>3
    <3>3. k - 1 \notin bad
      <4> HIDE DEF bad
      <4> QED BY <2>2, <2>3
    <3>4. ends(k - 1, v)
      BY <3>2, <3>3
    <3>5. PICK p \in Paths(ever, query.root, k - 1) : p[k - 1] = v
      BY <3>4
    <3>6. /\ p \in [0..k - 1 -> DIDs] /\ p[0] = query.root
          /\ \A i \in 1..k - 1 : <<p[i - 1], p[i]>> \in ever
      BY <3>5 DEF Paths
    <3> DEFINE r == [i \in 0..k |-> IF i = k THEN d ELSE p[i]]
    <3>7. r \in [0..k -> DIDs]
      <4>1. ASSUME NEW i \in 0..k PROVE (IF i = k THEN d ELSE p[i]) \in DIDs
        BY <3>6, <2>3
      <4> QED BY <4>1
    <3>8. r[0] = query.root /\ r[k] = d
      BY <3>6, <2>3, <2>6
    <3>9. ASSUME NEW i \in 1..k PROVE <<r[i - 1], r[i]>> \in ever
      <4>1. CASE i = k
        <5>1. r[i - 1] = v /\ r[i] = d
          BY <4>1, <3>5, <2>3, <2>6
        <5> QED BY <5>1, <3>1
      <4>2. CASE i # k
        <5>1. i \in 1..k - 1 /\ i - 1 \in 0..k /\ i \in 0..k /\ i - 1 # k
          BY <4>2, <2>3
        <5>2. r[i - 1] = p[i - 1] /\ r[i] = p[i]
          BY <4>2, <5>1
        <5> QED BY <5>1, <5>2, <3>6
      <4> QED BY <4>1, <4>2
    <3> HIDE DEF r
    <3>10. r \in Paths(ever, query.root, k)
      BY <3>7, <3>8, <3>9 DEF Paths
    <3> QED BY <2>4, <3>8, <3>10
  <2> QED BY <2>5, <2>6
<1>4. query.seen[d0] \in 0..MaxDegree
  BY <1>1, ClosureConstants
<1> QED BY <1>3, <1>4

(* Along a path of endorsements that were active throughout, degrees grow   *)
(* by one at most.                                                          *)
LEMMA PathIsFollowed ==
  ASSUME ClosureInv, query.at = "page", ~query.truncated,
         NEW n \in 0..LastDegree(query), NEW p \in Paths(always, query.root, n)
  PROVE  \A i \in 0..n : query.seen[p[i]] <= i
<1>0. query \in ClosureQueries /\ Walking
  BY DEF ClosureInv, ClosureTypeOK, Walking
<1>1. LastDegree(query) \in 1..MaxDegree
  BY <1>0, LastDegrees
<1>2. n \in Nat /\ n <= LastDegree(query) /\ LastDegree(query) \in Nat
  BY <1>1
<1>3. \A d \in DIDs : query.seen[d] \in 0..Unseen
  BY <1>0 DEF ClosureQueries
<1>4. /\ query.root \in DIDs /\ query.degree <= LastDegree(query)
      /\ \A d \in DIDs : /\ query.seen[d] = 0 <=> d = query.root
                         /\ query.seen[d] # Unseen => query.seen[d] <= query.degree
  BY <1>0 DEF ClosureInv, DegreesOK
<1>5. query.degree = LastDegree(query) \/ \A d \in DIDs : query.seen[d] # query.degree
  BY DEF ClosureInv, RingOK
<1>6. /\ p \in [0..n -> DIDs] /\ p[0] = query.root
      /\ \A i \in 1..n : <<p[i - 1], p[i]>> \in always
  BY DEF Paths
<1> DEFINE bad == {i \in 0..n : ~(query.seen[p[i]] <= i)}
<1>7. ASSUME bad # {} PROVE FALSE
  <2>1. bad \subseteq Nat
    BY <1>2
  <2>2. PICK i \in bad : \A j \in bad : i <= j
    BY <1>7, <2>1, LeastOf
  <2>3. i \in 0..n /\ ~(query.seen[p[i]] <= i)
    BY <2>2
  <2>4. i # 0
    BY <2>3, <1>4, <1>6
  <2>5. i - 1 \in 0..n /\ i \in 1..n /\ i \in Nat
    BY <2>3, <2>4, <1>2
  <2>6. i - 1 \notin bad
    <3> HIDE DEF bad
    <3> QED BY <2>2, <2>5
  <2>7. query.seen[p[i - 1]] <= i - 1
    BY <2>5, <2>6
  <2>8. PICK v \in DIDs, d \in DIDs : v = p[i - 1] /\ d = p[i]
    BY <2>5, <1>6
  <2>9. <<v, d>> \in always
    BY <2>5, <2>8, <1>6
  <2>10. query.seen[v] < query.degree
    <3>1. query.seen[v] <= i - 1 /\ query.seen[v] \in Nat /\ query.degree \in Nat
      BY <2>7, <2>8, <1>3, <1>0 DEF ClosureQueries
    <3>2. query.seen[v] < LastDegree(query) /\ query.seen[v] # Unseen
      BY <3>1, <2>5, <1>1, <1>2, ClosureConstants
    <3> QED BY <3>1, <3>2, <1>4, <1>5
  <2>11. Followed(v, d) \/ ToFollow(v, d)
    BY <2>9, <2>10, <1>0 DEF ClosureInv, NoneMissed
  <2>12. Followed(v, d)
    BY <2>11 DEF ToFollow
  <2>13. query.seen[d] <= i
    <3>1. CASE d = query.root
      BY <3>1, <1>4, <2>5
    <3>2. CASE d # query.root
      BY <3>2, <2>5, <2>7, <2>8, <2>12, <1>3 DEF Followed
    <3> QED BY <3>1, <3>2
  <2> QED BY <2>3, <2>8, <2>13
<1> QED BY <1>7

LEMMA InvIsBetween ==
  ASSUME ClosureInv
  PROVE  ClosureIsBetween
<1> SUFFICES ASSUME query.at = "page"
             PROVE  LET seen == query.seen
                        others == DIDs \ {query.root}
                    IN  /\ \A d \in others : seen[d] # Unseen =>
                             \E p \in Paths(ever, query.root, seen[d]) : p[seen[d]] = d
                        /\ ~query.truncated =>
                             \A n \in 1..LastDegree(query) :
                               \A p \in Paths(always, query.root, n) :
                                 p[n] \in others => seen[p[n]] \in 1..n
                        /\ \A d \in others : \A v \in query.via[d] :
                             seen[v] + 1 = seen[d] /\ <<v, d>> \in ever
                        /\ \A d \in others : seen[d] \in 2..MaxDegree => query.via[d] # {}
                        /\ ~query.truncated => \A d, v \in others :
                             /\ seen[d] \in 2..MaxDegree /\ seen[v] + 1 = seen[d]
                             /\ <<v, d>> \in always
                             => v \in query.via[d] \/ Cardinality(query.via[d]) = MaxVia
  BY DEF ClosureIsBetween
<1>0. query \in ClosureQueries /\ Walking
  BY DEF ClosureInv, ClosureTypeOK, Walking
<1>1. ASSUME NEW d \in DIDs, query.seen[d] # Unseen
      PROVE  \E p \in Paths(ever, query.root, query.seen[d]) : p[query.seen[d]] = d
  BY <1>0, <1>1, DegreeIsAPath
<1>2. ASSUME ~query.truncated, NEW n \in 1..LastDegree(query),
             NEW p \in Paths(always, query.root, n), p[n] \in DIDs \ {query.root}
      PROVE  query.seen[p[n]] \in 1..n
  <2>1. LastDegree(query) \in 1..MaxDegree
    BY <1>0, LastDegrees
  <2>2. n \in 0..LastDegree(query) /\ n \in 0..n /\ n \in Nat
    BY <2>1
  <2>3. query.seen[p[n]] <= n
    BY <1>2, <2>2, PathIsFollowed
  <2>4. query.seen[p[n]] \in 0..Unseen /\ query.seen[p[n]] # 0
    BY <1>0, <1>2 DEF ClosureQueries, ClosureInv, DegreesOK
  <2> QED BY <2>2, <2>3, <2>4
<1>3. ASSUME ~query.truncated, NEW d \in DIDs \ {query.root}, NEW v \in DIDs,
             query.seen[d] \in 2..MaxDegree, query.seen[v] + 1 = query.seen[d],
             <<v, d>> \in always
      PROVE  v \in query.via[d] \/ Cardinality(query.via[d]) = MaxVia
  <2>1. query.seen[v] \in 0..Unseen /\ query.degree \in 0..MaxDegree
    BY <1>0 DEF ClosureQueries
  <2>2. query.seen[d] <= query.degree
    BY <1>0, <1>3, ClosureConstants DEF ClosureInv, DegreesOK
  <2>3. query.seen[v] < query.degree
    BY <1>3, <2>1, <2>2
  <2>4. Followed(v, d) \/ ToFollow(v, d)
    BY <1>0, <1>3, <2>3 DEF ClosureInv, NoneMissed
  <2>5. Followed(v, d)
    BY <2>4 DEF ToFollow
  <2> QED BY <1>3, <2>1, <2>5 DEF Followed
<1>4. ASSUME NEW d \in DIDs
      PROVE  /\ \A v \in query.via[d] : query.seen[v] + 1 = query.seen[d] /\ <<v, d>> \in ever
             /\ query.seen[d] \in 2..MaxDegree => query.via[d] # {}
  BY <1>0 DEF ClosureInv, ViaOK
<1> QED BY <1>1, <1>2, <1>3, <1>4

(* For any accounts, records, caps, batch sizes and changes meanwhile, the  *)
(* closure lies between what was active throughout and what was active at   *)
(* some moment: degrees are lengths of paths, nothing is missed unless      *)
(* truncated says so, viaAccounts endorse from one degree nearer (Compute,  *)
(* endorsementAdjacencyFor).                                                *)
THEOREM ClosureStaysBetween == ClosureSpec => []ClosureIsBetween
<1>1. ClosureInv => ClosureIsBetween
  BY InvIsBetween
<1> QED BY <1>1, ClosureInvariant, PTL

-----------------------------------------------------------------------------
(* Pages of records that do not change: every page walks the same closure.  *)

WalkStep(q, r, E) ==
  \/ q.at = "ring" /\ r = NextRing(q)
  \/ q.at = "batch" /\ r = NextBatch(q, E)
  \/ /\ q.at = "expand"
     /\ \E e \in q.edges : Foremost(q, e) /\ r = [Follow(q, e) EXCEPT !.edges = q.edges \ {e}]
  \/ q.at = "expand" /\ q.edges = {} /\ r = RingDone(q)

(* Edges are those of accounts of the ring, so that one of them is foremost. *)
EdgesOfRing(q) == q.at = "expand" => \A e \in q.edges : Among(q.frontier, e[1])

IsWalk(f, n, start, E) ==
  /\ f \in [0..n -> ClosureQueries] /\ f[0] = start
  /\ \A i \in 1..n : WalkStep(f[i - 1], f[i], E) /\ EdgesOfRing(f[i - 1])

Walked(start, q, E) == \E n \in Nat : \E f \in [0..n -> ClosureQueries] :
                         IsWalk(f, n, start, E) /\ f[n] = q

LEMMA ForemostIsOne ==
  ASSUME NEW q \in ClosureQueries, q.at = "expand", EdgesOfRing(q),
         NEW e \in q.edges, NEW f \in q.edges, Foremost(q, e), Foremost(q, f)
  PROVE  e = f
<1> SUFFICES ASSUME e # f PROVE FALSE
  OBVIOUS
<1>1. PICK e1 \in DIDs, e2 \in DIDs : e = <<e1, e2>>
  BY DEF ClosureQueries
<1>2. PICK f1 \in DIDs, f2 \in DIDs : f = <<f1, f2>>
  BY DEF ClosureQueries
<1>3. e1 \in Nat /\ e2 \in Nat /\ f1 \in Nat /\ f2 \in Nat
  BY ClosureAssumption
<1>4. Among(q.frontier, e1) /\ Among(q.frontier, f1)
  BY <1>1, <1>2 DEF EdgesOfRing
<1>5. Len(q.frontier) \in Nat
  BY DEF ClosureQueries
<1>6. Turn(q, e1) \in 1..Len(q.frontier) /\ Turn(q, f1) \in 1..Len(q.frontier)
  BY <1>4 DEF Turn, Among
<1>7. PICK i \in Nat, j \in Nat : i = Turn(q, e1) /\ j = Turn(q, f1)
  BY <1>5, <1>6
<1>8. Before(<<i, e2>>, <<j, f2>>)
  <2>1. Before(<<Turn(q, e[1]), e[2]>>, <<Turn(q, f[1]), f[2]>>)
    BY DEF Foremost
  <2> QED BY <2>1, <1>1, <1>2, <1>7
<1>9. Before(<<j, f2>>, <<i, e2>>)
  <2>1. Before(<<Turn(q, f[1]), f[2]>>, <<Turn(q, e[1]), e[2]>>)
    BY DEF Foremost
  <2> QED BY <2>1, <1>1, <1>2, <1>7
<1> QED BY <1>3, <1>8, <1>9 DEF Before

(* Over the same endorsements, a walk has only one way on ... *)
LEMMA StepIsOne ==
  ASSUME NEW q \in ClosureQueries, EdgesOfRing(q), NEW E, NEW a, NEW b,
         WalkStep(q, a, E), WalkStep(q, b, E)
  PROVE  a = b
<1>1. CASE q.at = "ring"
  BY <1>1 DEF WalkStep
<1>2. CASE q.at = "batch"
  BY <1>2 DEF WalkStep
<1>3. CASE q.at = "expand" /\ q.edges = {}
  BY <1>3 DEF WalkStep
<1>4. CASE q.at = "expand" /\ q.edges # {}
  <2>1. PICK e \in q.edges :
          Foremost(q, e) /\ a = [Follow(q, e) EXCEPT !.edges = q.edges \ {e}]
    BY <1>4 DEF WalkStep
  <2>2. PICK f \in q.edges :
          Foremost(q, f) /\ b = [Follow(q, f) EXCEPT !.edges = q.edges \ {f}]
    BY <1>4 DEF WalkStep
  <2>3. e = f
    BY <1>4, <2>1, <2>2, ForemostIsOne
  <2> QED BY <2>1, <2>2, <2>3
<1>5. q.at \in {"ring", "batch", "expand"}
  BY DEF WalkStep
<1> QED BY <1>1, <1>2, <1>3, <1>4, <1>5

(* ... so that two of them are the same as far as the shorter goes ... *)
LEMMA WalksAgree ==
  ASSUME NEW start, NEW E, NEW n \in Nat, NEW m \in Nat, n <= m,
         NEW f, NEW g, IsWalk(f, n, start, E), IsWalk(g, m, start, E)
  PROVE  \A i \in 0..n : f[i] = g[i]
<1> DEFINE bad == {i \in 0..n : f[i] # g[i]}
<1>1. ASSUME bad # {} PROVE FALSE
  <2>1. bad \subseteq Nat
    OBVIOUS
  <2>2. PICK i \in bad : \A j \in bad : i <= j
    BY <1>1, <2>1, LeastOf
  <2>3. i \in 0..n /\ f[i] # g[i]
    BY <2>2
  <2>4. i # 0
    BY <2>3 DEF IsWalk
  <2>5. i \in 1..n /\ i \in 1..m /\ i - 1 \in 0..n /\ i - 1 \in 0..m
    BY <2>3, <2>4
  <2>6. i - 1 \notin bad
    <3> HIDE DEF bad
    <3> QED BY <2>2, <2>5
  <2>7. f[i - 1] = g[i - 1]
    BY <2>5, <2>6
  <2>8. PICK q \in ClosureQueries : q = f[i - 1] /\ EdgesOfRing(q) /\ WalkStep(q, f[i], E)
    BY <2>5 DEF IsWalk
  <2>9. WalkStep(q, g[i], E)
    BY <2>5, <2>7, <2>8 DEF IsWalk
  <2>10. f[i] = g[i]
    BY <2>8, <2>9, StepIsOne
  <2> QED BY <2>3, <2>10
<1> QED BY <1>1

(* ... and end in the same closure. *)
LEMMA ClosureIsOne ==
  ASSUME NEW start, NEW E, NEW q, NEW r, Walked(start, q, E), Walked(start, r, E),
         q.at = "page", r.at = "page"
  PROVE  q = r
<1>1. PICK n \in Nat : \E f \in [0..n -> ClosureQueries] : IsWalk(f, n, start, E) /\ f[n] = q
  BY DEF Walked
<1>2. PICK f : IsWalk(f, n, start, E) /\ f[n] = q
  BY <1>1
<1>3. PICK m \in Nat : \E g \in [0..m -> ClosureQueries] : IsWalk(g, m, start, E) /\ g[m] = r
  BY DEF Walked
<1>4. PICK g : IsWalk(g, m, start, E) /\ g[m] = r
  BY <1>3
<1>5. CASE n = m
  <2>1. f[n] = g[n]
    BY <1>2, <1>4, <1>5, WalksAgree
  <2> QED BY <2>1, <1>2, <1>4, <1>5
<1>6. CASE n < m
  <2>1. f[n] = g[n]
    BY <1>2, <1>4, <1>6, WalksAgree
  <2>2. n + 1 \in 1..m /\ n + 1 - 1 = n
    BY <1>6
  <2>3. WalkStep(g[n], g[n + 1], E)
    BY <1>4, <2>2 DEF IsWalk
  <2> QED BY <1>2, <2>1, <2>3 DEF WalkStep
<1>7. CASE m < n
  <2>1. g[m] = f[m]
    BY <1>2, <1>4, <1>7, WalksAgree
  <2>2. m + 1 \in 1..n /\ m + 1 - 1 = m
    BY <1>7
  <2>3. WalkStep(f[m], f[m + 1], E)
    BY <1>2, <2>2 DEF IsWalk
  <2> QED BY <1>4, <2>1, <2>3 DEF WalkStep
<1> QED BY <1>5, <1>6, <1>7

LEMMA WalkStarts ==
  ASSUME NEW q \in ClosureQueries, NEW E
  PROVE  Walked(q, q, E)
<1> DEFINE f == [i \in 0..0 |-> q]
<1>1. f \in [0..0 -> ClosureQueries] /\ f[0] = q
  OBVIOUS
<1>2. IsWalk(f, 0, q, E)
  BY <1>1 DEF IsWalk
<1> HIDE DEF f
<1> QED BY <1>1, <1>2 DEF Walked

LEMMA WalkGoesOn ==
  ASSUME NEW start, NEW E, NEW q, NEW r \in ClosureQueries, Walked(start, q, E),
         WalkStep(q, r, E), EdgesOfRing(q)
  PROVE  Walked(start, r, E)
<1>1. PICK n \in Nat : \E f \in [0..n -> ClosureQueries] : IsWalk(f, n, start, E) /\ f[n] = q
  BY DEF Walked
<1>2. PICK f \in [0..n -> ClosureQueries] : IsWalk(f, n, start, E) /\ f[n] = q
  BY <1>1
<1> DEFINE g == [i \in 0..n + 1 |-> IF i = n + 1 THEN r ELSE f[i]]
<1>3. g \in [0..n + 1 -> ClosureQueries]
  <2>1. ASSUME NEW i \in 0..n + 1 PROVE (IF i = n + 1 THEN r ELSE f[i]) \in ClosureQueries
    BY <1>2
  <2> QED BY <2>1
<1>4. g[n + 1] = r /\ \A i \in 0..n : g[i] = f[i]
  OBVIOUS
<1> HIDE DEF g
<1>5. g[0] = start
  BY <1>2, <1>4 DEF IsWalk
<1>6. ASSUME NEW i \in 1..n + 1 PROVE WalkStep(g[i - 1], g[i], E) /\ EdgesOfRing(g[i - 1])
  <2>1. CASE i = n + 1
    <3>1. g[i] = r /\ g[i - 1] = q
      BY <2>1, <1>2, <1>4
    <3> QED BY <3>1
  <2>2. CASE i # n + 1
    <3>1. i \in 1..n /\ i - 1 \in 0..n /\ i \in 0..n
      BY <2>2
    <3>2. g[i] = f[i] /\ g[i - 1] = f[i - 1]
      BY <3>1, <1>4
    <3> QED BY <3>1, <3>2, <1>2 DEF IsWalk
  <2> QED BY <2>1, <2>2
<1>7. IsWalk(g, n + 1, start, E)
  BY <1>3, <1>5, <1>6 DEF IsWalk
<1>8. PICK m \in Nat : m = n + 1
  OBVIOUS
<1>9. g \in [0..m -> ClosureQueries] /\ IsWalk(g, m, start, E) /\ g[m] = r
  BY <1>3, <1>4, <1>7, <1>8
<1> QED BY <1>9 DEF Walked

-----------------------------------------------------------------------------
(* Where a page begins.                                                     *)

LEMMA OffsetAtTheStart ==
  ASSUME NEW q \in ClosureQueries
  PROVE  StartOffset(Accounts(q), <<0, 0>>) = 0
<1>1. PICK a : a = Accounts(q)
  OBVIOUS
<1>2. \A i \in 1..Len(a) : a[i] \in Nat \X Nat /\ a[i][1] >= 1
  BY <1>1, AccountsRise
<1>3. \A i \in 1..Len(a) : Before(<<0, 0>>, a[i])
  BY <1>2 DEF Before
<1>4. {i \in 1..Len(a) : ~Before(<<0, 0>>, a[i])} = {}
  BY <1>3
<1>5. Cardinality({i \in 1..Len(a) : ~Before(<<0, 0>>, a[i])}) = 0
  BY <1>4, FS_EmptySet
<1> QED BY <1>1, <1>5 DEF StartOffset

LEMMA OffsetAfterAnAccount ==
  ASSUME NEW q \in ClosureQueries, NEW k \in Nat, 1 <= k, k <= Len(Accounts(q))
  PROVE  StartOffset(Accounts(q), Accounts(q)[k]) = k
<1>1. PICK a \in Seq(Nat \X Nat) : a = Accounts(q)
  BY AccountsRise
<1>2. /\ \A i \in 1..Len(a) : a[i] \in Nat \X Nat
      /\ \A i, j \in 1..Len(a) : i < j => Before(a[i], a[j])
  BY <1>1, AccountsRise
<1>3. Len(a) \in Nat /\ k \in 1..Len(a)
  BY <1>1
<1>4. ASSUME NEW i \in 1..Len(a) PROVE ~Before(a[k], a[i]) <=> i <= k
  <2>1. CASE i < k
    <3>1. Before(a[i], a[k])
      BY <2>1, <1>2, <1>3
    <3>2. ~Before(a[k], a[i])
      BY <3>1, <1>2, <1>3, BeforeIsAnOrder
    <3> QED BY <2>1, <3>2, <1>3
  <2>2. CASE i = k
    <3>1. ~Before(a[k], a[k])
      BY <1>2, <1>3, BeforeIsAnOrder
    <3> QED BY <2>2, <3>1, <1>3
  <2>3. CASE k < i
    <3>1. Before(a[k], a[i])
      BY <2>3, <1>2, <1>3
    <3> QED BY <2>3, <3>1, <1>3
  <2> QED BY <2>1, <2>2, <2>3, <1>3
<1>5. {i \in 1..Len(a) : ~Before(a[k], a[i])} = 1..k
  <2>1. ASSUME NEW i PROVE i \in {j \in 1..Len(a) : ~Before(a[k], a[j])} <=> i \in 1..k
    <3>1. i \in 1..k <=> i \in 1..Len(a) /\ i <= k
      BY <1>3
    <3> QED BY <3>1, <1>4
  <2> QED BY <2>1
<1>6. Cardinality(1..k) = k
  BY FS_Interval
<1> QED BY <1>1, <1>5, <1>6 DEF StartOffset

-----------------------------------------------------------------------------
(* The invariant of the pages: the walk under way is one over the           *)
(* endorsements there are, and the client has read the first accounts of    *)
(* where such a walk ends, up to the one its cursor names.                  *)

Request == Asked(pages.root, pages.want, pages.cap)

ReadOf(q) ==
  /\ q.at = "page" /\ q \in ClosureQueries
  /\ 1 <= Len(pages.got) /\ Len(pages.got) <= Len(Accounts(q))
  /\ \A i \in 1..Len(pages.got) : pages.got[i] = Accounts(q)[i]
  /\ pages.after = Accounts(q)[Len(pages.got)]

ReadSoFar ==
  \/ Len(pages.got) = 0 /\ pages.after = <<0, 0>>
  \/ \E q \in ClosureQueries : Walked(Request, q, Active) /\ ReadOf(q)

PagesInv ==
  steady => /\ Walking => Walked(Request, query, Active)
            /\ pages.at = "more" => ReadSoFar
            /\ pages.at = "end" => pages.got = Accounts(query)

LEMMA InvEdgesOfRing ==
  ASSUME ClosureInv
  PROVE  EdgesOfRing(query)
<1> SUFFICES ASSUME query.at = "expand", NEW e \in query.edges PROVE Among(query.frontier, e[1])
  BY DEF EdgesOfRing
<1>1. e[1] \in DIDs
  BY DEF ClosureInv, ClosureTypeOK, ClosureQueries
<1>2. query.seen[e[1]] + 1 = query.degree
  BY DEF ClosureInv, RingOK
<1> QED BY <1>1, <1>2 DEF ClosureInv, RingOK

(* The steps of the walk leave the pages alone and take it one further. *)
LEMMA WalkKeepsPages ==
  ASSUME ClosureInv, ClosureInv', PagesInv, Walking, WalkStep(query, query', Active),
         UNCHANGED <<rows, pages, changes, always, ever, steady>>
  PROVE  PagesInv'
<1> SUFFICES ASSUME steady
             PROVE  /\ Walked(Request', query', Active')
                    /\ pages.at = "more" => ReadSoFar'
                    /\ pages.at # "end"
  BY DEF PagesInv
<1>1. Active' = Active
  BY DEF Active, Rejected
<1>2. Request' = Request
  BY DEF Request
<1>3. query' \in ClosureQueries
  BY DEF ClosureInv, ClosureTypeOK
<1>4. Walked(Request, query, Active)
  BY DEF PagesInv
<1>5. EdgesOfRing(query)
  BY InvEdgesOfRing
<1>6. Walked(Request, query', Active)
  BY <1>3, <1>4, <1>5, WalkGoesOn
<1>7. pages.at = "more" => ReadSoFar'
  <2>1. pages.at = "more" => ReadSoFar
    BY DEF PagesInv
  <2> QED BY <2>1, <1>1, <1>2 DEF ReadSoFar, ReadOf
<1>8. pages.at = "more"
  BY DEF ClosureInv, Requested
<1> QED BY <1>1, <1>2, <1>6, <1>7, <1>8

LEMMA AskStartsPages ==
  ASSUME NEW root \in DIDs, NEW want \in 0..MaxDegree, NEW cap \in Nat,
         NEW p \in ClosurePages, p.at = "more", p.root = root, p.want = want, p.cap = cap,
         Ask(root, want, cap, p)
  PROVE  /\ Walked(Request', query', Active') /\ Active' = Active
         /\ pages'.at = "more" /\ pages'.got = p.got /\ pages'.after = p.after
         /\ Request' = Asked(root, want, cap)
<1>1. PICK q \in ClosureQueries : q = Asked(root, want, cap)
  BY AskedIs
<1>2. query' = q /\ rows' = rows
  BY <1>1 DEF Ask
<1>3. Active' = Active
  BY <1>2 DEF Active, Rejected
<1>4. /\ pages'.at = "more" /\ pages'.root = root /\ pages'.want = want /\ pages'.cap = cap
      /\ pages'.got = p.got /\ pages'.after = p.after
  BY DEF Ask, ClosurePages
<1>5. Request' = q
  BY <1>1, <1>4 DEF Request
<1>6. Walked(q, q, Active')
  BY WalkStarts
<1> QED BY <1>1, <1>2, <1>3, <1>4, <1>5, <1>6

LEMMA FirstPageKeepsPages ==
  ASSUME NEW root \in Roots, NEW want \in 0..MaxDegree, NEW cap \in Caps,
         FirstPage(root, want, cap)
  PROVE  PagesInv'
<1> DEFINE p0 == [NoPages EXCEPT !.at = "more", !.root = root, !.want = want, !.cap = cap]
<1>1. root \in DIDs /\ cap \in Nat
  BY ClosureAssumption
<1>2. NoPages \in ClosurePages /\ Len(NoPages.got) = 0 /\ NoPages.after = <<0, 0>>
  <2>1. <<0, 0>> \in Nat \X Nat /\ <<>> \in Seq(Nat \X Nat)
    OBVIOUS
  <2> QED BY <2>1, ClosureConstants DEF NoPages, ClosurePages
<1>3. PICK none \in ClosurePages :
        none = NoPages /\ Len(none.got) = 0 /\ none.after = <<0, 0>>
  BY <1>2
<1>4. PICK p : p = [none EXCEPT !.at = "more", !.root = root, !.want = want, !.cap = cap]
  OBVIOUS
<1>5. /\ p \in ClosurePages /\ p.at = "more" /\ p.root = root /\ p.want = want /\ p.cap = cap
      /\ p.got = none.got /\ p.after = none.after
  BY <1>1, <1>4 DEF ClosurePages
<1>6. Ask(root, want, cap, p)
  BY <1>3, <1>4 DEF FirstPage
<1>7. /\ Walked(Request', query', Active')
      /\ pages'.at = "more" /\ pages'.got = p.got /\ pages'.after = p.after
  BY <1>1, <1>5, <1>6, AskStartsPages
<1>8. ReadSoFar'
  BY <1>3, <1>5, <1>7 DEF ReadSoFar
<1> QED BY <1>7, <1>8 DEF PagesInv

LEMMA NextPageKeepsPages ==
  ASSUME ClosureInv, PagesInv, NextPage
  PROVE  PagesInv'
<1>1. pages \in ClosurePages /\ pages.at = "more" /\ pages.root \in DIDs /\ steady' = steady
  BY DEF ClosureInv, ClosureTypeOK, Requested, NextPage
<1>2. PICK root \in DIDs : root = pages.root
  BY <1>1
<1>3. PICK want \in 0..MaxDegree : want = pages.want
  BY <1>1 DEF ClosurePages
<1>4. PICK cap \in Nat : cap = pages.cap
  BY <1>1 DEF ClosurePages
<1>5. PICK p \in ClosurePages : p = pages
  BY <1>1
<1>6. Ask(root, want, cap, p)
  BY <1>2, <1>3, <1>4, <1>5 DEF NextPage
<1>7. p.at = "more" /\ p.root = root /\ p.want = want /\ p.cap = cap
  BY <1>1, <1>2, <1>3, <1>4, <1>5
<1>8. /\ Walked(Request', query', Active') /\ Active' = Active
      /\ pages'.at = "more" /\ pages'.got = p.got /\ pages'.after = p.after
      /\ Request' = Asked(root, want, cap)
  BY <1>6, <1>7, AskStartsPages
<1>9. Request' = Request /\ pages'.got = pages.got /\ pages'.after = pages.after
  BY <1>2, <1>3, <1>4, <1>5, <1>8 DEF Request
<1>10. steady => ReadSoFar'
  <2>1. steady => ReadSoFar
    BY <1>1 DEF PagesInv
  <2> QED BY <2>1, <1>8, <1>9 DEF ReadSoFar, ReadOf
<1> QED BY <1>1, <1>8, <1>10 DEF PagesInv

(* The accounts read before a page are those before its offset, and after   *)
(* it those up to its end.                                                  *)
LEMMA SendPageKeepsPages ==
  ASSUME ClosureInv, PagesInv, SendPage
  PROVE  PagesInv'
<1> SUFFICES ASSUME steady PROVE PagesInv'
  BY DEF SendPage, PagesInv
<1>1. /\ ClosureTypeOK /\ query \in ClosureQueries /\ query.at = "page" /\ Walking
      /\ pages.at = "more" /\ pages \in ClosurePages
  BY DEF ClosureInv, ClosureTypeOK, Requested, Walking, SendPage
<1>2. PICK a \in Seq(Nat \X Nat) : a = Accounts(query)
  BY <1>1, AccountsRise
<1>3. PICK start \in 0..Len(a) : start = StartOffset(a, pages.after)
  BY <1>1, <1>2, SendPageIs
<1>4. /\ query'.at = "idle" /\ query' = [query EXCEPT !.at = "idle"]
      /\ pages'.root = pages.root /\ pages'.want = pages.want /\ pages'.cap = pages.cap
  BY <1>1, SendPageIs
<1>5. PICK end \in start..Len(a) :
        /\ end < Len(a) => end > start
        /\ pages'.at = IF end < Len(a) THEN "more" ELSE "end"
        /\ pages'.got = pages.got \o SubSeq(a, start + 1, end)
        /\ pages'.after = IF end > start THEN a[end] ELSE pages.after
  BY <1>1, <1>2, <1>3, SendPageIs
<1>6. rows' = rows /\ steady' = steady
  BY DEF SendPage
<1>7. Active' = Active
  BY <1>6 DEF Active, Rejected
<1>8. Request' = Request
  BY <1>4 DEF Request
<1>9. Walked(Request, query, Active) /\ ReadSoFar
  BY <1>1 DEF PagesInv
<1>10. pages.got \in Seq(Nat \X Nat)
  BY <1>1 DEF ClosurePages
<1>11. start = Len(pages.got) /\ \A i \in 1..start : pages.got[i] = a[i]
  <2>1. CASE Len(pages.got) = 0 /\ pages.after = <<0, 0>>
    <3>1. start = 0
      BY <1>1, <1>2, <1>3, <2>1, OffsetAtTheStart
    <3> QED BY <3>1, <2>1
  <2>2. CASE \E q \in ClosureQueries : Walked(Request, q, Active) /\ ReadOf(q)
    <3>1. PICK q \in ClosureQueries : Walked(Request, q, Active) /\ ReadOf(q)
      BY <2>2
    <3>2. q = query
      BY <1>1, <1>9, <3>1, ClosureIsOne DEF ReadOf
    <3>3. /\ 1 <= Len(pages.got) /\ Len(pages.got) <= Len(a)
          /\ \A i \in 1..Len(pages.got) : pages.got[i] = a[i]
          /\ pages.after = a[Len(pages.got)]
      BY <1>2, <3>1, <3>2 DEF ReadOf
    <3>4. PICK k \in Nat : k = Len(pages.got)
      BY <1>10
    <3>5. StartOffset(Accounts(query), Accounts(query)[k]) = k
      BY <1>1, <1>2, <3>3, <3>4, OffsetAfterAnAccount
    <3>6. start = k
      BY <1>2, <1>3, <3>3, <3>4, <3>5
    <3> QED BY <3>3, <3>4, <3>6
  <2> QED BY <1>9, <2>1, <2>2 DEF ReadSoFar
<1>12. end \in Nat /\ start \in Nat /\ start <= end /\ end <= Len(a) /\ Len(a) \in Nat
  BY <1>2, <1>3, <1>5
<1>13. Len(pages'.got) = end /\ \A i \in 1..end : pages'.got[i] = a[i]
  <2>1. PICK s : s = SubSeq(a, start + 1, end)
    OBVIOUS
  <2>2. /\ s \in Seq(Nat \X Nat) /\ Len(s) = end - start
        /\ \A i \in 1..end - start : s[i] = a[start + i]
    <3>1. \A i \in start + 1..end : a[i] \in Nat \X Nat
      BY <1>2, <1>12
    <3> QED BY <2>1, <3>1, <1>12
  <2>3. PICK g \in Seq(Nat \X Nat) : g = pages.got
    BY <1>10
  <2>4. pages'.got = g \o s /\ Len(g) = start
    BY <1>5, <1>11, <2>1, <2>3
  <2>5. /\ Len(g \o s) = Len(g) + Len(s)
        /\ \A i \in 1..Len(g) + Len(s) :
             (g \o s)[i] = IF i <= Len(g) THEN g[i] ELSE s[i - Len(g)]
    BY <2>2, ConcatProperties
  <2>9. Len(g) + Len(s) = end
    BY <2>2, <2>4, <1>12
  <2>8. PICK w : w = g \o s
    OBVIOUS
  <2>7. Len(w) = end /\ \A i \in 1..end : w[i] = IF i <= start THEN g[i] ELSE s[i - start]
    BY <2>4, <2>5, <2>8, <2>9
  <2>6. ASSUME NEW i \in 1..end PROVE w[i] = a[i]
    <3>1. CASE i <= start
      <4>1. w[i] = g[i]
        BY <3>1, <2>7
      <4> QED BY <3>1, <4>1, <2>3, <1>11, <1>12
    <3>2. CASE i > start
      <4>1. w[i] = s[i - start]
        BY <3>2, <2>7, <1>12
      <4>2. i - start \in 1..end - start /\ start + (i - start) = i
        BY <3>2, <1>12
      <4> QED BY <4>1, <4>2, <2>2
    <3> QED BY <3>1, <3>2, <1>12
  <2> QED BY <2>4, <2>6, <2>7, <2>8
<1>14. Accounts(query') = a
  BY <1>1, <1>2, <1>4 DEF Accounts, ClosureQueries
<1>15. CASE end < Len(a)
  <2>1. pages'.at = "more" /\ pages'.after = a[end] /\ 1 <= end
    BY <1>5, <1>12, <1>15
  <2>3. /\ query.at = "page" /\ query \in ClosureQueries
        /\ 1 <= Len(pages'.got) /\ Len(pages'.got) <= Len(Accounts(query))
        /\ \A i \in 1..Len(pages'.got) : pages'.got[i] = Accounts(query)[i]
        /\ pages'.after = Accounts(query)[Len(pages'.got)]
    BY <1>1, <1>2, <1>12, <1>13, <2>1
  <2>4. PICK q \in ClosureQueries : q = query
    BY <1>1
  <2>5. ReadOf(q)'
    BY <2>3, <2>4 DEF ReadOf
  <2>6. Walked(Request', q, Active')
    BY <1>7, <1>8, <1>9, <2>4
  <2>7. ReadSoFar'
    BY <2>5, <2>6 DEF ReadSoFar
  <2> QED BY <1>4, <2>1, <2>7 DEF PagesInv, Walking
<1>16. CASE ~ (end < Len(a))
  <2>1. pages'.at = "end" /\ end = Len(a)
    BY <1>5, <1>12, <1>16
  <2>2. pages'.got \in Seq(Nat \X Nat)
    BY <1>1, SendPageIs DEF ClosurePages
  <2>3. pages'.got = a
    <3>1. PICK g \in Seq(Nat \X Nat) : g = pages'.got
      BY <2>2
    <3>2. Len(g) = Len(a) /\ \A i \in 1..Len(a) : g[i] = a[i]
      BY <1>13, <2>1, <3>1
    <3>3. g = a
      BY <3>2, <1>2, SeqEqual
    <3> QED BY <3>1, <3>3
  <2> QED BY <1>4, <1>14, <2>1, <2>3 DEF PagesInv, Walking
<1> QED BY <1>15, <1>16

LEMMA PagesNextInv ==
  ASSUME ClosureInv, ClosureInv', PagesInv, [ClosureNext]_closureVars
  PROVE  PagesInv'
<1>1. ASSUME NEW root \in Roots, NEW want \in 0..MaxDegree, NEW cap \in Caps,
             FirstPage(root, want, cap)
      PROVE  PagesInv'
  BY <1>1, FirstPageKeepsPages
<1>2. ASSUME NEW row \in Awards \union Badges \union Responses, NEW put \in BOOLEAN,
             RecordChanges(row, put)
      PROVE  PagesInv'
  BY <1>2 DEF RecordChanges, PagesInv
<1>3. CASE NextPage
  BY <1>3, NextPageKeepsPages
<1>4. CASE StartRing
  <2>1. /\ Walking /\ WalkStep(query, query', Active)
        /\ UNCHANGED <<rows, pages, changes, always, ever, steady>>
    BY <1>4 DEF StartRing, Walking, WalkStep
  <2> QED BY <2>1, WalkKeepsPages
<1>5. CASE ReadBatch
  <2>1. /\ Walking /\ WalkStep(query, query', Active)
        /\ UNCHANGED <<rows, pages, changes, always, ever, steady>>
    BY <1>5 DEF ReadBatch, Walking, WalkStep
  <2> QED BY <2>1, WalkKeepsPages
<1>6. CASE FollowEdge
  <2>1. /\ Walking /\ WalkStep(query, query', Active)
        /\ UNCHANGED <<rows, pages, changes, always, ever, steady>>
    BY <1>6 DEF FollowEdge, Walking, WalkStep
  <2> QED BY <2>1, WalkKeepsPages
<1>7. CASE EndRing
  <2>1. /\ Walking /\ WalkStep(query, query', Active)
        /\ UNCHANGED <<rows, pages, changes, always, ever, steady>>
    BY <1>7 DEF EndRing, Walking, WalkStep
  <2> QED BY <2>1, WalkKeepsPages
<1>8. CASE SendPage
  BY <1>8, SendPageKeepsPages
<1>9. CASE UNCHANGED closureVars
  <2>1. rows' = rows /\ query' = query /\ pages' = pages /\ steady' = steady
    BY <1>9 DEF closureVars
  <2>2. Active' = Active
    BY <2>1 DEF Active, Rejected
  <2>3. Request' = Request
    BY <2>1 DEF Request
  <2>4. ReadSoFar => ReadSoFar'
    BY <2>1, <2>2, <2>3 DEF ReadSoFar, ReadOf
  <2>5. Walked(Request, query, Active) => Walked(Request', query', Active')
    BY <2>1, <2>2, <2>3
  <2> QED BY <2>1, <2>4, <2>5 DEF PagesInv, Walking
<1> QED BY <1>1, <1>2, <1>3, <1>4, <1>5, <1>6, <1>7, <1>8, <1>9 DEF ClosureNext

LEMMA InvPagesAreTheClosure ==
  ASSUME ClosureInv, PagesInv
  PROVE  PagesAreTheClosure
<1> SUFFICES ASSUME steady
             PROVE  /\ query.at = "page" =>
                         /\ Len(pages.got) <= Len(Accounts(query))
                         /\ pages.got = SubSeq(Accounts(query), 1, Len(pages.got))
                    /\ pages.at = "end" => pages.got = Accounts(query)
  BY DEF PagesAreTheClosure
<1>1. pages.at = "end" => pages.got = Accounts(query)
  BY DEF PagesInv
<1>2. ASSUME query.at = "page"
      PROVE  /\ Len(pages.got) <= Len(Accounts(query))
             /\ pages.got = SubSeq(Accounts(query), 1, Len(pages.got))
  <2>1. query \in ClosureQueries /\ Walking /\ pages.at = "more"
    BY <1>2 DEF ClosureInv, ClosureTypeOK, Requested, Walking
  <2>2. PICK a \in Seq(Nat \X Nat) : a = Accounts(query)
    BY <2>1, AccountsRise
  <2>3. PICK g \in Seq(Nat \X Nat) : g = pages.got
    BY DEF ClosureInv, ClosureTypeOK, ClosurePages
  <2>4. Walked(Request, query, Active) /\ ReadSoFar
    BY <2>1 DEF PagesInv
  <2>5. Len(g) <= Len(a) /\ \A i \in 1..Len(g) : g[i] = a[i]
    <3>1. CASE Len(pages.got) = 0
      BY <2>2, <2>3, <3>1
    <3>2. CASE \E q \in ClosureQueries : Walked(Request, q, Active) /\ ReadOf(q)
      <4>1. PICK q \in ClosureQueries : Walked(Request, q, Active) /\ ReadOf(q)
        BY <3>2
      <4>2. q = query
        BY <1>2, <2>4, <4>1, ClosureIsOne DEF ReadOf
      <4> QED BY <2>2, <2>3, <4>1, <4>2 DEF ReadOf
    <3> QED BY <2>4, <3>1, <3>2 DEF ReadSoFar
  <2>6. g = SubSeq(a, 1, Len(g))
    <3>1. PICK n \in Nat : n = Len(g)
      BY <2>3
    <3>2. \A i \in 1..n : a[i] \in Nat \X Nat
      BY <2>2, <2>5, <3>1
    <3>3. PICK w : w = SubSeq(a, 1, n)
      OBVIOUS
    <3>4. w \in Seq(Nat \X Nat) /\ Len(w) = n /\ \A i \in 1..n : w[i] = a[i]
      BY <3>2, <3>3
    <3>5. g = w
      BY <2>3, <2>5, <3>1, <3>4, SeqEqual
    <3> QED BY <3>1, <3>3, <3>5
  <2> QED BY <2>2, <2>3, <2>5, <2>6
<1> QED BY <1>1, <1>2

(* For any accounts, records, caps and page sizes, a client that follows    *)
(* the cursors over records that do not change reads the whole closure, in  *)
(* order and every account once (endorsementClosureStartOffset,             *)
(* endorsementClosurePageForArgs).                                          *)
THEOREM PagesReadTheClosure == ClosureSpec => []PagesAreTheClosure
<1>1. ClosureInit => PagesInv
  <2> SUFFICES ASSUME ClosureInit PROVE PagesInv
    OBVIOUS
  <2>1. query.at = "idle" /\ pages.at = "none"
    BY DEF ClosureInit, NoQuery, NoPages
  <2> QED BY <2>1 DEF PagesInv, Walking
<1>2. ClosureInv /\ ClosureInv' /\ PagesInv /\ [ClosureNext]_closureVars => PagesInv'
  BY PagesNextInv
<1>3. ClosureInv /\ PagesInv => PagesAreTheClosure
  BY InvPagesAreTheClosure
<1> QED BY <1>1, <1>2, <1>3, ClosureInvariant, PTL DEF ClosureSpec

=============================================================================
