------------------------------ MODULE IndexLog ------------------------------
(***************************************************************************)
(* What ingestion promises of the index: each repository is a stream of    *)
(* events, every event takes effect on the index exactly once and in the   *)
(* order of the stream, and the stream moves on only when its event has    *)
(* taken effect.  Crashes, redeliveries, and writes of several statements  *)
(* do not show.                                                            *)
(***************************************************************************)
CONSTANTS Repos, Uris, RepoOf, Events, NoEvent, NoBody

VARIABLES
  head,     \* head[r]: the event the stream of r is at, or NoEvent
  applied,  \* applied[r]: that event has taken effect
  index     \* index[u]: the body indexed under u, or NoBody

vars == <<head, applied, index>>

Init ==
  /\ head = [r \in Repos |-> NoEvent]
  /\ applied = [r \in Repos |-> FALSE]

Effect(e) ==
  CASE e.kind = "write" /\ e.body # NoBody -> [index EXCEPT ![e.uri] = e.body]
    [] e.kind = "delete" -> [index EXCEPT ![e.uri] = NoBody]
    [] e.kind = "purge"  -> [u \in Uris |-> IF RepoOf[u] = e.repo THEN NoBody ELSE index[u]]
    [] OTHER -> index

Emit(r, e) ==
  /\ head[r] = NoEvent
  /\ e.repo = r
  /\ head' = [head EXCEPT ![r] = e]
  /\ applied' = [applied EXCEPT ![r] = FALSE]
  /\ UNCHANGED index

Apply(r) ==
  /\ head[r] # NoEvent
  /\ ~applied[r]
  /\ applied' = [applied EXCEPT ![r] = TRUE]
  /\ index' = Effect(head[r])
  /\ UNCHANGED head

Retire(r) ==
  /\ head[r] # NoEvent
  /\ applied[r]
  /\ head' = [head EXCEPT ![r] = NoEvent]
  /\ UNCHANGED <<applied, index>>

Next == \E r \in Repos : (\E e \in Events : Emit(r, e)) \/ Apply(r) \/ Retire(r)

Spec == Init /\ [][Next]_vars

=============================================================================
