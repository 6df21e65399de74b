------------------------- MODULE EndorsementClosure -------------------------
(***************************************************************************)
(* The query endorsementClosure: who is endorsed, directly or through      *)
(* others, by one account (graphql/schema/endorsement_closure.go).  The    *)
(* closure is walked breadth first, one ring after the other               *)
(* (graphclosure/closure.go); each ring asks the record table for the      *)
(* active endorsements of the ring before, in one or several statements    *)
(* (repositories/records_endorsement.go), while records come and go.  A    *)
(* client reads it page by page, and every page walks it again.            *)
(*                                                                         *)
(* DIDs are numbers, whose order is that of the strings.                   *)
(***************************************************************************)
EXTENDS Integers, FiniteSets, Sequences

CONSTANTS
  DIDs, NotADID,
  Roots,         \* accounts that are asked about
  Awards,        \* rows of app.certified.badge.award that may exist
  Badges,        \* rows of app.certified.badge.definition
  Responses,     \* rows of app.certified.badge.response
  Anyone,        \* a definition without allowedIssuers
  RequireValid,  \* TYPED_GRAPHQL_VALID_ONLY
  MaxDegree, MaxVia,
  Caps,          \* account caps to try; DefaultClosureCap in the program
  BatchSize,     \* issuers of one statement, below SQLParamBatchSize
  PageSize,
  MaxChanges,    \* bound: record changes
  MaxPages       \* bound: pages

ASSUME ClosureAssumption ==
  /\ DIDs \subseteq Nat \ {0} /\ IsFiniteSet(DIDs) /\ NotADID \notin DIDs
  /\ Roots \subseteq DIDs
  /\ \A w \in Awards : w.issuer \in DIDs /\ w.subject \in DIDs \union {NotADID}
  /\ MaxDegree \in Nat \ {0} /\ MaxVia \in Nat \ {0}
  /\ Caps \subseteq Nat \ {0} /\ BatchSize \in Nat \ {0} /\ PageSize \in Nat \ {0}
  /\ MaxChanges \in Nat /\ MaxPages \in Nat

VARIABLES
  rows,      \* the award, definition and response rows of the record table
  query,     \* the page request under way, and its closure so far
  pages,     \* what the client has read
  changes,
  \* history, of the request under way and of the pages
  always,    \* endorsements active at every moment since the request came
  ever,      \* endorsements active at some moment since then
  steady     \* no record changed since the first page was asked for

closureVars == <<rows, query, pages, changes, always, ever, steady>>

Unseen == MaxDegree + 1        \* the degree of an account not reached

NoQuery ==
  [at |-> "idle", root |-> 0, want |-> 0, cap |-> 0, degree |-> 0,
   seen |-> [d \in DIDs |-> Unseen], via |-> [d \in DIDs |-> {}],
   frontier |-> <<>>, next |-> <<>>, read |-> 0, limit |-> 0, edges |-> {},
   cut |-> FALSE, truncated |-> FALSE]

NoPages ==
  [at |-> "none", root |-> 0, want |-> 0, cap |-> 0, after |-> <<0, 0>>, got |-> <<>>,
   count |-> 0]

ClosureQueries ==
  [at : {"idle", "ring", "batch", "expand", "page"},
   root : DIDs \union {0}, want : 0..MaxDegree, cap : Nat, degree : 0..MaxDegree,
   seen : [DIDs -> 0..Unseen], via : [DIDs -> SUBSET DIDs],
   frontier : Seq(DIDs), next : Seq(DIDs), read : Nat, limit : Int,
   edges : SUBSET (DIDs \X DIDs), cut : BOOLEAN, truncated : BOOLEAN]

ClosurePages ==
  [at : {"none", "more", "end"}, root : DIDs \union {0}, want : 0..MaxDegree, cap : Nat,
   after : Nat \X Nat, got : Seq(Nat \X Nat), count : Nat]

ClosureTypeOK ==
  /\ rows \subseteq Awards \union Badges \union Responses
  /\ query \in ClosureQueries
  /\ pages \in ClosurePages /\ pages.count <= MaxPages + 1
  /\ changes \in 0..MaxChanges
  /\ always \subseteq ever /\ ever \subseteq DIDs \X DIDs
  /\ steady \in BOOLEAN

-----------------------------------------------------------------------------
(* The active endorsements: the rows of one statement over all issuers. *)

Counted(row) == RequireValid => row.valid

AllowsIssuer(badge, did) == badge.allowed = Anyone \/ did \in badge.allowed

(* A subject that is an account, and not the issuer *)
EndorsesAccount(award) == award.subject # NotADID /\ award.subject # award.issuer

Rejected(award) ==
  \E r \in rows \intersect Responses :
    Counted(r) /\ r.did = award.subject /\ r.award = award.uri /\ r.rejected

Active ==
  {<<award.issuer, award.subject>> : award \in
     {w \in rows \intersect Awards :
        /\ Counted(w)
        /\ EndorsesAccount(w)
        /\ \E b \in rows \intersect Badges : /\ b.uri = w.badge /\ Counted(b)
                                             /\ b.endorsement /\ AllowsIssuer(b, w.issuer)
        /\ ~Rejected(w)}}

(* The order of pairs, the place of one in a set of them, and the set as a  *)
(* sequence in that order.                                                  *)
Before(e, f) == e[1] < f[1] \/ (e[1] = f[1] /\ e[2] < f[2])
Place(e, E) == Cardinality({f \in E : Before(f, e)})
InOrder(E) == [i \in 1..Cardinality(E) |-> CHOOSE e \in E : Place(e, E) = i - 1]

(* ORDER BY issuer, subject LIMIT n *)
FirstEdges(E, n) == {e \in E : Place(e, E) < n}

-----------------------------------------------------------------------------
(* createEndorsementClosureResolver: one page, of a walk that starts or of  *)
(* one that goes on; where.degree selects one degree, or all (0)            *)
Asked(root, want, cap) ==
  [NoQuery EXCEPT !.at = "ring", !.root = root, !.want = want, !.cap = cap,
                  !.seen[root] = 0, !.frontier = <<root>>]

Ask(root, want, cap, p) ==
  /\ query' = Asked(root, want, cap)
  /\ pages' = [p EXCEPT !.count = p.count + 1]
  /\ always' = Active
  /\ ever' = Active
  /\ UNCHANGED <<rows, changes>>

FirstPage(root, want, cap) ==
  /\ query.at = "idle" /\ pages.at = "none"
  /\ Ask(root, want, cap, [NoPages EXCEPT !.at = "more", !.root = root, !.want = want, !.cap = cap])
  /\ steady' = TRUE

NextPage ==
  /\ query.at = "idle" /\ pages.at = "more" /\ pages.count < MaxPages
  /\ Ask(pages.root, pages.want, pages.cap, pages)
  /\ UNCHANGED steady

-----------------------------------------------------------------------------
(* graphclosure.Compute, to where.degree or MaxDegree *)

LastDegree(q) == IF q.want = 0 THEN MaxDegree ELSE q.want

Reached(seen) == Cardinality({d \in DIDs : seen[d] \in 1..MaxDegree})

(* The next degree, unless there is no room for another account *)
NextRing(q) ==
  IF q.degree = LastDegree(q)
  THEN [q EXCEPT !.at = "page"]
  ELSE IF Reached(q.seen) >= q.cap
  THEN [q EXCEPT !.at = "page", !.truncated = TRUE]
  ELSE [q EXCEPT !.at = "batch", !.degree = q.degree + 1, !.read = 0,
                 !.limit = (q.cap - Reached(q.seen)) * MaxVia,
                 !.edges = {}, !.cut = FALSE]

StartRing ==
  /\ query.at = "ring"
  /\ query' = NextRing(query)
  /\ UNCHANGED <<rows, pages, changes, always, ever, steady>>

(* endorsementAdjacencyFor: one batch of issuers, up to the remaining limit, *)
(* of the endorsements E                                                     *)
NextBatch(q, E) ==
  LET last == IF q.read + BatchSize > Len(q.frontier)
              THEN Len(q.frontier) ELSE q.read + BatchSize
      issuers == {q.frontier[i] : i \in q.read + 1..last}
      found == {e \in E : e[1] \in issuers}
      kept == FirstEdges(found, q.limit)
      more == last < Len(q.frontier)
      left == q.limit - Cardinality(kept)
      cut == kept # found \/ (left = 0 /\ more)
  IN  [q EXCEPT !.at = IF more /\ ~cut THEN "batch" ELSE "expand",
                !.read = last, !.limit = left,
                !.edges = q.edges \union kept, !.cut = cut]

ReadBatch ==
  /\ query.at = "batch"
  /\ query' = NextBatch(query, Active)
  /\ UNCHANGED <<rows, pages, changes, always, ever, steady>>

(* The edges come in the order of the ring, then of the subjects. *)
Turn(q, did) == CHOOSE i \in 1..Len(q.frontier) : q.frontier[i] = did

Foremost(q, e) ==
  \A f \in q.edges \ {e} :
    Before(<<Turn(q, e[1]), e[2]>>, <<Turn(q, f[1]), f[2]>>)

MeetAgain(q, e) ==
  IF q.seen[e[2]] = q.degree /\ q.degree > 1 /\ Cardinality(q.via[e[2]]) < MaxVia
  THEN [q EXCEPT !.via[e[2]] = @ \union {e[1]}] ELSE q

Discover(q, e) ==
  [q EXCEPT !.seen[e[2]] = q.degree, !.next = Append(q.next, e[2]),
            !.via[e[2]] = IF q.degree > 1 THEN {e[1]} ELSE {}]

(* A mutated form: an account left out is not told. *)
FollowQuietly(q, e) ==
  IF e[2] = q.root THEN q
  ELSE IF q.seen[e[2]] # Unseen THEN MeetAgain(q, e)
  ELSE IF Reached(q.seen) >= q.cap THEN q
  ELSE Discover(q, e)

(* One edge of the ring: an account met again, one too many, or a new one *)
Follow(q, e) ==
  IF e[2] = q.root THEN q
  ELSE IF q.seen[e[2]] # Unseen THEN MeetAgain(q, e)
  ELSE IF Reached(q.seen) >= q.cap THEN [q EXCEPT !.truncated = TRUE]
  ELSE Discover(q, e)

FollowEdge ==
  /\ query.at = "expand"
  /\ \E e \in query.edges :
       /\ Foremost(query, e)
       /\ query' = [Follow(query, e) EXCEPT !.edges = query.edges \ {e}]
  /\ UNCHANGED <<rows, pages, changes, always, ever, steady>>

(* The end of a degree *)
RingDone(q) ==
  [q EXCEPT !.truncated = q.truncated \/ q.cut, !.frontier = q.next, !.next = <<>>,
            !.at = IF q.truncated \/ q.cut \/ q.next = <<>> THEN "page" ELSE "ring"]

EndRing ==
  /\ query.at = "expand" /\ query.edges = {}
  /\ query' = RingDone(query)
  /\ UNCHANGED <<rows, pages, changes, always, ever, steady>>

-----------------------------------------------------------------------------
(* The accounts by degree, then DID, of the degrees asked for *)
Accounts(q) ==
  InOrder({<<q.seen[d], d>> : d \in {e \in DIDs : /\ q.seen[e] \in 1..MaxDegree
                                                  /\ q.want \in {0, q.seen[e]}}})

(* A mutated form: the cursor compares DIDs alone. *)
StartOffsetByDID(accounts, after) ==
  Cardinality({i \in 1..Len(accounts) : after # <<0, 0>> /\ accounts[i][2] <= after[2]})

(* endorsementClosureStartOffset: how many accounts are not beyond the cursor *)
StartOffset(accounts, after) ==
  Cardinality({i \in 1..Len(accounts) : ~Before(after, accounts[i])})

(* endorsementClosurePageForArgs: the page, and the cursor of its last edge *)
SendPage ==
  LET accounts == Accounts(query)
      start == StartOffset(accounts, pages.after)
      end == IF start + PageSize > Len(accounts) THEN Len(accounts) ELSE start + PageSize
  IN  /\ query.at = "page"
      /\ pages' = [pages EXCEPT
           !.at = IF end < Len(accounts) THEN "more" ELSE "end",
           !.got = @ \o SubSeq(accounts, start + 1, end),
           !.after = IF end > start THEN accounts[end] ELSE @]
      /\ query' = [query EXCEPT !.at = "idle"]
      /\ UNCHANGED <<rows, changes, always, ever, steady>>

-----------------------------------------------------------------------------
(* Ingestion stores a record in the place of the one with its URI, or       *)
(* deletes one, between two statements of the query.                        *)
RecordChanges(row, put) ==
  /\ changes < MaxChanges /\ query.at \in {"ring", "batch", "idle"} /\ pages.at = "more"
  /\ put # (row \in rows)
  /\ rows' = {r \in rows : r.uri # row.uri} \union (IF put THEN {row} ELSE {})
  /\ changes' = changes + 1
  /\ always' = always \intersect Active'
  /\ ever' = ever \union Active'
  /\ steady' = FALSE
  /\ UNCHANGED <<query, pages>>

ClosureInit ==
  /\ rows \in SUBSET (Awards \union Badges \union Responses)
  /\ \A r, s \in rows : r.uri = s.uri => r = s
  /\ query = NoQuery
  /\ pages = NoPages
  /\ changes = 0
  /\ always = {} /\ ever = {}
  /\ steady = TRUE

ClosureNext ==
  \/ \E root \in Roots, want \in 0..MaxDegree, cap \in Caps : FirstPage(root, want, cap)
  \/ NextPage
  \/ StartRing \/ ReadBatch \/ FollowEdge \/ EndRing \/ SendPage
  \/ \E row \in Awards \union Badges \union Responses, put \in BOOLEAN : RecordChanges(row, put)

ClosureSpec == ClosureInit /\ [][ClosureNext]_closureVars

-----------------------------------------------------------------------------
(* The reference: n endorsements of E, one after the other, from the root. *)
Paths(E, root, n) ==
  {p \in [0..n -> DIDs] : p[0] = root /\ \A i \in 1..n : <<p[i - 1], p[i]>> \in E}

(* The closure is what the doc of Compute promises, as far as one can while *)
(* records change between its rings: an account in it is as many            *)
(* endorsements away as its degree says, over endorsements that were active *)
(* at some moment of the request; and unless truncated is set, an account   *)
(* within reach over endorsements active throughout is in it, no further    *)
(* away than those.  viaAccounts are accounts one degree nearer that        *)
(* endorse it, and all of them unless truncated or MaxVia.                  *)
ClosureIsBetween ==
  query.at = "page" =>
    LET seen == query.seen
        others == DIDs \ {query.root}
    IN  /\ \A d \in others : seen[d] # Unseen =>
             \E p \in Paths(ever, query.root, seen[d]) : p[seen[d]] = d
        /\ ~query.truncated =>
             \A n \in 1..LastDegree(query) : \A p \in Paths(always, query.root, n) :
               p[n] \in others => seen[p[n]] \in 1..n
        /\ \A d \in others : \A v \in query.via[d] : seen[v] + 1 = seen[d] /\ <<v, d>> \in ever
        /\ \A d \in others : seen[d] \in 2..MaxDegree => query.via[d] # {}
        /\ ~query.truncated => \A d, v \in others :
             /\ seen[d] \in 2..MaxDegree /\ seen[v] + 1 = seen[d] /\ <<v, d>> \in always
             => v \in query.via[d] \/ Cardinality(query.via[d]) = MaxVia

(* A client that follows the cursors, over records that do not change,      *)
(* reads every account of the closure once, in order, though each page      *)
(* walks it again.                                                          *)
PagesAreTheClosure ==
  LET accounts == Accounts(query)
      got == pages.got
  IN  steady => /\ query.at = "page" => /\ Len(got) <= Len(accounts)
                                        /\ got = SubSeq(accounts, 1, Len(got))
                /\ pages.at = "end" => got = accounts
=============================================================================
