---------------------------- MODULE OAuthProofs ----------------------------
(***************************************************************************)
(* Proofs about the OAuth server: about OAuthServer, for any number of     *)
(* concurrent requests, clients, users and sessions, and about DPoPReplay, *)
(* for any number of requests and proofs and any retention that leaves     *)
(* room for the age of a proof and the time of a request.                  *)
(***************************************************************************)
EXTENDS OAuthServer, DPoPReplay, TLAPS

(* Steps of HandleAuthorize, and steps of a request that holds a grant. *)
Pending == {"storeRequest", "storeATP", "storeSession"}
Holding == {"updateSession", "storeCode", "dropATP", "dropRequest", "spend", "storeAccess",
            "storeRefresh"}

HasRequest(s) == \E r \in authRequests : r.session = s
HasATP(s) == \E r \in atpRequests : r.session = s
Answered(s) == \E g \in approved : g.session = s

(* Why the rows of a session need not be there. *)
Excused(s) == now > asked[s].expires \/ ~Registered(asked[s].client) \/ Answered(s)

(* The rows of a session say what was asked for in it. *)
RowsMatch ==
  /\ \A r \in authRequests :
       /\ r.session \in 1..sessions
       /\ r.client = asked[r.session].client /\ r.terms = asked[r.session].terms
       /\ r.expires = asked[r.session].expires
  /\ \A r \in atpRequests :
       r.session \in 1..sessions /\ r.expires = asked[r.session].expires

(* So does a request that is about to write them; a later one holds a grant *)
(* that was approved.                                                       *)
RequestsMatch ==
  \A w \in Workers :
    /\ req[w].at \in Pending =>
         /\ req[w].grant \in Grants
         /\ req[w].grant.session \in 1..sessions
         /\ req[w].grant.client = asked[req[w].grant.session].client
         /\ req[w].grant.terms = asked[req[w].grant.session].terms
    /\ req[w].at \in Holding => req[w].grant \in approved
    /\ req[w].at = "storeRefresh" => req[w].id \in Ids

(* The rows are written in the order of the code. *)
WrittenInOrder ==
  \A w \in Workers :
    /\ req[w].at = "storeATP" =>
         Excused(req[w].grant.session) \/ HasRequest(req[w].grant.session)
    /\ req[w].at = "storeSession" =>
         \/ Excused(req[w].grant.session)
         \/ HasRequest(req[w].grant.session) /\ HasATP(req[w].grant.session)

Bookkeeping ==
  /\ \A s \in 1..sessions : registered[asked[s].client] # "no"
  /\ redirected \subseteq 1..sessions
  /\ sweep.now <= now

IInv ==
  /\ TypeOK
  /\ RowsMatch
  /\ RequestsMatch
  /\ WrittenInOrder
  /\ Bookkeeping
  /\ TokensCarryGrant
  /\ ReturnFindsRequest

LEMMA InitEstablishes == Init => IInv
<1> SUFFICES ASSUME Init PROVE IInv
  OBVIOUS
<1> USE OAuthAssumption DEF Init
<1>1. TypeOK
  <2>1. Idle \in Requests
    BY DEF Idle, Request, Requests, Steps
  <2> QED
    BY <2>1 DEF TypeOK, Sessions
<1>2. RowsMatch /\ RequestsMatch /\ WrittenInOrder /\ Bookkeeping
  BY DEF RowsMatch, RequestsMatch, WrittenInOrder, Bookkeeping, Pending, Holding, Idle, Request
<1>3. TokensCarryGrant /\ ReturnFindsRequest
  BY DEF TokensCarryGrant, ReturnFindsRequest
<1> QED
  BY <1>1, <1>2, <1>3 DEF IInv

-----------------------------------------------------------------------------
(* A step of a request that holds, or is about to store, a grant. *)
LEMMA GrantInHand ==
  ASSUME IInv, NEW w \in Workers, req[w].at \in Pending \union Holding
  PROVE  req[w].grant \in Grants
  BY DEF IInv, RequestsMatch, TypeOK

(* What the steps make of requests and rows. *)
LEMMA RequestTypes ==
  /\ Idle \in Requests
  /\ \A r \in Requests, at \in Steps : [r EXCEPT !.at = at] \in Requests
  BY OAuthAssumption DEF Idle, Request, Requests, Steps

LEMMA NewRequest ==
  ASSUME NEW at \in Steps, NEW from \in {"none", "code", "refresh"}, NEW id \in 0..MaxIds,
         NEW g \in Grants
  PROVE  Request(at, from, id, g) \in Requests
  BY DEF Request, Requests

LEMMA CodeTypes ==
  ASSUME NEW r \in CodeRows
  PROVE  /\ r.id \in Ids /\ r.grant \in Grants
         /\ [r EXCEPT !.used = TRUE] \in CodeRows
         /\ [r EXCEPT !.used = TRUE].grant = r.grant
  BY DEF CodeRows

LEMMA TokenTypes ==
  ASSUME NEW r \in TokenRows
  PROVE  /\ r.id \in Ids /\ r.grant \in Grants
         /\ [r EXCEPT !.revoked = TRUE] \in TokenRows
         /\ [r EXCEPT !.revoked = TRUE].grant = r.grant
  BY DEF TokenRows

LEMMA ForClient ==
  ASSUME NEW g \in Grants, NEW c \in Clients
  PROVE  /\ Grant(c, g.terms, g.session, g.user) \in Grants
         /\ g.client = c => Grant(c, g.terms, g.session, g.user) = g
  BY DEF Grants, Grant

LEMMA TypePreserved == IInv /\ [Next]_vars => TypeOK'
<1> SUFFICES ASSUME IInv, [Next]_vars PROVE TypeOK'
  OBVIOUS
<1>t. TypeOK
  BY DEF IInv
<1> USE <1>t, OAuthAssumption DEF TypeOK, Sessions, Ids
<1>1. CASE Tick
  BY <1>1 DEF Tick, tables, history
<1>2. ASSUME NEW c \in Clients, RegisterClient(c) \/ DeleteClient(c) PROVE TypeOK'
  BY <1>2 DEF RegisterClient, DeleteClient, tables, history
<1>3. ASSUME NEW w \in Workers, NEW c \in Clients, NEW t \in Terms, NEW hint \in Users,
             Authorize(w, c, t, hint)
      PROVE  TypeOK'
  <2>1. sessions' = sessions + 1 /\ sessions' \in 1..MaxSessions
    BY <1>3 DEF Authorize
  <2>2. Grant(c, t, sessions', hint) \in Grants
    BY <2>1 DEF Grants, Grant
  <2>3. asked' \in [1..sessions' -> [client: Clients, terms: Terms, expires: Nat]]
    BY <1>3, <2>1 DEF Authorize
  <2>n. Request("storeRequest", "none", 0, Grant(c, t, sessions', hint)) \in Requests
    BY <2>2, NewRequest DEF Steps
  <2>4. req' \in [Workers -> Requests]
    BY <1>3, <2>n DEF Authorize
  <2> QED
    BY <1>3, <2>1, <2>3, <2>4 DEF Authorize, tables
<1>4. ASSUME NEW w \in Workers, StoreRequest(w) PROVE TypeOK'
  <2>1. req[w].grant \in Grants /\ req[w].grant.session \in 1..sessions
    BY <1>4 DEF StoreRequest, RequestRow, At, IInv, RequestsMatch, Pending
  <2>2. authRequests' \subseteq AuthRequestRows
    BY <1>4, <2>1 DEF StoreRequest, RequestRow, AuthRequestRows, Grants
  <2> QED
    BY <1>4, <2>2, RequestTypes DEF StoreRequest, RequestRow, Goes, Steps, history
<1>5. ASSUME NEW w \in Workers, StoreATP(w) PROVE TypeOK'
  <2>1. req[w].grant \in Grants /\ req[w].grant.session \in 1..sessions
    BY <1>5 DEF StoreATP, ATPRow, At, IInv, RequestsMatch, Pending
  <2>2. atpRequests' \subseteq ATPRequestRows
    BY <1>5, <2>1 DEF StoreATP, ATPRow, ATPRequestRows, Grants
  <2> QED
    BY <1>5, <2>2, RequestTypes DEF StoreATP, ATPRow, Goes, Steps, history
<1>6. ASSUME NEW w \in Workers, StoreSession(w) PROVE TypeOK'
  <2>1. req[w].grant \in Grants
    BY <1>6, GrantInHand DEF StoreSession, SetSession, At, Pending
  <2>2. req[w].grant.session \in Sessions /\ req[w].grant.user \in Users
    BY <2>1 DEF Grants
  <2>3. /\ atpSessions' \in [Sessions -> Users \union {NoUser}]
        /\ redirected' \subseteq Sessions
    BY <1>6, <2>2 DEF StoreSession, SetSession
  <2> QED
    BY <1>6, <2>3, RequestTypes DEF StoreSession, SetSession, Done
<1>7. ASSUME NEW s \in Sessions, CallbackTooLate(s) PROVE TypeOK'
  BY <1>7 DEF CallbackTooLate, ATPRequestOf, history
<1>8. ASSUME NEW w \in Workers, NEW s \in Sessions, NEW u \in Users, Callback(w, s, u)
      PROVE  TypeOK'
  <2>1. PICK r \in authRequests :
          /\ r.session = s
          /\ req' = [req EXCEPT ![w] =
                        Request("updateSession", "none", 0, Grant(r.client, r.terms, s, u))]
    BY <1>8 DEF Callback, ATPRequestOf, AuthRequestOf, ExchangeCode
  <2>2. r \in AuthRequestRows
    BY <2>1
  <2>3. Grant(r.client, r.terms, s, u) \in Grants
    BY <2>2 DEF AuthRequestRows, Grants, Grant
  <2>4. s \in 1..sessions /\ asked[s] \in [client: Clients, terms: Terms, expires: Nat]
    BY <2>1 DEF IInv, RowsMatch
  <2>5. approved' \subseteq Grants
    BY <1>8, <2>4 DEF Callback, ATPRequestOf, AuthRequestOf, ExchangeCode, Grants, Grant
  <2>n. Request("updateSession", "none", 0, Grant(r.client, r.terms, s, u)) \in Requests
    BY <2>3, NewRequest DEF Steps
  <2>6. req' \in [Workers -> Requests]
    BY <2>1, <2>n
  <2> QED
    BY <1>8, <2>5, <2>6 DEF Callback, ATPRequestOf, AuthRequestOf, ExchangeCode, tables
<1>9. ASSUME NEW w \in Workers,
             UpdateSession(w) \/ DropATP(w) \/ DropRequest(w) \/ Spend(w) \/ Fail(w)
      PROVE  TypeOK'
  <2>1. CASE UpdateSession(w)
    <3>1. req[w].grant \in Grants
      BY <2>1, GrantInHand DEF UpdateSession, SetSession, At, Holding
    <3>2. req[w].grant.session \in Sessions /\ req[w].grant.user \in Users
      BY <3>1 DEF Grants
    <3>3. atpSessions' \in [Sessions -> Users \union {NoUser}]
      BY <2>1, <3>2 DEF UpdateSession, SetSession
    <3> QED
      BY <2>1, <3>3, RequestTypes DEF UpdateSession, SetSession, Goes, Steps, history
  <2>2. CASE DropATP(w)
    BY <2>2, RequestTypes DEF DropATP, Goes, Steps, history
  <2>3. CASE DropRequest(w)
    BY <2>3, RequestTypes DEF DropRequest, Done, history
  <2>4. CASE Spend(w)
    <3>1. codes' \subseteq CodeRows
      BY <2>4, CodeTypes DEF Spend
    <3>2. refreshTokens' \subseteq TokenRows
      BY <2>4, TokenTypes DEF Spend
    <3> QED
      BY <2>4, <3>1, <3>2, RequestTypes DEF Spend, Goes, Steps, history
  <2>5. CASE Fail(w)
    BY <2>5, RequestTypes DEF Fail, Done, tables, history
  <2> QED
    BY <1>9, <2>1, <2>2, <2>3, <2>4, <2>5
<1>10. ASSUME NEW w \in Workers, StoreCode(w) PROVE TypeOK'
  <2>1. req[w].grant \in Grants
    BY <1>10, GrantInHand DEF StoreCode, CodeRow, At, Holding
  <2>2. ids' \in Ids /\ now + RequestLife \in Nat
    BY <1>10 DEF StoreCode, CodeRow
  <2>3. [id |-> ids', grant |-> req[w].grant, expires |-> now + RequestLife, used |-> FALSE]
          \in CodeRows
    BY <2>1, <2>2 DEF CodeRows
  <2>4. codes' \subseteq CodeRows
    BY <1>10, <2>3 DEF StoreCode, CodeRow
  <2>5. req' \in [Workers -> Requests]
    BY <1>10, RequestTypes DEF StoreCode, CodeRow, Goes, Steps
  <2> QED
    BY <1>10, <2>2, <2>4, <2>5 DEF StoreCode, CodeRow, history
<1>11. ASSUME NEW w \in Workers, NEW c \in Clients, NEW t \in Terms, CodeGrant(w, c, t)
       PROVE  TypeOK'
  <2>1. PICK r \in codes : Starts(w, "code", r.id, Grant(c, r.grant.terms, r.grant.session, r.grant.user))
    BY <1>11 DEF CodeGrant, UsableCodes
  <2>r. r \in CodeRows
    BY <2>1
  <2>2. r.id \in Ids /\ r.grant \in Grants
    BY <2>r, CodeTypes
  <2>3. Grant(c, r.grant.terms, r.grant.session, r.grant.user) \in Grants
    BY <2>2, ForClient
  <2>4. Request("spend", "code", r.id, Grant(c, r.grant.terms, r.grant.session, r.grant.user))
          \in Requests
    BY <2>2, <2>3, NewRequest DEF Steps
  <2>5. req' \in [Workers -> Requests]
    BY <2>1, <2>4 DEF Starts
  <2> QED
    BY <2>1, <2>5 DEF Starts, tables, history
<1>12. ASSUME NEW w \in Workers, NEW c \in Clients, RefreshGrant(w, c) PROVE TypeOK'
  <2>1. PICK r \in refreshTokens : Starts(w, "refresh", r.id, Grant(c, r.grant.terms, r.grant.session, r.grant.user))
    BY <1>12 DEF RefreshGrant, UsableRefreshTokens
  <2>r. r \in TokenRows
    BY <2>1
  <2>2. r.id \in Ids /\ r.grant \in Grants
    BY <2>r, TokenTypes
  <2>3. Grant(c, r.grant.terms, r.grant.session, r.grant.user) \in Grants
    BY <2>2, ForClient
  <2>4. Request("spend", "refresh", r.id, Grant(c, r.grant.terms, r.grant.session, r.grant.user))
          \in Requests
    BY <2>2, <2>3, NewRequest DEF Steps
  <2>5. req' \in [Workers -> Requests]
    BY <2>1, <2>4 DEF Starts
  <2> QED
    BY <2>1, <2>5 DEF Starts, tables, history
<1>13. ASSUME NEW w \in Workers, StoreAccess(w) PROVE TypeOK'
  <2>1. req[w].grant \in Grants
    BY <1>13, GrantInHand DEF StoreAccess, AccessRow, At, Holding
  <2>2. ids' \in Ids /\ now + AccessLife \in Nat
    BY <1>13 DEF StoreAccess, AccessRow
  <2>3. [id |-> ids', grant |-> req[w].grant, expires |-> now + AccessLife, revoked |-> FALSE]
          \in TokenRows
    BY <2>1, <2>2 DEF TokenRows
  <2>4. accessTokens' \subseteq TokenRows
    BY <1>13, <2>3 DEF StoreAccess, AccessRow
  <2>r. req[w] \in Requests
    OBVIOUS
  <2>5. Request("storeRefresh", req[w].from, ids', req[w].grant) \in Requests
    BY <2>1, <2>2, <2>r DEF Request, Requests, Steps
  <2>6. req' \in [Workers -> Requests]
    BY <1>13, <2>5 DEF StoreAccess, AccessRow
  <2> QED
    BY <1>13, <2>2, <2>4, <2>6 DEF StoreAccess, AccessRow, history
<1>14. ASSUME NEW w \in Workers, StoreRefresh(w) PROVE TypeOK'
  <2>1. req[w].grant \in Grants
    BY <1>14, GrantInHand DEF StoreRefresh, RefreshRow, At, Holding
  <2>2. req[w].id \in Ids /\ now + RefreshLife \in Nat
    BY <1>14 DEF StoreRefresh, RefreshRow, At, IInv, RequestsMatch
  <2>3. [id |-> req[w].id, grant |-> req[w].grant, expires |-> now + RefreshLife,
         revoked |-> FALSE] \in TokenRows
    BY <2>1, <2>2 DEF TokenRows
  <2>4. refreshTokens' \subseteq TokenRows
    BY <1>14, <2>3 DEF StoreRefresh, RefreshRow
  <2> QED
    BY <1>14, <2>4, RequestTypes DEF StoreRefresh, RefreshRow, Done, history
<1>15. ASSUME NEW id \in Ids, Revoke(id) PROVE TypeOK'
  <2>r. \A t \in TokenRows : [t EXCEPT !.revoked = TRUE] \in TokenRows
    BY TokenTypes
  <2>1. accessTokens' \subseteq TokenRows
    BY <1>15, <2>r DEF Revoke
  <2>2. refreshTokens' \subseteq TokenRows
    BY <1>15, <2>r DEF Revoke
  <2> QED
    BY <1>15, <2>1, <2>2 DEF Revoke, history
<1>16. CASE StartCleanup
  BY <1>16 DEF StartCleanup, tables, history
<1>17. CASE CleanupStep
  <2>1. sweep' \in [at: 0..4, now: Nat]
    BY <1>17 DEF CleanupStep
  <2> QED
    BY <1>17, <2>1 DEF CleanupStep, tables, history
<1>18. CASE UNCHANGED vars
  BY <1>18 DEF vars
<1> QED
  BY <1>1, <1>2, <1>3, <1>4, <1>5, <1>6, <1>7, <1>8, <1>9, <1>10, <1>11, <1>12, <1>13, <1>14,
     <1>15, <1>16, <1>17, <1>18
     DEF Next, Authorization, TokenRequest

-----------------------------------------------------------------------------
(* Sessions are given out once: what was asked for in one never changes. *)
LEMMA AskedStays ==
  ASSUME IInv, [Next]_vars
  PROVE  /\ sessions' \in Nat /\ sessions <= sessions'
         /\ \A s \in 1..sessions : asked'[s] = asked[s]
<1>t. TypeOK
  BY DEF IInv
<1> USE <1>t DEF TypeOK
<1>1. ASSUME NEW w \in Workers, NEW c \in Clients, NEW t \in Terms, NEW hint \in Users,
             Authorize(w, c, t, hint)
      PROVE  sessions' = sessions + 1 /\ \A s \in 1..sessions : asked'[s] = asked[s]
  BY <1>1 DEF Authorize
<1>2. (sessions' = sessions + 1 /\ \A s \in 1..sessions : asked'[s] = asked[s])
      \/ UNCHANGED <<sessions, asked>>
  BY <1>1 DEF Next, vars, Tick, RegisterClient, DeleteClient, Authorization, TokenRequest, Fail,
         CallbackTooLate, ATPRequestOf, Revoke, StartCleanup, CleanupStep, StoreRequest,
         RequestRow, StoreATP, ATPRow, StoreSession, SetSession, Callback, AuthRequestOf,
         ExchangeCode, UpdateSession, StoreCode, CodeRow, DropATP, DropRequest, CodeGrant,
         UsableCodes, RefreshGrant, UsableRefreshTokens, Starts, Spend, StoreAccess, AccessRow,
         StoreRefresh, RefreshRow, history
<1> QED
  BY <1>2

(* Nor does a grant disappear, or time run back. *)
LEMMA TimeAndGrants ==
  ASSUME IInv, [Next]_vars
  PROVE  approved \subseteq approved' /\ now <= now' /\ now' \in Nat
<1>t. TypeOK
  BY DEF IInv
<1> USE <1>t DEF TypeOK
<1>1. approved \subseteq approved' /\ (now' = now \/ now' = now + 1)
  BY DEF Next, vars, Tick, RegisterClient, DeleteClient, Authorization, TokenRequest, Fail,
         CallbackTooLate, ATPRequestOf, Revoke, StartCleanup, CleanupStep, Authorize,
         StoreRequest, RequestRow, StoreATP, ATPRow, StoreSession, SetSession, Callback,
         AuthRequestOf, ExchangeCode, UpdateSession, StoreCode, CodeRow, DropATP, DropRequest,
         CodeGrant, UsableCodes, RefreshGrant, UsableRefreshTokens, Starts, Spend, StoreAccess,
         AccessRow, StoreRefresh, RefreshRow, history
<1> QED
  BY <1>1

(* A client that has been registered is not registered again. *)
LEMMA ClientsStay ==
  ASSUME IInv, [Next]_vars, NEW c \in Clients, registered[c] # "no"
  PROVE  registered'[c] # "no" /\ (~Registered(c) => ~Registered(c)')
<1>t. TypeOK
  BY DEF IInv
<1> USE <1>t DEF TypeOK
<1>1. ASSUME NEW d \in Clients, RegisterClient(d) \/ DeleteClient(d)
      PROVE  registered'[c] # "no" /\ (~Registered(c) => ~Registered(c)')
  BY <1>1 DEF RegisterClient, DeleteClient, Registered
<1>2. UNCHANGED registered => registered'[c] # "no" /\ (~Registered(c) => ~Registered(c)')
  BY DEF Registered
<1>3. (\E d \in Clients : RegisterClient(d) \/ DeleteClient(d)) \/ UNCHANGED registered
  BY DEF Next, vars, Tick, Authorization, TokenRequest, Fail, CallbackTooLate, ATPRequestOf,
         Revoke, StartCleanup, CleanupStep, Authorize, StoreRequest, RequestRow, StoreATP,
         ATPRow, StoreSession, SetSession, Callback, AuthRequestOf, ExchangeCode, UpdateSession,
         StoreCode, CodeRow, DropATP, DropRequest, CodeGrant, UsableCodes, RefreshGrant,
         UsableRefreshTokens, Starts, Spend, StoreAccess, AccessRow, StoreRefresh, RefreshRow
<1> QED
  BY <1>1, <1>2, <1>3

LEMMA ExcusedStays ==
  ASSUME IInv, [Next]_vars, NEW s \in 1..sessions, Excused(s)
  PROVE  Excused(s)'
<1>t. TypeOK /\ Bookkeeping
  BY DEF IInv
<1>1. asked'[s] = asked[s]
  BY AskedStays
<1>2. asked[s].client \in Clients /\ registered[asked[s].client] # "no" /\ asked[s].expires \in Nat
  BY <1>t DEF TypeOK, Bookkeeping
<1>3. CASE now > asked[s].expires
  BY <1>1, <1>2, <1>3, <1>t, TimeAndGrants DEF Excused, TypeOK
<1>4. CASE ~Registered(asked[s].client)
  BY <1>1, <1>2, <1>4, ClientsStay DEF Excused, Registered
<1>5. CASE Answered(s)
  BY <1>5, TimeAndGrants DEF Excused, Answered
<1> QED
  BY <1>3, <1>4, <1>5 DEF Excused

-----------------------------------------------------------------------------
(* A row only disappears when nobody needs it: the client is deleted, the   *)
(* user's sign-in was answered, or the row's time is over.                  *)
LEMMA RequestStays ==
  ASSUME IInv, [Next]_vars, NEW s \in 1..sessions, HasRequest(s)
  PROVE  HasRequest(s)' \/ Excused(s)'
<1>t. TypeOK /\ RowsMatch /\ RequestsMatch /\ Bookkeeping
  BY DEF IInv
<1>a. asked'[s] = asked[s] /\ asked[s].client \in Clients /\ asked[s].expires \in Nat
  BY <1>t, AskedStays DEF TypeOK
<1>r. PICK r \in authRequests : r.session = s
  BY DEF HasRequest
<1>m. r.client = asked[s].client /\ r.expires = asked[s].expires
  BY <1>t, <1>r DEF RowsMatch
<1>1. ASSUME NEW c \in Clients, DeleteClient(c) PROVE HasRequest(s)' \/ Excused(s)'
  <2>1. CASE r.client = c
    BY <1>1, <2>1, <1>a, <1>m, <1>t DEF DeleteClient, Excused, Registered, TypeOK
  <2>2. CASE r.client # c
    BY <1>1, <2>2, <1>r DEF DeleteClient, HasRequest
  <2> QED
    BY <2>1, <2>2
<1>2. ASSUME NEW w \in Workers, DropRequest(w) PROVE HasRequest(s)' \/ Excused(s)'
  <2>1. CASE req[w].grant.session = s
    <3>1. req[w].grant \in approved
      BY <1>2, <1>t DEF DropRequest, At, RequestsMatch, Holding
    <3>2. Answered(s)
      BY <2>1, <3>1 DEF Answered
    <3> QED
      BY <3>2, ExcusedStays DEF Excused
  <2>2. CASE req[w].grant.session # s
    BY <1>2, <2>2, <1>r DEF DropRequest, HasRequest
  <2> QED
    BY <2>1, <2>2
<1>3. CASE CleanupStep
  <2>1. CASE Stale(r)
    <3>1. now > asked[s].expires
      BY <2>1, <1>a, <1>m, <1>t DEF Stale, Bookkeeping, TypeOK
    <3> QED
      BY <3>1, ExcusedStays DEF Excused
  <2>2. CASE ~Stale(r)
    BY <1>3, <2>2, <1>r DEF CleanupStep, HasRequest, tables
  <2> QED
    BY <2>1, <2>2
<1>4. authRequests \subseteq authRequests' => HasRequest(s)'
  BY <1>r DEF HasRequest
<1>5. \/ \E c \in Clients : DeleteClient(c)
      \/ \E w \in Workers : DropRequest(w)
      \/ CleanupStep
      \/ authRequests \subseteq authRequests'
  BY DEF Next, vars, Tick, RegisterClient, Authorization, TokenRequest, Fail, CallbackTooLate,
         ATPRequestOf, Revoke, StartCleanup, Authorize, StoreRequest, RequestRow, StoreATP,
         ATPRow, StoreSession, SetSession, Callback, AuthRequestOf, ExchangeCode, UpdateSession,
         StoreCode, CodeRow, DropATP, CodeGrant, UsableCodes, RefreshGrant, UsableRefreshTokens,
         Starts, Spend, StoreAccess, AccessRow, StoreRefresh, RefreshRow, tables
<1> QED
  BY <1>1, <1>2, <1>3, <1>4, <1>5

LEMMA ATPStays ==
  ASSUME IInv, [Next]_vars, NEW s \in 1..sessions, HasATP(s)
  PROVE  HasATP(s)' \/ Excused(s)'
<1>t. TypeOK /\ RowsMatch /\ RequestsMatch /\ Bookkeeping
  BY DEF IInv
<1>a. asked'[s] = asked[s] /\ asked[s].expires \in Nat
  BY <1>t, AskedStays DEF TypeOK
<1>r. PICK r \in atpRequests : r.session = s
  BY DEF HasATP
<1>m. r.expires = asked[s].expires
  BY <1>t, <1>r DEF RowsMatch
<1>1. ASSUME NEW u \in Sessions, CallbackTooLate(u) PROVE HasATP(s)' \/ Excused(s)'
  <2>1. PICK q \in atpRequests : IsExpired(q) /\ atpRequests' = atpRequests \ {q}
    BY <1>1 DEF CallbackTooLate, ATPRequestOf
  <2>2. CASE q = r
    <3>1. now > asked[s].expires
      BY <2>1, <2>2, <1>m DEF IsExpired
    <3> QED
      BY <3>1, ExcusedStays DEF Excused
  <2>3. CASE q # r
    BY <2>1, <2>3, <1>r DEF HasATP
  <2> QED
    BY <2>2, <2>3
<1>2. ASSUME NEW w \in Workers, DropATP(w) PROVE HasATP(s)' \/ Excused(s)'
  <2>1. CASE req[w].grant.session = s
    <3>1. req[w].grant \in approved
      BY <1>2, <1>t DEF DropATP, At, RequestsMatch, Holding
    <3>2. Answered(s)
      BY <2>1, <3>1 DEF Answered
    <3> QED
      BY <3>2, ExcusedStays DEF Excused
  <2>2. CASE req[w].grant.session # s
    BY <1>2, <2>2, <1>r DEF DropATP, HasATP
  <2> QED
    BY <2>1, <2>2
<1>3. CASE CleanupStep
  <2>1. CASE Stale(r)
    <3>1. now > asked[s].expires
      BY <2>1, <1>a, <1>m, <1>t DEF Stale, Bookkeeping, TypeOK
    <3> QED
      BY <3>1, ExcusedStays DEF Excused
  <2>2. CASE ~Stale(r)
    BY <1>3, <2>2, <1>r DEF CleanupStep, HasATP, tables
  <2> QED
    BY <2>1, <2>2
<1>4. atpRequests \subseteq atpRequests' => HasATP(s)'
  BY <1>r DEF HasATP
<1>5. \/ \E u \in Sessions : CallbackTooLate(u)
      \/ \E w \in Workers : DropATP(w)
      \/ CleanupStep
      \/ atpRequests \subseteq atpRequests'
  BY DEF Next, vars, Tick, RegisterClient, DeleteClient, Authorization, TokenRequest, Fail,
         Revoke, StartCleanup, Authorize, StoreRequest, RequestRow, StoreATP, ATPRow,
         StoreSession, SetSession, Callback, ATPRequestOf, AuthRequestOf, ExchangeCode,
         UpdateSession, StoreCode, CodeRow, DropRequest, CodeGrant, UsableCodes, RefreshGrant,
         UsableRefreshTokens, Starts, Spend, StoreAccess, AccessRow, StoreRefresh, RefreshRow,
         tables
<1> QED
  BY <1>1, <1>2, <1>3, <1>4, <1>5

-----------------------------------------------------------------------------
LEMMA RowsPreserved == IInv /\ [Next]_vars => RowsMatch'
<1> SUFFICES ASSUME IInv, [Next]_vars PROVE RowsMatch'
  OBVIOUS
<1>t. TypeOK /\ RowsMatch /\ RequestsMatch
  BY DEF IInv
<1>n. sessions \in Nat
  BY <1>t, OAuthAssumption DEF TypeOK
<1>a. /\ \A s \in 1..sessions : asked'[s] = asked[s]
      /\ sessions \in Nat /\ sessions' \in Nat /\ sessions <= sessions'
  BY <1>n, AskedStays
<1>1. ASSUME NEW w \in Workers, StoreRequest(w)
      PROVE  RowsMatch'
  <2>1. /\ req[w].grant.session \in 1..sessions
        /\ req[w].grant.client = asked[req[w].grant.session].client
        /\ req[w].grant.terms = asked[req[w].grant.session].terms
    BY <1>1, <1>t DEF StoreRequest, RequestRow, At, RequestsMatch, Pending
  <2> QED
    BY <1>1, <1>a, <1>t, <2>1 DEF StoreRequest, RequestRow, RowsMatch
<1>2. ASSUME NEW w \in Workers, StoreATP(w) PROVE RowsMatch'
  <2>1. req[w].grant.session \in 1..sessions
    BY <1>2, <1>t DEF StoreATP, ATPRow, At, RequestsMatch, Pending
  <2> QED
    BY <1>2, <1>a, <1>t, <2>1 DEF StoreATP, ATPRow, RowsMatch
<1>3. authRequests' \subseteq authRequests /\ atpRequests' \subseteq atpRequests => RowsMatch'
  BY <1>a, <1>t DEF RowsMatch
<1>4. \/ \E w \in Workers : StoreRequest(w) \/ StoreATP(w)
      \/ authRequests' \subseteq authRequests /\ atpRequests' \subseteq atpRequests
  BY DEF Next, vars, Tick, RegisterClient, DeleteClient, Authorization, TokenRequest, Fail,
         CallbackTooLate, ATPRequestOf, Revoke, StartCleanup, CleanupStep, Authorize,
         StoreSession, SetSession, Callback, AuthRequestOf, ExchangeCode, UpdateSession,
         StoreCode, CodeRow, DropATP, DropRequest, CodeGrant, UsableCodes, RefreshGrant,
         UsableRefreshTokens, Starts, Spend, StoreAccess, AccessRow, StoreRefresh, RefreshRow,
         tables
<1> QED
  BY <1>1, <1>2, <1>3, <1>4

(* What RequestsMatch says of one request. *)
Matches(r) ==
  /\ r.at \in Pending =>
       /\ r.grant \in Grants
       /\ r.grant.session \in 1..sessions
       /\ r.grant.client = asked[r.grant.session].client
       /\ r.grant.terms = asked[r.grant.session].terms
  /\ r.at \in Holding => r.grant \in approved
  /\ r.at = "storeRefresh" => r.id \in Ids

(* Every request is as it was, at its next step, or as one of these says. *)
LEMMA RequestSteps ==
  ASSUME IInv, [Next]_vars, NEW v \in Workers
  PROVE  \/ req'[v] = req[v]
         \/ req'[v] = Idle
         \/ \E c \in Clients, t \in Terms, hint \in Users : Authorize(v, c, t, hint)
         \/ \E s \in Sessions, u \in Users : Callback(v, s, u)
         \/ \E c \in Clients, t \in Terms : CodeGrant(v, c, t)
         \/ \E c \in Clients : RefreshGrant(v, c)
         \/ StoreAccess(v)
         \/ /\ req[v].at = "storeRequest" /\ req'[v] = [req[v] EXCEPT !.at = "storeATP"]
            /\ StoreRequest(v)
         \/ /\ req[v].at = "storeATP" /\ req'[v] = [req[v] EXCEPT !.at = "storeSession"]
            /\ StoreATP(v)
         \/ /\ req[v].at \in Holding
            /\ \E at \in Holding \ {"storeRefresh"} : req'[v] = [req[v] EXCEPT !.at = at]
<1>t. TypeOK
  BY DEF IInv
<1> USE <1>t DEF TypeOK
<1>1. UNCHANGED req => req'[v] = req[v]
  OBVIOUS
<1>2. ASSUME NEW w \in Workers, Done(w) PROVE req'[v] = req[v] \/ req'[v] = Idle
  BY <1>2 DEF Done
<1>3. ASSUME NEW w \in Workers, Authorization(w) \/ TokenRequest(w), w # v PROVE req'[v] = req[v]
  BY <1>3 DEF Authorization, TokenRequest, Authorize, StoreRequest, RequestRow, StoreATP, ATPRow,
         StoreSession, SetSession, Callback, ATPRequestOf, AuthRequestOf, ExchangeCode,
         UpdateSession, StoreCode, CodeRow, DropATP, DropRequest, CodeGrant, UsableCodes,
         RefreshGrant, UsableRefreshTokens, Starts, Spend, StoreAccess, AccessRow, StoreRefresh,
         RefreshRow, Goes, Done
<1>4. CASE StoreRequest(v)
  BY <1>4 DEF StoreRequest, RequestRow, At, Goes
<1>5. CASE StoreATP(v)
  BY <1>5 DEF StoreATP, ATPRow, At, Goes
<1>6. CASE UpdateSession(v) \/ StoreCode(v) \/ DropATP(v) \/ Spend(v)
  BY <1>6 DEF UpdateSession, SetSession, StoreCode, CodeRow, DropATP, Spend, At, Goes, Holding
<1>7. CASE StoreSession(v) \/ DropRequest(v) \/ StoreRefresh(v)
  BY <1>7, <1>2 DEF StoreSession, SetSession, DropRequest, StoreRefresh, RefreshRow
<1>8. Authorization(v) \/ TokenRequest(v) =>
        \/ StoreRequest(v) \/ StoreATP(v)
        \/ UpdateSession(v) \/ StoreCode(v) \/ DropATP(v) \/ Spend(v)
        \/ StoreSession(v) \/ DropRequest(v) \/ StoreRefresh(v) \/ StoreAccess(v)
        \/ \E c \in Clients, t \in Terms, hint \in Users : Authorize(v, c, t, hint)
        \/ \E s \in Sessions, u \in Users : Callback(v, s, u)
        \/ \E c \in Clients, t \in Terms : CodeGrant(v, c, t)
        \/ \E c \in Clients : RefreshGrant(v, c)
  BY DEF Authorization, TokenRequest
<1>9. \/ UNCHANGED req
      \/ \E w \in Workers : Authorization(w) \/ TokenRequest(w)
      \/ \E w \in Workers : Done(w)
  BY DEF Next, vars, Tick, RegisterClient, DeleteClient, Fail, CallbackTooLate, ATPRequestOf,
         Revoke, StartCleanup, CleanupStep
<1> QED
  BY <1>1, <1>2, <1>3, <1>4, <1>5, <1>6, <1>7, <1>8, <1>9

LEMMA RequestsPreserved == IInv /\ [Next]_vars => RequestsMatch'
<1> SUFFICES ASSUME IInv, [Next]_vars, NEW v \in Workers PROVE Matches(req[v])'
  BY DEF RequestsMatch, Matches
<1>t. TypeOK /\ RowsMatch /\ RequestsMatch /\ TokensCarryGrant
  BY DEF IInv
<1>m. Matches(req[v])
  BY <1>t DEF RequestsMatch, Matches
<1>n. sessions \in Nat
  BY <1>t, OAuthAssumption DEF TypeOK
<1>a. /\ \A s \in 1..sessions : asked'[s] = asked[s]
      /\ sessions \in Nat /\ sessions' \in Nat /\ sessions <= sessions'
      /\ approved \subseteq approved'
  BY <1>n, AskedStays, TimeAndGrants
<1>q. req[v] \in Requests
  BY <1>t DEF TypeOK
<1>1. CASE req'[v] = req[v]
  BY <1>1, <1>m, <1>a DEF Matches
<1>2. CASE req'[v] = Idle
  BY <1>2 DEF Matches, Idle, Request, Pending, Holding
<1>3. ASSUME NEW c \in Clients, NEW t \in Terms, NEW hint \in Users, Authorize(v, c, t, hint)
      PROVE  Matches(req[v])'
  <2>1. /\ sessions' = sessions + 1
        /\ asked'[sessions'] = [client |-> c, terms |-> t, expires |-> now + RequestLife]
        /\ req'[v] = Request("storeRequest", "none", 0, Grant(c, t, sessions', hint))
        /\ sessions' \in Sessions
    BY <1>3, <1>t, OAuthAssumption DEF Authorize, TypeOK, Sessions
  <2>2. Grant(c, t, sessions', hint) \in Grants
    BY <2>1 DEF Grant, Grants
  <2> QED
    BY <2>1, <2>2, <1>a DEF Matches, Request, Grant, Pending, Holding
<1>4. ASSUME NEW s \in Sessions, NEW u \in Users, Callback(v, s, u) PROVE Matches(req[v])'
  <2>1. PICK r \in authRequests :
          r.session = s
          /\ req' = [req EXCEPT ![v] =
                       Request("updateSession", "none", 0, Grant(r.client, r.terms, s, u))]
    BY <1>4 DEF Callback, ATPRequestOf, AuthRequestOf, ExchangeCode
  <2>2. Grant(r.client, r.terms, s, u) \in approved'
    BY <1>4, <2>1, <1>t DEF Callback, ATPRequestOf, AuthRequestOf, ExchangeCode, RowsMatch
  <2> QED
    BY <2>1, <2>2, <1>t DEF Matches, Request, Pending, Holding, TypeOK
<1>5. ASSUME NEW c \in Clients, NEW t \in Terms, CodeGrant(v, c, t) PROVE Matches(req[v])'
  <2>1. PICK r \in codes :
          /\ r.grant.client = c
          /\ Starts(v, "code", r.id, Grant(c, r.grant.terms, r.grant.session, r.grant.user))
    BY <1>5 DEF CodeGrant, UsableCodes
  <2>2. r.grant \in Grants /\ r.grant \in approved
    BY <1>t, CodeTypes DEF TypeOK, TokensCarryGrant
  <2>3. Grant(c, r.grant.terms, r.grant.session, r.grant.user) \in approved
    BY <2>1, <2>2, ForClient
  <2> QED
    BY <2>1, <2>3, <1>a, <1>t DEF Starts, Matches, Request, Pending, Holding, TypeOK
<1>6. ASSUME NEW c \in Clients, RefreshGrant(v, c) PROVE Matches(req[v])'
  <2>1. PICK r \in refreshTokens :
          /\ r.grant.client = c
          /\ Starts(v, "refresh", r.id, Grant(c, r.grant.terms, r.grant.session, r.grant.user))
    BY <1>6 DEF RefreshGrant, UsableRefreshTokens
  <2>2. r.grant \in Grants /\ r.grant \in approved
    BY <1>t, TokenTypes DEF TypeOK, TokensCarryGrant
  <2>3. Grant(c, r.grant.terms, r.grant.session, r.grant.user) \in approved
    BY <2>1, <2>2, ForClient
  <2> QED
    BY <2>1, <2>3, <1>a, <1>t DEF Starts, Matches, Request, Pending, Holding, TypeOK
<1>7. CASE StoreAccess(v)
  <2>1. req'[v] = Request("storeRefresh", req[v].from, ids', req[v].grant) /\ ids' \in Ids
    BY <1>7, <1>t, OAuthAssumption DEF StoreAccess, AccessRow, TypeOK, Ids
  <2>2. req[v].grant \in approved
    BY <1>7, <1>m DEF StoreAccess, AccessRow, At, Matches, Holding
  <2> QED
    BY <2>1, <2>2, <1>a DEF Matches, Request, Pending, Holding
<1>8. CASE \/ req[v].at = "storeRequest" /\ req'[v] = [req[v] EXCEPT !.at = "storeATP"]
           \/ req[v].at = "storeATP" /\ req'[v] = [req[v] EXCEPT !.at = "storeSession"]
  <2>1. req[v].at \in Pending /\ req'[v].at \in Pending /\ req'[v].grant = req[v].grant
    BY <1>8, <1>q DEF Pending, Requests
  <2>2. req'[v].at \notin Holding /\ req'[v].at # "storeRefresh"
    BY <2>1 DEF Pending, Holding
  <2> QED
    BY <2>1, <2>2, <1>m, <1>a DEF Matches
<1>9. CASE /\ req[v].at \in Holding
           /\ \E at \in Holding \ {"storeRefresh"} : req'[v] = [req[v] EXCEPT !.at = at]
  <2>1. /\ req'[v].at \in Holding \ {"storeRefresh"} /\ req'[v].at \notin Pending
        /\ req'[v].grant = req[v].grant
    BY <1>9, <1>q DEF Holding, Pending, Requests
  <2> QED
    BY <1>9, <2>1, <1>m, <1>a DEF Matches
<1> QED
  BY <1>1, <1>2, <1>3, <1>4, <1>5, <1>6, <1>7, <1>8, <1>9, RequestSteps

(* What WrittenInOrder says of one request. *)
Written(r) ==
  /\ r.at = "storeATP" => Excused(r.grant.session) \/ HasRequest(r.grant.session)
  /\ r.at = "storeSession" =>
       Excused(r.grant.session) \/ (HasRequest(r.grant.session) /\ HasATP(r.grant.session))

LEMMA OrderPreserved == IInv /\ [Next]_vars => WrittenInOrder'
<1> SUFFICES ASSUME IInv, [Next]_vars, NEW v \in Workers PROVE Written(req[v])'
  BY DEF WrittenInOrder, Written
<1>t. TypeOK /\ RequestsMatch /\ WrittenInOrder
  BY DEF IInv
<1>w. Written(req[v])
  BY <1>t DEF WrittenInOrder, Written
<1>q. req[v] \in Requests
  BY <1>t DEF TypeOK
<1>s. req[v].at \in Pending => req[v].grant.session \in 1..sessions
  BY <1>t DEF RequestsMatch
<1>1. CASE req'[v] = req[v]
  <2>1. CASE req[v].at = "storeATP"
    <3>1. req[v].grant.session \in 1..sessions
      BY <2>1, <1>s DEF Pending
    <3>2. Excused(req[v].grant.session)' \/ HasRequest(req[v].grant.session)'
      BY <1>1, <1>w, <2>1, <3>1, ExcusedStays, RequestStays DEF Written
    <3> QED
      BY <1>1, <2>1, <3>2 DEF Written
  <2>2. CASE req[v].at = "storeSession"
    <3>1. req[v].grant.session \in 1..sessions
      BY <2>2, <1>s DEF Pending
    <3>2. \/ Excused(req[v].grant.session)'
          \/ HasRequest(req[v].grant.session)' /\ HasATP(req[v].grant.session)'
      BY <1>1, <1>w, <2>2, <3>1, ExcusedStays, RequestStays, ATPStays DEF Written
    <3> QED
      BY <1>1, <2>2, <3>2 DEF Written
  <2> QED
    BY <1>1, <2>1, <2>2 DEF Written
<1>2. CASE /\ req[v].at = "storeRequest" /\ req'[v] = [req[v] EXCEPT !.at = "storeATP"]
           /\ StoreRequest(v)
  <2>1. req'[v].at = "storeATP" /\ req'[v].grant = req[v].grant
    BY <1>2, <1>q DEF Requests
  <2> DEFINE row == [session |-> req[v].grant.session, client |-> req[v].grant.client,
                     terms |-> req[v].grant.terms, expires |-> asked[req[v].grant.session].expires]
  <2>r. row \in authRequests'
    BY <1>2 DEF StoreRequest, RequestRow
  <2>a. \E r \in authRequests' : r.session = req[v].grant.session
    BY <2>r
  <2>2. HasRequest(req[v].grant.session)'
    BY <2>a, <2>1 DEF HasRequest
  <2> QED
    BY <2>1, <2>2 DEF Written
<1>3. CASE /\ req[v].at = "storeATP" /\ req'[v] = [req[v] EXCEPT !.at = "storeSession"]
           /\ StoreATP(v)
  <2>1. req'[v].at = "storeSession" /\ req'[v].grant = req[v].grant
    BY <1>3, <1>q DEF Requests
  <2> DEFINE row == [session |-> req[v].grant.session,
                     expires |-> asked[req[v].grant.session].expires]
  <2>r. row \in atpRequests'
    BY <1>3 DEF StoreATP, ATPRow
  <2>a. \E r \in atpRequests' : r.session = req[v].grant.session
    BY <2>r
  <2>2. HasATP(req[v].grant.session)'
    BY <2>a, <2>1 DEF HasATP
  <2>3. req[v].grant.session \in 1..sessions
    BY <1>3, <1>s DEF Pending
  <2>4. Excused(req[v].grant.session)' \/ HasRequest(req[v].grant.session)'
    BY <1>3, <1>w, <2>1, <2>3, ExcusedStays, RequestStays DEF Written
  <2> QED
    BY <2>1, <2>2, <2>4 DEF Written
<1>4. req'[v].at \notin {"storeATP", "storeSession"} => Written(req[v])'
  BY DEF Written
<1>5. \/ req'[v] = req[v]
      \/ /\ req[v].at = "storeRequest" /\ req'[v] = [req[v] EXCEPT !.at = "storeATP"]
         /\ StoreRequest(v)
      \/ /\ req[v].at = "storeATP" /\ req'[v] = [req[v] EXCEPT !.at = "storeSession"]
         /\ StoreATP(v)
      \/ req'[v].at \notin {"storeATP", "storeSession"}
  <2>1. CASE req'[v] = Idle
    BY <2>1 DEF Idle, Request
  <2>2. ASSUME NEW c \in Clients, NEW t \in Terms, NEW hint \in Users, Authorize(v, c, t, hint)
        PROVE  req'[v].at = "storeRequest"
    BY <2>2, <1>t DEF Authorize, Request, TypeOK
  <2>3. ASSUME NEW s \in Sessions, NEW u \in Users, Callback(v, s, u)
        PROVE  req'[v].at = "updateSession"
    BY <2>3, <1>t DEF Callback, ATPRequestOf, AuthRequestOf, ExchangeCode, Request, TypeOK
  <2>4. ASSUME NEW c \in Clients, RefreshGrant(v, c) \/ \E t \in Terms : CodeGrant(v, c, t)
        PROVE  req'[v].at = "spend"
    BY <2>4, <1>t DEF RefreshGrant, UsableRefreshTokens, CodeGrant, UsableCodes, Starts, Request,
           TypeOK
  <2>5. CASE StoreAccess(v)
    BY <2>5, <1>t DEF StoreAccess, AccessRow, Request, TypeOK
  <2>6. CASE \E at \in Holding \ {"storeRefresh"} : req'[v] = [req[v] EXCEPT !.at = at]
    BY <2>6, <1>q DEF Holding, Requests
  <2> QED
    BY <2>1, <2>2, <2>3, <2>4, <2>5, <2>6, RequestSteps
<1> QED
  BY <1>1, <1>2, <1>3, <1>4, <1>5

LEMMA BookkeepingPreserved == IInv /\ [Next]_vars => Bookkeeping'
<1> SUFFICES ASSUME IInv, [Next]_vars PROVE Bookkeeping'
  OBVIOUS
<1>t. TypeOK /\ RequestsMatch /\ Bookkeeping
  BY DEF IInv
<1>n. sessions \in Nat
  BY <1>t, OAuthAssumption DEF TypeOK
<1>a. /\ \A s \in 1..sessions : asked'[s] = asked[s]
      /\ sessions \in Nat /\ sessions' \in Nat /\ sessions <= sessions'
  BY <1>n, AskedStays
<1>o. \A s \in 1..sessions : registered'[asked'[s].client] # "no"
  <2> TAKE s \in 1..sessions
  <2>1. asked[s].client \in Clients /\ registered[asked[s].client] # "no"
    BY <1>t DEF TypeOK, Bookkeeping
  <2> QED
    BY <2>1, <1>a, ClientsStay
<1>1. \A s \in 1..sessions' : registered'[asked'[s].client] # "no"
  <2>1. ASSUME NEW w \in Workers, NEW c \in Clients, NEW t \in Terms, NEW hint \in Users,
               Authorize(w, c, t, hint)
        PROVE  sessions' = sessions + 1 /\ registered'[asked'[sessions'].client] # "no"
    BY <2>1, <1>a DEF Authorize, Registered
  <2>2. (sessions' = sessions + 1 /\ registered'[asked'[sessions'].client] # "no")
        \/ sessions' = sessions
    BY <2>1 DEF Next, vars, Tick, RegisterClient, DeleteClient, Authorization, TokenRequest,
           Fail, CallbackTooLate, ATPRequestOf, Revoke, StartCleanup, CleanupStep, StoreRequest,
           RequestRow, StoreATP, ATPRow, StoreSession, SetSession, Callback, AuthRequestOf,
           ExchangeCode, UpdateSession, StoreCode, CodeRow, DropATP, DropRequest, CodeGrant,
           UsableCodes, RefreshGrant, UsableRefreshTokens, Starts, Spend, StoreAccess, AccessRow,
           StoreRefresh, RefreshRow
  <2> QED
    BY <2>2, <1>o, <1>a
<1>2. redirected' \subseteq 1..sessions'
  <2>1. ASSUME NEW w \in Workers, StoreSession(w) PROVE redirected' \subseteq 1..sessions
    BY <2>1, <1>t DEF StoreSession, SetSession, At, RequestsMatch, Pending, Bookkeeping
  <2>2. (\E w \in Workers : StoreSession(w)) \/ redirected' = redirected
    BY DEF Next, vars, Tick, RegisterClient, DeleteClient, Authorization, TokenRequest, Fail,
           CallbackTooLate, ATPRequestOf, Revoke, StartCleanup, CleanupStep, StoreRequest,
           RequestRow, StoreATP, ATPRow, Authorize, Callback, AuthRequestOf, ExchangeCode,
           UpdateSession, SetSession, StoreCode, CodeRow, DropATP, DropRequest, CodeGrant,
           UsableCodes, RefreshGrant, UsableRefreshTokens, Starts, Spend, StoreAccess, AccessRow,
           StoreRefresh, RefreshRow, history
  <2>3. redirected \subseteq 1..sessions /\ 1..sessions \subseteq 1..sessions'
    BY <1>a, <1>t DEF Bookkeeping
  <2> QED
    BY <2>1, <2>2, <2>3
<1>3. sweep'.now <= now'
  <2>1. sweep' = sweep \/ sweep'.now \in {0, now} \/ sweep'.now = sweep.now
    <3>1. CASE CleanupStep
      BY <3>1, <1>t DEF CleanupStep, TypeOK
    <3>2. CASE StartCleanup
      BY <3>2 DEF StartCleanup
    <3>3. CleanupStep \/ StartCleanup \/ sweep' = sweep
      BY DEF Next, vars, Tick, RegisterClient, DeleteClient, Authorization, TokenRequest, Fail,
             CallbackTooLate, ATPRequestOf, Revoke, StoreRequest, RequestRow, StoreATP, ATPRow,
             Authorize, StoreSession, SetSession, Callback, AuthRequestOf, ExchangeCode,
             UpdateSession, StoreCode, CodeRow, DropATP, DropRequest, CodeGrant, UsableCodes,
             RefreshGrant, UsableRefreshTokens, Starts, Spend, StoreAccess, AccessRow,
             StoreRefresh, RefreshRow
    <3> QED
      BY <3>1, <3>2, <3>3
  <2>2. sweep.now <= now /\ sweep.now \in Nat /\ now \in Nat /\ now <= now' /\ now' \in Nat
    BY <1>t, TimeAndGrants DEF TypeOK, Bookkeeping
  <2> QED
    BY <2>1, <2>2
<1> QED
  BY <1>1, <1>2, <1>3 DEF Bookkeeping

LEMMA GrantsPreserved == IInv /\ [Next]_vars => TokensCarryGrant'
<1> SUFFICES ASSUME IInv, [Next]_vars PROVE TokensCarryGrant'
  OBVIOUS
<1>t. TypeOK /\ RequestsMatch /\ TokensCarryGrant
  BY DEF IInv
<1>a. approved \subseteq approved'
  BY TimeAndGrants
<1>1. \A row \in codes' : row.grant \in approved'
  <2>1. ASSUME NEW w \in Workers, StoreCode(w) PROVE \A row \in codes' : row.grant \in approved
    BY <2>1, <1>t DEF StoreCode, CodeRow, At, RequestsMatch, Holding, TokensCarryGrant
  <2>2. ASSUME NEW w \in Workers, Spend(w) PROVE \A row \in codes' : row.grant \in approved
    <3>1. \A r \in codes : r.grant \in approved /\ [r EXCEPT !.used = TRUE].grant = r.grant
      BY <1>t, CodeTypes DEF TypeOK, TokensCarryGrant
    <3>2. \A row \in codes' : \E r \in codes : row = r \/ row = [r EXCEPT !.used = TRUE]
      BY <2>2 DEF Spend
    <3> QED
      BY <3>1, <3>2
  <2>3. (\E w \in Workers : StoreCode(w) \/ Spend(w)) \/ codes' \subseteq codes
    BY DEF Next, vars, Tick, RegisterClient, DeleteClient, Authorization, TokenRequest, Fail,
           CallbackTooLate, ATPRequestOf, Revoke, StartCleanup, CleanupStep, StoreRequest,
           RequestRow, StoreATP, ATPRow, Authorize, StoreSession, SetSession, Callback,
           AuthRequestOf, ExchangeCode, UpdateSession, DropATP, DropRequest, CodeGrant,
           UsableCodes, RefreshGrant, UsableRefreshTokens, Starts, StoreAccess, AccessRow,
           StoreRefresh, RefreshRow, tables
  <2> QED
    BY <2>1, <2>2, <2>3, <1>a, <1>t DEF TokensCarryGrant
<1>2. \A row \in accessTokens' : row.grant \in approved'
  <2>1. ASSUME NEW w \in Workers, StoreAccess(w)
        PROVE  \A row \in accessTokens' : row.grant \in approved
    BY <2>1, <1>t DEF StoreAccess, AccessRow, At, RequestsMatch, Holding, TokensCarryGrant
  <2>2. ASSUME NEW id \in Ids, Revoke(id)
        PROVE  \A row \in accessTokens' : row.grant \in approved
    <3>1. \A r \in accessTokens :
            r.grant \in approved /\ [r EXCEPT !.revoked = TRUE].grant = r.grant
      BY <1>t, TokenTypes DEF TypeOK, TokensCarryGrant
    <3>2. \A row \in accessTokens' :
            \E r \in accessTokens : row = r \/ row = [r EXCEPT !.revoked = TRUE]
      BY <2>2 DEF Revoke
    <3> QED
      BY <3>1, <3>2
  <2>3. \/ \E w \in Workers : StoreAccess(w)
        \/ \E id \in Ids : Revoke(id)
        \/ accessTokens' \subseteq accessTokens
    BY DEF Next, vars, Tick, RegisterClient, DeleteClient, Authorization, TokenRequest, Fail,
           CallbackTooLate, ATPRequestOf, StartCleanup, CleanupStep, StoreRequest, RequestRow,
           StoreATP, ATPRow, Authorize, StoreSession, SetSession, Callback, AuthRequestOf,
           ExchangeCode, UpdateSession, DropATP, DropRequest, CodeGrant, UsableCodes, StoreCode,
           CodeRow, RefreshGrant, UsableRefreshTokens, Starts, Spend, StoreRefresh, RefreshRow,
           tables
  <2> QED
    BY <2>1, <2>2, <2>3, <1>a, <1>t DEF TokensCarryGrant
<1>3. \A row \in refreshTokens' : row.grant \in approved'
  <2>r. \A r \in refreshTokens :
          r.grant \in approved /\ [r EXCEPT !.revoked = TRUE].grant = r.grant
    BY <1>t, TokenTypes DEF TypeOK, TokensCarryGrant
  <2>1. ASSUME NEW w \in Workers, StoreRefresh(w)
        PROVE  \A row \in refreshTokens' : row.grant \in approved
    BY <2>1, <1>t DEF StoreRefresh, RefreshRow, At, RequestsMatch, Holding, TokensCarryGrant
  <2>2. ASSUME NEW id \in Ids, Revoke(id)
        PROVE  \A row \in refreshTokens' : row.grant \in approved
    <3>1. \A row \in refreshTokens' :
            \E r \in refreshTokens : row = r \/ row = [r EXCEPT !.revoked = TRUE]
      BY <2>2 DEF Revoke
    <3> QED
      BY <3>1, <2>r
  <2>3. ASSUME NEW w \in Workers, Spend(w)
        PROVE  \A row \in refreshTokens' : row.grant \in approved
    <3>1. \A row \in refreshTokens' :
            \E r \in refreshTokens : row = r \/ row = [r EXCEPT !.revoked = TRUE]
      BY <2>3 DEF Spend
    <3> QED
      BY <3>1, <2>r
  <2>4. \/ \E w \in Workers : StoreRefresh(w) \/ Spend(w)
        \/ \E id \in Ids : Revoke(id)
        \/ refreshTokens' \subseteq refreshTokens
    BY DEF Next, vars, Tick, RegisterClient, DeleteClient, Authorization, TokenRequest, Fail,
           CallbackTooLate, ATPRequestOf, StartCleanup, CleanupStep, StoreRequest, RequestRow,
           StoreATP, ATPRow, Authorize, StoreSession, SetSession, Callback, AuthRequestOf,
           ExchangeCode, UpdateSession, DropATP, DropRequest, CodeGrant, UsableCodes, StoreCode,
           CodeRow, RefreshGrant, UsableRefreshTokens, Starts, StoreAccess, AccessRow, tables
  <2> QED
    BY <2>1, <2>2, <2>3, <2>4, <1>a, <1>t DEF TokensCarryGrant
<1> QED
  BY <1>1, <1>2, <1>3 DEF TokensCarryGrant

LEMMA ReturnPreserved == IInv /\ [Next]_vars => ReturnFindsRequest'
<1> SUFFICES ASSUME IInv, [Next]_vars, NEW s \in redirected'
             PROVE  \/ Excused(s)'
                    \/ HasATP(s)' /\ HasRequest(s)' /\ atpSessions'[s] # NoUser
  BY DEF ReturnFindsRequest, Excused, HasATP, HasRequest, Answered
<1>t. TypeOK /\ RequestsMatch /\ WrittenInOrder /\ Bookkeeping /\ ReturnFindsRequest
  BY DEF IInv
<1>1. CASE s \in redirected
  <2>1. s \in 1..sessions
    BY <1>1, <1>t DEF Bookkeeping
  <2>2. Excused(s) \/ (HasATP(s) /\ HasRequest(s) /\ atpSessions[s] # NoUser)
    BY <1>1, <1>t DEF ReturnFindsRequest, Excused, HasATP, HasRequest, Answered
  <2>3. atpSessions[s] # NoUser => atpSessions'[s] # NoUser
    <3>1. ASSUME NEW w \in Workers, StoreSession(w) \/ UpdateSession(w)
          PROVE  atpSessions[s] # NoUser => atpSessions'[s] # NoUser
      <4>1. req[w].grant \in Grants
        BY <3>1, GrantInHand DEF StoreSession, SetSession, UpdateSession, At, Pending, Holding
      <4>2. req[w].grant.user # NoUser
        BY <4>1, OAuthAssumption DEF Grants
      <4>3. s \in Sessions /\ atpSessions \in [Sessions -> Users \union {NoUser}]
        BY <1>1, <1>t DEF TypeOK
      <4>4. \/ atpSessions' = [atpSessions EXCEPT ![req[w].grant.session] = req[w].grant.user]
            \/ UNCHANGED atpSessions
        BY <3>1 DEF StoreSession, SetSession, UpdateSession
      <4> QED
        BY <4>2, <4>3, <4>4
    <3>2. (\E w \in Workers : StoreSession(w) \/ UpdateSession(w)) \/ UNCHANGED atpSessions
      BY DEF Next, vars, Tick, RegisterClient, DeleteClient, Authorization, TokenRequest, Fail,
             CallbackTooLate, ATPRequestOf, Revoke, StartCleanup, CleanupStep, StoreRequest,
             RequestRow, StoreATP, ATPRow, Authorize, Callback, AuthRequestOf, ExchangeCode,
             StoreCode, CodeRow, DropATP, DropRequest, CodeGrant, UsableCodes, RefreshGrant,
             UsableRefreshTokens, Starts, Spend, StoreAccess, AccessRow, StoreRefresh,
             RefreshRow, tables
    <3> QED
      BY <3>1, <3>2
  <2> QED
    BY <2>1, <2>2, <2>3, ExcusedStays, RequestStays, ATPStays
<1>2. CASE s \notin redirected
  <2>1. PICK w \in Workers : StoreSession(w)
    BY <1>2 DEF Next, vars, Tick, RegisterClient, DeleteClient, Authorization, TokenRequest,
           Fail, CallbackTooLate, ATPRequestOf, Revoke, StartCleanup, CleanupStep, StoreRequest,
           RequestRow, StoreATP, ATPRow, Authorize, Callback, AuthRequestOf, ExchangeCode,
           UpdateSession, SetSession, StoreCode, CodeRow, DropATP, DropRequest, CodeGrant,
           UsableCodes, RefreshGrant, UsableRefreshTokens, Starts, Spend, StoreAccess, AccessRow,
           StoreRefresh, RefreshRow, history
  <2>2. req[w].grant.session = s /\ req[w].at = "storeSession"
    BY <2>1, <1>2 DEF StoreSession, SetSession, At
  <2>3. req[w].grant \in Grants /\ s \in 1..sessions
    BY <2>2, <1>t DEF RequestsMatch, Pending
  <2>4. Excused(s) \/ (HasRequest(s) /\ HasATP(s))
    BY <2>2, <1>t DEF WrittenInOrder
  <2>5. s \in Sessions /\ req[w].grant.user # NoUser
    BY <2>2, <2>3, OAuthAssumption DEF Grants
  <2>6. atpSessions'[s] # NoUser
    BY <2>1, <2>2, <2>5, <1>t DEF StoreSession, SetSession, TypeOK
  <2> QED
    BY <2>3, <2>4, <2>6, ExcusedStays, RequestStays, ATPStays
<1> QED
  BY <1>1, <1>2

-----------------------------------------------------------------------------
LEMMA Preserved == IInv /\ [Next]_vars => IInv'
  BY TypePreserved, RowsPreserved, RequestsPreserved, OrderPreserved, BookkeepingPreserved,
     GrantsPreserved, ReturnPreserved
     DEF IInv

(* HandleToken, HandleCallback and the refresh grant: whatever requests run *)
(* concurrently and wherever each of them ends, a code or token is worth    *)
(* exactly what somebody granted at his PDS.                                *)
THEOREM TokensGranted == Spec => []TokensCarryGrant
<1>1. Spec => []IInv
  BY InitEstablishes, Preserved, PTL DEF Spec
<1>2. IInv => TokensCarryGrant
  BY DEF IInv
<1> QED
  BY <1>1, <1>2, PTL

(* HandleAuthorize and the cleanup worker: the rows a returning user needs  *)
(* are all there for as long as he may return.                              *)
THEOREM ReturnIsFound == Spec => []ReturnFindsRequest
<1>1. Spec => []IInv
  BY InitEstablishes, Preserved, PTL DEF Spec
<1>2. IInv => ReturnFindsRequest
  BY DEF IInv
<1> QED
  BY <1>1, <1>2, PTL

-----------------------------------------------------------------------------
(* DPoP proofs. *)

(* An accepted proof has a row, or has been too old for too long for a      *)
(* request that is still in time to hold it.                                *)
RemovedIsOld ==
  \A p \in Proofs : p \in jtis \/ accepted[p] = 0 \/ clock > IssuedAt[p] + Retention

(* A request in progress has verified its proof. *)
VerifiedInTime ==
  \A w \in Handlers :
    checking[w] = NoCheck \/ checking[w].since <= IssuedAt[checking[w].proof] + MaxAge

(* The cleanup worker's time has passed. *)
SweepIsPast == jtiSweep <= clock

DPoPInv ==
  /\ DPoPTypeOK
  /\ RemovedIsOld
  /\ VerifiedInTime
  /\ SweepIsPast
  /\ ProofAcceptedOnce

LEMMA DPoPInitEstablishes == DPoPInit => DPoPInv
  BY DPoPAssumption
     DEF DPoPInit, DPoPInv, DPoPTypeOK, RemovedIsOld, VerifiedInTime, SweepIsPast, ProofAcceptedOnce, NoCheck

(* What RecordJTI rests on: a request in time, whose proof has no row, has  *)
(* the first use of that proof.                                             *)
LEMMA FirstUse ==
  ASSUME DPoPInv, NEW w \in Handlers, RecordJTI(w)
  PROVE  checking[w].proof \in Proofs /\ accepted[checking[w].proof] = 0
<1> DEFINE r == checking[w]
<1>1. r.at = "insert" /\ clock <= r.since + Deadline /\ r.proof \notin jtis
  BY DEF RecordJTI, InTime
<1>2. r \in [at: {"exists", "insert"}, proof: Proofs, since: Nat] /\ r # NoCheck
  BY <1>1 DEF DPoPInv, DPoPTypeOK, NoCheck
<1>3. r.proof \in Proofs /\ r.since \in Nat
  BY <1>2
<1>4. r.since <= IssuedAt[r.proof] + MaxAge
  BY <1>2 DEF DPoPInv, VerifiedInTime
<1>5. IssuedAt[r.proof] \in Nat
  BY <1>3, DPoPAssumption
<1>6. ~(clock > IssuedAt[r.proof] + Retention)
  BY <1>1, <1>3, <1>4, <1>5, DPoPAssumption, RetentionAssumption DEF DPoPInv, DPoPTypeOK
<1> QED
  BY <1>1, <1>3, <1>6 DEF DPoPInv, RemovedIsOld

LEMMA DPoPNextPreserves == DPoPInv /\ [DPoPNext]_dpopVars => DPoPInv'
<1> SUFFICES ASSUME DPoPInv, [DPoPNext]_dpopVars PROVE DPoPInv'
  OBVIOUS
<1> USE DPoPAssumption DEF DPoPTypeOK, NoCheck
<1> USE DEF DPoPInv
<1>1. CASE DPoPTick
  <2>1. clock' = clock + 1 /\ UNCHANGED <<jtis, checking, jtiSweep, accepted>>
    BY <1>1 DEF DPoPTick
  <2>2. DPoPTypeOK' /\ SweepIsPast' /\ ProofAcceptedOnce'
    BY <2>1 DEF SweepIsPast, ProofAcceptedOnce
  <2>3. RemovedIsOld'
    BY <2>1 DEF RemovedIsOld
  <2>4. VerifiedInTime'
    BY <2>1 DEF VerifiedInTime
  <2> QED
    BY <2>2, <2>3, <2>4
<1>2. ASSUME NEW w \in Handlers, NEW p \in Proofs, Verify(w, p) PROVE DPoPInv'
  <2>1. /\ UNCHANGED <<clock, jtis, jtiSweep, accepted>>
        /\ checking' = [checking EXCEPT ![w] = [at |-> "exists", proof |-> p, since |-> clock]]
        /\ clock - IssuedAt[p] <= MaxAge
    BY <1>2 DEF Verify
  <2>2. DPoPTypeOK' /\ SweepIsPast' /\ ProofAcceptedOnce' /\ RemovedIsOld'
    BY <2>1 DEF SweepIsPast, ProofAcceptedOnce, RemovedIsOld
  <2>3. VerifiedInTime'
    BY <2>1 DEF VerifiedInTime
  <2> QED
    BY <2>2, <2>3
<1>3. ASSUME NEW w \in Handlers, CheckJTI(w) PROVE DPoPInv'
  <2>1. /\ UNCHANGED <<clock, jtis, jtiSweep, accepted>>
        /\ checking' = [checking EXCEPT ![w].at = "insert"]
        /\ checking[w].at = "exists"
    BY <1>3 DEF CheckJTI
  <2>2. checking[w] \in [at: {"exists", "insert"}, proof: Proofs, since: Nat]
    BY <2>1
  <2>3. DPoPTypeOK' /\ SweepIsPast' /\ ProofAcceptedOnce' /\ RemovedIsOld'
    BY <2>1, <2>2 DEF SweepIsPast, ProofAcceptedOnce, RemovedIsOld
  <2>4. VerifiedInTime'
    BY <2>1, <2>2 DEF VerifiedInTime
  <2> QED
    BY <2>3, <2>4
<1>4. ASSUME NEW w \in Handlers, RecordJTI(w) PROVE DPoPInv'
  <2> DEFINE p == checking[w].proof
  <2>1. p \in Proofs /\ accepted[p] = 0
    BY <1>4, FirstUse
  <2>2. /\ UNCHANGED <<clock, jtiSweep>>
        /\ jtis' = jtis \union {p}
        /\ accepted' = [accepted EXCEPT ![p] = accepted[p] + 1]
        /\ checking' = [checking EXCEPT ![w] = NoCheck]
    BY <1>4 DEF RecordJTI
  <2> HIDE DEF p
  <2>3. DPoPTypeOK' /\ SweepIsPast' /\ ProofAcceptedOnce' /\ RemovedIsOld'
    BY <2>1, <2>2 DEF SweepIsPast, ProofAcceptedOnce, RemovedIsOld
  <2>4. VerifiedInTime'
    BY <2>2 DEF VerifiedInTime
  <2> QED
    BY <2>3, <2>4
<1>5. ASSUME NEW w \in Handlers, Refuse(w) PROVE DPoPInv'
  BY <1>5 DEF Refuse, SweepIsPast, ProofAcceptedOnce, RemovedIsOld, VerifiedInTime
<1>6. CASE StartJTICleanup
  BY <1>6 DEF StartJTICleanup, SweepIsPast, ProofAcceptedOnce, RemovedIsOld, VerifiedInTime
<1>7. CASE DeleteOlderThan
  <2>1. /\ UNCHANGED <<clock, checking, accepted>>
        /\ jtiSweep # -1 /\ jtiSweep' = -1
        /\ jtis' = {p \in jtis : ~Forgettable(p)}
    BY <1>7 DEF DeleteOlderThan
  <2>2. DPoPTypeOK' /\ SweepIsPast' /\ ProofAcceptedOnce' /\ VerifiedInTime'
    BY <2>1 DEF SweepIsPast, ProofAcceptedOnce, VerifiedInTime
  <2>3. ASSUME NEW p \in Proofs, p \in jtis, p \notin jtis'
        PROVE  clock > IssuedAt[p] + Retention
    BY <2>1, <2>3 DEF Forgettable, SweepIsPast
  <2>4. RemovedIsOld'
    BY <2>1, <2>3 DEF RemovedIsOld
  <2> QED
    BY <2>2, <2>4
<1>8. CASE JTICleanupFails
  BY <1>8 DEF JTICleanupFails, SweepIsPast, ProofAcceptedOnce, RemovedIsOld, VerifiedInTime
<1>9. CASE UNCHANGED dpopVars
  BY <1>9 DEF dpopVars, SweepIsPast, ProofAcceptedOnce, RemovedIsOld, VerifiedInTime
<1> QED
  BY <1>1, <1>2, <1>3, <1>4, <1>5, <1>6, <1>7, <1>8, <1>9 DEF DPoPNext, ProofRequest

(* No request and no clean-up lets a proof be accepted twice: the unique    *)
(* key decides between requests that both saw no row, and a row is only     *)
(* removed when no request that is in time can still hold its proof.        *)
THEOREM ProofOnce == DPoPSpec => []ProofAcceptedOnce
<1>1. DPoPInv => ProofAcceptedOnce
  BY DEF DPoPInv
<1> QED
  BY DPoPInitEstablishes, DPoPNextPreserves, <1>1, PTL DEF DPoPSpec

=============================================================================
