---------------------------- MODULE OAuthServer ----------------------------
(***************************************************************************)
(* The OAuth server (internal/server/oauth_handlers.go) in front of a      *)
(* user's own PDS, and the tables it keeps (repositories/oauth_*.go).      *)
(* DPoP proofs are the subject of DPoPReplay: here a token request has one *)
(* that was accepted, or none.                                             *)
(*                                                                         *)
(* Requests run concurrently, one statement of the database per step, and  *)
(* no transaction spans two of them: a request may end after any statement *)
(* (Fail: the statement fails, the handler's 60 s run out, the process is  *)
(* killed).  Times are seconds in the code and ticks of a clock here.      *)
(*                                                                         *)
(* What a client asks for (redirect URI, scope, PKCE challenge, nonce) is  *)
(* one value, its terms.                                                   *)
(***************************************************************************)
EXTENDS Naturals

CONSTANTS
  Workers,      \* requests that can be in progress at the same time
  Clients, Users, Terms,
  NoUser, NoGrant,
  MaxSessions,  \* bound: authorization requests
  MaxIds,       \* bound: codes and token pairs
  MaxTime,      \* bound: the clock
  RequestLife,  \* AuthorizationCodeExpiration
  AccessLife,   \* AccessTokenExpiration
  RefreshLife,  \* RefreshTokenExpiration
  Interval      \* of the cleanup worker's ticker

ASSUME OAuthAssumption ==
  /\ NoUser \notin Users
  /\ MaxSessions \in Nat /\ MaxIds \in Nat /\ MaxTime \in Nat
  /\ RequestLife \in Nat /\ AccessLife \in Nat /\ RefreshLife \in Nat
  /\ Interval \in Nat \ {0}

Sessions == 1..MaxSessions
Ids == 1..MaxIds
Grants == [client: Clients, terms: Terms, session: Sessions, user: Users]
ASSUME GrantAssumption == NoGrant \notin Grants

VARIABLES
  now,
  registered,    \* "no", "yes" or "deleted", of every client
  \* tables
  authRequests, atpRequests, atpSessions, codes, accessTokens, refreshTokens,
  req,           \* req[w]: what the request of worker w has read and does next
  sweep,         \* the cleanup worker
  sessions, ids, \* sessions and ids given out
  \* history
  asked,         \* what was asked for, by whom, in each session
  redirected,    \* sessions whose user was sent to the PDS
  approved       \* grants: what was asked for, and who signed in at the PDS

tables == <<authRequests, atpRequests, atpSessions, codes, accessTokens, refreshTokens>>
history == <<asked, redirected, approved>>
vars == <<now, registered, authRequests, atpRequests, atpSessions, codes, accessTokens,
          refreshTokens, req, sweep, sessions, ids, asked, redirected, approved>>

Request(at, from, id, g) == [at |-> at, from |-> from, id |-> id, grant |-> g]
Idle == Request("idle", "none", 0, NoGrant)
Grant(c, t, s, u) == [client |-> c, terms |-> t, session |-> s, user |-> u]

Steps == {"idle", "storeRequest", "storeATP", "storeSession", "updateSession", "storeCode",
          "dropATP", "dropRequest", "spend", "storeAccess", "storeRefresh"}
Requests == [at: Steps, from: {"none", "code", "refresh"}, id: 0..MaxIds,
             grant: Grants \union {NoGrant}]

AuthRequestRows == [session: Sessions, client: Clients, terms: Terms, expires: Nat]
ATPRequestRows == [session: Sessions, expires: Nat]
CodeRows == [id: Ids, grant: Grants, expires: Nat, used: BOOLEAN]
TokenRows == [id: Ids, grant: Grants, expires: Nat, revoked: BOOLEAN]

TypeOK ==
  /\ now \in 0..MaxTime
  /\ registered \in [Clients -> {"no", "yes", "deleted"}]
  /\ authRequests \subseteq AuthRequestRows
  /\ atpRequests \subseteq ATPRequestRows
  /\ atpSessions \in [Sessions -> Users \union {NoUser}]
  /\ codes \subseteq CodeRows
  /\ accessTokens \subseteq TokenRows
  /\ refreshTokens \subseteq TokenRows
  /\ req \in [Workers -> Requests]
  /\ sweep \in [at: 0..4, now: Nat]
  /\ sessions \in 0..MaxSessions
  /\ ids \in 0..MaxIds
  /\ asked \in [1..sessions -> [client: Clients, terms: Terms, expires: Nat]]
  /\ redirected \subseteq Sessions
  /\ approved \subseteq Grants

Init ==
  /\ now = 0
  /\ registered = [c \in Clients |-> "no"]
  /\ authRequests = {} /\ atpRequests = {}
  /\ atpSessions = [s \in Sessions |-> NoUser]
  /\ codes = {} /\ accessTokens = {} /\ refreshTokens = {}
  /\ req = [w \in Workers |-> Idle]
  /\ sweep = [at |-> 0, now |-> 0]
  /\ sessions = 0 /\ ids = 0
  /\ asked = [s \in 1..0 |-> NoGrant]
  /\ redirected = {} /\ approved = {}

-----------------------------------------------------------------------------
IsExpired(row) == now > row.expires
Registered(c) == registered[c] = "yes"

At(w, at) == req[w].at = at
Goes(w, next) == req' = [req EXCEPT ![w].at = next]
Done(w) == req' = [req EXCEPT ![w] = Idle]

Fail(w) ==
  /\ req[w] # Idle
  /\ Done(w)
  /\ UNCHANGED <<now, registered, tables, sweep, sessions, ids, history>>

Tick ==
  /\ now < MaxTime
  /\ now' = now + 1
  /\ UNCHANGED <<registered, tables, req, sweep, sessions, ids, history>>

-----------------------------------------------------------------------------
(* Clients: registration, and deletion with the rows that reference it.     *)
RegisterClient(c) ==
  /\ registered[c] = "no"
  /\ registered' = [registered EXCEPT ![c] = "yes"]
  /\ UNCHANGED <<now, tables, req, sweep, sessions, ids, history>>

DeleteClient(c) ==
  /\ Registered(c)
  /\ registered' = [registered EXCEPT ![c] = "deleted"]
  /\ authRequests' = {r \in authRequests : r.client # c}
  /\ accessTokens' = {t \in accessTokens : t.grant.client # c}
  /\ refreshTokens' = {t \in refreshTokens : t.grant.client # c}
  /\ UNCHANGED <<now, atpRequests, atpSessions, codes, req, sweep, sessions, ids, history>>

-----------------------------------------------------------------------------
(* HandleAuthorize, once the client, its redirect URI, the response type,   *)
(* PKCE and the login hint have passed and the PDS is resolved.  The        *)
(* request's row and the PDS's row expire together.                         *)
Authorize(w, c, t, hint) ==
  /\ req[w] = Idle
  /\ Registered(c)
  /\ sessions < MaxSessions
  /\ sessions' = sessions + 1
  /\ asked' = [s \in 1..sessions' |->
                 IF s = sessions' THEN [client |-> c, terms |-> t, expires |-> now + RequestLife]
                 ELSE asked[s]]
  /\ req' = [req EXCEPT ![w] = Request("storeRequest", "none", 0, Grant(c, t, sessions', hint))]
  /\ UNCHANGED <<now, registered, tables, sweep, ids, redirected, approved>>

(* The three rows it writes: authRequests.Insert, whose client is a foreign *)
(* key, atpRequests.Insert and atpSessions.Insert.                          *)
RequestRow(g) ==
  [session |-> g.session, client |-> g.client, terms |-> g.terms,
   expires |-> asked[g.session].expires]

ATPRow(g) == [session |-> g.session, expires |-> asked[g.session].expires]

StoreRequest(w) ==
  /\ At(w, "storeRequest")
  /\ Registered(req[w].grant.client)
  /\ authRequests' = authRequests \union {RequestRow(req[w].grant)}
  /\ Goes(w, "storeATP")
  /\ UNCHANGED <<now, registered, atpRequests, atpSessions, codes, accessTokens, refreshTokens,
                 sweep, sessions, ids, history>>

StoreATP(w) ==
  /\ At(w, "storeATP")
  /\ atpRequests' = atpRequests \union {ATPRow(req[w].grant)}
  /\ Goes(w, "storeSession")
  /\ UNCHANGED <<now, registered, authRequests, atpSessions, codes, accessTokens, refreshTokens,
                 sweep, sessions, ids, history>>

(* A session of the PDS as it is inserted, and as the callback updates it. *)
SetSession(g) == atpSessions' = [atpSessions EXCEPT ![g.session] = g.user]

(* The last row, and the redirect to the PDS that names the state. *)
StoreSession(w) ==
  /\ At(w, "storeSession")
  /\ SetSession(req[w].grant)
  /\ redirected' = redirected \union {req[w].grant.session}
  /\ Done(w)
  /\ UNCHANGED <<now, registered, authRequests, atpRequests, codes, accessTokens, refreshTokens,
                 sweep, sessions, ids, asked, approved>>

-----------------------------------------------------------------------------
(* atpRequests.Get by the state, and authRequests.Get by the session. *)
ATPRequestOf(s) == {r \in atpRequests : r.session = s}
AuthRequestOf(s) == {r \in authRequests : r.session = s}

(* HandleCallback: the PDS sends the user back.  A request that is too old  *)
(* is removed, ...                                                          *)
CallbackTooLate(s) ==
  /\ s \in redirected
  /\ \E r \in ATPRequestOf(s) : IsExpired(r) /\ atpRequests' = atpRequests \ {r}
  /\ UNCHANGED <<now, registered, authRequests, atpSessions, codes, accessTokens, refreshTokens,
                 req, sweep, sessions, ids, history>>

(* bridge.ExchangeCode: the PDS answers for the user who has signed in for  *)
(* the session.                                                             *)
ExchangeCode(s, u) ==
  approved' = approved \union {Grant(asked[s].client, asked[s].terms, s, u)}

(* ... otherwise its rows are read and the code is exchanged at the PDS,    *)
(* which says who has signed in (a callback that ends in an error before    *)
(* that changes nothing).                                                   *)
Callback(w, s, u) ==
  /\ req[w] = Idle
  /\ s \in redirected
  /\ \E r \in ATPRequestOf(s) : ~IsExpired(r)
  /\ \E r \in AuthRequestOf(s) :
       req' = [req EXCEPT ![w] =
                  Request("updateSession", "none", 0, Grant(r.client, r.terms, s, u))]
  /\ ExchangeCode(s, u)
  /\ UNCHANGED <<now, registered, tables, sweep, sessions, ids, asked, redirected>>

(* GetLatest and Update of the session; an error is ignored. *)
UpdateSession(w) ==
  /\ At(w, "updateSession")
  /\ \/ SetSession(req[w].grant)
     \/ UNCHANGED atpSessions
  /\ Goes(w, "storeCode")
  /\ UNCHANGED <<now, registered, authRequests, atpRequests, codes, accessTokens, refreshTokens,
                 sweep, sessions, ids, history>>

CodeRow(id, g) == [id |-> id, grant |-> g, expires |-> now + RequestLife, used |-> FALSE]

StoreCode(w) ==
  /\ At(w, "storeCode")
  /\ ids < MaxIds
  /\ ids' = ids + 1
  /\ codes' = codes \union {CodeRow(ids', req[w].grant)}
  /\ Goes(w, "dropATP")
  /\ UNCHANGED <<now, registered, authRequests, atpRequests, atpSessions, accessTokens,
                 refreshTokens, sweep, sessions, history>>

(* The two deletes: errors are ignored. *)
DropATP(w) ==
  /\ At(w, "dropATP")
  /\ \/ atpRequests' = {r \in atpRequests : r.session # req[w].grant.session}
     \/ UNCHANGED atpRequests
  /\ Goes(w, "dropRequest")
  /\ UNCHANGED <<now, registered, authRequests, atpSessions, codes, accessTokens, refreshTokens,
                 sweep, sessions, ids, history>>

DropRequest(w) ==
  /\ At(w, "dropRequest")
  /\ authRequests' = {r \in authRequests : r.session # req[w].grant.session}
  /\ Done(w)
  /\ UNCHANGED <<now, registered, atpRequests, atpSessions, codes, accessTokens, refreshTokens,
                 sweep, sessions, ids, history>>

-----------------------------------------------------------------------------
(* A token request that has read its code or refresh token, and whose proof *)
(* was accepted if it has one.                                              *)
Starts(w, from, id, g) ==
  /\ req[w] = Idle
  /\ req' = [req EXCEPT ![w] = Request("spend", from, id, g)]
  /\ UNCHANGED <<now, registered, tables, sweep, sessions, ids, history>>

(* authorizationCodes.Get and refreshTokens.Get, and what makes a row usable. *)
UsableCodes == {r \in codes : ~r.used /\ ~IsExpired(r)}
UsableRefreshTokens == {r \in refreshTokens : ~r.revoked /\ ~IsExpired(r)}

(* Mutant of CodeGrant: the code is honoured for whoever presents it. *)
CodeGrantOfAnyone(w, c, t) ==
  /\ Registered(c)
  /\ \E r \in UsableCodes :
       /\ r.grant.terms = t
       /\ Starts(w, "code", r.id, Grant(c, r.grant.terms, r.grant.session, r.grant.user))

(* HandleToken: handleAuthorizationCodeGrant up to the proof, for client c  *)
(* and the redirect URI and code verifier that t stands for, maybe with a   *)
(* proof.  What is refused changes nothing.  The tokens carry the client of *)
(* the form and the rest of the code.                                       *)
CodeGrant(w, c, t) ==
  /\ Registered(c)
  /\ \E r \in UsableCodes :
       /\ r.grant.client = c /\ r.grant.terms = t
       /\ Starts(w, "code", r.id, Grant(c, r.grant.terms, r.grant.session, r.grant.user))

(* handleRefreshTokenGrant up to the proof. *)
RefreshGrant(w, c) ==
  /\ Registered(c)
  /\ \E r \in UsableRefreshTokens :
       /\ r.grant.client = c
       /\ Starts(w, "refresh", r.id, Grant(c, r.grant.terms, r.grant.session, r.grant.user))

(* MarkUsed, or Revoke of the old refresh token. *)
Spend(w) ==
  /\ At(w, "spend")
  /\ IF req[w].from = "code"
     THEN /\ codes' = {IF r.id = req[w].id THEN [r EXCEPT !.used = TRUE] ELSE r : r \in codes}
          /\ UNCHANGED refreshTokens
     ELSE /\ refreshTokens' = {IF r.id = req[w].id THEN [r EXCEPT !.revoked = TRUE] ELSE r :
                                 r \in refreshTokens}
          /\ UNCHANGED codes
  /\ Goes(w, "storeAccess")
  /\ UNCHANGED <<now, registered, authRequests, atpRequests, atpSessions, accessTokens,
                 sweep, sessions, ids, history>>

AccessRow(id, g) == [id |-> id, grant |-> g, expires |-> now + AccessLife, revoked |-> FALSE]
RefreshRow(id, g) == [id |-> id, grant |-> g, expires |-> now + RefreshLife, revoked |-> FALSE]

(* accessTokens.Insert, then refreshTokens.Insert: the client is a foreign  *)
(* key of both.  The id is that of the pair from here on.                   *)
StoreAccess(w) ==
  /\ At(w, "storeAccess")
  /\ Registered(req[w].grant.client)
  /\ ids < MaxIds
  /\ ids' = ids + 1
  /\ accessTokens' = accessTokens \union {AccessRow(ids', req[w].grant)}
  /\ req' = [req EXCEPT ![w] = Request("storeRefresh", req[w].from, ids', req[w].grant)]
  /\ UNCHANGED <<now, registered, authRequests, atpRequests, atpSessions, codes, refreshTokens,
                 sweep, sessions, history>>

StoreRefresh(w) ==
  /\ At(w, "storeRefresh")
  /\ Registered(req[w].grant.client)
  /\ refreshTokens' = refreshTokens \union {RefreshRow(req[w].id, req[w].grant)}
  /\ Done(w)
  /\ UNCHANGED <<now, registered, authRequests, atpRequests, atpSessions, codes, accessTokens,
                 sweep, sessions, ids, history>>

-----------------------------------------------------------------------------
(* HandleRevoke: a token is an access or a refresh token, never both. *)
Revoke(id) ==
  /\ id \in 1..ids
  /\ \/ /\ accessTokens' = {IF t.id = id THEN [t EXCEPT !.revoked = TRUE] ELSE t :
                              t \in accessTokens}
        /\ UNCHANGED refreshTokens
     \/ /\ refreshTokens' = {IF t.id = id THEN [t EXCEPT !.revoked = TRUE] ELSE t :
                               t \in refreshTokens}
        /\ UNCHANGED accessTokens
  /\ UNCHANGED <<now, registered, authRequests, atpRequests, atpSessions, codes, req,
                 sweep, sessions, ids, history>>

-----------------------------------------------------------------------------
(* StartCleanupWorker: one time for the round, a statement per table,       *)
(* errors ignored.                                                          *)
StartCleanup ==
  /\ sweep.at = 0
  /\ now > 0 /\ now % Interval = 0
  /\ sweep' = [at |-> 1, now |-> now]
  /\ UNCHANGED <<now, registered, tables, req, sessions, ids, history>>

(* Mutant of Stale: a row goes in the last second it may be used. *)
StaleEarly(row) == row.expires <= sweep.now

Stale(row) == row.expires < sweep.now

CleanupStep ==
  /\ sweep.at # 0
  /\ sweep' = IF sweep.at = 4 THEN [at |-> 0, now |-> 0] ELSE [sweep EXCEPT !.at = @ + 1]
  /\ \/ /\ sweep.at = 1
        /\ authRequests' = {r \in authRequests : ~Stale(r)}
        /\ UNCHANGED <<atpRequests, atpSessions, codes, accessTokens, refreshTokens>>
     \/ /\ sweep.at = 2
        /\ atpRequests' = {r \in atpRequests : ~Stale(r)}
        /\ UNCHANGED <<authRequests, atpSessions, codes, accessTokens, refreshTokens>>
     \/ /\ sweep.at = 3
        /\ codes' = {r \in codes : ~Stale(r)}
        /\ UNCHANGED <<authRequests, atpRequests, atpSessions, accessTokens, refreshTokens>>
     \/ /\ sweep.at = 4
        /\ accessTokens' = {t \in accessTokens : ~Stale(t)}
        /\ UNCHANGED <<authRequests, atpRequests, atpSessions, codes, refreshTokens>>
     \/ UNCHANGED tables
  /\ UNCHANGED <<now, registered, req, sessions, ids, history>>

-----------------------------------------------------------------------------
Authorization(w) ==
  \/ \E c \in Clients, t \in Terms, hint \in Users : Authorize(w, c, t, hint)
  \/ StoreRequest(w) \/ StoreATP(w) \/ StoreSession(w)
  \/ \E s \in Sessions, u \in Users : Callback(w, s, u)
  \/ UpdateSession(w) \/ StoreCode(w) \/ DropATP(w) \/ DropRequest(w)

TokenRequest(w) ==
  \/ \E c \in Clients, t \in Terms : CodeGrant(w, c, t)
  \/ \E c \in Clients : RefreshGrant(w, c)
  \/ Spend(w) \/ StoreAccess(w) \/ StoreRefresh(w)

Next ==
  \/ Tick
  \/ \E c \in Clients : RegisterClient(c) \/ DeleteClient(c)
  \/ \E w \in Workers : Authorization(w) \/ TokenRequest(w) \/ Fail(w)
  \/ \E s \in Sessions : CallbackTooLate(s)
  \/ \E id \in Ids : Revoke(id)
  \/ StartCleanup \/ CleanupStep

Spec == Init /\ [][Next]_vars

-----------------------------------------------------------------------------
(* A code or token is worth exactly what was granted: its client and terms  *)
(* are those of the authorization request of its session, its user is one   *)
(* that signed in at the PDS for that session, however many refreshes,      *)
(* concurrent requests and clean-ups lie between.                           *)
TokensCarryGrant ==
  \A row \in codes \union accessTokens \union refreshTokens : row.grant \in approved

(* Who comes back from the PDS in time finds the request that sent him      *)
(* there: all three rows are there until somebody has signed in for it, or  *)
(* the client is gone, whichever clean-up step has run.                     *)
ReturnFindsRequest ==
  \A s \in redirected :
    \/ now > asked[s].expires
    \/ ~Registered(asked[s].client)
    \/ \E g \in approved : g.session = s
    \/ /\ \E r \in atpRequests : r.session = s
       /\ \E r \in authRequests : r.session = s
       /\ atpSessions[s] # NoUser

=============================================================================
