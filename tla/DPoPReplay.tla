---------------------------- MODULE DPoPReplay -----------------------------
(***************************************************************************)
(* DPoP proofs: every request that carries one (a token request, through   *)
(* validateDPoP of internal/server/oauth_handlers.go, or a request with an *)
(* access token, through validateDPoPToken of internal/oauth/middleware.go)*)
(* verifies it, looks its jti up, and records it; the cleanup worker       *)
(* removes old rows.  Each statement is a step, requests run concurrently, *)
(* and a request's statements fail once its 60 s are over.                 *)
(*                                                                         *)
(* A proof is its jti and its iat claim; that its signature, method and    *)
(* URL are right is taken for granted, a wrong one is refused at once.     *)
(***************************************************************************)
EXTENDS Integers

CONSTANTS
  Handlers,   \* requests that can be in progress at the same time
  Proofs,     \* proofs with distinct jti claims
  IssuedAt,   \* IssuedAt[p]: the iat claim of p
  NoProof,
  MaxAge,     \* DefaultMaxDPoPAge, 300 s
  Skew,       \* how far in the future a proof may be issued, 60 s
  Deadline,   \* middleware.Timeout, 60 s
  Retention,  \* how long a jti is kept, 3600 s
  MaxClock    \* bound: the clock

ASSUME DPoPAssumption ==
  /\ NoProof \notin Proofs
  /\ IssuedAt \in [Proofs -> Nat]
  /\ MaxAge \in Nat /\ Skew \in Nat /\ Deadline \in Nat /\ Retention \in Nat
  /\ MaxClock \in Nat

(* The age of a proof and the time of a request fit into the retention. *)
ASSUME RetentionAssumption == MaxAge + Deadline <= Retention

VARIABLES
  clock,
  jtis,      \* oauth_dpop_jti: the proofs whose row is there
  checking,  \* checking[w]: the step, proof and start of the request of handler w
  jtiSweep,  \* the time the cleanup worker has read, or -1
  accepted   \* history: how often each proof was accepted

dpopVars == <<clock, jtis, checking, jtiSweep, accepted>>

NoCheck == [at |-> "idle", proof |-> NoProof, since |-> 0]

DPoPTypeOK ==
  /\ clock \in Nat
  /\ jtis \subseteq Proofs
  /\ checking \in [Handlers -> {NoCheck} \union
                               [at: {"exists", "insert"}, proof: Proofs, since: Nat]]
  /\ jtiSweep \in Nat \union {-1}
  /\ accepted \in [Proofs -> Nat]

DPoPInit ==
  /\ clock = 0
  /\ jtis = {}
  /\ checking = [w \in Handlers |-> NoCheck]
  /\ jtiSweep = -1
  /\ accepted = [p \in Proofs |-> 0]

-----------------------------------------------------------------------------
DPoPTick ==
  /\ clock < MaxClock
  /\ clock' = clock + 1
  /\ UNCHANGED <<jtis, checking, jtiSweep, accepted>>

(* VerifyDPoPProof: neither too old nor from the future. *)
Verify(w, p) ==
  /\ checking[w] = NoCheck
  /\ clock - IssuedAt[p] <= MaxAge
  /\ IssuedAt[p] <= clock + Skew
  /\ checking' = [checking EXCEPT ![w] = [at |-> "exists", proof |-> p, since |-> clock]]
  /\ UNCHANGED <<clock, jtis, jtiSweep, accepted>>

InTime(w) == clock <= checking[w].since + Deadline

(* dpopJTIs.Exists. *)
CheckJTI(w) ==
  /\ checking[w].at = "exists"
  /\ InTime(w)
  /\ checking[w].proof \notin jtis
  /\ checking' = [checking EXCEPT ![w].at = "insert"]
  /\ UNCHANGED <<clock, jtis, jtiSweep, accepted>>

(* Mutant of RecordJTI: a row that is there already is no error. *)
RecordJTIAgain(w) ==
  /\ checking[w].at = "insert"
  /\ InTime(w)
  /\ jtis' = jtis \union {checking[w].proof}
  /\ accepted' = [accepted EXCEPT ![checking[w].proof] = @ + 1]
  /\ checking' = [checking EXCEPT ![w] = NoCheck]
  /\ UNCHANGED <<clock, jtiSweep>>

(* dpopJTIs.Insert: the jti is the primary key.  The proof is accepted; the *)
(* middleware may still turn the token down.                                *)
RecordJTI(w) ==
  /\ checking[w].at = "insert"
  /\ InTime(w)
  /\ checking[w].proof \notin jtis
  /\ jtis' = jtis \union {checking[w].proof}
  /\ accepted' = [accepted EXCEPT ![checking[w].proof] = @ + 1]
  /\ checking' = [checking EXCEPT ![w] = NoCheck]
  /\ UNCHANGED <<clock, jtiSweep>>

(* Replay, a failed statement, or no time left. *)
Refuse(w) ==
  /\ checking[w] # NoCheck
  /\ checking' = [checking EXCEPT ![w] = NoCheck]
  /\ UNCHANGED <<clock, jtis, jtiSweep, accepted>>

-----------------------------------------------------------------------------
(* The cleanup worker reads the clock, deletes from other tables, and then  *)
(* deletes the rows whose iat lies more than an hour back.                  *)
StartJTICleanup ==
  /\ jtiSweep = -1
  /\ jtiSweep' = clock
  /\ UNCHANGED <<clock, jtis, checking, accepted>>

(* Mutant of Forgettable: a jti is kept as long as its proof is accepted,   *)
(* the time of the request not counted.                                     *)
ForgettableEarly(p) == IssuedAt[p] < jtiSweep - MaxAge

(* Mutant of Forgettable: rows are never old enough. *)
ForgettableNever(p) == IssuedAt[p] < jtiSweep - MaxClock

Forgettable(p) == IssuedAt[p] < jtiSweep - Retention

DeleteOlderThan ==
  /\ jtiSweep # -1
  /\ jtiSweep' = -1
  /\ jtis' = {p \in jtis : ~Forgettable(p)}
  /\ UNCHANGED <<clock, checking, accepted>>

JTICleanupFails ==
  /\ jtiSweep # -1
  /\ jtiSweep' = -1
  /\ UNCHANGED <<clock, jtis, checking, accepted>>

-----------------------------------------------------------------------------
(* A request with a proof: its order is verify, look up, record. *)
ProofRequest(w) ==
  \/ \E p \in Proofs : Verify(w, p)
  \/ CheckJTI(w) \/ RecordJTI(w) \/ Refuse(w)

DPoPNext ==
  \/ DPoPTick
  \/ \E w \in Handlers : ProofRequest(w)
  \/ StartJTICleanup \/ DeleteOlderThan \/ JTICleanupFails

(* Time passes, the ticker of the cleanup worker keeps firing, and its      *)
(* statement does not fail for ever.                                        *)
DPoPFairness ==
  WF_dpopVars(DPoPTick) /\ WF_dpopVars(StartJTICleanup) /\ SF_dpopVars(DeleteOlderThan)

DPoPSpec == DPoPInit /\ [][DPoPNext]_dpopVars /\ DPoPFairness

-----------------------------------------------------------------------------
(* A proof is accepted at most once, whatever requests look it up at the    *)
(* same time and whenever its row is removed.                               *)
ProofAcceptedOnce == \A p \in Proofs : accepted[p] <= 1

(* The table does not grow for ever: every row is removed in the end. *)
JTIsAreForgotten == \A p \in Proofs : p \in jtis ~> p \notin jtis

=============================================================================
