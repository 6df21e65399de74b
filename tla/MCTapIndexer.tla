---------------------------- MODULE MCTapIndexer ----------------------------
(* Values for the constants of TapIndexer.                                  *)
EXTENDS TapIndexer

CONSTANTS r1, r2, u1, u2, b1, b2, s1, s2, h1, h2

(* Two records of one repository. *)
OneRepo == [u \in Uris |-> r1]
(* One record in each of two repositories. *)
TwoRepos == [u \in Uris |-> IF u = u1 THEN r1 ELSE r2]

(* The order of the DIDs. *)
MCRank == [r \in Repos |-> IF r = r1 THEN 1 ELSE 2]

(* s2 drops the Lexicon of the collection of u2 and rejects b2. *)
MCCovered == (Snapshots \X Uris) \ {<<s2, u2>>}
MCVerdict == [p \in Snapshots \X Bodies |-> IF p = <<s2, b2>> THEN "invalid" ELSE "valid"]

Ev(kind, u, b, cid, h) ==
  [repo |-> RepoOf[u], kind |-> kind, uri |-> u, body |-> b, cid |-> cid, handle |-> h]

Writes == {Ev("write", u, b, b, NoHandle) : u \in Uris, b \in Bodies}
CidlessWrites == {Ev("write", u, b, NoCID, NoHandle) : u \in Uris, b \in Bodies}
Bodyless == {Ev("write", u, NoBody, NoCID, NoHandle) : u \in Uris}
Deletes == {Ev("delete", u, NoBody, NoCID, NoHandle) : u \in Uris}
AccountUris == {u \in Uris : u = CHOOSE w \in Uris : RepoOf[w] = RepoOf[u]}
Identities == {Ev("identity", u, NoBody, NoCID, h) : u \in AccountUris, h \in Handles \union {NoHandle}}
Purges == {Ev("purge", u, NoBody, NoCID, NoHandle) : u \in AccountUris}
Malformed == {Ev("malformed", u, NoBody, NoCID, NoHandle) : u \in AccountUris}

AllEvents == Writes \union CidlessWrites \union Bodyless \union Deletes
             \union Identities \union Purges \union Malformed
OrderEvents == Writes \union {e \in CidlessWrites : e.body = b1} \union Deletes \union Purges
OwedEvents == {e \in Writes : e.body = b1} \union Deletes \union Identities \union Purges

=============================================================================
