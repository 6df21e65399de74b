----------------------------- MODULE MCBackfill -----------------------------
(***************************************************************************)
(* Two repositories at one server: the first with a record in each of two  *)
(* collections, the second with one record.                                *)
(***************************************************************************)
EXTENDS Backfill

CONSTANTS r1, r2, c1, c2

MCRepos == {r1, r2}
MCCollections == {c1, c2}
MCUris == {<<r1, c1>>, <<r1, c2>>, <<r2, c1>>}
MCEdited == {<<r1, c1>>}
MCPDSOf == [d \in MCRepos |-> r1]
=============================================================================
