--------------------------- MODULE MCDPoPReplay ----------------------------
(* Two proofs, one of them issued while the first can still be accepted. *)
EXTENDS DPoPReplay

CONSTANTS p1, p2

MCIssuedAt == [p \in Proofs |-> IF p = p1 THEN 0 ELSE 2]
=============================================================================
