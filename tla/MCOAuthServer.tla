--------------------------- MODULE MCOAuthServer ---------------------------
(* Values for the constants of OAuthServer that a .cfg cannot write. *)
EXTENDS OAuthServer, TLC

Symmetric == Permutations(Workers) \union Permutations(Clients)

=============================================================================
