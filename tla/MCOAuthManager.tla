--------------------------- MODULE MCOAuthManager ---------------------------
(* Instances of OAuthManager for TLC. *)
EXTENDS OAuthManager, TLC

(* Requests are alike, and so are refresh tokens. *)
Symmetry == Permutations(Req) \cup Permutations(Tokens)
=============================================================================
