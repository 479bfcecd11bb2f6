----------------------------- MODULE MCKeyStore -----------------------------
(* Three pairs, and the administrator and another user. *)
EXTENDS KeyStore

CONSTANTS admin, ann, k1, k2, k3

MCNames == {admin, ann}
MCPairs == {k1, k2, k3}
=============================================================================
