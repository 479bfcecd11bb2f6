----------------------------- MODULE MCSessions -----------------------------
(* Sessions for TLC: sessions and tokens are interchangeable. *)
EXTENDS Sessions, TLC

Symmetry == Permutations(Sessions) \cup Permutations(Tokens) \cup Permutations(Workers)
=============================================================================
