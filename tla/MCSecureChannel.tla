--------------------------- MODULE MCSecureChannel ---------------------------
(* SecureChannel on a small instance.                                      *)
EXTENDS SecureChannel, TLC

\* Connections are alike, and so are sessions.
Symmetry == Permutations(Conns) \union Permutations(Sessions)
=============================================================================
