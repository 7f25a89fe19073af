--------------------------- MODULE MCPasteInjector ---------------------------
(* Small instances of PasteInjector. *)
EXTENDS PasteInjector, TLC

\* Insertions, and what the user copies later, are interchangeable.
Symmetry == Permutations(Jobs) \union Permutations(Clips \ {First})
==============================================================================
