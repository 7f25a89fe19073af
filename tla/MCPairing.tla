------------------------------ MODULE MCPairing ------------------------------
(* Small instances of Pairing. *)
EXTENDS Pairing, TLC

\* Phones, PINs and requests are interchangeable.
Symmetry == Permutations(Devices) \union Permutations(Pins)
               \union Permutations(Requests)
==============================================================================
