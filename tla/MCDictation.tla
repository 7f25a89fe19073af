------------------------------ MODULE MCDictation ------------------------------
(* Small instances of Dictation. *)
EXTENDS Dictation
================================================================================
