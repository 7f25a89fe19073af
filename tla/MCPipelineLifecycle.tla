------------------------- MODULE MCPipelineLifecycle -------------------------
(* Small instances of PipelineLifecycle. *)
EXTENDS PipelineLifecycle, TLC

\* Requests of one kind, and the pipelines built after the first, are
\* interchangeable.
Symmetry == Permutations(Conns) \union Permutations(Puts)
               \union Permutations(Pipelines \ {Initial})
==============================================================================
