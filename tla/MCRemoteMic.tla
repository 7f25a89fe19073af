------------------------------ MODULE MCRemoteMic ------------------------------
(* Small instances of RemoteMic. *)
EXTENDS RemoteMic

\* Nothing is asserted of recordings that overlap, and they are not followed further.
NoOverlap == crossed = {}
================================================================================
