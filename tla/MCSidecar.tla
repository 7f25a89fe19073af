------------------------------- MODULE MCSidecar -------------------------------
(* Recordings of up to MaxFrames frames. *)
EXTENDS Sidecar
================================================================================
