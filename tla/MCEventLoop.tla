---------------------------- MODULE MCEventLoop ----------------------------
(* EventLoop.tla for TLC.  No symmetry set: liveness is checked. *)
EXTENDS EventLoop, TLC
============================================================================
