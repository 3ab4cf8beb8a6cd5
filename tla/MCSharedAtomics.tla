-------------------------- MODULE MCSharedAtomics --------------------------
(* SharedAtomics.tla for TLC. *)
EXTENDS SharedAtomics
============================================================================
