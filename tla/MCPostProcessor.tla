-------------------------- MODULE MCPostProcessor --------------------------
(* Constants for TLC: snapshots, frames, streams. *)
EXTENDS PostProcessor
CONSTANTS r1, r2, f1, f2, s1, s2
=============================================================================
