---------------------------- MODULE MCProcessor ----------------------------
(* Two executors with one place each, two producers, two Terminate calls.  *)
EXTENDS Processor

CONSTANTS p1, p2, k1, k2
=============================================================================
