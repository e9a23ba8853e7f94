----------------------------- MODULE MCService -----------------------------
(* Two goroutines that terminate the service, beside the loop body.        *)
EXTENDS Service

CONSTANTS t1, t2, body
=============================================================================
