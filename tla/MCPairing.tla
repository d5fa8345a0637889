----------------------------- MODULE MCPairing -----------------------------
(* One device that clients deal with, and one that only calls in.          *)
EXTENDS Pairing, TLC

CONSTANTS d1, d2

=============================================================================
