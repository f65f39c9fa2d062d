--------------------------- MODULE MCConnections ---------------------------
(* Small instances of Connections for TLC. *)
EXTENDS Connections

CONSTANTS h1, h2, u1, u2
============================================================================
