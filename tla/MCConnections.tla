--------------------------- MODULE MCConnections ---------------------------
(* Two sessions and a list that holds one key, so that the second login     *)
(* pushes the first key off.  Ticks of about a minute, windows shrunk to    *)
(* the smallest numbers that keep their order.                              *)
EXTENDS Connections
=============================================================================
