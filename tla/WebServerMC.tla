----------------------------- MODULE WebServerMC ------------------------------
EXTENDS WebServer, TLC

(* No connection is singled out, and only safety is checked.               *)
Symmetry == Permutations(Conns)
=============================================================================
