------------------------------ MODULE MCHttpUp ------------------------------
(* The up-path for TLC: see the configuration for its size.                  *)
EXTENDS HttpUp
=============================================================================
