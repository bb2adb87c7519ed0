----------------------------- MODULE MCHttpDown -----------------------------
(* An instance of HttpDown for TLC.                                          *)
EXTENDS HttpDown
=============================================================================
