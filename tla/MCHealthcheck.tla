---------------------------- MODULE MCHealthcheck ----------------------------
(* Instances of Healthcheck for TLC; timings are in the .cfg files.      *)
EXTENDS Healthcheck
=============================================================================
