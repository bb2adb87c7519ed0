---------------------------- MODULE MCPktWriter ----------------------------
(* Instances of PktWriter for TLC; the values are in the .cfg files.         *)
EXTENDS PktWriter
=============================================================================
