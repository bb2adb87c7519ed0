--------------------------- MODULE MCTcpConnectOut ---------------------------
(* Instances of TcpConnectOut for TLC; the values are in the .cfg files.     *)
EXTENDS TcpConnectOut
=============================================================================
