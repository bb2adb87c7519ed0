------------------------------ MODULE MCTcpDown ------------------------------
(* An instance of TcpDown for TLC.                                           *)
EXTENDS TcpDown
MCStamps == 1..MaxStamp
=============================================================================
