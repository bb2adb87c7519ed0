----------------------------- MODULE MCPktReader -----------------------------
(* Instances of PktReader for TLC: the Reader's call sites by name.          *)
EXTENDS PktReader

TcpStream == [onClose |-> TRUE,  leave |-> "close"]
HttpBody  == [onClose |-> FALSE, leave |-> "return"]
OwnSource == [onClose |-> FALSE, leave |-> "never"]
Closable  == [onClose |-> TRUE,  leave |-> "never"]

AllUses == {TcpStream, HttpBody, OwnSource, Closable}
=============================================================================
