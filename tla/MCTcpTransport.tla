--------------------------- MODULE MCTcpTransport ---------------------------
(* Two publishers, one reconnection, empty and short messages.             *)
EXTENDS TcpTransport
=============================================================================
