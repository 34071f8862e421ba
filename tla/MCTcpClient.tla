---------------------------- MODULE MCTcpClient -----------------------------
(***************************************************************************)
(* TcpClient for TLC: two writes, two connections.                         *)
(***************************************************************************)
EXTENDS TcpClient
=============================================================================
