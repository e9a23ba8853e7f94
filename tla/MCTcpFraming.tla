---------------------------- MODULE MCTcpFraming ----------------------------
(* Short messages in a buffer that holds two or three packets.             *)
EXTENDS TcpFraming
=============================================================================
