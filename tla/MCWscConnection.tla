-------------------------- MODULE MCWscConnection --------------------------
(* A small instance of WscConnection: three rounds of the 100 that         *)
(* wsc_connect waits; connections are opened and closed again and again.   *)
EXTENDS WscConnection
Rounds == 3
=============================================================================
