---------------------------- MODULE MCTCPClient ----------------------------
(* A connection whose peer sends two bytes, and one that sends one.  Which  *)
(* is opened first is open.                                                 *)
EXTENDS TCPClient, TLC

CONSTANTS k1, k2

MCMaxBytes == k1 :> 2 @@ k2 :> 1
=============================================================================
