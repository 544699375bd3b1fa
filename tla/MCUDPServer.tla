---------------------------- MODULE MCUDPServer ----------------------------
(* Two clients on one IP address, a third address for broadcast().          *)
EXTENDS UDPServer, TLC

CONSTANTS c1, c2

MCHostOf == c1 :> "a" @@ c2 :> "a" @@ "server" :> "b" @@ "broadcast" :> "b"
=============================================================================
