------------------------------ MODULE MCClients ------------------------------
(* The clients that have no run of their own.  They do not interact: client *)
(* says which of them a behaviour is about, and the others stay as they are.*)
EXTENDS HTTPClient, UDPClient, SerialClient

VARIABLE client

MCGenpoly == {0, 5, 12}   \* the polynomial 0x1021 of mk_crctable
MCMessages == {<<{0, 6}>>, <<{}, {2}>>, <<{1, 4, 7}, {0, 7}, {3}>>}

MCvars == <<client, hvars, uvars, svars>>
MCInit ==
  /\ client \in {"http", "udp", "serial", "reader", "line"} /\ HInit /\ UInit /\ SInit
  /\ CASE client = "reader" -> Len(smsg) = 2 [] client = "line" -> Len(smsg) # 2 [] OTHER -> Len(smsg) = 1
MCReader == CHOOSE t \in SThreads : TRUE
MCNext ==
  /\ UNCHANGED client
  /\ \/ client = "http" /\ HNext /\ UNCHANGED <<uvars, svars>>
     \/ client = "udp" /\ UNext /\ UNCHANGED <<hvars, svars>>
     \/ client = "serial" /\ SNext /\ UNCHANGED <<hvars, uvars>>
     \/ client = "reader" /\ (SLine \/ SReadS(MCReader) \/ SReadStep(MCReader)) /\ UNCHANGED <<hvars, uvars>>
     \/ client = "line" /\ SLine /\ UNCHANGED <<hvars, uvars>>   \* nobody reads
MCSpec == MCInit /\ [][MCNext]_MCvars
MCFairSpec == MCSpec /\ UFairness
=============================================================================
