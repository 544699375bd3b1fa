SPECIFICATION Spec
CONSTANTS
  c1 = c1
  c2 = c2
  Clients = {c1, c2}
  HostOf <- MCHostOf
  RecvSize = 1
  MaxLen = 2
  MaxWrites = 1
  MaxDoubles = 1
CHECK_DEADLOCK FALSE
INVARIANTS CallbackSeesFifo EchoIsOwn
PROPERTIES StoppedIsQuiet ServesAsPromised ReachedIsReceived
