SPECIFICATION FairSpec
CONSTANTS
  Conns = {c1}
  Fds = {3, 4}
  MaxConnections = 1
  MaxBytes = 2
  SockBuf = 0
  Readers = {r1}
  Senders = {s1}
  RecvSize = 2
  MaxWant = 2
CHECK_DEADLOCK FALSE
PROPERTIES  StopReturnsUnlessSilent
