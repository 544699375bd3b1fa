SPECIFICATION FairSpec
CONSTANTS
  Conns = {c1, c2}
  Fds = {3, 4, 5}
  MaxConnections = 1
  MaxBytes = 1
  SockBuf = 1
  Readers = {}
  Senders = {}
  RecvSize = 2
  MaxWant = 1
CHECK_DEADLOCK FALSE
PROPERTIES LeaverForgotten WaitingIsServed
