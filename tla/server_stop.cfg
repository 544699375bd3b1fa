SPECIFICATION Spec
CONSTANTS
  Conns = {c1}
  Fds = {3, 4}
  MaxConnections = 1
  MaxBytes = 1
  SockBuf = 1
  Readers = {}
  Senders = {}
  RecvSize = 2
  MaxWant = 1

CHECK_DEADLOCK FALSE
INVARIANTS StopClosesAll
