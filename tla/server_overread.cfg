SPECIFICATION Spec
CONSTANTS
  Conns = {c1}
  Fds = {3, 4, 5}
  MaxConnections = 1
  MaxBytes = 2
  SockBuf = 1
  Readers = {r1, r2}
  Senders = {}
  RecvSize = 2
  MaxWant = 1
SYMMETRY Symmetry
CHECK_DEADLOCK FALSE
INVARIANTS ThreadSafe
