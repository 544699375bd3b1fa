SPECIFICATION Spec
CONSTANTS
  Conns = {c1}
  Fds = {3, 4}
  MaxConnections = 0
  MaxBytes = 3
  SockBuf = 0
  Readers = {r1, r2}
  Senders = {}
  RecvSize = 2
  MaxWant = 2
SYMMETRY Symmetry
CHECK_DEADLOCK FALSE
INVARIANTS StreamConserved CallbackSeesStream
PROPERTIES ReadersGetStream
