SPECIFICATION Spec
CONSTANTS
  Readers = {r1}
  Writers = {w1}
  Socks = {k1, k2}
  k1 = k1
  k2 = k2
  MaxBytes <- MCMaxBytes
  MaxSize = 2
  MaxErrors = 1
CHECK_DEADLOCK FALSE
INVARIANTS StoresInBuffer
