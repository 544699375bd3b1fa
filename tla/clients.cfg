SPECIFICATION MCFairSpec
CONSTANTS
  HMaxRead = 4
  HSizes = {1, 2, 3, 4}
  HHead = 2
  HMaxBody = 1
  HRequests = 2
  UThreads = {t1, t2}
  UHosts = {h1, h2}
  UMaxOpens = 2
  UMaxSent = 1
  UMaxLen = 2
  UMaxSize = 2
  UMaxWrites = 1
  SThreads = {t1, t2}
  SFrames = 2
  genpoly <- MCGenpoly
  Messages <- MCMessages
CHECK_DEADLOCK FALSE
INVARIANTS HOwnAnswer  UReadIsConsecutive SAcceptedIsFrame SFramesKept FrameIsMultiple
PROPERTIES UReadEnds
