CONSTANTS
  c1 = c1
  c2 = c2
  c3 = c3
  s1 = s1
  s2 = s2
  f1 = f1
  f2 = f2
  f3 = f3
  Conns <- MCConns
  Ssl <- MCSsl
  Fd <- MCFd
  MaxFiles = 2
  Unused = Unused
  File = File
  None = None
SPECIFICATION FairSpec
INVARIANTS OwnedOnce NothingForgotten OwnTraffic
PROPERTIES EveryoneAnswered
CHECK_DEADLOCK FALSE
