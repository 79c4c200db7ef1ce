SPECIFICATION FairSpec
CONSTANTS
  t1 = t1  t2 = t2  NoThread = NoThread
  Threads = {t1, t2}
  MaxFd = 2
  MaxCalls = 3
  MaxWaits = 2
  Rare <- TcpRare
CHECK_DEADLOCK FALSE
INVARIANTS
  TypeOK
  ArmedIffSuspended
  ConnectionsOwned
PROPERTIES
  FlushEnds
