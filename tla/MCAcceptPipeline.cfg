CONSTANTS
  Threads = {t1, t2}
  NoThread = NoThread
  Sockets = {h1, h2, h3, h4}
  NoSocket = NoSocket
  Configurations <- MCConfigurations
  RIO_MAX_CQ_SIZE = 100
CHECK_DEADLOCK FALSE
SPECIFICATION FairSpec
INVARIANTS TypeOK AcceptsConserved SocketsOwned RoomForClients
PROPERTY AcceptsServed
