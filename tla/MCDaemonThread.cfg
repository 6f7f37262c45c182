SPECIFICATION FairDaemonSpec
CONSTANTS
  Tokens = {t1}
  NoToken = NoToken
  numConnections = 1
  Second = 3
  SocketTimeOutMS = 4
  Pause = 2
PROPERTY IdleIsClosed
