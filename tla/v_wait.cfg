\* Does a wait for the children end, if every client exits?
SPECIFICATION FairSpec
CONSTANTS
  Slots = 3
  MaxProc = 5
  MaxConn = 5
  ClientsLost = FALSE
  OverreadKills = FALSE
PROPERTY WaitEnds
\* the number of clients is bounded
CHECK_DEADLOCK FALSE
