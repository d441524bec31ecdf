\* Clients exit, vanish or have their EXIT swallowed, processes may be killed.
SPECIFICATION FairSpec
CONSTANTS
  Slots = 3
  MaxProc = 6
  MaxConn = 6
  ClientsLost = TRUE
  OverreadKills = TRUE
INVARIANTS
  TypeOK
  NotWedged
PROPERTY BacklogDrains
\* the number of clients is bounded
CHECK_DEADLOCK FALSE
