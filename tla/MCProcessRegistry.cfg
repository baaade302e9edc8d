SPECIFICATION FairSpec
CONSTANTS
  Servers = {s1, s2}
  Endpoints = {e1, e2}
  Callers = {c1}
  MaxPid = 3
  StdinBreaks = TRUE
INVARIANTS
  TypeOK
  OneRegistry
  NoOrphan
  EndpointExclusive
  StopOkMeansExited
PROPERTIES
  SlotsSpec
  ReservationReleased
