SPECIFICATION CommandsSpec
CONSTANTS
  Servers = {s1}
  Endpoints = {e1}
  Tasks = {t1, t2}
  Monitor = m
  Callers = {t1, t2, m}
  MaxPid = 2
  StdinBreaks = TRUE
  Commands = {"start", "stop", "force", "restart", "delete"}
INVARIANT
  StoppedBeforeCleanup
