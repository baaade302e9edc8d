SPECIFICATION MCSpec
CONSTANTS
  Servers = {s1}
  Endpoints = {e1}
  Callers = {c1}
  Pollers = {w1, w2}
  MaxPid = 2
  StdinBreaks = TRUE
  Bounds <- MCBroken
INVARIANTS
  NeverEarlyStopped
SYMMETRY Symmetry
