SPECIFICATION SignInSpec
CONSTANTS
  None = None
  Attempts = {1}
  Signouts = {1}
  Uses <- MCPlanUses
INVARIANTS
  ClearedIsExpired
CHECK_DEADLOCK FALSE
