SPECIFICATION SignInSpec
CONSTANTS
  None = None
  Attempts = {1, 2}
  Signouts = {1}
  Uses <- MCUses
INVARIANTS
  SignInTypeOK
  NoOrphanGrant
  NoStraySession
  SignedInIsShown
  WaitingIsBacked
CHECK_DEADLOCK FALSE
