SPECIFICATION SlowReadSpec
CONSTANTS
  Servers = {s1}
  Events = {"stopped"}
  Editors = {e1}
  Commands = {"setLocale", "delete"}
  Observers = {x1}
  Generations = {1, 2, 3, 4, 5}
  Locales = {1}
  Sessions = {1}
  QueueLimit = 1
INVARIANTS
  SentIsCurrent
