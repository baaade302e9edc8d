SPECIFICATION DiscordSpec
CONSTANTS
  Servers = {s1}
  Events = {"stopped"}
  Editors = {e1}
  Commands = {"setLocale", "enable"}
  Observers = {x1}
  Generations = {1, 2, 3, 4}
  Locales = {1, 2}
  Sessions = {1}
  QueueLimit = 1
INVARIANTS
  DiscordTypeOK
  SentIsCurrent
  ResultOfDestination
