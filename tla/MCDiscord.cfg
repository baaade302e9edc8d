SPECIFICATION FairDiscordSpec
CONSTANTS
  Servers = {s1}
  Events = {"test"}
  Editors = {e1}
  Commands = {"save", "enable", "delete", "test", "setLocale", "logout"}
  Observers = {}
  Generations = {1, 2, 3, 4}
  Locales = {1, 2}
  Sessions = {1}
  QueueLimit = 1
INVARIANTS
  SentIsCurrent
  ResultOfDestination
PROPERTIES
  RevokedEventually
  DeliveryEnds
