SPECIFICATION FairSpec
CONSTANTS
  RuleIds = {r1}
  Watchers = {c1}
  Requests = {}
  MaxWrites = 1
  Bodies <- MCBreached
  Stored <- MCOneRule
  IntMax <- MCIntMax
  Values <- MCHigh
  Starts <- MCStarts
  Targets <- MCHighTarget
  MaxHand = 1
  MaxCrashes = 1
  MaxPending = 2
  ApiFaults = TRUE
  ChangeStreams = TRUE
  NoRule = NoRule
  NoToggle = NoToggle
  Idle = Idle
  Reading = Reading
  NoJob = NoJob
  NoHand = NoHand
PROPERTIES
  ScalesAtomically
  EventLeadsToRead
  CachesConverge
  BreachIsAnswered
