SPECIFICATION Spec
CONSTANTS
  RuleIds = {r1}
  Watchers = {c1, c2}
  Requests = {}
  MaxWrites = 0
  Bodies <- MCOpposite
  Stored <- MCOpposite
  IntMax <- MCIntMax
  Values <- MCValues
  Starts <- MCStarts
  Targets <- MCNoTargets
  MaxHand = 0
  MaxCrashes = 0
  MaxPending = 2
  ApiFaults = FALSE
  ChangeStreams = FALSE
  NoRule = NoRule
  NoToggle = NoToggle
  Idle = Idle
  Reading = Reading
  NoJob = NoJob
  NoHand = NoHand
INVARIANT LastActionIsLatest
