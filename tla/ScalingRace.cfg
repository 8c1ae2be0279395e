SPECIFICATION Spec
CONSTANTS
  RuleIds = {r1}
  Watchers = {c1, c2}
  Requests = {}
  MaxWrites = 1
  Bodies <- MCOpposite
  Stored <- MCOneRule
  IntMax <- MCIntMax
  Values <- MCValues
  Starts <- MCStarts
  Targets <- MCTargets
  MaxHand = 1
  MaxCrashes = 0
  MaxPending = 2
  ApiFaults = FALSE
  ChangeStreams = FALSE
  NoRule = NoRule
  NoToggle = NoToggle
  Idle = Idle
  Reading = Reading
  NoJob = NoJob
  NoHand = NoHand
INVARIANTS
  TypeOK
  StaysPermitted
PROPERTY
  ScalesAtomically
SYMMETRY MCSymmetry
