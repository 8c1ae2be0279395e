SPECIFICATION PartsSpec
CONSTANTS
  IntMax <- MCIntMax
  Rules <- MCRules
  Values <- MCValues
  Starts <- MCStarts
  RuleIds = {r1, r2}
  Bodies = {b1, b2}
  Stored = {}
  Watchers = {w1}
  Requests = {q1, q2}
  MaxWrites = 5
  NoRule = NoRule
  NoToggle = NoToggle
INVARIANTS
  ClampsToNearest
  StoreTypeOK
PROPERTIES
  StepsStayInside
  Rests
  RevivedByCreateOnly
  EditsSurviveToggle
CHECK_DEADLOCK FALSE
