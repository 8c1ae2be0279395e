SPECIFICATION StoreSpec
CONSTANTS
  RuleIds = {r1}
  Bodies = {b1}
  Stored = {}
  Watchers = {w1}
  Requests = {q1, q2}
  MaxWrites = 4
  NoRule = NoRule
  NoToggle = NoToggle
PROPERTY ToggleFlips
CHECK_DEADLOCK FALSE
