SPECIFICATION Spec
CONSTANTS
  Forks = 2
  MAX_CHILD = 3
  ALARM_COUNTS_TO_PRINT = 1
CHECK_DEADLOCK FALSE
INVARIANTS
  TypeOK
  NobodyForgotten
  StopTakesEffect
PROPERTIES
  WaitAndOrphansEnd
