CONSTANTS
  MaxInterim = 1
  MaxHosts = 3
  Weights = {0, 1, 2, 3, 5}
SPECIFICATION MCSpec
INVARIANTS ResultSound Proportional
PROPERTY Answered
CHECK_DEADLOCK FALSE
