CONSTANTS
  Provisions = {c1, c2}
  Instances = {i1}
  MaxFails = 1
SPECIFICATION DUSpec
CHECK_DEADLOCK FALSE
INVARIANT PreviousStaysValid
