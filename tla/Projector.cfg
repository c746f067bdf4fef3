SPECIFICATION Spec
CONSTANTS
  Instances = {c1, c2}
  Counts = {e1}
  Outcomes = {e2}
  Repromises = {e3}
  Garbled = {e4}
  Junk = Junk
  Length = 3
  MaxFaults = 2
INVARIANTS
  RollupMatchesClaims
PROPERTY NeverWedged
CHECK_DEADLOCK FALSE
