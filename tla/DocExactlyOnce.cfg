SPECIFICATION Spec
CONSTANTS
  Instances = {c1, c2}
  Counts = {e1}
  Outcomes = {e2}
  Repromises = {e3}
  Garbled = {e4}
  Junk = Junk
  Length = 2
  MaxFaults = 1
INVARIANT ExactlyOnce
CHECK_DEADLOCK FALSE
