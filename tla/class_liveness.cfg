SPECIFICATION FairSpec
CONSTANTS
  c1 = c1
  c2 = c2
  Claims = {c1, c2}
  Legacy = {c1}
  Versions = {1}
  MaxEdits = 1
  MaxFaults = 0
PROPERTIES DeletedClassDrains ClassConverges
CHECK_DEADLOCK FALSE
