SPECIFICATION Spec
CONSTANTS
  c1 = c1
  c2 = c2
  Claims = {}
  Legacy = {}
  Versions = {1}
  MaxEdits = 1
  MaxFaults = 0
PROPERTIES ForeignFinalizerKept
CHECK_DEADLOCK FALSE
