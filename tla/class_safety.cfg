SPECIFICATION Spec
CONSTANTS
  c1 = c1
  c2 = c2
  Claims = {c1, c2}
  Legacy = {c1}
  Versions = {1, 2}
  MaxEdits = 1
  MaxFaults = 1
INVARIANTS TypeOK MigrationBeforeAnnouncement ClassOutlivesLaunches DriftHasCause
PROPERTIES VersionNeverDowngraded
CHECK_DEADLOCK FALSE
