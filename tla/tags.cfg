SPECIFICATION Spec
CONSTANTS
  l1 = l1
  l2 = l2
  l3 = l3
  Launches = {l1, l2, l3}
  Wanted <- MCWanted
  MaxFaults = 1
INVARIANTS TypeOK SomeLaunchSurvives TagsReadBack
PROPERTIES WarmLaunchesSucceed
CHECK_DEADLOCK FALSE
