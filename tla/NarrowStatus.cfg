SPECIFICATION Spec
CONSTANTS
  i1 = i1
  oper = oper
  Instances = {i1}
  Operator = oper
  InitialVersions = {2, 3}
  MaxDowngrades = 0
  MaxFailures = 0
  MaxRows = 2
INVARIANT AlertsAreStored
CHECK_DEADLOCK FALSE
