SPECIFICATION FairSpec
CONSTANTS
  i1 = i1
  i2 = i2
  oper = oper
  Instances = {i1, i2}
  Operator = oper
  InitialVersions = {0, 2}
  MaxDowngrades = 1
  MaxFailures = 1
  MaxRows = 1
INVARIANTS TypeOK VersionTellsSchema ServesItsModels
PROPERTIES RowsSurvive ContainersServe
CHECK_DEADLOCK FALSE
