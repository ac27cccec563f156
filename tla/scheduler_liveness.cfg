SPECIFICATION FairSpec
CONSTANTS
  None = None
  Miners = {1, 2}
  RuleIds = {1, 2, 3}
  Groups = {}
  Tables <- MCTables
  Instants <- LateInstants
  Readings = {"MINING", "PAUSED"}
  Events = 1
PROPERTIES
  ScheduleIsRetried
CHECK_DEADLOCK FALSE
