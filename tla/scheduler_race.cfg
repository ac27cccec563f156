SPECIFICATION Spec
CONSTANTS
  None = None
  Miners = {1}
  RuleIds = {1, 2, 3}
  Groups = {g1}
  Tables <- MCTables
  Instants <- LateInstants
  Readings = {"MINING", "PAUSED"}
  Events = 3
INVARIANTS
  UneditedOverrideEndsAtTheTransition
PROPERTIES
  SchedulerWaitsForTransition
CHECK_DEADLOCK FALSE
