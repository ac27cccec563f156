\* Two rules, group rule first; no requests for windows.
CONSTANTS
  None = None
  Groups = {g1}
  Requests = {}
  RuleIds = {1, 2}
  Targets <- MCTargets
  Instants <- MCInstants
  Intervals <- MCIntervals
  Bodies <- MCBodies
  MaxDuration = 2
  CatchUp = 1
  Events = 3
SPECIFICATION FairSpec
PROPERTIES
  DueOccurrencesAreMaterialized
CHECK_DEADLOCK FALSE
