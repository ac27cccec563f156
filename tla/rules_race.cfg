SPECIFICATION Spec
CONSTANTS
  None = None
  RuleIds = {1, 2}
  Groups = {g1}
  Requests = {q1, q2}
  Instants <- RaceInstants
  Bodies <- RaceBodies
INVARIANTS
  ConflictsOnlyFromRaces
  RulesAreNotRetroactive
  GroupRulesHaveTheirGroup
CHECK_DEADLOCK FALSE
SYMMETRY RequestSymmetry
