SPECIFICATION ClockSpec
CONSTANTS
  None = None
  RuleIds = {1, 2}
  Groups = {g1}
  Rows <- MCRows
  Instants <- MCInstants
  History <- MCHistory
INVARIANTS
  InForceIsTheLatest
PROPERTIES
  TransitionsAreExact
CHECK_DEADLOCK FALSE
