\* Windows and one rule, two requests at a time.
CONSTANTS
  None = None
  Groups = {g1}
  Requests = {q1, q2}
  RuleIds = {1}
  Targets <- MCTargets
  Instants <- MCInstants
  Intervals <- MCIntervals
  Bodies <- MCBodies
  MaxDuration = 2
  CatchUp = 1
  Events = 3
SPECIFICATION Spec
INVARIANTS
  TypeOK
  ManualWindowsAreDisjoint
  OneWindowPerOccurrence
  CancelledOrCompleted
PROPERTIES
  EndedWindowsAreFinal
  OnlyOvertakenExtensionsShorten
SYMMETRY RequestSymmetry
CHECK_DEADLOCK FALSE
