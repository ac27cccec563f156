\* Two ASICs, one group, two jobs, two changes.
CONSTANTS
  None = None
  Jobs = {j1, j2}
  Miners = {m1, m2}
  Groups = {g1}
  BULK_CONTROL_MAX_TARGETS = 2
  MaxEdits = 2
SPECIFICATION Spec
SYMMETRY JobSymmetry
INVARIANTS
  EveryTargetIsAnswered
PROPERTIES
  AcceptedMeansQueuedByIt
  NoJobOnAStaleLook
CHECK_DEADLOCK FALSE
