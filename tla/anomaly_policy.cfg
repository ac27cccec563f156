\* Two requests at a time on one ASIC and two groups.
CONSTANTS
  None = None
  Miners = {m1}
  Groups = {g1, g2}
  Requests = {q1, q2}
  Policies <- MCPolicies
  GroupPatches <- MCGroupPatches
  MinerPatches <- MCMinerPatches
SPECIFICATION Spec
SYMMETRY RequestSymmetry
INVARIANTS
  LayersResolveUnlessOverlapped
PROPERTIES
  PatchesKeepOtherFields
CHECK_DEADLOCK FALSE
