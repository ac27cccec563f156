\* One ASIC, one group, three changes from outside.
CONSTANTS
  None = None
  Miners = {m1}
  Groups = {g1}
  Policies <- MCPolicies
  GroupLayers <- MCGroupLayers
  MinerLayers <- MCMinerLayers
  Temps <- MCTemps
  MaxAge = 1
  MaxEvents = 3
SPECIFICATION FairSpec
INVARIANTS
  OneEpisode
PROPERTIES
  OpeningsAreEarned
  ScansAbortOnlyAfterMoves
  IssuesAreEpisodes
  DisabledIsQuiet
  OfflineIsReported
CHECK_DEADLOCK FALSE
