\* One ASIC, two callers that race for it, three jobs, two threads; no edits.
CONSTANTS
  Miners = {m1}
  Jobs = {j1, j2, j3}
  Callers = {c1, c2}
  Pollers = {}
  PoolSize = 2
  MaxPolls = 2
  MaxRaised = 1
  Actions = {"resume", "reboot"}
  Readings = {"MINING", "UNKNOWN"}
  UsedDrivers = {"awesome"}
  EditMiners = {}
  None = None
SPECIFICATION Spec
SYMMETRY Symmetry
VIEW WithoutHistory
INVARIANTS
  TypeOK
  OneActiveJobPerMiner
  CommandsAreExclusive
  NoOrphanJob
PROPERTIES
  OverrideOnlyWithoutActiveJob
  ImplementsLedger
CHECK_DEADLOCK FALSE
