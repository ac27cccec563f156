\* One job at a time against edits, background polls, stop and crash.
CONSTANTS
  Miners = {m1}
  Jobs = {j1}
  Callers = {c1}
  Pollers = {p1}
  PoolSize = 1
  MaxPolls = 2
  MaxRaised = 1
  Actions = {"pause", "reboot"}
  Readings = {"MINING", "PAUSED", "UNKNOWN"}
  UsedDrivers = {"awesome", "unset"}
  EditMiners = {m1}
  None = None
SPECIFICATION FairSpec
INVARIANTS
  VerifiedByTheDevice
PROPERTIES
  JobsEnd
CHECK_DEADLOCK FALSE
