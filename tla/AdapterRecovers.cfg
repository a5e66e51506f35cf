SPECIFICATION FairSpec
CONSTANTS
  i1 = i1
  i2 = i2
  u1 = u1
  u2 = u2
  s1 = s1
  None = None
  Elsewhere = Elsewhere
  Users = {u1}
  UserOps = {"start"}
  Instances = {i1, i2}
  Senders = {}
  TransportOutcomes = {"unsupported", "restarted", "transient", "permanent"}
  MaxTransport = 2
  MaxCalls = 1
  MaxInitFaults = 0
  MaxFaults = 5
  MayShutDown = FALSE
  Punctual = TRUE
CHECK_DEADLOCK FALSE
INVARIANTS TypeOK KindIsOfThisFailure
PROPERTIES Recovers
