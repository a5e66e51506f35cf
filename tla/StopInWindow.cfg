SPECIFICATION Spec
CONSTANTS
  i1 = i1
  i2 = i2
  u1 = u1
  u2 = u2
  s1 = s1
  None = None
  Elsewhere = Elsewhere
  Users = {u1}
  UserOps = {"start", "stop"}
  Instances = {i1, i2}
  Senders = {}
  TransportOutcomes = {"unsupported"}
  MaxTransport = 0
  MaxCalls = 2
  MaxInitFaults = 0
  MaxFaults = 0
  MayShutDown = FALSE
  Punctual = FALSE
CHECK_DEADLOCK FALSE
INVARIANT StopHolds
