CONSTANTS
  r1 = r1 r2 = r2 alice = alice bob = bob k1 = k1
  t1 = t1 t2 = t2 note = note other = other bulk = bulk
  NoKey = NoKey NoReq = NoReq
  Keys = {k1}
  Subjects = {alice}
  Bodies = {bulk}
  Targets = {t1, t2}
  Reqs = {r1, r2}
  Requests <- BatchRequests
  TargetsOf <- MCTargetsOf
  BatchBodies <- MCBatchBodies
  BatchPermits = 2
  OutboxLimit = 1
  MaxFaults = 0
  MaxCrashes = 0
  MaxExpiries = 0
  MaxPurges = 0
SPECIFICATION Spec
INVARIANTS IndeterminateStaysReserved
CHECK_DEADLOCK FALSE
