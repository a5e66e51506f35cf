CONSTANTS
  r1 = r1 r2 = r2 alice = alice bob = bob k1 = k1
  t1 = t1 t2 = t2 note = note other = other bulk = bulk
  NoKey = NoKey NoReq = NoReq
  Keys = {k1}
  Subjects = {alice, bob}
  Bodies = {note, other}
  Targets = {t1}
  Reqs = {r1, r2}
  Requests <- MixedRequests
  TargetsOf <- MCTargetsOf
  BatchBodies <- MCBatchBodies
  BatchPermits = 1
  OutboxLimit = 1
  MaxFaults = 0
  MaxCrashes = 1
  MaxExpiries = 1
  MaxPurges = 0
SPECIFICATION Spec
SYMMETRY ReqSymmetry
INVARIANTS HonestReply
PROPERTIES ImplementsContract
CHECK_DEADLOCK FALSE
