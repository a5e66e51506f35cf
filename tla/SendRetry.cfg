CONSTANTS
  r1 = r1 r2 = r2 alice = alice bob = bob k1 = k1
  t1 = t1 t2 = t2 note = note other = other bulk = bulk
  NoKey = NoKey NoReq = NoReq
  Keys = {k1}
  Subjects = {alice}
  Bodies = {note}
  Targets = {t1}
  Reqs = {r1, r2}
  Requests <- RetryRequests
  TargetsOf <- MCTargetsOf
  BatchBodies <- MCBatchBodies
  BatchPermits = 1
  OutboxLimit = 1
  MaxFaults = 1
  MaxCrashes = 1
  MaxExpiries = 1
  MaxPurges = 1
SPECIFICATION Spec
SYMMETRY ReqSymmetry
INVARIANTS TypeOK SenderHoldsReservation HistoryMatchesJournal OutboxSound OneSenderPerReservation
PROPERTIES FinalOnce RemovedStaysRemoved
CHECK_DEADLOCK FALSE
