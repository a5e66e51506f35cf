----------------------------- MODULE RequestGate -----------------------------
(* What bounds the requests in time: the sliding window of the rate limiter, per *)
(* address, and the durable quota of the subject that a key belongs to.          *)
EXTENDS Integers, Sequences, FiniteSets, SequencesExt

CONSTANTS RgRequests,               \* concurrent requests, of one address
          RgSubjects,               \* the callers
          Window,                   \* ticks in the limiter's and the quota's minute
          RateLimit, Burst,         \* requests_per_minute and burst_size
          QuotaLimit,               \* a subject's requests_per_minute
          Lag,                      \* ticks a transaction waits for the write lock at most
          MaxClock, MaxRgRequests   \* bounds: time, requests
ASSUME RequestGateAssumption ==
  /\ Window \in Nat \ {0} /\ RateLimit \in Nat \ {0} /\ QuotaLimit \in Nat \ {0} /\ Lag \in 0 .. Window - 1 /\ Burst \in Nat
  /\ MaxClock \in Nat

VARIABLES
  rgClock,
  rgBucket,                \* the timestamps of the address's sliding window
  rgReq,                   \* per request: its subject and the time it read, once past the limiter
  rgQuota,                 \* api_quota_events: subject and time
  rgCount,
  rgPassed,                \* ghost: when requests passed the limiter
  rgSpent                  \* ghost: per subject when requests were counted against its quota
rgVars == <<rgClock, rgBucket, rgReq, rgQuota, rgCount, rgPassed, rgSpent>>

RgIdle == [subject |-> "none", now |-> 0]
RequestGateInit ==
  /\ rgClock = 0 /\ rgBucket = <<>> /\ rgQuota = {} /\ rgCount = 0 /\ rgPassed = <<>>
  /\ rgReq = [r \in RgRequests |-> RgIdle] /\ rgSpent = [s \in RgSubjects |-> <<>>]

RgWaits(r) == rgReq[r] # RgIdle
\* prune: from the front, up to the first time that is not too old.
Within(times, from) ==
  LET first == SelectInSeq(times, LAMBDA t : t >= from) IN IF first = 0 THEN <<>> ELSE SubSeq(times, first, Len(times))

\* check_and_record: a window that is full still lets through what comes when
\* fewer than burst_size of the recorded requests are of the last second.
Full(kept) == Len(kept) >= RateLimit
Recent(kept) == {i \in DOMAIN kept : kept[i] >= rgClock - 1}
Passes(kept) == ~Full(kept) \/ Cardinality(Recent(kept)) < Burst
\* The limiter: a burst is not recorded. What passes is authenticated and reads
\* the clock for its quota.
RgArrive(r) ==
  LET kept == Within(rgBucket, rgClock - Window)
  IN  /\ ~RgWaits(r) /\ rgCount < MaxRgRequests /\ rgCount' = rgCount + 1
      /\ rgBucket' = IF Full(kept) THEN kept ELSE Append(kept, rgClock)
      /\ IF Passes(kept)
         THEN \E s \in RgSubjects : rgReq' = [rgReq EXCEPT ![r] = [subject |-> s, now |-> rgClock]] /\ rgPassed' = Append(rgPassed, rgClock)
         ELSE UNCHANGED <<rgReq, rgPassed>>
      /\ UNCHANGED <<rgClock, rgQuota, rgSpent>>
\* The cleanup task removes an idle window.
RgForget ==
  /\ rgBucket # <<>> /\ Within(rgBucket, rgClock - Window) = <<>> /\ rgBucket' = <<>>
  /\ UNCHANGED <<rgClock, rgReq, rgQuota, rgCount, rgPassed, rgSpent>>

\* Mutant: the events counted are those no later than the request's own time.
RgSpend_OwnTime(r) ==
  LET now == rgReq[r].now  s == rgReq[r].subject
      kept == {e \in rgQuota : e.time > now - Window}
      mine == {e \in kept : e.subject = s /\ e.time <= now}
  IN  /\ RgWaits(r) /\ rgClock - now <= Lag /\ rgReq' = [rgReq EXCEPT ![r] = RgIdle]
      /\ IF Cardinality(mine) >= QuotaLimit THEN rgQuota' = kept /\ UNCHANGED rgSpent
         ELSE rgQuota' = kept \cup {[subject |-> s, time |-> now, id |-> Len(rgSpent[s])]} /\ rgSpent' = [rgSpent EXCEPT ![s] = Append(@, rgClock)]
      /\ UNCHANGED <<rgClock, rgBucket, rgCount, rgPassed>>

\* consume_subject_quota: one transaction forgets what is a minute old, for every
\* subject, counts and adds; or refuses.
RgSpend(r) ==
  LET now == rgReq[r].now  s == rgReq[r].subject
      kept == {e \in rgQuota : e.time > now - Window}
      mine == {e \in kept : e.subject = s}
  IN  /\ RgWaits(r) /\ rgClock - now <= Lag /\ rgReq' = [rgReq EXCEPT ![r] = RgIdle]
      /\ IF Cardinality(mine) >= QuotaLimit THEN rgQuota' = kept /\ UNCHANGED rgSpent
         ELSE rgQuota' = kept \cup {[subject |-> s, time |-> now, id |-> Len(rgSpent[s])]} /\ rgSpent' = [rgSpent EXCEPT ![s] = Append(@, rgClock)]
      /\ UNCHANGED <<rgClock, rgBucket, rgCount, rgPassed>>
\* The table cannot be written, or not in time: the request is refused.
RgQuotaFails(r) ==
  /\ RgWaits(r) /\ rgReq' = [rgReq EXCEPT ![r] = RgIdle]
  /\ UNCHANGED <<rgClock, rgBucket, rgQuota, rgCount, rgPassed, rgSpent>>
RgTick == rgClock < MaxClock /\ rgClock' = rgClock + 1 /\ UNCHANGED <<rgBucket, rgReq, rgQuota, rgCount, rgPassed, rgSpent>>

RequestGateNext == (\E r \in RgRequests : RgArrive(r) \/ RgSpend(r) \/ RgQuotaFails(r)) \/ RgForget \/ RgTick

RequestGateTypeOK ==
  /\ rgReq \in [RgRequests -> [subject : RgSubjects \cup {"none"}, now : 0 .. MaxClock]] /\ Len(rgBucket) <= RateLimit
  /\ \A e \in rgQuota : e.subject \in RgSubjects /\ e.time <= rgClock

-----------------------------------------------------------------------------
\* Whatever the order in which requests read the clock and get the write lock, a
\* subject spends no more than its limit in a minute less the time one may wait
\* (not in a whole minute: a request that waited is counted at the time it came).
QuotaIsNotOversold ==
  \A s \in RgSubjects : \A i \in DOMAIN rgSpent[s] :
    i + QuotaLimit \in DOMAIN rgSpent[s] => rgSpent[s][i + QuotaLimit] - rgSpent[s][i] >= Window - Lag

\* The limiter lets through, in any minute, no more than requests_per_minute and
\* one burst: a burst is tolerated and gives no more to spend.
RateIsBounded ==
  \A i \in DOMAIN rgPassed :
    i + RateLimit + Burst \in DOMAIN rgPassed => rgPassed[i + RateLimit + Burst] - rgPassed[i] > Window
=============================================================================
