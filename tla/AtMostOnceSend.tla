--------------------------- MODULE AtMostOnceSend ---------------------------
(***************************************************************************)
(* What an Idempotency-Key promises a caller: a scope (subject and key) is *)
(* held by one request at a time, only the holder may call the platform,   *)
(* at most once per target, and it may not start again once the scope was  *)
(* released.  Requests without a key claim nothing and are only bound by   *)
(* the last part.                                                          *)
(***************************************************************************)
CONSTANTS Reqs, Targets, Scopes, Nobody

VARIABLES
  claim,   \* the request that holds each scope
  free,    \* requests without a key
  used,    \* requests past admission, admitted or refused
  sent     \* calls made to the platform

abstractVars == <<claim, free, used, sent>>

Init ==
  /\ claim = [s \in Scopes |-> Nobody]
  /\ free = {} /\ used = {} /\ sent = {}

Claim(s, r) ==
  /\ claim[s] = Nobody /\ r \notin used
  /\ claim' = [claim EXCEPT ![s] = r]
  /\ used' = used \cup {r}
  /\ UNCHANGED <<free, sent>>

Admit(r) ==
  /\ r \notin used
  /\ free' = free \cup {r}
  /\ used' = used \cup {r}
  /\ UNCHANGED <<claim, sent>>

\* Some requests end without a claim: taken key, storage failure, hang-up.
Refuse(rs) ==
  /\ rs \cap used = {}
  /\ used' = used \cup rs
  /\ UNCHANGED <<claim, free, sent>>

Send(r, t) ==
  /\ r \in free \/ \E s \in Scopes : claim[s] = r
  /\ <<r, t>> \notin sent
  /\ sent' = sent \cup {<<r, t>>}
  /\ UNCHANGED <<claim, free, used>>

Release(s) ==
  /\ claim[s] # Nobody
  /\ claim' = [claim EXCEPT ![s] = Nobody]
  /\ UNCHANGED <<free, used, sent>>

Next ==
  \/ \E s \in Scopes, r \in Reqs : Claim(s, r)
  \/ \E r \in Reqs : Admit(r)
  \/ \E rs \in SUBSET Reqs : Refuse(rs)
  \/ \E r \in Reqs, t \in Targets : Send(r, t)
  \/ \E s \in Scopes : Release(s)

Spec == Init /\ [][Next]_abstractVars
=============================================================================
