------------------------------- MODULE ApiKeys -------------------------------
(* The API keys: the table api_keys, the keys the process accepts (indexed by   *)
(* hash, or loaded at the start), rotations and what a crash leaves of them, the *)
(* management sessions, and the chained audit ledger that gates each operation. *)
EXTENDS Integers, Sequences, FiniteSets, FiniteSetsExt

CONSTANTS Admins, Clients,        \* concurrent management requests and callers
          MaxKeys,                \* bound: keys and sessions ever issued
          KeyLimit,               \* active keys (100 in the code)
          SessionLimit,           \* management sessions (8 in the code)
          MaxAkRequests,          \* bound: management requests
          MaxAkFaults             \* bound: failed writes, dropped requests, restarts
ASSUME ApiKeysAssumption == MaxKeys \in Nat /\ KeyLimit \in Nat /\ SessionLimit \in Nat \ {0}

AkKeys == 1 .. MaxKeys
AkRows == {"unused", "active", "revoked", "deleted", "session"}   \* a session has no row
AkOps == {"create", "rotate", "revoke", "purge", "cancel", "complete", "login", "logout"}

VARIABLES
  akRow,                 \* the table, by key
  akIndexed, akLoaded,   \* the two collections of accepted keys in memory
  akLeft,                \* api_key_rotation_transitions
  akLock,                \* key_lifecycle_lock: the admin that holds it, or {}
  akChain, akHead,       \* per audit event the one it names as previous; the head in memory
  akAdmin, akClient,     \* the handlers in progress
  akIssued, akRequests, akFaults,
  akGone                 \* ghost: keys whose end has been carried out
akVars == <<akRow, akIndexed, akLoaded, akLeft, akLock, akChain, akHead, akAdmin, akClient, akIssued, akRequests, akFaults, akGone>>
akStore == <<akRow, akLeft>>
akMemory == <<akIndexed, akLoaded>>
akAudit == <<akChain, akHead>>
akRest == <<akClient, akIssued, akRequests, akGone>>

AkIdle == [at |-> "idle", op |-> "none", key |-> 0, new |-> 0]
ApiKeysInit ==
  /\ akRow = [k \in AkKeys |-> "unused"] /\ akIndexed = {} /\ akLoaded = {} /\ akLeft = {} /\ akLock = {}
  /\ akChain = <<>> /\ akHead = 0 /\ akIssued = 0 /\ akRequests = 0 /\ akFaults = 0 /\ akGone = {}
  /\ akAdmin = [a \in Admins |-> AkIdle] /\ akClient = [c \in Clients |-> [at |-> "idle", key |-> 0, late |-> FALSE]]

ActiveKeys == {k \in AkKeys : akRow[k] = "active"}
Rotating(r) == r.op = "rotate"
Transition(r, s) == [source |-> r.key, replacement |-> r.new, state |-> s]
AkTo(a, at) == akAdmin' = [akAdmin EXCEPT ![a] = IF at = "idle" THEN AkIdle ELSE [@ EXCEPT !.at = at]]
AkFault == akFaults < MaxAkFaults /\ akFaults' = akFaults + 1
\* A write that succeeds or, within the bound on faults, fails.
Writes(ok) == IF ok THEN UNCHANGED akFaults ELSE AkFault

\* create_key_internal: the secret is in memory before its row is.
AkIssue(a, op, k) ==
  /\ akIssued < MaxKeys /\ akIssued' = akIssued + 1 /\ akIndexed' = akIndexed \cup {akIssued'}
  /\ akAdmin' = [akAdmin EXCEPT ![a] = [at |-> "row", op |-> op, key |-> k, new |-> akIssued']]
\* A handler up to its first step: the checks that refuse a request.
AkArrives(a) == akAdmin[a].at = "idle" /\ akRequests < MaxAkRequests /\ akRequests' = akRequests + 1
AkStarts(a, op, k, new) == akAdmin' = [akAdmin EXCEPT ![a] = [at |-> "audit", op |-> op, key |-> k, new |-> new]] /\ UNCHANGED <<akIssued, akIndexed>>
AkCreate(a) == AkArrives(a) /\ Cardinality(ActiveKeys) < KeyLimit /\ AkIssue(a, "create", 0)
AkRotate(a) == AkArrives(a) /\ \E k \in ActiveKeys : AkIssue(a, "rotate", k)
AkEnd(a) == AkArrives(a) /\ \E k \in 1 .. akIssued, op \in {"revoke", "purge"} : AkStarts(a, op, k, 0)
AkReconcile(a) == AkArrives(a) /\ \E t \in akLeft : AkStarts(a, IF t.state = "created" THEN "cancel" ELSE "complete", t.source, t.replacement)
AkLogin(a) == AkArrives(a) /\ akIssued < MaxKeys /\ AkStarts(a, "login", 0, 0)
AkLogout(a) == AkArrives(a) /\ \E k \in akIndexed : akRow[k] = "session" /\ AkStarts(a, "logout", k, 0)
AkBegin(a) ==
  /\ AkCreate(a) \/ AkRotate(a) \/ AkEnd(a) \/ AkReconcile(a) \/ AkLogin(a) \/ AkLogout(a)
  /\ UNCHANGED <<akStore, akLoaded, akLock, akAudit, akClient, akFaults, akGone>>

\* The transaction that stores the row, and a rotation's transition with it: one
\* transition per source, one key beyond the limit for a rotation.
AkStore(a) ==
  LET r == akAdmin[a]
      fits == /\ Cardinality(ActiveKeys) < IF Rotating(r) THEN KeyLimit + 1 ELSE KeyLimit
              /\ Rotating(r) => akRow[r.key] \in {"active", "revoked"} /\ ~\E t \in akLeft : t.source = r.key
  IN  /\ r.at = "row"
      /\ \/ /\ fits /\ akRow' = [akRow EXCEPT ![r.new] = "active"] /\ AkTo(a, "audit")
            /\ akLeft' = IF Rotating(r) THEN akLeft \cup {Transition(r, "created")} ELSE akLeft
            /\ UNCHANGED <<akIndexed, akFaults>>
         \/ /\ Writes(~fits) /\ akIndexed' = akIndexed \ {r.new} /\ AkTo(a, "idle") /\ UNCHANGED akStore
      /\ UNCHANGED <<akLoaded, akLock, akAudit, akRest>>

\* Mutant: the anchor is advanced whatever head it has.
Recorded_Unanchored(ok) ==
  /\ IF ok THEN akChain' = Append(akChain, akHead) /\ akHead' = Len(akChain') /\ UNCHANGED akFaults
     ELSE AkFault /\ UNCHANGED akAudit

\* record_audit: the event names the head in memory and is stored only if the
\* anchor in the table still has it.
Recorded(ok) ==
  IF ok THEN akHead = Len(akChain) /\ akChain' = Append(akChain, akHead) /\ akHead' = Len(akChain') /\ UNCHANGED akFaults
  ELSE Writes(akHead # Len(akChain)) /\ UNCHANGED akAudit

AfterAudit(op) == CASE op = "create" -> "idle" [] op = "rotate" -> "prepare" [] op = "login" -> "session" [] op = "logout" -> "forget"
                    [] op = "revoke" -> "revoke" [] op = "purge" -> "delete" [] OTHER -> "resolve"
\* The audit that gates the operation; when it fails, a key just made is revoked again.
AkAudit(a) ==
  /\ akAdmin[a].at = "audit"
  /\ \E ok \in BOOLEAN : Recorded(ok) /\ AkTo(a, IF ok THEN AfterAudit(akAdmin[a].op) ELSE IF akAdmin[a].op \in {"create", "rotate"} THEN "undo" ELSE "idle")
  /\ UNCHANGED <<akStore, akMemory, akLock, akRest>>
\* The audit that reports it.
AkClose(a) ==
  /\ akAdmin[a].at = "closing" /\ AkTo(a, "idle") /\ \E ok \in BOOLEAN : Recorded(ok)
  /\ UNCHANGED <<akStore, akMemory, akLock, akRest>>

\* mark_rotation_prepared.
AkPrepare(a) ==
  LET r == akAdmin[a]  here == Transition(r, "created") \in akLeft
  IN  /\ r.at = "prepare"
      /\ \/ here /\ akLeft' = (akLeft \ {Transition(r, "created")}) \cup {Transition(r, "prepared")} /\ AkTo(a, "revoke") /\ UNCHANGED akFaults
         \/ Writes(~here) /\ AkTo(a, "undo") /\ UNCHANGED akLeft
      /\ UNCHANGED <<akRow, akMemory, akLock, akAudit, akRest>>

\* revoke_key and reconcile_rotation_transition, under the lock: first the table.
AkTarget(r) == IF r.at \in {"undo", "unmake"} \/ r.op = "cancel" THEN r.new ELSE r.key
AfterRevoke(r) == CASE r.at = "undo" /\ Rotating(r) -> "unclear" [] r.at = "revoke" /\ Rotating(r) -> "undo" [] OTHER -> "idle"
AkRevoke(a) ==
  LET r == akAdmin[a]  active == akRow[AkTarget(r)] = "active"
  IN  /\ r.at \in {"revoke", "undo"} /\ akLock = {}
      /\ \/ active /\ akRow' = [akRow EXCEPT ![AkTarget(r)] = "revoked"] /\ akLock' = {a} /\ AkTo(a, IF r.at = "undo" THEN "unmake" ELSE "forget") /\ UNCHANGED akFaults
         \/ Writes(~active) /\ AkTo(a, AfterRevoke(r)) /\ UNCHANGED <<akRow, akLock>>
      /\ UNCHANGED <<akLeft, akMemory, akAudit, akRest>>
AkResolve(a) ==
  LET r == akAdmin[a]  t == Transition(r, IF r.op = "cancel" THEN "created" ELSE "prepared")
      valid == t \in akLeft /\ akRow[AkTarget(r)] = "active"
  IN  /\ r.at = "resolve" /\ akLock = {}
      /\ \/ valid /\ akRow' = [akRow EXCEPT ![AkTarget(r)] = "revoked"] /\ akLeft' = akLeft \ {t} /\ akLock' = {a} /\ AkTo(a, "forget") /\ UNCHANGED akFaults
         \/ Writes(~valid) /\ AkTo(a, "idle") /\ UNCHANGED <<akStore, akLock>>
      /\ UNCHANGED <<akMemory, akAudit, akRest>>
\* Then the memory, and the lock is released. (A session is only in memory.)
AfterForget(r) == CASE r.at = "unmake" -> IF Rotating(r) THEN "unclear" ELSE "idle" [] Rotating(r) -> "clear" [] r.op \in {"purge", "logout"} -> "idle" [] OTHER -> "closing"
AkForget(a) ==
  LET k == AkTarget(akAdmin[a])
  IN  /\ akAdmin[a].at \in {"forget", "unmake"} /\ akIndexed' = akIndexed \ {k} /\ akLoaded' = akLoaded \ {k} /\ akLock' = akLock \ {a}
      /\ akGone' = akGone \cup {k} /\ AkTo(a, AfterForget(akAdmin[a]))
      /\ UNCHANGED <<akStore, akAudit, akClient, akIssued, akRequests, akFaults>>
\* clear_rotation_transition; when it fails, that is only logged.
AkClear(a) ==
  LET r == akAdmin[a]
  IN  /\ r.at \in {"clear", "unclear"} /\ AkTo(a, IF r.at = "clear" THEN "closing" ELSE "idle")
      /\ \E ok \in BOOLEAN : Writes(ok) /\ akLeft' = IF ok THEN {t \in akLeft : t.source # r.key \/ t.replacement # r.new} ELSE akLeft
      /\ UNCHANGED <<akRow, akMemory, akLock, akAudit, akRest>>
\* delete_key: a revoked row that no transition refers to.
AkDelete(a) ==
  LET k == akAdmin[a].key
      can == akRow[k] = "revoked" /\ ~\E t \in akLeft : k \in {t.source, t.replacement}
  IN  /\ akAdmin[a].at = "delete" /\ akLock = {}
      /\ \/ can /\ akRow' = [akRow EXCEPT ![k] = "deleted"] /\ akLock' = {a} /\ AkTo(a, "forget") /\ UNCHANGED akFaults
         \/ Writes(~can) /\ AkTo(a, "idle") /\ UNCHANGED <<akRow, akLock>>
      /\ UNCHANGED <<akLeft, akMemory, akAudit, akRest>>

\* create_ephemeral_key: the newest sessions are kept. When the closing audit
\* fails revoke_key is called, which finds no row: the session stays.
AkSession(a) ==
  LET new == akIssued + 1
      open == {k \in akIndexed : akRow[k] = "session"} \cup {new}
      kept == {k \in open : Cardinality({j \in open : j > k}) < SessionLimit}
  IN  /\ akAdmin[a].at = "session" /\ akIssued < MaxKeys /\ akIssued' = new /\ akRow' = [akRow EXCEPT ![new] = "session"]
      /\ akIndexed' = (akIndexed \ open) \cup kept /\ akGone' = akGone \cup (open \ kept) /\ AkTo(a, "closing")
      /\ UNCHANGED <<akLeft, akLoaded, akLock, akAudit, akClient, akRequests, akFaults>>

\* authenticate: an indexed key is verified on a copy; a loaded one is too, and
\* then moves to the index.
AkLookUp(c, k) ==
  /\ akClient[c].at \in {"idle", "in"} /\ k <= akIssued
  /\ akClient' = [akClient EXCEPT ![c] = [at |-> CASE k \in akIndexed -> "known" [] k \notin akIndexed /\ k \in akLoaded -> "verify" [] OTHER -> "idle",
                                          key |-> k, late |-> k \in akGone]]
  /\ UNCHANGED <<akStore, akMemory, akLock, akAudit, akAdmin, akIssued, akRequests, akFaults, akGone>>
AkVerified(c) ==
  /\ akClient[c].at = "known" /\ akClient' = [akClient EXCEPT ![c].at = "in"]
  /\ UNCHANGED <<akStore, akMemory, akLock, akAudit, akAdmin, akIssued, akRequests, akFaults, akGone>>

\* Mutant: the copy that was verified is moved to the index as it is.
AkPromote_Stale(c) ==
  /\ akClient[c].at = "verify" /\ akIndexed' = akIndexed \cup {akClient[c].key} /\ akClient' = [akClient EXCEPT ![c].at = "in"]
  /\ UNCHANGED <<akStore, akLoaded, akLock, akAudit, akAdmin, akIssued, akRequests, akFaults, akGone>>

\* promote_verified_loaded_key: looked up again, under the lock.
AkPromote(c) ==
  /\ akClient[c].at = "verify" /\ akLock = {}
  /\ IF akClient[c].key \in akLoaded
     THEN akIndexed' = akIndexed \cup {akClient[c].key} /\ akClient' = [akClient EXCEPT ![c].at = "in"]
     ELSE akClient' = [akClient EXCEPT ![c].at = "idle"] /\ UNCHANGED akIndexed
  /\ UNCHANGED <<akStore, akLoaded, akLock, akAudit, akAdmin, akIssued, akRequests, akFaults, akGone>>

\* A handler is dropped with its connection, at any await: also after the commit
\* of an audit event and before the head in memory follows.
AkDrop(a) ==
  /\ akAdmin[a].at # "idle" /\ AkFault /\ AkTo(a, "idle") /\ akLock' = akLock \ {a}
  /\ \/ UNCHANGED akAudit
     \/ akAdmin[a].at \in {"audit", "closing"} /\ akHead = Len(akChain) /\ akChain' = Append(akChain, akHead) /\ UNCHANGED akHead
  /\ UNCHANGED <<akStore, akMemory, akRest>>
\* The process ends and starts: load_from_db.
AkRestart ==
  /\ AkFault /\ akAdmin' = [a \in Admins |-> AkIdle] /\ akClient' = [c \in Clients |-> [akClient[c] EXCEPT !.at = "idle"]] /\ akLock' = {}
  /\ akIndexed' = {} /\ akLoaded' = ActiveKeys /\ akHead' = Len(akChain)
  /\ UNCHANGED <<akStore, akChain, akIssued, akRequests, akGone>>

ApiKeysNext ==
  \/ \E a \in Admins : \/ AkBegin(a) \/ AkStore(a) \/ AkAudit(a) \/ AkClose(a) \/ AkPrepare(a) \/ AkRevoke(a) \/ AkResolve(a) \/ AkForget(a)
                       \/ AkClear(a) \/ AkDelete(a) \/ AkSession(a) \/ AkDrop(a)
  \/ \E c \in Clients : AkVerified(c) \/ AkPromote(c) \/ \E k \in AkKeys : AkLookUp(c, k)
  \/ AkRestart

ApiKeysTypeOK ==
  /\ akRow \in [AkKeys -> AkRows] /\ akIndexed \cup akLoaded \cup akGone \subseteq 1 .. akIssued /\ akLock \in SUBSET Admins
  /\ akLeft \subseteq [source : AkKeys, replacement : AkKeys, state : {"created", "prepared"}] /\ akHead \in 0 .. Len(akChain)
  /\ \A a \in Admins : akAdmin[a].op \in AkOps \cup {"none"}

-----------------------------------------------------------------------------
\* A key whose revocation, rotation or purge was carried out (or a session that
\* was closed or pushed out) lets in no request that presents it later: not by a
\* verification begun before, and not after a restart.
RevokedKeysAreRefused == \A c \in Clients : akClient[c].at = "in" => ~akClient[c].late

\* Every audit event names the one stored before it, whichever handlers were
\* dropped between storing an event and noting it: the ledger verifies.
AuditChainVerifies == \A i \in DOMAIN akChain : akChain[i] = i - 1

=============================================================================
