---------------------------- MODULE ApiKeysProofs ----------------------------
(* Proofs about the life cycle of the API keys and the audit chain (ApiKeys),   *)
(* for any number of administrators, clients, keys, sessions and faults.       *)
EXTENDS ApiKeys, TLAPS

ApiKeysSpec == ApiKeysInit /\ [][ApiKeysNext]_akVars

Ended == {"revoked", "deleted", "session"}      \* rows that load_from_db passes over

\* What the table and the memory say of the keys that were issued.
TableOK ==
  /\ akIssued \in 0 .. MaxKeys /\ DOMAIN akRow = AkKeys
  /\ \A k \in AkKeys : k > akIssued => akRow[k] = "unused"
  /\ akIndexed \cup akLoaded \cup akGone \subseteq 1 .. akIssued
\* A key whose end was carried out is in neither collection, and no start of the
\* process brings it back; a session is never among the loaded keys.
GoneOK ==
  /\ \A k \in akGone : k \notin akIndexed /\ k \notin akLoaded /\ akRow[k] \in Ended
  /\ \A k \in akLoaded : akRow[k] # "session"

LeftOK == akLeft \subseteq [source : AkKeys, replacement : AkKeys, state : {"created", "prepared"}]

\* Which operation may be at which place, and which keys an operation names.
Fits(r) ==
  /\ r.at \in {"row", "undo", "unmake"} => r.op \in {"create", "rotate"}
  /\ r.at = "audit" => r.op \in AkOps
  /\ r.at = "prepare" => r.op = "rotate"
  /\ r.at = "revoke" => r.op \in {"rotate", "revoke"}
  /\ r.at = "resolve" => r.op \in {"cancel", "complete"}
  /\ r.at = "delete" => r.op = "purge"
  /\ r.op \in {"rotate", "revoke", "purge", "cancel", "complete", "logout"} => r.key \in AkKeys
  /\ r.op \in {"create", "rotate", "cancel"} => r.new \in AkKeys

\* A handler that is about to store a row found it unused, and about to forget a
\* key found it ended.
AdminOK(r) ==
  /\ {"at", "op", "key", "new"} \subseteq DOMAIN r /\ Fits(r)
  /\ r.at = "row" => r.new \in 1 .. akIssued /\ akRow[r.new] = "unused"
  /\ r.op = "logout" => r.key \in 1 .. akIssued /\ akRow[r.key] = "session"
  /\ r.at \in {"forget", "unmake"} => AkTarget(r) \in 1 .. akIssued /\ akRow[AkTarget(r)] \in Ended
AdminsOK ==
  /\ DOMAIN akAdmin = Admins /\ \A a \in Admins : AdminOK(akAdmin[a])
  /\ \A a, b \in Admins : akAdmin[a].at = "row" /\ akAdmin[b].at = "row" /\ a # b => akAdmin[a].new # akAdmin[b].new

\* A verification that goes on was begun with a key that had not ended.
ClientsOK ==
  /\ DOMAIN akClient = Clients
  /\ \A c \in Clients : /\ {"at", "key", "late"} \subseteq DOMAIN akClient[c]
                        /\ akClient[c].at \in {"known", "verify", "in"} => ~akClient[c].late

KeysInv == TableOK /\ GoneOK /\ AdminsOK /\ ClientsOK

-----------------------------------------------------------------------------
LEMMA IdleAdmin ==
  /\ {"at", "op", "key", "new"} \subseteq DOMAIN AkIdle /\ AkIdle.at = "idle" /\ AkIdle.op = "none"
  BY DEF AkIdle

LEMMA KeysInitially == ApiKeysInit => KeysInv
<1> SUFFICES ASSUME ApiKeysInit PROVE KeysInv
  OBVIOUS
<1>1. TableOK /\ GoneOK
  BY ApiKeysAssumption DEF ApiKeysInit, TableOK, GoneOK, AkKeys
<1>2. AdminsOK
  BY IdleAdmin DEF ApiKeysInit, AdminsOK, AdminOK, Fits
<1>3. ClientsOK
  BY DEF ApiKeysInit, ClientsOK
<1> QED
  BY <1>1, <1>2, <1>3 DEF KeysInv

\* A handler that moves on without having changed a key.
LEMMA HandlerMoves ==
  ASSUME KeysInv, NEW a \in Admins, NEW at, AkTo(a, at), at # "row",
         at # "idle" => Fits([akAdmin[a] EXCEPT !.at = at]),
         at \in {"forget", "unmake"} => at = "forget" /\ akAdmin[a].op = "logout",
         UNCHANGED <<akRow, akMemory, akIssued, akGone, akClient>>
  PROVE  KeysInv'
<1>1. TableOK' /\ GoneOK' /\ ClientsOK'
  BY DEF KeysInv, TableOK, GoneOK, ClientsOK, akMemory
<1>2. PICK r : /\ akAdmin' = [akAdmin EXCEPT ![a] = r]
               /\ r = IF at = "idle" THEN AkIdle ELSE [akAdmin[a] EXCEPT !.at = at]
  BY DEF AkTo
<1>3. AdminOK(akAdmin[a]) /\ DOMAIN akAdmin = Admins
  BY DEF KeysInv, AdminsOK
<1>4. AdminOK(r)' /\ r.at # "row"
  <2>1. CASE at = "idle"
    BY <1>2, <2>1, IdleAdmin DEF AdminOK, Fits
  <2>2. CASE at # "idle"
    <3>1. /\ DOMAIN r = DOMAIN akAdmin[a] /\ r.at = at /\ r.op = akAdmin[a].op
          /\ r.key = akAdmin[a].key /\ r.new = akAdmin[a].new
      BY <1>2, <1>3, <2>2 DEF AdminOK
    <3>2. r.at \in {"forget", "unmake"} => AkTarget(r) = r.key
      BY <3>1 DEF AkTarget
    <3> QED
      BY <1>2, <1>3, <2>2, <3>1, <3>2 DEF AdminOK, Ended
  <2> QED
    BY <2>1, <2>2
<1>5. \A b \in Admins \ {a} : akAdmin'[b] = akAdmin[b]
  BY <1>2, <1>3
<1>6. akAdmin'[a] = r /\ DOMAIN akAdmin' = Admins
  BY <1>2, <1>3
<1>7. AdminsOK'
  BY <1>4, <1>5, <1>6 DEF KeysInv, AdminsOK, AdminOK
<1> QED
  BY <1>1, <1>7 DEF KeysInv

\* A handler that ends a key in the table and goes on to forget it.
EndsKey(a, k, state, at) ==
  /\ akRow[k] \in {"active", "revoked"} /\ akRow' = [akRow EXCEPT ![k] = state]
  /\ AkTo(a, at) /\ AkTarget([akAdmin[a] EXCEPT !.at = at]) = k /\ Fits([akAdmin[a] EXCEPT !.at = at])
  /\ UNCHANGED <<akMemory, akIssued, akGone, akClient>>

LEMMA RowEnds ==
  ASSUME KeysInv, NEW a \in Admins, NEW k \in AkKeys, NEW state \in {"revoked", "deleted"},
         NEW at \in {"forget", "unmake"}, EndsKey(a, k, state, at)
  PROVE  KeysInv'
<1> USE DEF EndsKey
<1>0. k \in 1 .. akIssued /\ DOMAIN akRow = AkKeys /\ DOMAIN akAdmin = Admins /\ AdminOK(akAdmin[a])
  BY DEF KeysInv, TableOK, AdminsOK, AkKeys
<1>1. TableOK' /\ GoneOK' /\ ClientsOK'
  BY <1>0 DEF KeysInv, TableOK, GoneOK, ClientsOK, akMemory, Ended
<1>2. PICK r : akAdmin' = [akAdmin EXCEPT ![a] = r] /\ r = [akAdmin[a] EXCEPT !.at = at]
  BY DEF AkTo
<1>3. /\ {"at", "op", "key", "new"} \subseteq DOMAIN r /\ r.at = at /\ r.op = akAdmin[a].op
      /\ r.key = akAdmin[a].key /\ r.new = akAdmin[a].new /\ AkTarget(r) = k
  BY <1>0, <1>2 DEF AdminOK
<1>4. AdminOK(r)'
  BY <1>0, <1>2, <1>3 DEF AdminOK, Ended
<1>5. ASSUME NEW b \in Admins \ {a} PROVE AdminOK(akAdmin[b])' /\ akAdmin'[b] = akAdmin[b]
  <2>1. AdminOK(akAdmin[b]) /\ akAdmin'[b] = akAdmin[b]
    BY <1>0, <1>2, <1>5 DEF KeysInv, AdminsOK
  <2> QED
    BY <1>0, <2>1 DEF AdminOK, Ended, TableOK, KeysInv, AkKeys, AkTarget
<1>6. akAdmin'[a] = r /\ DOMAIN akAdmin' = Admins
  BY <1>0, <1>2
<1>7. AdminsOK'
  BY <1>3, <1>4, <1>5, <1>6 DEF KeysInv, AdminsOK
<1> QED
  BY <1>1, <1>7 DEF KeysInv

\* A handler that begins by issuing a key: its row is unused and it is nobody's.
LEMMA KeyIsIssued ==
  ASSUME KeysInv, NEW a \in Admins, NEW op \in {"create", "rotate"}, NEW k, AkIssue(a, op, k),
         op = "rotate" => k \in AkKeys,
         UNCHANGED <<akRow, akLoaded, akGone, akClient>>
  PROVE  KeysInv'
<1>1. /\ akIssued' = akIssued + 1 /\ akIssued' <= MaxKeys /\ akIndexed' = akIndexed \cup {akIssued'}
      /\ akAdmin' = [akAdmin EXCEPT ![a] = [at |-> "row", op |-> op, key |-> k, new |-> akIssued']]
      /\ akIssued \in Nat
  BY ApiKeysAssumption DEF AkIssue, KeysInv, TableOK
<1>2. akRow[akIssued'] = "unused" /\ akIssued' \in AkKeys
  BY <1>1, ApiKeysAssumption DEF KeysInv, TableOK, AkKeys
<1>3. TableOK'
  BY <1>1, ApiKeysAssumption DEF KeysInv, TableOK, AkKeys
<1>4. GoneOK'
  BY <1>1, <1>2 DEF KeysInv, GoneOK, TableOK, Ended
<1>5. ClientsOK'
  BY DEF KeysInv, ClientsOK
<1>6. \A b \in Admins : AdminOK(akAdmin[b])'
  <2>1. AdminOK(akAdmin[a])'
    BY <1>1, <1>2 DEF KeysInv, AdminsOK, AdminOK, Fits
  <2>2. ASSUME NEW b \in Admins \ {a} PROVE AdminOK(akAdmin[b])'
    <3>1. AdminOK(akAdmin[b]) /\ akAdmin'[b] = akAdmin[b]
      BY <1>1, <2>2 DEF KeysInv, AdminsOK
    <3> QED
      BY <1>1, <3>1 DEF AdminOK, AkTarget
  <2> QED
    BY <2>1, <2>2
<1>7. \A b, c \in Admins : akAdmin'[b].at = "row" /\ akAdmin'[c].at = "row" /\ b # c => akAdmin'[b].new # akAdmin'[c].new
  <2>1. akAdmin'[a].new = akIssued + 1
    BY <1>1 DEF KeysInv, AdminsOK
  <2>2. \A b \in Admins \ {a} : akAdmin'[b] = akAdmin[b] /\ (akAdmin[b].at = "row" => akAdmin[b].new \in 1 .. akIssued)
    BY <1>1 DEF KeysInv, AdminsOK, AdminOK
  <2> QED
    BY <1>1, <2>1, <2>2 DEF KeysInv, AdminsOK
<1> QED
  BY <1>1, <1>3, <1>4, <1>5, <1>6, <1>7 DEF KeysInv, AdminsOK

\* A handler that begins with its audit.
LEMMA HandlerStarts ==
  ASSUME KeysInv, NEW a \in Admins, NEW op, NEW k, NEW new, AkStarts(a, op, k, new),
         Fits([at |-> "audit", op |-> op, key |-> k, new |-> new]),
         op = "logout" => k \in 1 .. akIssued /\ akRow[k] = "session",
         UNCHANGED <<akRow, akLoaded, akGone, akClient>>
  PROVE  KeysInv'
<1>1. /\ akAdmin' = [akAdmin EXCEPT ![a] = [at |-> "audit", op |-> op, key |-> k, new |-> new]]
      /\ akIssued' = akIssued /\ akIndexed' = akIndexed
  BY DEF AkStarts
<1>2. TableOK' /\ GoneOK' /\ ClientsOK'
  BY <1>1 DEF KeysInv, TableOK, GoneOK, ClientsOK
<1>3. AdminOK(akAdmin[a])'
  BY <1>1 DEF KeysInv, AdminsOK, AdminOK
<1>4. \A b \in Admins \ {a} : AdminOK(akAdmin[b])' /\ akAdmin'[b] = akAdmin[b]
  BY <1>1 DEF KeysInv, AdminsOK, AdminOK, AkTarget
<1>5. akAdmin'[a].at = "audit" /\ DOMAIN akAdmin' = Admins
  BY <1>1 DEF KeysInv, AdminsOK
<1> QED
  BY <1>2, <1>3, <1>4, <1>5 DEF KeysInv, AdminsOK

LEMMA BeginStep == ASSUME KeysInv, LeftOK, NEW a \in Admins, AkBegin(a) PROVE KeysInv'
<1>0. UNCHANGED <<akRow, akLoaded, akGone, akClient>>
  BY DEF AkBegin, akStore
<1>1. CASE AkCreate(a) \/ AkRotate(a)
  <2>1. PICK op \in {"create", "rotate"}, k \in AkKeys \cup {0} : AkIssue(a, op, k) /\ (op = "rotate" => k \in AkKeys)
    BY <1>1 DEF AkCreate, AkRotate, ActiveKeys
  <2> QED
    BY <1>0, <2>1, KeyIsIssued
<1>2. CASE AkEnd(a) \/ AkReconcile(a) \/ AkLogin(a)
  <2>1. PICK op \in {"revoke", "purge", "cancel", "complete", "login"}, k \in AkKeys \cup {0}, new \in AkKeys \cup {0} :
          /\ AkStarts(a, op, k, new)
          /\ op # "login" => k \in AkKeys
          /\ op = "cancel" => new \in AkKeys
    <3>1. 1 .. akIssued \subseteq AkKeys
      BY ApiKeysAssumption DEF KeysInv, TableOK, AkKeys
    <3>2. CASE AkEnd(a)
      BY <3>1, <3>2 DEF AkEnd
    <3>3. CASE AkReconcile(a)
      BY <3>3 DEF AkReconcile, LeftOK
    <3>4. CASE AkLogin(a)
      BY <3>4 DEF AkLogin
    <3> QED
      BY <1>2, <3>2, <3>3, <3>4
  <2>2. Fits([at |-> "audit", op |-> op, key |-> k, new |-> new])
    BY <2>1 DEF Fits, AkOps
  <2> QED
    BY <1>0, <2>1, <2>2, HandlerStarts
<1>3. CASE AkLogout(a)
  <2>1. PICK k \in akIndexed : akRow[k] = "session" /\ AkStarts(a, "logout", k, 0)
    BY <1>3 DEF AkLogout
  <2>2. k \in 1 .. akIssued /\ k \in AkKeys
    BY ApiKeysAssumption DEF KeysInv, TableOK, AkKeys
  <2>3. Fits([at |-> "audit", op |-> "logout", key |-> k, new |-> 0])
    BY <2>2 DEF Fits, AkOps
  <2> QED
    BY <1>0, <2>1, <2>2, <2>3, HandlerStarts
<1> QED
  BY <1>1, <1>2, <1>3 DEF AkBegin

LEMMA StoreStep == ASSUME KeysInv, NEW a \in Admins, AkStore(a) PROVE KeysInv'
<1>0. /\ akAdmin[a].at = "row" /\ AdminOK(akAdmin[a]) /\ DOMAIN akAdmin = Admins
      /\ UNCHANGED <<akLoaded, akClient, akIssued, akGone>>
  BY DEF AkStore, KeysInv, AdminsOK, akRest
<1>1. CASE akRow' = [akRow EXCEPT ![akAdmin[a].new] = "active"] /\ AkTo(a, "audit") /\ akIndexed' = akIndexed
  <2> DEFINE new == akAdmin[a].new
  <2>1. new \in 1 .. akIssued /\ akRow[new] = "unused" /\ new \in AkKeys /\ DOMAIN akRow = AkKeys
    BY <1>0, ApiKeysAssumption DEF AdminOK, KeysInv, TableOK, AkKeys
  <2>2. new \notin akGone
    BY <2>1 DEF KeysInv, GoneOK, Ended
  <2>3. TableOK' /\ GoneOK' /\ ClientsOK'
    BY <1>0, <1>1, <2>1, <2>2 DEF KeysInv, TableOK, GoneOK, ClientsOK, Ended
  <2>4. PICK r : akAdmin' = [akAdmin EXCEPT ![a] = r] /\ r = [akAdmin[a] EXCEPT !.at = "audit"]
    BY <1>1 DEF AkTo
  <2>5. {"at", "op", "key", "new"} \subseteq DOMAIN r /\ r.at = "audit" /\ r.op = akAdmin[a].op /\ r.key = akAdmin[a].key
        /\ r.new = akAdmin[a].new
    BY <1>0, <2>4 DEF AdminOK
  <2>6. AdminOK(r)'
    BY <1>0, <1>1, <2>1, <2>5 DEF AdminOK, AkKeys, Fits, AkOps
  <2>7. ASSUME NEW b \in Admins \ {a} PROVE AdminOK(akAdmin[b])' /\ akAdmin'[b] = akAdmin[b]
    <3>1. AdminOK(akAdmin[b]) /\ akAdmin'[b] = akAdmin[b] /\ (akAdmin[b].at = "row" => akAdmin[b].new # new)
      BY <1>0, <2>4, <2>7 DEF KeysInv, AdminsOK
    <3> QED
      BY <1>0, <1>1, <2>1, <3>1 DEF AdminOK, Ended, AkKeys, AkTarget
  <2>8. akAdmin'[a] = r /\ DOMAIN akAdmin' = Admins
    BY <1>0, <2>4
  <2> QED
    BY <2>3, <2>5, <2>6, <2>7, <2>8 DEF KeysInv, AdminsOK
<1>2. CASE akIndexed' = akIndexed \ {akAdmin[a].new} /\ AkTo(a, "idle") /\ UNCHANGED akStore
  <2>1. TableOK' /\ GoneOK' /\ ClientsOK'
    BY <1>0, <1>2 DEF KeysInv, TableOK, GoneOK, ClientsOK, akStore
  <2>2. akAdmin' = [akAdmin EXCEPT ![a] = AkIdle]
    BY <1>2 DEF AkTo
  <2>3. AdminOK(akAdmin[a])' /\ akAdmin'[a].at = "idle" /\ DOMAIN akAdmin' = Admins
    BY <1>0, <2>2, IdleAdmin DEF AdminOK, Fits
  <2>4. ASSUME NEW b \in Admins \ {a} PROVE AdminOK(akAdmin[b])' /\ akAdmin'[b] = akAdmin[b]
    <3>1. AdminOK(akAdmin[b]) /\ akAdmin'[b] = akAdmin[b]
      BY <1>0, <2>2, <2>4 DEF KeysInv, AdminsOK
    <3> QED
      BY <1>0, <1>2, <3>1 DEF AdminOK, akStore, AkTarget
  <2> QED
    BY <2>1, <2>3, <2>4 DEF KeysInv, AdminsOK
<1> QED
  BY <1>1, <1>2 DEF AkStore

\* Audits, transitions and handlers that are dropped change no key.
LEMMA QuietStep ==
  ASSUME KeysInv, NEW a \in Admins, AkAudit(a) \/ AkClose(a) \/ AkPrepare(a) \/ AkClear(a) \/ AkDrop(a)
  PROVE  KeysInv'
<1> DEFINE r == akAdmin[a]
           Now(at) == [akAdmin[a] EXCEPT !.at = at]
<1>0. {"at", "op", "key", "new"} \subseteq DOMAIN r /\ Fits(r)
  BY DEF KeysInv, AdminsOK, AdminOK
<1>m. ASSUME NEW at PROVE Now(at).at = at /\ Now(at).op = r.op /\ Now(at).key = r.key /\ Now(at).new = r.new
  BY <1>0
<1>1. CASE AkAudit(a)
  <2>1. PICK ok \in BOOLEAN :
          AkTo(a, IF ok THEN AfterAudit(r.op) ELSE IF r.op \in {"create", "rotate"} THEN "undo" ELSE "idle")
    BY <1>1 DEF AkAudit
  <2> DEFINE at == IF ok THEN AfterAudit(r.op) ELSE IF r.op \in {"create", "rotate"} THEN "undo" ELSE "idle"
  <2>2. r.op \in AkOps
    BY <1>0, <1>1 DEF AkAudit, Fits
  <2>3. at \notin {"row", "unmake"} /\ (at = "forget" => r.op = "logout")
    BY <2>2 DEF AfterAudit, AkOps
  <2>4. at # "idle" => Fits(Now(at))
    BY <1>0, <1>m, <2>2 DEF AfterAudit, AkOps, Fits
  <2>5. UNCHANGED <<akRow, akMemory, akIssued, akGone, akClient>>
    BY <1>1 DEF AkAudit, akStore, akRest
  <2> QED
    BY <2>1, <2>3, <2>4, <2>5, HandlerMoves
<1>2. CASE AkClose(a)
  BY <1>2, HandlerMoves DEF AkClose, akStore, akRest
<1>3. CASE AkPrepare(a)
  <2>1. PICK at \in {"revoke", "undo"} : AkTo(a, at)
    BY <1>3 DEF AkPrepare
  <2>2. Fits(Now(at))
    BY <1>0, <1>m, <1>3 DEF AkPrepare, Fits
  <2> QED
    BY <1>3, <2>1, <2>2, HandlerMoves DEF AkPrepare, akRest
<1>4. CASE AkClear(a)
  <2>1. PICK at \in {"closing", "idle"} : AkTo(a, at)
    BY <1>4 DEF AkClear
  <2>2. Fits(Now(at))
    BY <1>0, <1>m DEF Fits
  <2> QED
    BY <1>4, <2>1, <2>2, HandlerMoves DEF AkClear, akRest
<1>5. CASE AkDrop(a)
  BY <1>5, HandlerMoves DEF AkDrop, akStore, akRest
<1> QED
  BY <1>1, <1>2, <1>3, <1>4, <1>5

\* The table first: revoke_key, reconcile_rotation_transition, delete_key.
LEMMA EndStep ==
  ASSUME KeysInv, NEW a \in Admins, AkRevoke(a) \/ AkResolve(a) \/ AkDelete(a)
  PROVE  KeysInv'
<1> DEFINE r == akAdmin[a]
           Now(at) == [akAdmin[a] EXCEPT !.at = at]
<1>0. /\ UNCHANGED <<akMemory, akIssued, akGone, akClient>>
      /\ {"at", "op", "key", "new"} \subseteq DOMAIN r /\ Fits(r)
  BY DEF AkRevoke, AkResolve, AkDelete, akRest, KeysInv, AdminsOK, AdminOK
<1>m. ASSUME NEW at PROVE Now(at).at = at /\ Now(at).op = r.op /\ Now(at).key = r.key /\ Now(at).new = r.new
  BY <1>0
<1>f. ASSUME NEW at \in {"forget", "unclear"} PROVE Fits(Now(at))
  BY <1>0, <1>m DEF Fits
<1>1. CASE AkRevoke(a)
  <2> DEFINE k == AkTarget(r)
             at == IF r.at = "undo" THEN "unmake" ELSE "forget"
  <2>0. r.at \in {"revoke", "undo"}
    BY <1>1 DEF AkRevoke
  <2>1. CASE akRow[k] = "active" /\ akRow' = [akRow EXCEPT ![k] = "revoked"] /\ AkTo(a, at)
    <3>1. k \in AkKeys
      BY <1>0, <2>0 DEF AkTarget, Fits
    <3>2. AkTarget(Now(at)) = k
      BY <1>0, <1>m, <2>0 DEF AkTarget, Fits
    <3>3. Fits(Now(at))
      BY <1>0, <1>m, <2>0 DEF Fits
    <3>4. akRow[k] \in {"active", "revoked"} /\ at \in {"forget", "unmake"}
      BY <2>1
    <3>5. AkTo(a, at) /\ akRow' = [akRow EXCEPT ![k] = "revoked"]
      BY <2>1
    <3>6. EndsKey(a, k, "revoked", at)
      BY <1>0, <3>2, <3>3, <3>4, <3>5 DEF EndsKey
    <3> HIDE DEF k, at
    <3> QED
      BY <3>1, <3>4, <3>6, RowEnds
  <2>2. CASE AkTo(a, AfterRevoke(r)) /\ akRow' = akRow
    <3>1. AfterRevoke(r) \in {"unclear", "undo", "idle"} /\ (AfterRevoke(r) = "undo" => r.op = "rotate")
      BY DEF AfterRevoke, Rotating
    <3>2. AfterRevoke(r) # "idle" => Fits(Now(AfterRevoke(r)))
      BY <1>0, <1>m, <3>1 DEF Fits
    <3> QED
      BY <1>0, <2>2, <3>1, <3>2, HandlerMoves
  <2> QED
    BY <1>1, <2>1, <2>2 DEF AkRevoke
<1>2. CASE AkResolve(a)
  <2> DEFINE k == AkTarget(r)
  <2>1. CASE akRow[k] = "active" /\ akRow' = [akRow EXCEPT ![k] = "revoked"] /\ AkTo(a, "forget")
    <3>1. k \in AkKeys /\ AkTarget(Now("forget")) = k
      BY <1>0, <1>m, <1>2 DEF AkTarget, AkResolve, Fits
    <3>2. Fits(Now("forget")) /\ akRow[k] \in {"active", "revoked"}
      BY <1>f, <2>1
    <3>3. EndsKey(a, k, "revoked", "forget")
      BY <1>0, <2>1, <3>1, <3>2 DEF EndsKey
    <3> HIDE DEF k
    <3> QED
      BY <3>1, <3>3, RowEnds
  <2>2. CASE AkTo(a, "idle") /\ akRow' = akRow
    BY <1>0, <2>2, HandlerMoves
  <2> QED
    BY <1>2, <2>1, <2>2 DEF AkResolve, akStore
<1>3. CASE AkDelete(a)
  <2> DEFINE k == r.key
  <2>1. CASE akRow[k] = "revoked" /\ akRow' = [akRow EXCEPT ![k] = "deleted"] /\ AkTo(a, "forget")
    <3>1. k \in AkKeys /\ AkTarget(Now("forget")) = k
      BY <1>0, <1>m, <1>3 DEF AkTarget, AkDelete, Fits
    <3>2. Fits(Now("forget")) /\ akRow[k] \in {"active", "revoked"}
      BY <1>f, <2>1
    <3>3. EndsKey(a, k, "deleted", "forget")
      BY <1>0, <2>1, <3>1, <3>2 DEF EndsKey
    <3> HIDE DEF k
    <3> QED
      BY <3>1, <3>3, RowEnds
  <2>2. CASE AkTo(a, "idle") /\ akRow' = akRow
    BY <1>0, <2>2, HandlerMoves
  <2> QED
    BY <1>3, <2>1, <2>2 DEF AkDelete
<1> QED
  BY <1>1, <1>2, <1>3

\* Then the memory.
LEMMA ForgetStep == ASSUME KeysInv, NEW a \in Admins, AkForget(a) PROVE KeysInv'
<1> DEFINE r == akAdmin[a]
           k == AkTarget(r)
<1>0. /\ UNCHANGED <<akRow, akClient, akIssued>>
      /\ akIndexed' = akIndexed \ {k} /\ akLoaded' = akLoaded \ {k} /\ akGone' = akGone \cup {k}
      /\ r.at \in {"forget", "unmake"} /\ AkTo(a, AfterForget(r))
  BY DEF AkForget, akStore
<1>1. AdminOK(r) /\ DOMAIN akAdmin = Admins
  BY DEF KeysInv, AdminsOK
<1>2. k \in 1 .. akIssued /\ akRow[k] \in Ended
  BY <1>0, <1>1 DEF AdminOK
<1>3. TableOK' /\ GoneOK' /\ ClientsOK'
  BY <1>0, <1>2 DEF KeysInv, TableOK, GoneOK, ClientsOK
<1>4. AfterForget(r) \in {"unclear", "idle", "clear", "closing"}
  BY DEF AfterForget
<1>5. PICK s : /\ akAdmin' = [akAdmin EXCEPT ![a] = s]
               /\ s = IF AfterForget(r) = "idle" THEN AkIdle ELSE [r EXCEPT !.at = AfterForget(r)]
  BY <1>0 DEF AkTo
<1>6. AdminOK(s)' /\ s.at # "row"
  <2>1. CASE AfterForget(r) = "idle"
    BY <1>5, <2>1, IdleAdmin DEF AdminOK, Fits
  <2>2. CASE AfterForget(r) # "idle"
    <3>1. /\ {"at", "op", "key", "new"} \subseteq DOMAIN s /\ s.at = AfterForget(r) /\ s.op = r.op
          /\ s.key = r.key /\ s.new = r.new
      BY <1>1, <1>5, <2>2 DEF AdminOK
    <3> QED
      BY <1>0, <1>1, <1>4, <2>2, <3>1 DEF AdminOK, Fits
  <2> QED
    BY <2>1, <2>2
<1>7. ASSUME NEW b \in Admins \ {a} PROVE AdminOK(akAdmin[b])' /\ akAdmin'[b] = akAdmin[b]
  <2>1. AdminOK(akAdmin[b]) /\ akAdmin'[b] = akAdmin[b]
    BY <1>1, <1>5, <1>7 DEF KeysInv, AdminsOK
  <2> QED
    BY <1>0, <2>1 DEF AdminOK, AkTarget
<1>8. akAdmin'[a] = s /\ DOMAIN akAdmin' = Admins
  BY <1>1, <1>5
<1> QED
  BY <1>3, <1>6, <1>7, <1>8 DEF KeysInv, AdminsOK

\* A session is opened, and the oldest one may be pushed out.
LEMMA SessionStep == ASSUME KeysInv, NEW a \in Admins, AkSession(a) PROVE KeysInv'
<1> DEFINE new == akIssued + 1
           open == {k \in akIndexed : akRow[k] = "session"} \cup {new}
           kept == {k \in open : Cardinality({j \in open : j > k}) < SessionLimit}
           r == akAdmin[a]
<1>0. /\ r.at = "session" /\ akIssued < MaxKeys /\ akIssued' = new /\ akRow' = [akRow EXCEPT ![new] = "session"]
      /\ akIndexed' = (akIndexed \ open) \cup kept /\ akGone' = akGone \cup (open \ kept) /\ AkTo(a, "closing")
      /\ akLoaded' = akLoaded /\ akClient' = akClient
  BY DEF AkSession
<1>1. /\ akIssued \in Nat /\ new \in AkKeys /\ akRow[new] = "unused" /\ DOMAIN akRow = AkKeys
      /\ 1 .. akIssued \subseteq AkKeys
  BY <1>0, ApiKeysAssumption DEF KeysInv, TableOK, AkKeys
<1>2. kept \subseteq open /\ open \subseteq akIndexed \cup {new} /\ \A k \in open : akRow'[k] = "session"
  <2>1. akIndexed \subseteq AkKeys
    BY <1>1 DEF KeysInv, TableOK
  <2> QED
    BY <1>0, <1>1, <2>1
<1> HIDE DEF kept, open
<1>3. TableOK'
  BY <1>0, <1>1, <1>2, ApiKeysAssumption DEF KeysInv, TableOK, AkKeys
<1>4. GoneOK'
  <2>1. ASSUME NEW k \in akGone PROVE k \notin akIndexed' /\ k \notin akLoaded' /\ akRow'[k] \in Ended
    BY <1>0, <1>1, <1>2, <2>1 DEF KeysInv, GoneOK, TableOK, Ended
  <2>2. ASSUME NEW k \in open \ kept PROVE k \notin akIndexed' /\ k \notin akLoaded' /\ akRow'[k] \in Ended
    <3>1. k \notin akIndexed' /\ akRow'[k] \in Ended
      BY <1>0, <1>2, <2>2 DEF Ended
    <3>2. k \notin akLoaded
      <4>1. CASE k = new
        BY <1>1, <4>1 DEF KeysInv, TableOK
      <4>2. CASE k # new
        BY <1>0, <1>1, <1>2, <2>2, <4>2 DEF KeysInv, GoneOK, TableOK
      <4> QED
        BY <4>1, <4>2
    <3> QED
      BY <1>0, <3>1, <3>2
  <2>3. ASSUME NEW k \in akLoaded PROVE akRow'[k] # "session"
    BY <1>0, <1>1, <2>3 DEF KeysInv, GoneOK, TableOK
  <2> QED
    BY <1>0, <2>1, <2>2, <2>3 DEF GoneOK
<1>5. ClientsOK'
  BY <1>0 DEF KeysInv, ClientsOK
<1>6. AdminOK(r) /\ DOMAIN akAdmin = Admins
  BY DEF KeysInv, AdminsOK
<1>7. PICK s : akAdmin' = [akAdmin EXCEPT ![a] = s] /\ s = [r EXCEPT !.at = "closing"]
  BY <1>0 DEF AkTo
<1>8. /\ {"at", "op", "key", "new"} \subseteq DOMAIN s /\ s.at = "closing" /\ s.op = r.op
      /\ s.key = r.key /\ s.new = r.new
  BY <1>6, <1>7 DEF AdminOK
<1>9. \A k \in 1 .. akIssued : akRow'[k] = akRow[k] /\ k \in 1 .. akIssued'
  BY <1>0, <1>1
<1>10. AdminOK(s)'
  BY <1>6, <1>8, <1>9 DEF AdminOK, Fits
<1>11. ASSUME NEW b \in Admins \ {a} PROVE AdminOK(akAdmin[b])' /\ akAdmin'[b] = akAdmin[b]
  <2>1. AdminOK(akAdmin[b]) /\ akAdmin'[b] = akAdmin[b]
    BY <1>6, <1>7, <1>11 DEF KeysInv, AdminsOK
  <2> QED
    BY <1>9, <2>1 DEF AdminOK, AkTarget
<1>12. akAdmin'[a] = s /\ DOMAIN akAdmin' = Admins
  BY <1>6, <1>7
<1> QED
  BY <1>3, <1>4, <1>5, <1>8, <1>10, <1>11, <1>12 DEF KeysInv, AdminsOK

\* Requests that present a key: it is looked up, verified, and looked up again
\* before it moves to the index.
LEMMA ClientStep ==
  ASSUME KeysInv, NEW c \in Clients, AkVerified(c) \/ AkPromote(c) \/ \E k \in AkKeys : AkLookUp(c, k)
  PROVE  KeysInv'
<1>0. UNCHANGED <<akRow, akLoaded, akAdmin, akIssued, akGone>>
  BY DEF AkVerified, AkPromote, AkLookUp, akStore, akMemory
<1>1. AdminsOK'
  BY <1>0 DEF KeysInv, AdminsOK, AdminOK
<1>2. akIndexed \subseteq akIndexed' /\ akIndexed' \subseteq akIndexed \cup akLoaded
  BY DEF AkVerified, AkPromote, AkLookUp, akMemory
<1>3. TableOK' /\ GoneOK'
  BY <1>0, <1>2 DEF KeysInv, TableOK, GoneOK
<1>4. ClientsOK'
  <2>1. CASE AkVerified(c)
    BY <2>1 DEF AkVerified, KeysInv, ClientsOK
  <2>2. CASE AkPromote(c)
    BY <2>2 DEF AkPromote, KeysInv, ClientsOK
  <2>3. CASE \E k \in AkKeys : AkLookUp(c, k)
    <3>1. PICK k \in AkKeys : AkLookUp(c, k)
      BY <2>3
    <3>2. PICK at \in {"known", "verify", "idle"} :
            /\ akClient' = [akClient EXCEPT ![c] = [at |-> at, key |-> k, late |-> k \in akGone]]
            /\ at # "idle" => k \in akIndexed \cup akLoaded
      BY <3>1 DEF AkLookUp
    <3>3. at # "idle" => ~(k \in akGone)
      BY <3>2 DEF KeysInv, GoneOK
    <3> QED
      BY <3>2, <3>3 DEF KeysInv, ClientsOK
  <2> QED
    BY <2>1, <2>2, <2>3
<1> QED
  BY <1>1, <1>3, <1>4 DEF KeysInv

LEMMA RestartStep == ASSUME KeysInv, AkRestart PROVE KeysInv'
<1>0. /\ UNCHANGED <<akRow, akIssued, akGone>>
      /\ akIndexed' = {} /\ akLoaded' = ActiveKeys
      /\ akAdmin' = [a \in Admins |-> AkIdle]
      /\ akClient' = [c \in Clients |-> [akClient[c] EXCEPT !.at = "idle"]]
  BY DEF AkRestart, akStore
<1>1. TableOK' /\ GoneOK'
  BY <1>0, ApiKeysAssumption DEF KeysInv, TableOK, GoneOK, ActiveKeys, AkKeys, Ended
<1>2. AdminsOK'
  BY <1>0, IdleAdmin DEF AdminsOK, AdminOK, Fits
<1>3. ClientsOK'
  BY <1>0 DEF KeysInv, ClientsOK
<1> QED
  BY <1>1, <1>2, <1>3 DEF KeysInv

\* The transitions in the table name keys.
LEMMA LeftStep == KeysInv /\ LeftOK /\ [ApiKeysNext]_akVars => LeftOK'
<1> SUFFICES ASSUME KeysInv, LeftOK, [ApiKeysNext]_akVars PROVE LeftOK'
  OBVIOUS
<1>1. ASSUME NEW a \in Admins, akLeft' \subseteq akLeft \cup {Transition(akAdmin[a], s) : s \in {"created", "prepared"}},
             akAdmin[a].op = "rotate"
      PROVE  LeftOK'
  <2>1. akAdmin[a].key \in AkKeys /\ akAdmin[a].new \in AkKeys
    BY <1>1 DEF KeysInv, AdminsOK, AdminOK, Fits
  <2> QED
    BY <1>1, <2>1 DEF LeftOK, Transition
<1>2. CASE \E a \in Admins : AkStore(a) \/ AkPrepare(a)
  <2>1. PICK a \in Admins : AkStore(a) \/ AkPrepare(a)
    BY <1>2
  <2>2. akLeft' \subseteq akLeft \/ akAdmin[a].op = "rotate"
    BY <2>1 DEF AkStore, AkPrepare, akStore, Rotating, KeysInv, AdminsOK, AdminOK, Fits
  <2>3. akLeft' \subseteq akLeft \cup {Transition(akAdmin[a], s) : s \in {"created", "prepared"}}
    BY <2>1 DEF AkStore, AkPrepare, akStore
  <2> QED
    BY <1>1, <2>2, <2>3 DEF LeftOK
<1>3. CASE \E a \in Admins : AkBegin(a) \/ AkAudit(a) \/ AkClose(a) \/ AkRevoke(a) \/ AkResolve(a) \/ AkForget(a)
                              \/ AkClear(a) \/ AkDelete(a) \/ AkSession(a) \/ AkDrop(a)
  BY <1>3 DEF LeftOK, AkBegin, AkAudit, AkClose, AkRevoke, AkResolve, AkForget, AkClear, AkDelete, AkSession, AkDrop, akStore
<1>4. CASE AkRestart \/ UNCHANGED akVars \/ \E c \in Clients : AkVerified(c) \/ AkPromote(c) \/ \E k \in AkKeys : AkLookUp(c, k)
  BY <1>4 DEF LeftOK, AkRestart, AkVerified, AkPromote, AkLookUp, akStore, akVars
<1> QED
  BY <1>2, <1>3, <1>4 DEF ApiKeysNext

LEMMA KeysStep == KeysInv /\ LeftOK /\ [ApiKeysNext]_akVars => KeysInv'
<1> SUFFICES ASSUME KeysInv, LeftOK, [ApiKeysNext]_akVars PROVE KeysInv'
  OBVIOUS
<1>1. CASE UNCHANGED akVars
  BY <1>1 DEF akVars, KeysInv, TableOK, GoneOK, AdminsOK, AdminOK, ClientsOK
<1>2. CASE ApiKeysNext
  BY <1>2, BeginStep, StoreStep, QuietStep, EndStep, ForgetStep, SessionStep, ClientStep, RestartStep DEF ApiKeysNext
<1> QED
  BY <1>1, <1>2

\* revoke_key, delete_key, the reconciliation of a rotation and the limit on
\* sessions: no request is let in with a key whose end was carried out before
\* the request presented it, whatever is verified, dropped or restarted meanwhile.
THEOREM RevocationHolds == ApiKeysSpec => []RevokedKeysAreRefused
<1>1. ApiKeysInit => LeftOK
  BY DEF ApiKeysInit, LeftOK
<1>2. ApiKeysSpec => [](KeysInv /\ LeftOK)
  BY <1>1, KeysInitially, KeysStep, LeftStep, PTL DEF ApiKeysSpec
<1>3. KeysInv => RevokedKeysAreRefused
  BY DEF KeysInv, ClientsOK, RevokedKeysAreRefused
<1> QED
  BY <1>2, <1>3, PTL

-----------------------------------------------------------------------------
\* record_audit appends only under the head that the table has: whatever was
\* stored by a handler that was dropped before it noted its event in memory, each
\* event of the ledger names the one before it.
THEOREM LedgerVerifies == ApiKeysSpec => []AuditChainVerifies
<1> DEFINE Chained == akChain \in Seq(Nat) /\ AuditChainVerifies
<1>1. ApiKeysInit => Chained
  BY DEF ApiKeysInit, AuditChainVerifies
<1>2. Chained /\ [ApiKeysNext]_akVars => Chained'
  <2> SUFFICES ASSUME Chained, [ApiKeysNext]_akVars PROVE Chained'
    OBVIOUS
  <2>1. akChain' = akChain \/ (akHead = Len(akChain) /\ akChain' = Append(akChain, akHead))
    <3>1. CASE \E a \in Admins : AkAudit(a) \/ AkClose(a)
      BY <3>1 DEF AkAudit, AkClose, Recorded, akAudit
    <3>2. CASE \E a \in Admins : AkDrop(a)
      BY <3>2 DEF AkDrop, akAudit
    <3>3. CASE \E a \in Admins : AkBegin(a) \/ AkStore(a) \/ AkPrepare(a) \/ AkRevoke(a) \/ AkResolve(a) \/ AkForget(a)
                                  \/ AkClear(a) \/ AkDelete(a) \/ AkSession(a)
      BY <3>3 DEF AkBegin, AkStore, AkPrepare, AkRevoke, AkResolve, AkForget, AkClear, AkDelete, AkSession, akAudit
    <3>4. CASE AkRestart \/ UNCHANGED akVars \/ \E c \in Clients : AkVerified(c) \/ AkPromote(c) \/ \E k \in AkKeys : AkLookUp(c, k)
      BY <3>4 DEF AkRestart, AkVerified, AkPromote, AkLookUp, akAudit, akVars
    <3> QED
      BY <3>1, <3>2, <3>3, <3>4 DEF ApiKeysNext
  <2>2. CASE akChain' = akChain
    BY <2>2 DEF AuditChainVerifies
  <2>3. CASE akHead = Len(akChain) /\ akChain' = Append(akChain, akHead)
    <3>1. Len(akChain) \in Nat /\ akHead \in Nat /\ DOMAIN akChain = 1 .. Len(akChain)
      BY <2>3
    <3>2. /\ akChain' \in Seq(Nat) /\ DOMAIN akChain' = 1 .. Len(akChain) + 1
          /\ \A i \in 1 .. Len(akChain) : akChain'[i] = akChain[i]
          /\ akChain'[Len(akChain) + 1] = Len(akChain)
      BY <2>3, <3>1
    <3> QED
      BY <3>1, <3>2 DEF AuditChainVerifies
  <2> QED
    BY <2>1, <2>2, <2>3
<1>3. Chained => AuditChainVerifies
  OBVIOUS
<1> QED
  BY <1>1, <1>2, <1>3, PTL DEF ApiKeysSpec

-----------------------------------------------------------------------------
\* The rows and the lock; the head in memory, never ahead of the chain; and what
\* the handlers are at.
RowsOK == akRow \in [AkKeys -> AkRows]
LockOK == akLock \subseteq Admins
HeadOK == akChain \in Seq(Nat) /\ akHead \in 0 .. Len(akChain)
KnownOp(r) == r.op \in AkOps \cup {"none"}
OpsOK == DOMAIN akAdmin = Admins /\ \A a \in Admins : "op" \in DOMAIN akAdmin[a] /\ KnownOp(akAdmin[a])

\* A row is only ever given one of the states.
LEMMA RowsStep == RowsOK /\ [ApiKeysNext]_akVars => RowsOK'
  <1> SUFFICES ASSUME RowsOK, [ApiKeysNext]_akVars PROVE RowsOK'
    OBVIOUS
  <1>1. akRow' = akRow \/ \E state \in AkRows : \E k : akRow' = [akRow EXCEPT ![k] = state]
    <2> USE DEF AkRows
    <2>1. CASE \E a \in Admins : AkBegin(a) \/ AkAudit(a) \/ AkClose(a) \/ AkPrepare(a) \/ AkForget(a) \/ AkClear(a) \/ AkDrop(a)
      BY <2>1 DEF AkBegin, AkAudit, AkClose, AkPrepare, AkForget, AkClear, AkDrop, akStore
    <2>2. CASE \E a \in Admins : AkStore(a)
      BY <2>2 DEF AkStore, akStore
    <2>3. CASE \E a \in Admins : AkRevoke(a)
      BY <2>3 DEF AkRevoke
    <2>4. CASE \E a \in Admins : AkResolve(a)
      BY <2>4 DEF AkResolve, akStore
    <2>5. CASE \E a \in Admins : AkDelete(a)
      BY <2>5 DEF AkDelete
    <2>6. CASE \E a \in Admins : AkSession(a)
      BY <2>6 DEF AkSession
    <2>7. CASE AkRestart \/ UNCHANGED akVars \/ \E c \in Clients : AkVerified(c) \/ AkPromote(c) \/ \E k \in AkKeys : AkLookUp(c, k)
      BY <2>7 DEF AkRestart, AkVerified, AkPromote, AkLookUp, akStore, akVars
    <2> QED
      BY <2>1, <2>2, <2>3, <2>4, <2>5, <2>6, <2>7 DEF ApiKeysNext
  <1> QED
    BY <1>1 DEF RowsOK

\* The lock is taken by the handler that runs, and released by it or by a restart.
LEMMA LockStep == LockOK /\ [ApiKeysNext]_akVars => LockOK'
  <1> SUFFICES ASSUME LockOK, [ApiKeysNext]_akVars PROVE LockOK'
    OBVIOUS
  <1>1. akLock' \subseteq akLock \/ \E a \in Admins : akLock' = {a}
    <2>1. CASE \E a \in Admins : AkBegin(a) \/ AkStore(a) \/ AkAudit(a) \/ AkClose(a) \/ AkPrepare(a) \/ AkClear(a) \/ AkSession(a)
      BY <2>1 DEF AkBegin, AkStore, AkAudit, AkClose, AkPrepare, AkClear, AkSession
    <2>2. CASE \E a \in Admins : AkForget(a) \/ AkDrop(a)
      BY <2>2 DEF AkForget, AkDrop
    <2>3. CASE \E a \in Admins : AkRevoke(a) \/ AkResolve(a) \/ AkDelete(a)
      BY <2>3 DEF AkRevoke, AkResolve, AkDelete
    <2>4. CASE AkRestart \/ UNCHANGED akVars \/ \E c \in Clients : AkVerified(c) \/ AkPromote(c) \/ \E k \in AkKeys : AkLookUp(c, k)
      BY <2>4 DEF AkRestart, AkVerified, AkPromote, AkLookUp, akVars
    <2> QED
      BY <2>1, <2>2, <2>3, <2>4 DEF ApiKeysNext
  <1> QED
    BY <1>1 DEF LockOK

\* The head follows the chain when an event is stored and noted, or the process starts.
LEMMA HeadStep == HeadOK /\ [ApiKeysNext]_akVars => HeadOK'
  <1> SUFFICES ASSUME HeadOK, [ApiKeysNext]_akVars PROVE HeadOK'
    OBVIOUS
  <1>1. \/ UNCHANGED akAudit
        \/ akChain' = akChain /\ akHead' = Len(akChain)
        \/ akChain' = Append(akChain, akHead) /\ akHead' \in {akHead, Len(akChain')}
    <2>1. CASE \E a \in Admins : AkAudit(a) \/ AkClose(a)
      BY <2>1 DEF AkAudit, AkClose, Recorded
    <2>2. CASE \E a \in Admins : AkDrop(a)
      BY <2>2 DEF AkDrop
    <2>3. CASE \E a \in Admins : AkBegin(a) \/ AkStore(a) \/ AkPrepare(a) \/ AkRevoke(a) \/ AkResolve(a) \/ AkForget(a)
                                  \/ AkClear(a) \/ AkDelete(a) \/ AkSession(a)
      BY <2>3 DEF AkBegin, AkStore, AkPrepare, AkRevoke, AkResolve, AkForget, AkClear, AkDelete, AkSession
    <2>4. CASE AkRestart
      BY <2>4 DEF AkRestart
    <2>5. CASE UNCHANGED akVars \/ \E c \in Clients : AkVerified(c) \/ AkPromote(c) \/ \E k \in AkKeys : AkLookUp(c, k)
      BY <2>5 DEF AkVerified, AkPromote, AkLookUp, akVars, akAudit
    <2> QED
      BY <2>1, <2>2, <2>3, <2>4, <2>5 DEF ApiKeysNext
  <1>2. CASE akChain' = Append(akChain, akHead) /\ akHead' \in {akHead, Len(akChain')}
    <2>1. akChain' \in Seq(Nat) /\ Len(akChain') = Len(akChain) + 1 /\ Len(akChain) \in Nat
      BY <1>2 DEF HeadOK
    <2> QED
      BY <1>2, <2>1 DEF HeadOK
  <1>3. CASE UNCHANGED akAudit \/ (akChain' = akChain /\ akHead' = Len(akChain))
    <2>1. Len(akChain) \in Nat
      BY DEF HeadOK
    <2> QED
      BY <1>3, <2>1 DEF HeadOK, akAudit
  <1> QED
    BY <1>1, <1>2, <1>3

\* A handler keeps its operation until it ends.
LEMMA OpsStep == OpsOK /\ [ApiKeysNext]_akVars => OpsOK'
  <1> SUFFICES ASSUME OpsOK, [ApiKeysNext]_akVars PROVE OpsOK'
    OBVIOUS
  <1>0. "op" \in DOMAIN AkIdle /\ KnownOp(AkIdle)
    BY DEF AkIdle, KnownOp
  <1>1. ASSUME NEW a \in Admins, NEW r, akAdmin' = [akAdmin EXCEPT ![a] = r], "op" \in DOMAIN r, KnownOp(r) PROVE OpsOK'
    <2>1. DOMAIN akAdmin' = Admins /\ \A b \in Admins : akAdmin'[b] = IF b = a THEN r ELSE akAdmin[b]
      BY <1>1 DEF OpsOK
    <2> QED
      BY <1>1, <2>1 DEF OpsOK, KnownOp
  <1>2. ASSUME NEW a \in Admins, NEW to, AkTo(a, to) PROVE OpsOK'
    <2> DEFINE r == IF to = "idle" THEN AkIdle ELSE [akAdmin[a] EXCEPT !.at = to]
    <2>1. akAdmin' = [akAdmin EXCEPT ![a] = r]
      BY <1>2 DEF AkTo
    <2>2. "op" \in DOMAIN akAdmin[a] /\ KnownOp(akAdmin[a])
      BY DEF OpsOK
    <2>3. "op" \in DOMAIN r /\ KnownOp(r)
      BY <1>0, <2>2 DEF KnownOp
    <2> HIDE DEF r
    <2> QED
      BY <1>1, <2>1, <2>3
  <1>3. CASE \E a \in Admins : AkBegin(a)
    <2> PICK a \in Admins : AkBegin(a)
      BY <1>3
    <2>1. \E op \in AkOps : \E at, key, new : akAdmin' = [akAdmin EXCEPT ![a] = [at |-> at, op |-> op, key |-> key, new |-> new]]
      BY DEF AkBegin, AkCreate, AkRotate, AkEnd, AkReconcile, AkLogin, AkLogout, AkIssue, AkStarts, AkOps
    <2>2. PICK op \in AkOps : \E at, key, new : akAdmin' = [akAdmin EXCEPT ![a] = [at |-> at, op |-> op, key |-> key, new |-> new]]
      BY <2>1
    <2>3. PICK at, key, new : akAdmin' = [akAdmin EXCEPT ![a] = [at |-> at, op |-> op, key |-> key, new |-> new]]
      BY <2>2
    <2> DEFINE r == [at |-> at, op |-> op, key |-> key, new |-> new]
    <2>4. "op" \in DOMAIN r /\ KnownOp(r)
      BY DEF KnownOp
    <2>5. akAdmin' = [akAdmin EXCEPT ![a] = r]
      BY <2>3
    <2> HIDE DEF r
    <2> QED
      BY <1>1, <2>4, <2>5
  <1>4. CASE \E a \in Admins : AkStore(a) \/ AkAudit(a) \/ AkClose(a) \/ AkPrepare(a) \/ AkRevoke(a) \/ AkResolve(a) \/ AkForget(a)
                                \/ AkClear(a) \/ AkDelete(a) \/ AkSession(a) \/ AkDrop(a)
    <2>1. PICK a \in Admins : \E to : AkTo(a, to)
      BY <1>4 DEF AkStore, AkAudit, AkClose, AkPrepare, AkRevoke, AkResolve, AkForget, AkClear, AkDelete, AkSession, AkDrop
    <2> QED
      BY <1>2, <2>1
  <1>5. CASE AkRestart
    <2>1. akAdmin' = [a \in Admins |-> AkIdle]
      BY <1>5 DEF AkRestart
    <2> QED
      BY <1>0, <2>1 DEF OpsOK, KnownOp
  <1>6. CASE UNCHANGED akVars \/ \E c \in Clients : AkVerified(c) \/ AkPromote(c) \/ \E k \in AkKeys : AkLookUp(c, k)
    BY <1>6 DEF AkVerified, AkPromote, AkLookUp, akVars, OpsOK, KnownOp
  <1> QED
    BY <1>3, <1>4, <1>5, <1>6 DEF ApiKeysNext

\* The types of the variables of the API keys, and a head in memory that is never
\* ahead of the ledger: ApiKeysTypeOK.
LEMMA ApiKeysTypes == ApiKeysSpec => []ApiKeysTypeOK
  <1>1. ApiKeysInit => RowsOK /\ LockOK /\ HeadOK /\ OpsOK /\ LeftOK
    <2> SUFFICES ASSUME ApiKeysInit PROVE RowsOK /\ LockOK /\ HeadOK /\ OpsOK /\ LeftOK
      OBVIOUS
    <2>1. RowsOK
      BY DEF ApiKeysInit, RowsOK, AkRows
    <2>2. HeadOK
      BY DEF ApiKeysInit, HeadOK
    <2>3. "op" \in DOMAIN AkIdle /\ KnownOp(AkIdle)
      BY DEF AkIdle, KnownOp
    <2>4. OpsOK
      BY <2>3 DEF ApiKeysInit, OpsOK
    <2> QED
      BY <2>1, <2>2, <2>4 DEF ApiKeysInit, LockOK, LeftOK
  <1>2. KeysInv /\ RowsOK /\ LockOK /\ HeadOK /\ OpsOK /\ LeftOK => ApiKeysTypeOK
    BY DEF KeysInv, TableOK, RowsOK, LockOK, HeadOK, OpsOK, KnownOp, LeftOK, ApiKeysTypeOK
  <1> QED
    BY <1>1, <1>2, KeysInitially, KeysStep, LeftStep, RowsStep, LockStep, HeadStep, OpsStep, PTL DEF ApiKeysSpec
=============================================================================
