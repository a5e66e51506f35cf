------------------------------ MODULE TokenStore ------------------------------
(* The access tokens of Feishu and QQ: a cached token, refreshed by one caller  *)
(* at a time, and the requests that use it: a request whose token the platform  *)
(* refuses forces a refresh and is made once more.                              *)
EXTENDS Integers, FiniteSets

CONSTANTS Callers,                \* concurrent requests
          MaxTkRequests,          \* bound: requests begun
          MaxTkEvents             \* bound: tokens that run out, revocations, failed fetches
ASSUME TokenAssumption ==
  IsFiniteSet(Callers) /\ "nobody" \notin Callers /\ MaxTkRequests \in Nat /\ MaxTkEvents \in Nat

VARIABLES
  tkStore,          \* the cached token (0: none) and whether it is not within its margin
  tkLock,           \* who holds refresh_lock
  tkCaller,         \* per caller: at, the token in hand, the one refused
  tkIssued,         \* tokens issued, numbered in order
  tkTaken,          \* the oldest token the platform still takes
  tkDue,            \* ghost: reasons to fetch so far
  tkRequests, tkEvents
tkVars == <<tkStore, tkLock, tkCaller, tkIssued, tkTaken, tkDue, tkRequests, tkEvents>>

Nobody == "nobody"
TkIdle == [at |-> "idle", token |-> 0, refused |-> 0, reply |-> "none"]
TokenInit ==
  /\ tkStore = [token |-> 0, good |-> FALSE] /\ tkLock = Nobody /\ tkCaller = [c \in Callers |-> TkIdle]
  /\ tkIssued = 0 /\ tkTaken = 1 /\ tkDue = 1 /\ tkRequests = 0 /\ tkEvents = 0

Cached == tkStore.token > 0 /\ tkStore.good
CallerGoes(c, r) == tkCaller' = [tkCaller EXCEPT ![c] = r]

\* send_with_token_retry: the cached token, or wait for the lock.
TkRequest(c) ==
  /\ tkCaller[c].at = "idle" /\ tkRequests < MaxTkRequests /\ tkRequests' = tkRequests + 1
  /\ CallerGoes(c, IF Cached THEN [TkIdle EXCEPT !.at = "send", !.token = tkStore.token] ELSE [TkIdle EXCEPT !.at = "get"])
  /\ UNCHANGED <<tkStore, tkLock, tkIssued, tkTaken, tkDue, tkEvents>>

\* Mutant: the second look under the lock is taken also when forced.
TkEnter_AlwaysLooks(c) ==
  /\ tkLock = Nobody /\ tkCaller[c].at \in {"get", "force"}
  /\ IF Cached
     THEN CallerGoes(c, [tkCaller[c] EXCEPT !.at = "send", !.token = tkStore.token]) /\ UNCHANGED tkLock
     ELSE CallerGoes(c, [tkCaller[c] EXCEPT !.at = "fetch"]) /\ tkLock' = c
  /\ UNCHANGED <<tkStore, tkIssued, tkTaken, tkDue, tkRequests, tkEvents>>

\* refresh_inner: under the lock, a token that came meanwhile will do, unless forced.
TkEnter(c) ==
  /\ tkLock = Nobody /\ tkCaller[c].at \in {"get", "force"}
  /\ IF Cached /\ tkCaller[c].at = "get"
     THEN CallerGoes(c, [tkCaller[c] EXCEPT !.at = "send", !.token = tkStore.token]) /\ UNCHANGED tkLock
     ELSE CallerGoes(c, [tkCaller[c] EXCEPT !.at = "fetch"]) /\ tkLock' = c
  /\ UNCHANGED <<tkStore, tkIssued, tkTaken, tkDue, tkRequests, tkEvents>>

\* The platform answers with a token; or the fetch fails, and the caller returns
\* its error or that of the request that was refused.
TkFetch(c) ==
  /\ tkCaller[c].at = "fetch" /\ tkLock' = Nobody
  /\ tkIssued' = tkIssued + 1 /\ tkStore' = [token |-> tkIssued', good |-> TRUE]
  /\ CallerGoes(c, [tkCaller[c] EXCEPT !.at = "send", !.token = tkIssued'])
  /\ UNCHANGED <<tkEvents, tkDue, tkTaken, tkRequests>>
TkFetchFails(c) ==
  /\ tkCaller[c].at = "fetch" /\ tkLock' = Nobody
  /\ tkEvents < MaxTkEvents /\ tkEvents' = tkEvents + 1
  /\ CallerGoes(c, [TkIdle EXCEPT !.reply = "err"])
  /\ UNCHANGED <<tkIssued, tkStore, tkDue, tkTaken, tkRequests>>

\* The request is made; refused for its token, it is made once more.
TkSend(c) ==
  /\ tkCaller[c].at = "send"
  /\ IF tkCaller[c].token >= tkTaken
     THEN CallerGoes(c, [TkIdle EXCEPT !.reply = "ok"]) /\ UNCHANGED tkDue
     ELSE IF tkCaller[c].refused = 0
     THEN CallerGoes(c, [tkCaller[c] EXCEPT !.at = "force", !.refused = tkCaller[c].token]) /\ tkDue' = tkDue + 1
     ELSE CallerGoes(c, [TkIdle EXCEPT !.reply = "err"]) /\ UNCHANGED tkDue
  /\ UNCHANGED <<tkStore, tkLock, tkIssued, tkTaken, tkRequests, tkEvents>>

\* The token comes within its margin; the platform revokes what it has issued.
TkRunsOut ==
  /\ Cached /\ tkEvents < MaxTkEvents /\ tkEvents' = tkEvents + 1
  /\ tkStore' = [tkStore EXCEPT !.good = FALSE] /\ tkDue' = tkDue + 1
  /\ UNCHANGED <<tkLock, tkCaller, tkIssued, tkTaken, tkRequests>>
TkRevoke ==
  /\ tkIssued >= tkTaken /\ tkEvents < MaxTkEvents /\ tkEvents' = tkEvents + 1 /\ tkTaken' = tkIssued + 1
  /\ UNCHANGED <<tkStore, tkLock, tkCaller, tkIssued, tkDue, tkRequests>>

TokenNext == (\E c \in Callers : TkRequest(c) \/ TkEnter(c) \/ TkFetch(c) \/ TkFetchFails(c) \/ TkSend(c)) \/ TkRunsOut \/ TkRevoke

TokenTypeOK ==
  /\ tkStore.token \in 0 .. tkIssued /\ tkLock \in Callers \cup {Nobody}
  /\ \A c \in Callers : tkCaller[c].at \in {"idle", "get", "force", "fetch", "send"}

-----------------------------------------------------------------------------
\* A request that was refused for its token is made again with a newer one only,
\* whoever refreshed meanwhile; and however many requests wait for a token, no
\* more are fetched than there were reasons to (none yet, run out, refused).
TokensAreRenewedOnce ==
  /\ \A c \in Callers : tkCaller[c].at = "send" => tkCaller[c].token > tkCaller[c].refused
  /\ tkIssued <= tkDue
=============================================================================
