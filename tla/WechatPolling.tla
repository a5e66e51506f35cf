---------------------------- MODULE WechatPolling ----------------------------
(* The personal WeChat adapter: login by QR code, the long poll for messages   *)
(* with its cursor, and what it keeps on disk. The cursor is written by tasks   *)
(* of their own, in no order, and before the messages it passes are published;  *)
(* an instance of the adapter that stops is replaced by one that reads the disk.*)
EXTENDS Integers, Sequences, FiniteSets

CONSTANTS MaxWxMessages,          \* bound: messages users write
          MaxWxFaults,            \* bound: revoked logins, failed polls, stops, kills
          MaxWxExpired,           \* SESSION_EXPIRED_MAX_CONSECUTIVE
          MaxWxFailures           \* consecutive failed polls before the loop ends
ASSUME WechatAssumption == MaxWxMessages \in Nat /\ MaxWxFaults \in Nat /\ MaxWxExpired \in Nat \ {0} /\ MaxWxFailures \in Nat \ {0}

VARIABLES
  wxKinds,          \* messages at the platform, in order: "user", "bot", "bad"
  wxValid,          \* the login the platform accepts, counted from 1; 0 is none
  wx,               \* the instance: at, its token, cursor, counters and batch
  wxDisk,           \* credentials (0: none) and cursor
  wxSaves,          \* cursors that tasks are about to write
  wxOut,            \* positions published as message.inbound
  wxKilled,         \* ghost: positions a killed process had in hand
  wxFaults
wxVars == <<wxKinds, wxValid, wx, wxDisk, wxSaves, wxOut, wxKilled, wxFaults>>

Wanted == {i \in DOMAIN wxKinds : wxKinds[i] = "user"}

WxOff == [at |-> "off", token |-> 0, cursor |-> 0, expired |-> 0, failed |-> 0, till |-> 0]
WechatInit ==
  /\ wxKinds = <<>> /\ wxValid = 1 /\ wx = WxOff /\ wxDisk = [token |-> 0, cursor |-> 0]
  /\ wxSaves = {} /\ wxOut = {} /\ wxKilled = {} /\ wxFaults = 0

\* A new instance takes the credentials and the cursor from disk; without
\* credentials it shows a QR code.
WxStart ==
  /\ wx.at = "off"
  /\ wx' = [WxOff EXCEPT !.at = IF wxDisk.token = 0 THEN "login" ELSE "poll", !.token = wxDisk.token, !.cursor = wxDisk.cursor]
  /\ UNCHANGED <<wxKinds, wxValid, wxDisk, wxSaves, wxOut, wxKilled, wxFaults>>

\* The user confirms on the phone; the new credentials go to memory and disk.
\* A request that fails, or five minutes, end the connect call.
WxLogin ==
  /\ wx.at = "login"
  /\ \/ wx' = [wx EXCEPT !.at = "poll", !.token = wxValid] /\ wxDisk' = [wxDisk EXCEPT !.token = wxValid]
     \/ wx' = WxOff /\ UNCHANGED wxDisk
  /\ UNCHANGED <<wxKinds, wxValid, wxSaves, wxOut, wxKilled, wxFaults>>

Polling == wx.at = "poll" /\ UNCHANGED <<wxKinds, wxValid, wxKilled>>

\* The answer holds the messages past the cursor that parse. Their new cursor
\* is taken over, a task is told to save it, and only then are they published.
WxMessages ==
  /\ Polling /\ wx.token = wxValid
  /\ \E k \in wx.cursor + 1 .. Len(wxKinds) :
       /\ \E i \in wx.cursor + 1 .. k : wxKinds[i] # "bad"
       /\ wx' = [wx EXCEPT !.at = "publish", !.cursor = k, !.till = wx.cursor, !.expired = 0, !.failed = 0]
       /\ wxSaves' = wxSaves \cup {k}
  /\ UNCHANGED <<wxDisk, wxOut, wxFaults>>

WxPublish ==
  /\ wx.at = "publish" /\ wx' = [wx EXCEPT !.at = "poll"]
  /\ wxOut' = wxOut \cup {i \in Wanted : wx.till < i /\ i <= wx.cursor}
  /\ UNCHANGED <<wxKinds, wxValid, wxDisk, wxSaves, wxKilled, wxFaults>>

\* No message, or none that parses: the cursor stays.
WxTimeout ==
  /\ Polling /\ wx.token = wxValid /\ \A i \in DOMAIN wxKinds : i > wx.cursor => wxKinds[i] = "bad"
  /\ wx' = [wx EXCEPT !.expired = 0, !.failed = 0] /\ UNCHANGED <<wxDisk, wxSaves, wxOut, wxFaults>>

\* 401: the credentials are removed and the loop ends.
WxRefused ==
  /\ Polling /\ wx.token # wxValid
  /\ wxDisk' = [wxDisk EXCEPT !.token = 0] /\ wx' = WxOff
  /\ UNCHANGED <<wxSaves, wxOut, wxFaults>>

\* -14: wait ten minutes; the third in a row counts as a refusal.
WxExpired ==
  /\ Polling /\ wxFaults < MaxWxFaults /\ wxFaults' = wxFaults + 1
  /\ IF wx.expired + 1 >= MaxWxExpired
     THEN wx' = WxOff /\ wxDisk' = [wxDisk EXCEPT !.token = 0]
     ELSE wx' = [wx EXCEPT !.at = "pause", !.expired = @ + 1] /\ UNCHANGED wxDisk
  /\ UNCHANGED <<wxSaves, wxOut>>
WxResume ==
  /\ wx.at = "pause" /\ wx' = [wx EXCEPT !.at = "poll", !.failed = 0]
  /\ UNCHANGED <<wxKinds, wxValid, wxDisk, wxSaves, wxOut, wxKilled, wxFaults>>

\* Any other failure: after too many in a row the loop ends, with credentials.
WxFails ==
  /\ Polling /\ wxFaults < MaxWxFaults /\ wxFaults' = wxFaults + 1
  /\ wx' = IF wx.failed + 1 >= MaxWxFailures THEN WxOff ELSE [wx EXCEPT !.failed = @ + 1]
  /\ UNCHANGED <<wxDisk, wxSaves, wxOut>>

\* Mutant: the loop can be cancelled with a batch in hand.
WxStop_Anywhere ==
  /\ wx.at # "off" /\ wxFaults < MaxWxFaults /\ wxFaults' = wxFaults + 1
  /\ wx' = WxOff /\ UNCHANGED <<wxKinds, wxValid, wxDisk, wxSaves, wxOut, wxKilled>>

\* disconnect(): the loop looks at the signal between polls and while it pauses.
WxStop ==
  /\ wx.at \in {"poll", "pause"} /\ wxFaults < MaxWxFaults /\ wxFaults' = wxFaults + 1
  /\ wx' = WxOff /\ UNCHANGED <<wxKinds, wxValid, wxDisk, wxSaves, wxOut, wxKilled>>

SaveCursor ==
  /\ \E c \in wxSaves : wxDisk' = [wxDisk EXCEPT !.cursor = c] /\ wxSaves' = wxSaves \ {c}
  /\ UNCHANGED <<wxKinds, wxValid, wx, wxOut, wxKilled, wxFaults>>

WxKill ==
  /\ wx.at # "off" /\ wxFaults < MaxWxFaults /\ wxFaults' = wxFaults + 1
  /\ wxKilled' = wxKilled \cup (IF wx.at = "publish" THEN wx.till + 1 .. wx.cursor ELSE {})
  /\ wx' = WxOff /\ wxSaves' = {} /\ UNCHANGED <<wxKinds, wxValid, wxDisk, wxOut>>

\* The platform: a message arrives; a login is revoked.
WxArrives ==
  /\ Len(wxKinds) < MaxWxMessages /\ \E k \in {"user", "bot", "bad"} : wxKinds' = Append(wxKinds, k)
  /\ UNCHANGED <<wxValid, wx, wxDisk, wxSaves, wxOut, wxKilled, wxFaults>>
WxRevoke ==
  /\ wxFaults < MaxWxFaults /\ wxFaults' = wxFaults + 1 /\ wxValid' = wxValid + 1
  /\ UNCHANGED <<wxKinds, wx, wxDisk, wxSaves, wxOut, wxKilled>>

WxLoop == WxMessages \/ WxPublish \/ WxTimeout \/ WxRefused \/ WxExpired \/ WxResume \/ WxFails
WechatNext == WxStart \/ WxLogin \/ WxLoop \/ WxStop \/ SaveCursor \/ WxKill \/ WxArrives \/ WxRevoke

WechatTypeOK ==
  /\ wx.at \in {"off", "login", "poll", "publish", "pause"} /\ wx.cursor \in 0 .. Len(wxKinds)
  /\ wxDisk.cursor \in 0 .. Len(wxKinds) /\ wxOut \subseteq Wanted /\ wxFaults \in 0 .. MaxWxFaults
  /\ wx.expired < MaxWxExpired /\ wx.failed < MaxWxFailures

-----------------------------------------------------------------------------
\* However the tasks that save it are ordered, and whoever replaces whom, the
\* cursor on disk passes a user's message only when it was published or is about
\* to be; a process that is killed with a batch in hand may lose that batch.
WxCursorSkipsNothing ==
  \A i \in Wanted : i <= wxDisk.cursor =>
    i \in wxOut \cup wxKilled \/ (wx.at = "publish" /\ wx.till < i /\ i <= wx.cursor)

=============================================================================
