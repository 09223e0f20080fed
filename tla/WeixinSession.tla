--------------------------- MODULE WeixinSession ---------------------------
(***************************************************************************)
(* The login session of the Weixin client: its copy in memory, its file    *)
(* session.json, the update cursor in sync.json, and everything that       *)
(* creates, uses or drops them (internal/weixin/client.go), driven by the  *)
(* login and polling loop of cmd/gocq/weixin_start.go and by the           *)
(* goroutines that serve OneBot send actions.                              *)
(*                                                                         *)
(* Processes: one Poller (the goroutine of StartWeixin, later of           *)
(* pollWeixinEvents, the only one that logs in) and a set of Senders (one  *)
(* per concurrent API request).  They share c.session under c.mu and the   *)
(* two files under no lock at all.                                         *)
(*                                                                         *)
(* The Weixin server hands out a fresh token for every confirmed scan and  *)
(* may revoke it at any time; it answers 401/403 to revoked tokens only.   *)
(* A token stands for the whole session record; AccountOf is its           *)
(* SelfRawID.  A cursor is represented by the account it was issued for.   *)
(***************************************************************************)
EXTENDS Naturals, FiniteSets

CONSTANTS Tokens,       \* bot tokens the server can issue
          Accounts,     \* raw ids of the accounts that may scan the code
          AccountOf,    \* the account each token belongs to
          Senders,      \* goroutines serving send actions
          Poller,       \* the login/poll goroutine
          None,         \* nil session, absent file, empty cursor
          Torn,         \* a file truncated but not yet (or never) rewritten
          MaxCrashes    \* bound: process deaths considered

ASSUME SessionAssumption ==
    /\ AccountOf \in [Tokens -> Accounts]
    /\ Poller \notin Senders
    /\ None \notin Tokens \cup Accounts
    /\ Torn \notin Tokens \cup Accounts \cup {None}
    /\ MaxCrashes \in Nat

Procs == Senders \cup {Poller}

VARIABLES
    issued,       \* tokens the server has handed out
    revoked,      \* tokens the server no longer accepts
    sessionFile,  \* session.json
    syncFile,     \* sync.json
    session,      \* c.session
    selfRaw,      \* WeixinRuntime.SelfRawID, None until the runtime exists
    pc,           \* control state of each process
    tok,          \* the session snapshot a process works with
    buf,          \* the cursor the poller holds
    crashes,      \* process deaths so far
    dropped,      \* history: tokens whose rejection has been fully recorded
    exposures     \* history: unsafe overlaps that have happened so far

serverVars == <<issued, revoked>>
diskVars   == <<sessionFile, syncFile>>
memVars    == <<session, selfRaw>>
procVars   == <<pc, tok, buf>>
histVars   == <<dropped, exposures>>
vars == <<serverVars, diskVars, memVars, procVars, crashes, histVars>>

SenderPCs == {"idle", "await", "forget", "rmSession", "rmSync"}
PollerPCs == {"down", "ensure", "qr", "scan", "save", "write", "setMem",
              "confirm", "adopt", "poll", "loadBuf", "await", "saveBuf",
              "writeBuf", "dispatch", "forget", "rmSession", "rmSync"}

Exposures == {"overtaken", "lateCursor", "halfRemoved"}

Goto(p, l) == pc' = [pc EXCEPT ![p] = l]

-----------------------------------------------------------------------------
(* The server, outside the process.                                        *)

\* The account logs out elsewhere or the token expires.
Revoke(t) ==
    /\ t \in issued \ revoked
    /\ revoked' = revoked \cup {t}
    /\ UNCHANGED <<issued, diskVars, memVars, procVars, crashes, histVars>>

-----------------------------------------------------------------------------
(* Start, login and relogin: StartWeixin, ensureWeixinLogin, WaitQRLogin.  *)

\* NewClient: loadSession accepts only a complete file.
Restart ==
    /\ pc[Poller] = "down"
    /\ session' = IF sessionFile \in Tokens THEN sessionFile ELSE None
    /\ Goto(Poller, "ensure")
    /\ UNCHANGED <<serverVars, diskVars, selfRaw, tok, buf, crashes, histVars>>

\* Mutant: the QR login starts without asking Self() first.
EnsureLoginBlindly ==
    /\ pc[Poller] = "ensure"
    /\ Goto(Poller, "qr")
    /\ UNCHANGED <<serverVars, diskVars, memVars, tok, buf, crashes, histVars>>

\* First Self() call of ensureWeixinLogin: a live session is adopted as is,
\* otherwise a QR login starts.
EnsureLogin ==
    /\ pc[Poller] = "ensure"
    /\ \/ /\ session # None
          /\ tok' = [tok EXCEPT ![Poller] = session]
          /\ Goto(Poller, "adopt")
       \/ /\ session = None
          /\ Goto(Poller, "qr")
          /\ UNCHANGED tok
    /\ UNCHANGED <<serverVars, diskVars, memVars, buf, crashes, histVars>>

\* A failed login is fatal in StartWeixin (no runtime yet) and retried by
\* pollWeixinEvents through its next Poll.
LoginFails ==
    /\ Goto(Poller, IF selfRaw = None THEN "down" ELSE "poll")
    /\ tok' = [tok EXCEPT ![Poller] = None]

StartQRLogin ==
    /\ pc[Poller] = "qr"
    /\ \/ Goto(Poller, "scan") /\ UNCHANGED tok
       \/ LoginFails
    /\ UNCHANGED <<serverVars, diskVars, memVars, buf, crashes, histVars>>

\* pollQRStatus answers "confirmed" with a token.  ("wait", and "confirmed"
\* without a token, go round the loop.)
ScanConfirmed(t) ==
    /\ pc[Poller] = "scan"
    /\ t \in Tokens \ issued
    /\ issued' = issued \cup {t}
    /\ tok' = [tok EXCEPT ![Poller] = t]
    /\ Goto(Poller, "save")
    /\ UNCHANGED <<revoked, diskVars, memVars, buf, crashes, histVars>>

\* "expired", the deadline, or an error of the status request.
ScanFails ==
    /\ pc[Poller] = "scan"
    /\ LoginFails
    /\ UNCHANGED <<serverVars, diskVars, memVars, buf, crashes, histVars>>

\* saveSession opens session.json, which truncates it.
OpenSession ==
    /\ pc[Poller] = "save"
    /\ \/ /\ sessionFile' = Torn
          /\ Goto(Poller, "write")
          /\ UNCHANGED tok
       \/ LoginFails /\ UNCHANGED sessionFile
    /\ UNCHANGED <<serverVars, syncFile, memVars, buf, crashes, histVars>>

\* Mutant: saveSession goes on after a failed write.
WriteSessionUnchecked ==
    /\ pc[Poller] = "write"
    /\ sessionFile' \in {sessionFile, tok[Poller]}
    /\ Goto(Poller, "setMem")
    /\ UNCHANGED <<serverVars, syncFile, memVars, tok, buf, crashes, histVars>>

\* The write of session.json ends.  If the file was removed meanwhile the
\* bytes go to the unlinked inode.  A write error leaves c.session alone.
WriteSession ==
    /\ pc[Poller] = "write"
    /\ \/ /\ sessionFile' = IF sessionFile = Torn THEN tok[Poller]
                                                  ELSE sessionFile
          /\ Goto(Poller, "setMem")
          /\ UNCHANGED tok
       \/ LoginFails /\ UNCHANGED sessionFile
    /\ UNCHANGED <<serverVars, syncFile, memVars, buf, crashes, histVars>>

Overtaken == \E s \in Senders : pc[s] \in {"rmSession", "rmSync"}

SetSession ==
    /\ pc[Poller] = "setMem"
    /\ session' = tok[Poller]
    /\ exposures' = IF Overtaken THEN exposures \cup {"overtaken"} ELSE exposures
    /\ Goto(Poller, "confirm")
    /\ UNCHANGED <<serverVars, diskVars, selfRaw, tok, buf, crashes, dropped>>

\* The Self() call that ends ensureWeixinLogin: a sender may have dropped
\* the session already.
ConfirmLogin ==
    /\ pc[Poller] = "confirm"
    /\ \/ /\ session # None
          /\ tok' = [tok EXCEPT ![Poller] = session]
          /\ Goto(Poller, "adopt")
       \/ /\ session = None
          /\ LoginFails
    /\ UNCHANGED <<serverVars, diskVars, memVars, buf, crashes, histVars>>

\* Mutant: the relogin does not call UpdateSelf.
AdoptSelfOnce ==
    /\ pc[Poller] = "adopt"
    /\ selfRaw' = IF selfRaw = None THEN AccountOf[tok[Poller]] ELSE selfRaw
    /\ Goto(Poller, "poll")
    /\ UNCHANGED <<serverVars, diskVars, session, tok, buf, crashes, histVars>>

\* NewWeixinRuntime at the start, UpdateSelf after a relogin.
AdoptSelf ==
    /\ pc[Poller] = "adopt"
    /\ selfRaw' = AccountOf[tok[Poller]]
    /\ Goto(Poller, "poll")
    /\ UNCHANGED <<serverVars, diskVars, session, tok, buf, crashes, histVars>>

-----------------------------------------------------------------------------
(* Poll and the loop around it.                                            *)

\* Mutant: ErrNotLoggedIn is treated like any other polling error.
PollSnapshotNoRelogin ==
    /\ pc[Poller] = "poll"
    /\ tok' = [tok EXCEPT ![Poller] = session]
    /\ Goto(Poller, IF session = None THEN "poll" ELSE "loadBuf")
    /\ UNCHANGED <<serverVars, diskVars, memVars, buf, crashes, histVars>>

\* sessionSnapshot; without a session Poll returns ErrNotLoggedIn and the
\* loop turns to ensureWeixinLogin.
PollSnapshot ==
    /\ pc[Poller] = "poll"
    /\ tok' = [tok EXCEPT ![Poller] = session]
    /\ Goto(Poller, IF session = None THEN "ensure" ELSE "loadBuf")
    /\ UNCHANGED <<serverVars, diskVars, memVars, buf, crashes, histVars>>

\* Mutant: whatever sync.json holds is taken for a cursor.
LoadSyncBufUnparsed ==
    /\ pc[Poller] = "loadBuf"
    /\ buf' = syncFile
    /\ Goto(Poller, "await")
    /\ UNCHANGED <<serverVars, diskVars, memVars, tok, crashes, histVars>>

\* loadSyncBuf (an unreadable file is an empty cursor), then the request.
LoadSyncBuf ==
    /\ pc[Poller] = "loadBuf"
    /\ buf' = IF syncFile \in Accounts THEN syncFile ELSE None
    /\ Goto(Poller, "await")
    /\ UNCHANGED <<serverVars, diskVars, memVars, tok, crashes, histVars>>

\* getUpdates returns messages, usually with the next cursor.  An empty
\* cursor is not saved.
PollSucceeds ==
    /\ pc[Poller] = "await"
    /\ tok[Poller] \notin revoked
    /\ \/ /\ buf' = AccountOf[tok[Poller]]
          /\ Goto(Poller, "saveBuf")
       \/ Goto(Poller, "dispatch") /\ UNCHANGED buf
    /\ UNCHANGED <<serverVars, diskVars, memVars, tok, crashes, histVars>>

\* A timed out request counts as an empty answer carrying the old cursor.
PollTimesOut ==
    /\ pc[Poller] = "await"
    /\ Goto(Poller, IF buf = None THEN "dispatch" ELSE "saveBuf")
    /\ UNCHANGED <<serverVars, diskVars, memVars, tok, buf, crashes, histVars>>

\* Mutant: every HTTP error is reported as ErrNotLoggedIn.
PollFailsAsLogout ==
    /\ pc[Poller] = "await"
    /\ Goto(Poller, "forget")
    /\ UNCHANGED <<serverVars, diskVars, memVars, tok, buf, crashes, histVars>>

\* Any other error: the loop sleeps and polls again.
PollFails ==
    /\ pc[Poller] = "await"
    /\ Goto(Poller, "poll")
    /\ UNCHANGED <<serverVars, diskVars, memVars, tok, buf, crashes, histVars>>

\* saveSyncBuf opens and truncates sync.json (a failure is only logged) ...
SaveSyncBuf ==
    /\ pc[Poller] = "saveBuf"
    /\ \/ syncFile' = Torn /\ Goto(Poller, "writeBuf")
       \/ UNCHANGED syncFile /\ Goto(Poller, "dispatch")
    /\ UNCHANGED <<serverVars, sessionFile, memVars, tok, buf, crashes, histVars>>

\* ... and writes it, unless the write fails or the file was unlinked.
WriteSyncBuf ==
    /\ pc[Poller] = "writeBuf"
    /\ \/ syncFile' = IF syncFile = Torn THEN buf ELSE syncFile
       \/ UNCHANGED syncFile
    /\ exposures' = IF session # tok[Poller]
                    THEN exposures \cup {"lateCursor"} ELSE exposures
    /\ Goto(Poller, "dispatch")
    /\ UNCHANGED <<serverVars, sessionFile, memVars, tok, buf, crashes, dropped>>

\* DispatchWeixinPrivateMessage for every event, under selfRaw.
DispatchEvents ==
    /\ pc[Poller] = "dispatch"
    /\ Goto(Poller, "poll")
    /\ UNCHANGED <<serverVars, diskVars, memVars, tok, buf, crashes, histVars>>

-----------------------------------------------------------------------------
(* Send actions: SendPrivate, SendTyping and GetConfig all take a snapshot *)
(* and post with it.  A multi-segment message repeats the request.         *)

SendSnapshot(s) ==
    /\ pc[s] = "idle"
    /\ selfRaw # None
    /\ session # None
    /\ tok' = [tok EXCEPT ![s] = session]
    /\ Goto(s, "await")
    /\ UNCHANGED <<serverVars, diskVars, memVars, buf, crashes, histVars>>

\* The last segment is accepted, or some request fails for another reason.
SendReturns(s) ==
    /\ pc[s] = "await"
    /\ tok' = [tok EXCEPT ![s] = None]
    /\ Goto(s, "idle")
    /\ UNCHANGED <<serverVars, diskVars, memVars, buf, crashes, histVars>>

-----------------------------------------------------------------------------
(* apiPost on 401/403: invalidateSession, for whichever token was refused. *)

Rejected(p) ==
    /\ pc[p] = "await"
    /\ tok[p] \in revoked
    /\ Goto(p, "forget")
    /\ UNCHANGED <<serverVars, diskVars, memVars, tok, buf, crashes, histVars>>

\* Mutant: only the files are removed.
ForgetSessionOnDiskOnly(p) ==
    /\ pc[p] = "forget"
    /\ Goto(p, "rmSession")
    /\ UNCHANGED <<serverVars, diskVars, memVars, tok, buf, crashes, histVars>>

\* invalidateSession, first under c.mu ...
ForgetSession(p) ==
    /\ pc[p] = "forget"
    /\ session' = None
    /\ Goto(p, "rmSession")
    /\ UNCHANGED <<serverVars, diskVars, selfRaw, tok, buf, crashes, histVars>>

\* Mutant: session.json is left in place.
KeepSessionFile(p) ==
    /\ pc[p] = "rmSession"
    /\ dropped' = dropped \cup {tok[p]}
    /\ Goto(p, "rmSync")
    /\ UNCHANGED <<serverVars, diskVars, memVars, tok, buf, crashes, exposures>>

\* ... then, without any lock, session.json ...
RemoveSessionFile(p) ==
    /\ pc[p] = "rmSession"
    /\ sessionFile' = None
    /\ dropped' = dropped \cup {tok[p]}
    /\ exposures' = IF sessionFile \in {None, tok[p]} THEN exposures
                    ELSE exposures \cup {"overtaken"}
    /\ Goto(p, "rmSync")
    /\ UNCHANGED <<serverVars, syncFile, memVars, tok, buf, crashes>>

\* Mutant: sync.json is left in place.
KeepSyncFile(p) ==
    /\ pc[p] = "rmSync"
    /\ tok' = [tok EXCEPT ![p] = None]
    /\ Goto(p, IF p = Poller THEN "ensure" ELSE "idle")
    /\ UNCHANGED <<serverVars, diskVars, memVars, buf, crashes, histVars>>

\* ... and sync.json.  Poll returns ErrNotLoggedIn, a send action fails.
RemoveSyncFile(p) ==
    /\ pc[p] = "rmSync"
    /\ syncFile' = None
    /\ tok' = [tok EXCEPT ![p] = None]
    /\ Goto(p, IF p = Poller THEN "ensure" ELSE "idle")
    /\ UNCHANGED <<serverVars, sessionFile, memVars, buf, crashes, histVars>>

-----------------------------------------------------------------------------
\* The process dies; only the two files survive.
Crash ==
    /\ pc[Poller] # "down"
    /\ crashes < MaxCrashes
    /\ crashes' = crashes + 1
    /\ session' = None
    /\ selfRaw' = None
    /\ pc'  = [p \in Procs |-> IF p = Poller THEN "down" ELSE "idle"]
    /\ tok' = [p \in Procs |-> None]
    /\ buf' = None
    /\ exposures' = IF \E p \in Procs : pc[p] \in {"rmSession", "rmSync"}
                    THEN exposures \cup {"halfRemoved"} ELSE exposures
    /\ UNCHANGED <<serverVars, diskVars, dropped>>

Init ==
    /\ issued = {}
    /\ revoked = {}
    /\ sessionFile = None
    /\ syncFile = None
    /\ session = None
    /\ selfRaw = None
    /\ pc = [p \in Procs |-> IF p = Poller THEN "down" ELSE "idle"]
    /\ tok = [p \in Procs |-> None]
    /\ buf = None
    /\ crashes = 0
    /\ dropped = {}
    /\ exposures = {}

Login ==
    \/ Restart \/ EnsureLogin \/ StartQRLogin
    \/ (\E t \in Tokens : ScanConfirmed(t))
    \/ ScanFails \/ OpenSession \/ WriteSession \/ SetSession \/ ConfirmLogin \/ AdoptSelf

Poll ==
    \/ PollSnapshot \/ LoadSyncBuf
    \/ PollSucceeds \/ PollTimesOut \/ PollFails
    \/ SaveSyncBuf \/ WriteSyncBuf \/ DispatchEvents

Send(s) == SendSnapshot(s) \/ SendReturns(s)

Invalidate(p) ==
    Rejected(p) \/ ForgetSession(p) \/ RemoveSessionFile(p) \/ RemoveSyncFile(p)

Next ==
    \/ \E t \in Tokens : Revoke(t)
    \/ Login
    \/ Poll
    \/ \E s \in Senders : Send(s)
    \/ \E p \in Procs : Invalidate(p)
    \/ Crash

Spec == Init /\ [][Next]_vars

\* Fairness.  The goroutines keep running, and the disk does not refuse every
\* write.  A request that is retried for ever is answered by the server some
\* time, and a code that is offered again and again is scanned some time.
\* Nothing is assumed of restarts, revocations or senders' requests.
FairSpec ==
    /\ Spec
    /\ WF_vars(EnsureLogin) /\ WF_vars(OpenSession) /\ WF_vars(WriteSession)
    /\ WF_vars(SetSession) /\ WF_vars(ConfirmLogin) /\ WF_vars(AdoptSelf)
    /\ WF_vars(PollSnapshot) /\ WF_vars(LoadSyncBuf)
    /\ WF_vars(SaveSyncBuf) /\ WF_vars(WriteSyncBuf) /\ WF_vars(DispatchEvents)
    /\ WF_vars(PollSucceeds \/ PollTimesOut \/ PollFails \/ Rejected(Poller))
    /\ WF_vars(StartQRLogin)
    /\ WF_vars(ScanFails \/ \E t \in Tokens : ScanConfirmed(t))
    /\ SF_vars(Rejected(Poller))
    /\ SF_vars(pc[Poller] = "qr" /\ StartQRLogin /\ Goto(Poller, "scan"))
    /\ SF_vars(\E t \in Tokens : ScanConfirmed(t))
    /\ SF_vars(OpenSession /\ Goto(Poller, "write"))
    /\ SF_vars(WriteSession /\ Goto(Poller, "setMem"))
    /\ \A p \in Procs : WF_vars(ForgetSession(p) \/ RemoveSessionFile(p)
                                \/ RemoveSyncFile(p))

-----------------------------------------------------------------------------
(* Properties.                                                             *)

TypeOK ==
    /\ issued \in SUBSET Tokens
    /\ revoked \in SUBSET Tokens
    /\ sessionFile \in Tokens \cup {None, Torn}
    /\ syncFile \in Accounts \cup {None, Torn}
    /\ session \in Tokens \cup {None}
    /\ selfRaw \in Accounts \cup {None}
    /\ pc \in [Procs -> SenderPCs \cup PollerPCs]
    /\ pc[Poller] \in PollerPCs
    /\ \A s \in Senders : pc[s] \in SenderPCs
    /\ tok \in [Procs -> Tokens \cup {None}]
    /\ buf \in Accounts \cup {None}
    /\ crashes \in 0..MaxCrashes
    /\ dropped \in SUBSET Tokens
    /\ exposures \in SUBSET Exposures

\* The session in memory and the one on disk are never two different logins,
\* although they are written one after the other and removed one after the
\* other, by different goroutines (saveSession, invalidateSession).
MemoryAgreesWithFile ==
    session # None => sessionFile \in {session, None}

\* A token whose rejection invalidateSession has recorded is never taken up
\* again: not from memory, not from session.json, not after a restart.
DroppedStaysDropped ==
    /\ session \notin dropped
    /\ sessionFile \notin dropped

\* Events are recorded and reported under the account they were polled for,
\* although SelfRawID and the session are updated separately (UpdateSelf runs
\* after WaitQRLogin has saved the session and before the next Poll).
InboundIdentity ==
    pc[Poller] \in {"await", "saveBuf", "writeBuf", "dispatch"} =>
        selfRaw = AccountOf[tok[Poller]]

\* A session in memory can be resumed after a crash, unless an unfinished
\* invalidation of an earlier session overlapped the login.
SessionPersisted ==
    session # None /\ "overtaken" \notin exposures => sessionFile = session

\* The cursor on disk was issued to the account that is logged in, unless an
\* invalidation overlapped a login or a Poll, or was cut short by a crash.
CursorMatchesAccount ==
    session # None /\ syncFile \in Accounts /\ exposures = {} =>
        syncFile = AccountOf[session]

\* A session the server still accepts is dropped from memory only by a sender
\* that was answered 401 for an older one; the poller never does it.
LiveSessionLostOnlyToStaleSender ==
    [][ (/\ session # None
         /\ session' = None
         /\ session \notin revoked
         /\ pc'[Poller] # "down")
        => \E s \in Senders : pc[s] = "forget" /\ tok[s] # session ]_vars

\* A revoked session does not stay in use: polling finds out.
RevokedIsDropped ==
    \A t \in Tokens : (session = t /\ t \in revoked) ~> (session # t)

\* Whenever the session is lost the client logs in again, as long as the
\* process lives and the server can still issue tokens.
LogsInAgain ==
    session = None ~> (session # None \/ pc[Poller] = "down" \/ issued = Tokens)

\* Both: polling finds out that the session is lost, and logs in again
\* (weixin_start.go, pollWeixinEvents).
LoginRecovers == RevokedIsDropped /\ LogsInAgain
=============================================================================
