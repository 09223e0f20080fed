------------------------ MODULE WeixinSessionProofs ------------------------
(***************************************************************************)
(* Proofs about WeixinSession, for any set of tokens, accounts and senders *)
(* and any number of crashes.                                              *)
(***************************************************************************)
EXTENDS WeixinSession, TLAPS

\* Only the poller logs in, and only without a session; nothing runs while
\* the process is down, no sender before the runtime exists.
SingleLogin ==
    /\ pc[Poller] \in {"down", "qr", "scan", "save", "write", "setMem",
                       "rmSession", "rmSync"} => session = None
    /\ selfRaw = None => \A s \in Senders : pc[s] = "idle"
    /\ pc[Poller] = "down" => selfRaw = None

\* What has been handed out: every token in use anywhere is an issued one,
\* so a new login's token is new to everybody.
OnlyIssued ==
    /\ dropped \subseteq issued
    /\ session \in issued \cup {None}
    /\ sessionFile \in issued \cup {None, Torn}
    /\ \A p \in Procs : tok[p] \in issued \cup {None}
    /\ revoked \subseteq issued

\* The token of a login in progress is known to the poller alone.
FreshLogin ==
    pc[Poller] \in {"save", "write", "setMem"} =>
        /\ tok[Poller] # None
        /\ tok[Poller] \notin dropped
        /\ \A s \in Senders : tok[s] # tok[Poller]

\* session.json while it is being written.
FileInLogin ==
    /\ pc[Poller] = "write" => sessionFile \in {Torn, None}
    /\ pc[Poller] = "setMem" => sessionFile \in {tok[Poller], None}

\* Processes in the middle of a request or an invalidation.
Snapshots ==
    /\ \A p \in Procs : pc[p] \in {"await", "forget", "rmSession", "rmSync"} =>
           tok[p] # None
    /\ \A p \in Procs : pc[p] = "forget" => tok[p] \in revoked
    /\ \A p \in Procs : pc[p] \in {"rmSession", "rmSync"} => session # tok[p]

\* The poller works for the account it has announced.
PollerIdentity ==
    /\ pc[Poller] \in {"adopt", "loadBuf", "await", "saveBuf", "writeBuf",
                       "dispatch", "forget"} =>
           tok[Poller] # None /\ session \in {tok[Poller], None}
    /\ pc[Poller] \in {"loadBuf", "await", "saveBuf", "writeBuf", "dispatch"} =>
           selfRaw = AccountOf[tok[Poller]]
    /\ pc[Poller] = "poll" /\ session # None => selfRaw = AccountOf[session]

\* session.json survives, unless an invalidation overlapped the login.
FileSurvives ==
    "overtaken" \notin exposures =>
        /\ session # None => sessionFile = session
        /\ pc[Poller] = "write" => sessionFile = Torn
        /\ pc[Poller] = "setMem" => sessionFile = tok[Poller]

Removing(p) == pc[p] \in {"rmSession", "rmSync"}

\* Whose cursor sync.json holds, as long as no unsafe overlap has happened.
CursorCustody ==
    exposures = {} /\ syncFile \in Accounts =>
        /\ session # None => syncFile = AccountOf[session]
        /\ session = None /\ pc[Poller] # "down" => \E p \in Procs : Removing(p)
        /\ pc[Poller] = "down" => sessionFile \in Tokens
        /\ sessionFile \in Tokens /\ (\A p \in Procs : ~Removing(p)) =>
               syncFile = AccountOf[sessionFile]
        /\ pc[Poller] \in {"loadBuf", "await", "saveBuf", "writeBuf"} =>
               syncFile = AccountOf[tok[Poller]]

\* The cursor the poller carries belongs to the session it polls with.
BufCustody ==
    /\ pc[Poller] \in {"saveBuf", "writeBuf"} => buf # None
    /\ exposures = {} /\ pc[Poller] \in {"await", "saveBuf", "writeBuf"} =>
           buf \in {None, AccountOf[tok[Poller]]}

IInv ==
    /\ TypeOK
    /\ SingleLogin
    /\ OnlyIssued
    /\ FreshLogin
    /\ FileInLogin
    /\ Snapshots
    /\ PollerIdentity
    /\ FileSurvives
    /\ CursorCustody
    /\ BufCustody
    /\ MemoryAgreesWithFile
    /\ DroppedStaysDropped

\* A process that has never run satisfies the invariant.
LEMMA InitIInv == Init => IInv
BY SessionAssumption
   DEF Init, IInv, TypeOK, SingleLogin, OnlyIssued, FreshLogin, FileInLogin, Snapshots, PollerIdentity, FileSurvives, CursorCustody, Removing, BufCustody, MemoryAgreesWithFile, DroppedStaysDropped, SenderPCs, PollerPCs, Exposures, Procs

\* Every step of the server, the poller, a sender or a crash preserves it.
LEMMA NextIInv == IInv /\ [Next]_vars => IInv'
<1> SUFFICES ASSUME IInv, [Next]_vars PROVE IInv'
  OBVIOUS
<1> USE SessionAssumption
    DEF IInv, TypeOK, SingleLogin, OnlyIssued, FreshLogin, FileInLogin, Snapshots, PollerIdentity, FileSurvives, CursorCustody, Removing, BufCustody, MemoryAgreesWithFile, DroppedStaysDropped,
        SenderPCs, PollerPCs, Exposures, Procs, Goto,
        serverVars, diskVars, memVars, procVars, histVars
<1>1. ASSUME NEW t \in Tokens, Revoke(t) PROVE IInv'
  BY <1>1 DEF Revoke
<1>2. CASE Restart
  BY <1>2 DEF Restart
<1>3. CASE EnsureLogin
  BY <1>3 DEF EnsureLogin
<1>4. CASE StartQRLogin
  BY <1>4 DEF StartQRLogin, LoginFails
<1>5. ASSUME NEW t \in Tokens, ScanConfirmed(t) PROVE IInv'
  BY <1>5 DEF ScanConfirmed
<1>6. CASE ScanFails
  BY <1>6 DEF ScanFails, LoginFails
<1>7. CASE OpenSession
  BY <1>7 DEF OpenSession, LoginFails
<1>8. CASE WriteSession
  BY <1>8 DEF WriteSession, LoginFails
<1>9. CASE SetSession
  BY <1>9 DEF SetSession, Overtaken
<1>10. CASE ConfirmLogin
  BY <1>10 DEF ConfirmLogin, LoginFails
<1>11. CASE AdoptSelf
  BY <1>11 DEF AdoptSelf
<1>12. CASE PollSnapshot
  BY <1>12 DEF PollSnapshot
<1>13. CASE LoadSyncBuf
  BY <1>13 DEF LoadSyncBuf
<1>14. CASE PollSucceeds
  BY <1>14 DEF PollSucceeds
<1>15. CASE PollTimesOut
  BY <1>15 DEF PollTimesOut
<1>16. CASE PollFails
  BY <1>16 DEF PollFails
<1>17. CASE SaveSyncBuf
  BY <1>17 DEF SaveSyncBuf
<1>18. CASE WriteSyncBuf
  BY <1>18 DEF WriteSyncBuf
<1>19. CASE DispatchEvents
  BY <1>19 DEF DispatchEvents
<1>20. ASSUME NEW s \in Senders, SendSnapshot(s) PROVE IInv'
  BY <1>20 DEF SendSnapshot
<1>21. ASSUME NEW s \in Senders, SendReturns(s) PROVE IInv'
  BY <1>21 DEF SendReturns
<1>22. ASSUME NEW p \in Procs, Rejected(p) PROVE IInv'
  BY <1>22 DEF Rejected
<1>23. ASSUME NEW p \in Procs, ForgetSession(p) PROVE IInv'
  BY <1>23 DEF ForgetSession
<1>24. ASSUME NEW p \in Procs, RemoveSessionFile(p) PROVE IInv'
  BY <1>24 DEF RemoveSessionFile
<1>25. ASSUME NEW p \in Procs, RemoveSyncFile(p) PROVE IInv'
  BY <1>25 DEF RemoveSyncFile
<1>26. CASE Crash
  BY <1>26 DEF Crash
<1>27. CASE UNCHANGED vars
  BY <1>27 DEF vars
<1> QED
  BY <1>1, <1>2, <1>3, <1>4, <1>5, <1>6, <1>7, <1>8, <1>9, <1>10, <1>11, <1>12, <1>13, <1>14, <1>15, <1>16, <1>17, <1>18, <1>19, <1>20, <1>21, <1>22, <1>23, <1>24, <1>25, <1>26, <1>27
     DEF Next, Login, Poll, Send, Invalidate

\* So it holds in every reachable state.
LEMMA SpecIInv == Spec => []IInv
<1>1. Init => IInv
  BY InitIInv
<1>2. IInv /\ [Next]_vars => IInv'
  BY NextIInv
<1> QED
  BY <1>1, <1>2, PTL DEF Spec

-----------------------------------------------------------------------------
(* The safety properties of WeixinSession.                                 *)

\* Every variable of the session client keeps its type.
THEOREM TypeCorrect == Spec => []TypeOK
<1>1. IInv => TypeOK
  BY DEF IInv
<1> QED
  BY <1>1, SpecIInv, PTL

\* c.session and session.json never hold two different logins.
THEOREM MemoryAgrees == Spec => []MemoryAgreesWithFile
<1>1. IInv => MemoryAgreesWithFile
  BY DEF IInv
<1> QED
  BY <1>1, SpecIInv, PTL

\* A token that invalidateSession has finished dropping never comes back.
THEOREM DroppedForGood == Spec => []DroppedStaysDropped
<1>1. IInv => DroppedStaysDropped
  BY DEF IInv
<1> QED
  BY <1>1, SpecIInv, PTL

\* Polled events are dispatched under the account they were polled for.
THEOREM InboundUnderOwnAccount == Spec => []InboundIdentity
<1>1. IInv => InboundIdentity
  BY DEF IInv, PollerIdentity, InboundIdentity
<1> QED
  BY <1>1, SpecIInv, PTL

\* A logged-in client can resume after a crash, unless an invalidation
\* overlapped the login.
THEOREM SessionIsPersisted == Spec => []SessionPersisted
<1>1. IInv => SessionPersisted
  BY DEF IInv, FileSurvives, SessionPersisted
<1> QED
  BY <1>1, SpecIInv, PTL

\* The cursor on disk belongs to the account logged in, unless one of the
\* three overlaps of Exposures has happened.
THEOREM CursorIsOwn == Spec => []CursorMatchesAccount
<1>1. IInv => CursorMatchesAccount
  BY DEF IInv, CursorCustody, CursorMatchesAccount
<1> QED
  BY <1>1, SpecIInv, PTL

\* Only a sender answered 401 for an older token can throw away a session
\* that the server still accepts.
THEOREM LiveSessionKept == Spec => LiveSessionLostOnlyToStaleSender
<1> DEFINE Lost == (/\ session # None
                    /\ session' = None
                    /\ session \notin revoked
                    /\ pc'[Poller] # "down")
                   => \E s \in Senders : pc[s] = "forget" /\ tok[s] # session
<1>1. IInv /\ [Next]_vars => [Lost]_vars
  <2> SUFFICES ASSUME IInv, Next,
                      session # None, session' = None,
                      session \notin revoked, pc'[Poller] # "down"
               PROVE  \E s \in Senders : pc[s] = "forget" /\ tok[s] # session
    OBVIOUS
  <2>1. PICK p \in Procs : ForgetSession(p)
    BY DEF Next, Login, Poll, Send, Invalidate, Revoke, Restart, EnsureLogin,
           StartQRLogin, ScanConfirmed, ScanFails, OpenSession, WriteSession,
           SetSession, ConfirmLogin, AdoptSelf, PollSnapshot, LoadSyncBuf,
           PollSucceeds, PollTimesOut, PollFails, SaveSyncBuf, WriteSyncBuf,
           DispatchEvents, SendSnapshot, SendReturns, Rejected,
           RemoveSessionFile, RemoveSyncFile, Crash, memVars, Procs,
           IInv, TypeOK, SingleLogin, FreshLogin, SessionAssumption
  <2>2. tok[p] \in revoked /\ tok[p] # session
    BY <2>1 DEF ForgetSession, IInv, Snapshots
  <2>3. p # Poller
    BY <2>1, <2>2 DEF ForgetSession, IInv, PollerIdentity
  <2> QED
    BY <2>1, <2>2, <2>3 DEF ForgetSession, Procs
<1> QED
  BY <1>1, SpecIInv, PTL DEF Spec, LiveSessionLostOnlyToStaleSender
=============================================================================
