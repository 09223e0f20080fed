------------------------------ MODULE Inbound ------------------------------
(***************************************************************************)
(* The way of private messages from the Weixin server into OneBot events:  *)
(* Poll asks for updates after the cursor in sync.json, saves the new      *)
(* cursor, normalises the whole batch (which may download media) and hands *)
(* it to the loop that dispatches the events one by one                    *)
(* (internal/weixin/client.go, cmd/gocq/weixin_start.go).                  *)
(*                                                                         *)
(* Messages are numbered in the order the server has them; a cursor is the *)
(* number of the last message it covers.                                   *)
(***************************************************************************)
EXTENDS Naturals, Sequences

CONSTANTS None,         \* no sync.json, an empty cursor
          Torn,         \* sync.json truncated or half written
          MaxMessages,  \* bound: messages sent
          MaxFaults     \* bound: crashes, failed saves, logouts, bad messages

ASSUME InboundAssumption ==
    /\ None \notin Nat
    /\ Torn \notin Nat \cup {None}
    /\ MaxMessages \in Nat
    /\ MaxFaults \in Nat

VARIABLES
    sent,      \* messages the server has for the bot
    syncFile,  \* sync.json
    pc,        \* control state of the polling goroutine
    buf,       \* the cursor it sends, then the one it received
    todo,      \* messages of the batch to be normalised
    events,    \* normalised events to be dispatched
    log,       \* history: messages dispatched
    causes,    \* history: faults that can disturb the flow
    faults     \* faults so far

pollVars == <<pc, buf, todo, events>>
histVars == <<log, causes>>
vars == <<sent, syncFile, pollVars, histVars, faults>>

Batch(i, j) == [n \in 1..(j - i) |-> i + n]
Last(s) == s[Len(s)]

Fault == faults < MaxFaults /\ faults' = faults + 1
Blame(c) == causes' = causes \cup c

-----------------------------------------------------------------------------
\* A peer writes to the bot.
SendMessage ==
    /\ sent < MaxMessages
    /\ sent' = sent + 1
    /\ UNCHANGED <<syncFile, pollVars, histVars, faults>>

\* Mutant: a cursor file that does not parse is used as it is.
StartPollUnparsed ==
    /\ pc = "poll"
    /\ buf' = syncFile
    /\ pc' = "await"
    /\ UNCHANGED <<sent, syncFile, todo, events, histVars, faults>>

\* Poll: loadSyncBuf and the request.
StartPoll ==
    /\ pc = "poll"
    /\ buf' = IF syncFile = Torn THEN None ELSE syncFile
    /\ pc' = "await"
    /\ UNCHANGED <<sent, syncFile, todo, events, histVars, faults>>

\* Where the server starts: after the cursor.  An empty cursor means from the
\* beginning as long as none was ever handed out; the program does not
\* determine where it leads once a cursor has been lost.
Starts == IF buf # None THEN {buf}
          ELSE IF "cursorLost" \in causes THEN 0..sent ELSE {0}

\* The server answers with some of the following messages and their cursor.
Updates ==
    /\ pc = "await"
    /\ \E i \in Starts : \E j \in i + 1..sent : todo' = Batch(i, j) /\ buf' = j
    /\ pc' = "save"
    /\ UNCHANGED <<sent, syncFile, events, histVars, faults>>

\* The long poll times out with the old cursor; or the answer is empty.
NoUpdates ==
    /\ pc = "await"
    /\ pc' = IF buf = None THEN "poll" ELSE "save"
    /\ UNCHANGED <<sent, syncFile, buf, todo, events, histVars, faults>>

\* Any other error of the request.
PollFails ==
    /\ pc = "await"
    /\ pc' = "poll"
    /\ UNCHANGED <<sent, syncFile, buf, todo, events, histVars, faults>>

\* saveSyncBuf: os.WriteFile truncates, ...
TruncateCursor ==
    /\ pc = "save"
    /\ syncFile' = Torn
    /\ pc' = "write"
    /\ UNCHANGED <<sent, buf, todo, events, histVars, faults>>

\* Mutant: the cursor that was sent is saved, not the one received.
WriteOldCursor ==
    /\ pc = "write"
    /\ syncFile' = buf - Len(todo)
    /\ pc' = "normalize"
    /\ UNCHANGED <<sent, buf, todo, events, histVars, faults>>

\* ... then writes, in vain if the file was removed meanwhile.
WriteCursor ==
    /\ pc = "write"
    /\ syncFile' = IF syncFile = Torn THEN buf ELSE syncFile
    /\ pc' = "normalize"
    /\ UNCHANGED <<sent, buf, todo, events, histVars, faults>>

\* The open fails and the old cursor stays, or the write fails and sync.json
\* stays torn.  Only logged.
SaveFails ==
    /\ pc \in {"save", "write"}
    /\ Fault
    /\ Blame({"cursorLost"})
    /\ pc' = "normalize"
    /\ UNCHANGED <<sent, syncFile, buf, todo, events, log>>

\* Mutant: the first bad message ends the batch.
NormalizeUntilError ==
    /\ pc = "normalize"
    /\ todo # <<>>
    /\ \/ /\ events' = Append(events, Head(todo))
          /\ todo' = Tail(todo)
          /\ UNCHANGED pc
       \/ /\ todo' = <<>>
          /\ events' = <<>>
          /\ pc' = "poll"
    /\ UNCHANGED <<sent, syncFile, buf, histVars, faults>>

Normalize ==
    /\ pc = "normalize"
    /\ todo # <<>>
    /\ events' = Append(events, Head(todo))
    /\ todo' = Tail(todo)
    /\ UNCHANGED <<sent, syncFile, pc, buf, histVars, faults>>

\* normalizeMessage fails, for instance a download: the message is skipped.
NormalizeFails ==
    /\ pc = "normalize"
    /\ todo # <<>>
    /\ Fault
    /\ Blame({"badMessage"})
    /\ todo' = Tail(todo)
    /\ UNCHANGED <<sent, syncFile, pc, buf, events, log>>

\* Poll returns the events.
PollReturns ==
    /\ pc = "normalize"
    /\ todo = <<>>
    /\ pc' = IF events = <<>> THEN "poll" ELSE "dispatch"
    /\ UNCHANGED <<sent, syncFile, buf, todo, events, histVars, faults>>

\* Mutant: the events of a batch are dispatched concurrently.
DispatchAny ==
    /\ pc = "dispatch"
    /\ \E n \in 1..Len(events) :
          /\ log' = Append(log, events[n])
          /\ events' = SubSeq(events, 1, n - 1) \o SubSeq(events, n + 1, Len(events))
    /\ pc' = IF events' = <<>> THEN "poll" ELSE pc
    /\ UNCHANGED <<sent, syncFile, buf, todo, causes, faults>>

\* DispatchWeixinPrivateMessage for the next event.
Dispatch ==
    /\ pc = "dispatch"
    /\ log' = Append(log, Head(events))
    /\ events' = Tail(events)
    /\ pc' = IF events' = <<>> THEN "poll" ELSE pc
    /\ UNCHANGED <<sent, syncFile, buf, todo, causes, faults>>

\* The request of the poller, or at any time one of a send action, is
\* answered 401: invalidateSession removes sync.json with the session.
LoggedOut ==
    /\ Fault
    /\ syncFile' = None
    /\ Blame({"cursorLost"})
    /\ pc' \in {pc, IF pc = "await" THEN "poll" ELSE pc}
    /\ UNCHANGED <<sent, buf, todo, events, log>>

\* The process dies and starts again.  Messages are lost if their cursor was
\* saved and they were not dispatched yet.
Crash ==
    /\ Fault
    /\ Blame((IF syncFile = Torn THEN {"cursorLost"} ELSE {})
             \cup (IF pc \in {"normalize", "dispatch"} /\ todo \o events # <<>>
                   THEN {"crash"} ELSE {}))
    /\ pc' = "poll"
    /\ buf' = None
    /\ todo' = <<>>
    /\ events' = <<>>
    /\ UNCHANGED <<sent, syncFile, log>>

Init ==
    /\ sent = 0
    /\ syncFile = None
    /\ pc = "poll"
    /\ buf = None
    /\ todo = <<>>
    /\ events = <<>>
    /\ log = <<>>
    /\ causes = {}
    /\ faults = 0

Progress ==
    \/ StartPoll \/ Updates \/ NoUpdates \/ PollFails
    \/ TruncateCursor \/ WriteCursor
    \/ Normalize \/ PollReturns \/ Dispatch

Next ==
    \/ SendMessage \/ Progress
    \/ SaveFails \/ NormalizeFails \/ LoggedOut \/ Crash

Spec == Init /\ [][Next]_vars

\* Fairness.  The polling goroutine never rests, and a server that has
\* messages answers the request with some of them sooner or later.
FairSpec == Spec /\ WF_vars(Progress) /\ SF_vars(Updates)

-----------------------------------------------------------------------------
(* Properties.                                                             *)

Due == IF log = <<>> THEN 1 ELSE Last(log) + 1

TypeOK ==
    /\ sent \in 0..MaxMessages
    /\ syncFile \in 0..sent \cup {None, Torn}
    /\ pc \in {"poll", "await", "save", "write", "normalize", "dispatch"}
    /\ buf \in 0..sent \cup {None}
    /\ todo \in Seq(1..sent)
    /\ events \in Seq(1..sent)
    /\ log \in Seq(1..sent)
    /\ causes \in SUBSET {"cursorLost", "badMessage", "crash"}
    /\ faults \in 0..MaxFaults

\* While the cursor was never lost, no message is reported twice, whatever
\* crashes and bad messages there were.
AtMostOnce ==
    "cursorLost" \notin causes =>
        \A i, j \in 1..Len(log) : i < j => log[i] < log[j]

\* The cursor on disk is not ahead of what has been reported or is in hand,
\* unless there is a reason to have lost messages.
CursorNotAhead ==
    causes = {} /\ syncFile \in Nat => syncFile < Due + Len(events) + Len(todo)

\* Messages come in the order and as often as MessageFlow promises; a crash
\* or a bad message excuses a loss, a lost cursor also a repetition.
FlowExcuses ==
    (IF causes # {} THEN {"loss"} ELSE {})
        \cup (IF "cursorLost" \in causes THEN {"replay"} ELSE {})
Flow == INSTANCE MessageFlow WITH excuses <- FlowExcuses
KeepsPromise == Flow!FlowSpec

\* Every message is reported in the end if nothing goes wrong.
EveryMessageReported ==
    \A m \in 1..MaxMessages :
        sent >= m ~> (causes # {} \/ \E i \in 1..Len(log) : log[i] = m)
=============================================================================
