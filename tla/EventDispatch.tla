--------------------------- MODULE EventDispatch ---------------------------
(***************************************************************************)
(* How an event reaches the report handlers: CQBot.dispatch, OnEventPush   *)
(* and their RWMutex (coolq/bot.go), with the handlers of the HTTP POST    *)
(* reporter (server/http.go), whose application may answer with a quick    *)
(* reply or call the API before it answers, and with the API goroutines    *)
(* that thereby dispatch events of their own (coolq/weixin_api.go).        *)
(*                                                                         *)
(* A source dispatches one event at a time, so that an event is named by   *)
(* its source and no bound on the number of events is needed.              *)
(***************************************************************************)
EXTENDS Naturals, Sequences, FiniteSets, SequencesExt

CONSTANTS Loops,       \* goroutines that dispatch of their own: poller, heartbeat
          Apis,        \* goroutines serving API requests
          Handlers,    \* event handlers that will be registered
          Poller,      \* the loop whose events are messages
          MaxRetries,  \* retries of a POST that failed
          None         \* no writer, no caller

ASSUME DispatchAssumption ==
    /\ Loops \cap Apis = {}
    /\ Poller \in Loops
    /\ MaxRetries \in Nat
    /\ None \notin Handlers

Sources == Loops \cup Apis
Runs == Sources \X Handlers

VARIABLES
    events,    \* bot.events
    writer,    \* handler whose OnEventPush holds or waits for bot.lock
    readers,   \* sources that hold the read lock
    waiting,   \* sources whose RLock waits for the writer
    pc,        \* control state of each source
    run,       \* progress of each handler on the event of each source
    tries,     \* POST attempts of each handler for that event
    caller,    \* the POST an API goroutine's client is busy answering
    seen,      \* history: who was given an earlier event of each source
    asked,     \* history: POSTs for which a quick reply was asked
    replied    \* history: those whose quick reply was sent

lockVars == <<writer, readers, waiting>>
runVars  == <<run, tries>>
histVars == <<seen, asked, replied>>
vars == <<events, lockVars, pc, runVars, caller, histVars>>

InProgress(s, h) == run[s][h] \in {"spawned", "posting", "answered"}
Answering(s, h) == \E a \in Apis : caller[a] = <<s, h>>
Registered == ToSet(events)

-----------------------------------------------------------------------------
(* OnEventPush.  sync.RWMutex: an announced writer lets the present        *)
(* readers finish and holds up all later ones; its Unlock admits them all. *)

AnnounceWriter(h) ==
    /\ h \notin Registered
    /\ writer = None
    /\ writer' = h
    /\ UNCHANGED <<events, readers, waiting, pc, runVars, caller, histVars>>

\* Mutant: the new handler takes the place of the others.
OnEventPushReplacing(h) ==
    /\ writer = h
    /\ readers = {}
    /\ events' = <<h>>
    /\ writer' = None
    /\ readers' = waiting
    /\ waiting' = {}
    /\ pc' = [s \in Sources |-> IF s \in waiting THEN "locked" ELSE pc[s]]
    /\ UNCHANGED <<runVars, caller, histVars>>

OnEventPush(h) ==
    /\ writer = h
    /\ readers = {}
    /\ events' = Append(events, h)
    /\ writer' = None
    /\ readers' = waiting
    /\ waiting' = {}
    /\ pc' = [s \in Sources |-> IF s \in waiting THEN "locked" ELSE pc[s]]
    /\ UNCHANGED <<runVars, caller, histVars>>

-----------------------------------------------------------------------------
(* dispatch.                                                               *)

ReadLock(s) ==
    /\ IF writer = None
       THEN /\ readers' = readers \cup {s}
            /\ pc' = [pc EXCEPT ![s] = "locked"]
            /\ UNCHANGED waiting
       ELSE /\ waiting' = waiting \cup {s}
            /\ pc' = [pc EXCEPT ![s] = "blocked"]
            /\ UNCHANGED readers
    /\ UNCHANGED <<events, writer, runVars, caller>>

\* A polled message, a heartbeat.
Dispatch(s) ==
    /\ s \in Loops
    /\ pc[s] = "idle"
    /\ ReadLock(s)
    /\ UNCHANGED histVars

\* wg.Add and one goroutine per handler registered now.
Spawn(s) ==
    /\ pc[s] = "locked"
    /\ run' = [run EXCEPT ![s] = [h \in Handlers |->
                                   IF h \in Registered THEN "spawned" ELSE "none"]]
    /\ pc' = [pc EXCEPT ![s] = "wait"]
    /\ UNCHANGED <<events, lockVars, tries, caller, histVars>>

\* An API goroutine answers its client when it is through.
Unlock(s) ==
    /\ pc' = [pc EXCEPT ![s] = "idle"]
    /\ readers' = readers \ {s}
    /\ caller' = IF s \in Apis THEN [caller EXCEPT ![s] = None] ELSE caller
    /\ seen' = [seen EXCEPT ![s] = @ \cup {h \in Handlers : run[s][h] # "none"}]
    /\ asked' = {x \in asked : x[1] # s}
    /\ replied' = {x \in replied : x[1] # s}
    /\ UNCHANGED <<events, writer, waiting>>

\* Mutant: no wg.Wait().
ReturnAtOnce(s) ==
    /\ pc[s] = "wait"
    /\ Unlock(s)
    /\ UNCHANGED runVars

\* wg.Wait, PutBuffer, RUnlock.
Return(s) ==
    /\ pc[s] = "wait"
    /\ \A h \in Handlers : ~InProgress(s, h)
    /\ Unlock(s)
    /\ run' = [run EXCEPT ![s] = [h \in Handlers |-> "none"]]
    /\ UNCHANGED tries

-----------------------------------------------------------------------------
(* One handler: HTTPClient.onBotPushEvent, inside the goroutine whose      *)
(* deferred function recovers from panics and calls wg.Done.               *)

Step(s, h, l) == run' = [run EXCEPT ![s][h] = l]

\* The filter drops the event, or it is POSTed.
Post(s, h) ==
    /\ run[s][h] = "spawned"
    /\ \/ Step(s, h, "done") /\ UNCHANGED tries
       \/ Step(s, h, "posting") /\ tries' = [tries EXCEPT ![s][h] = 1]
    /\ UNCHANGED <<events, lockVars, pc, caller, histVars>>

\* The application answers: with nothing to do, or with an operation, which
\* for a message (an event of the poller) may be a quick reply.
PostAnswered(s, h) ==
    /\ run[s][h] = "posting"
    /\ ~Answering(s, h)
    /\ \/ Step(s, h, "done") /\ UNCHANGED asked
       \/ /\ s = Poller
          /\ Step(s, h, "answered")
          /\ asked' = asked \cup {<<s, h>>}
    /\ tries' = [tries EXCEPT ![s][h] = 0]
    /\ UNCHANGED <<events, lockVars, pc, caller, seen, replied>>

\* An application that gave up on an answer no longer waits for its call.
HangUp(s, h) == caller' = [a \in Apis |-> IF caller[a] = <<s, h>> THEN None ELSE caller[a]]

\* Mutant: one retry too many.
PostFailsOffByOne(s, h) ==
    /\ run[s][h] = "posting"
    /\ \/ /\ tries[s][h] <= MaxRetries + 1
          /\ tries' = [tries EXCEPT ![s][h] = @ + 1]
          /\ UNCHANGED run
       \/ /\ tries[s][h] > MaxRetries + 1
          /\ Step(s, h, "done")
          /\ tries' = [tries EXCEPT ![s][h] = 0]
    /\ HangUp(s, h)
    /\ UNCHANGED <<events, lockVars, pc, histVars>>

\* Mutant: retries without end.
PostFailsForEver(s, h) ==
    /\ run[s][h] = "posting"
    /\ HangUp(s, h)
    /\ UNCHANGED <<events, lockVars, pc, runVars, histVars>>

\* The connection fails or http.Client's timeout (at least 5 s) expires.
PostFails(s, h) ==
    /\ run[s][h] = "posting"
    /\ \/ /\ tries[s][h] <= MaxRetries
          /\ tries' = [tries EXCEPT ![s][h] = @ + 1]
          /\ UNCHANGED run
       \/ /\ tries[s][h] = MaxRetries + 1
          /\ Step(s, h, "done")
          /\ tries' = [tries EXCEPT ![s][h] = 0]
    /\ HangUp(s, h)
    /\ UNCHANGED <<events, lockVars, pc, histVars>>

\* CQHandleQuickOperation.  A reply goes to CQSendPrivateMessage and
\* SendPrivateMessage, which uses bot.Client: nil in Weixin mode.  The panic
\* ends the handler; nothing has been sent.
QuickOperation(s, h) ==
    /\ run[s][h] = "answered"
    /\ Step(s, h, "done")
    /\ UNCHANGED <<events, lockVars, pc, tries, caller, histVars>>

-----------------------------------------------------------------------------
(* The API: Caller.Call runs CallWeixinAction in the request's goroutine.  *)

\* A client sends a message, either out of the blue or while it is answering
\* a POST (of an event that is not itself the report of a sent message).
ApiRequest(a) ==
    /\ pc[a] = "idle"
    /\ \/ UNCHANGED caller
       \/ \E s \in Loops, h \in Handlers :
             /\ run[s][h] = "posting"
             /\ ~Answering(s, h)
             /\ caller' = [caller EXCEPT ![a] = <<s, h>>]
    /\ pc' = [pc EXCEPT ![a] = "sending"]
    /\ UNCHANGED <<events, lockVars, runVars, histVars>>

\* SendPrivate fails: an error answer.
SendFails(a) ==
    /\ pc[a] = "sending"
    /\ pc' = [pc EXCEPT ![a] = "idle"]
    /\ caller' = [caller EXCEPT ![a] = None]
    /\ UNCHANGED <<events, lockVars, runVars, histVars>>

\* It succeeds: DispatchWeixinSelfMessage (ReportSelfMessage is on).  The
\* request may have been a .handle_quick_operation with a reply, which
\* weixinHandleQuickOperation turns into an ordinary send.
SelfMessage(a) ==
    /\ pc[a] = "sending"
    /\ ReadLock(a)
    /\ \/ UNCHANGED <<asked, replied>>
       \/ /\ caller[a] \in {Poller} \X Handlers
          /\ asked' = asked \cup {caller[a]}
          /\ replied' = replied \cup {caller[a]}
    /\ UNCHANGED seen

-----------------------------------------------------------------------------
Init ==
    /\ events = <<>>
    /\ writer = None
    /\ readers = {}
    /\ waiting = {}
    /\ pc = [s \in Sources |-> "idle"]
    /\ run = [s \in Sources |-> [h \in Handlers |-> "none"]]
    /\ tries = [s \in Sources |-> [h \in Handlers |-> 0]]
    /\ caller = [a \in Apis |-> None]
    /\ seen = [s \in Sources |-> {}]
    /\ asked = {}
    /\ replied = {}

Handle(s, h) ==
    Post(s, h) \/ PostAnswered(s, h) \/ PostFails(s, h) \/ QuickOperation(s, h)

Next ==
    \/ \E h \in Handlers : AnnounceWriter(h) \/ OnEventPush(h)
    \/ \E s \in Sources : Dispatch(s) \/ Spawn(s) \/ Return(s)
    \/ \E s \in Sources, h \in Handlers : Handle(s, h)
    \/ \E a \in Apis : ApiRequest(a) \/ SendFails(a) \/ SelfMessage(a)

Spec == Init /\ [][Next]_vars

\* Fairness.  Goroutines that can run do run, a POST ends at the latest with
\* its timeout, and so does SendPrivate (context.WithTimeout, 30 s).  Neither
\* events nor registrations nor requests need ever come.
FairSpec ==
    /\ Spec
    /\ \A h \in Handlers : WF_vars(OnEventPush(h))
    /\ \A s \in Sources : WF_vars(Spawn(s)) /\ WF_vars(Return(s))
    /\ \A s \in Sources, h \in Handlers : WF_vars(Handle(s, h))
    /\ \A a \in Apis : WF_vars(SendFails(a) \/ SelfMessage(a))

-----------------------------------------------------------------------------
(* Properties.                                                             *)

TypeOK ==
    /\ events \in Seq(Handlers)
    /\ writer \in Handlers \cup {None}
    /\ readers \in SUBSET Sources
    /\ waiting \in SUBSET Sources
    /\ pc \in [Sources -> {"idle", "sending", "blocked", "locked", "wait"}]
    /\ run \in [Sources -> [Handlers -> {"none", "spawned", "posting", "answered", "done"}]]
    /\ tries \in [Sources -> [Handlers -> 0..MaxRetries + 1]]
    /\ caller \in [Apis -> Runs \cup {None}]
    /\ seen \in [Sources -> SUBSET Handlers]
    /\ asked \in SUBSET Runs
    /\ replied \in SUBSET Runs

\* When dispatch returns, the event's buffer goes back to the pool and the
\* next event of the source may follow: no handler may then still be at work
\* on the event, in whatever order the handlers, their retries and the calls
\* nested in them end.  So handlers get the events of a source in order.
DoneBeforeReturn ==
    \A s \in Sources, h \in Handlers :
        InProgress(s, h) => pc[s] = "wait" /\ s \in readers

\* Once it has seen one event of a source a handler misses none, even if
\* others register in the middle.
NoGaps ==
    \A s \in Sources : pc[s] = "wait" => \A h \in seen[s] : run[s][h] # "none"

\* A dispatch returns in the end, even if it waits for an application whose
\* API call waits for a registration that waits for this very dispatch.
DispatchReturns ==
    \A s \in Sources : pc[s] # "idle" ~> pc[s] = "idle"

\* A server that registers while events come in all the time gets in.
RegistrationCompletes ==
    \A h \in Handlers : writer = h ~> h \in Registered

\* Both: the cycle dispatch - application - API - registration - dispatch is
\* broken by the timeouts of POST.
NobodyWaitsForEver == DispatchReturns /\ RegistrationCompletes

\* A quick operation asked for with a reply, by API or in the answer to a
\* POST, hands the reply to the send chain before the handler is done
\* (docs/weixin_api_matrix.md:25, coolq/api.go:1461).
QuickReplySent ==
    \A x \in asked : run[x[1]][x[2]] = "done" => x \in replied
=============================================================================
