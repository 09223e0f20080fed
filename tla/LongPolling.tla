---------------------------- MODULE LongPolling ----------------------------
(***************************************************************************)
(* The queue behind get_updates (server/middlewares.go, longPolling): the  *)
(* event handler pushes and signals; each request starts a collector       *)
(* goroutine, waits for its answer on an unbuffered channel and may time   *)
(* out, while the collector lives on.                                      *)
(*                                                                         *)
(* Every critical section of the mutex is one action.  Events are numbered *)
(* in the order they are pushed.                                           *)
(***************************************************************************)
EXTENDS Naturals, Sequences, FiniteSets

CONSTANTS Requests,   \* requests (used again once both goroutines have ended)
          MaxSize,    \* max-queue-size, 0 for no limit
          Limits,     \* values of the parameter limit, 0 for none
          MaxEvents   \* bound: events pushed

ASSUME PollingAssumption ==
    /\ MaxSize \in Nat
    /\ Limits \subseteq Nat
    /\ MaxEvents \in Nat

VARIABLES
    queue,     \* events not yet handed out
    pushed,    \* events so far
    handler,   \* state of each request's handler
    collector, \* state of each request's collector goroutine
    timed,     \* whether the request has a timeout
    limit,     \* its limit
    answers,   \* history: events handed out, in order
    trimmed,   \* history: events removed because of MaxSize
    excused    \* history: a collector gave up, or left events behind

reqVars == <<handler, collector, timed, limit>>
vars == <<queue, pushed, reqVars, answers, trimmed, excused>>

Smaller(m, n) == IF m < n THEN m ELSE n
First(s, n) == SubSeq(s, 1, n)
Rest(s, n) == SubSeq(s, n + 1, Len(s))
Elements(s) == {s[i] : i \in 1..Len(s)}
Waiting == {r \in Requests : collector[r] = "wait"}

-----------------------------------------------------------------------------
(* The event handler.                                                      *)

\* How many events the queue has too many after a push.
Excess == IF MaxSize # 0 /\ Len(queue) = MaxSize THEN 1 ELSE 0

\* Mutant: no Signal.
PushSilently ==
    /\ pushed < MaxEvents
    /\ pushed' = pushed + 1
    /\ queue' = Rest(Append(queue, pushed + 1), Excess)
    /\ trimmed' = trimmed \cup Elements(First(queue, Excess))
    /\ UNCHANGED <<reqVars, answers, excused>>

\* PushBack, trimming at the front, Signal (wakes one waiter).
Push ==
    /\ pushed < MaxEvents
    /\ pushed' = pushed + 1
    /\ queue' = Rest(Append(queue, pushed + 1), Excess)
    /\ trimmed' = trimmed \cup Elements(First(queue, Excess))
    /\ IF Waiting = {} THEN UNCHANGED collector
       ELSE \E r \in Waiting : collector' = [collector EXCEPT ![r] = "lock"]
    /\ UNCHANGED <<handler, timed, limit, answers, excused>>

-----------------------------------------------------------------------------
(* The request handler.                                                    *)

\* get_updates arrives: the collector is started first.
Call(r) ==
    /\ handler[r] = "off"
    /\ collector[r] = "off"
    /\ \E b \in BOOLEAN, n \in Limits :
          timed' = [timed EXCEPT ![r] = b] /\ limit' = [limit EXCEPT ![r] = n]
    /\ handler' = [handler EXCEPT ![r] = "started"]
    /\ collector' = [collector EXCEPT ![r] = "lock"]
    /\ UNCHANGED <<queue, pushed, answers, trimmed, excused>>

\* It reaches the receive from ch.
Receive(r) ==
    /\ handler[r] = "started"
    /\ handler' = [handler EXCEPT ![r] = "receiving"]
    /\ UNCHANGED <<queue, pushed, collector, timed, limit, answers, trimmed, excused>>

\* The timeout: an empty answer.
TimeOut(r) ==
    /\ handler[r] = "receiving"
    /\ timed[r]
    /\ handler' = [handler EXCEPT ![r] = "off"]
    /\ UNCHANGED <<queue, pushed, collector, timed, limit, answers, trimmed, excused>>

-----------------------------------------------------------------------------
(* The collector, when it gets the mutex.                                  *)

\* cond.Wait.
Wait(r) ==
    /\ collector[r] = "lock"
    /\ queue = <<>>
    /\ collector' = [collector EXCEPT ![r] = "wait"]
    /\ UNCHANGED <<queue, pushed, handler, timed, limit, answers, trimmed, excused>>

Taken(r) == IF limit[r] = 0 THEN Len(queue) ELSE Smaller(limit[r], Len(queue))

\* Mutant: the events are left in the queue.
HandOutCopy(r) ==
    /\ collector[r] = "lock"
    /\ queue # <<>>
    /\ handler[r] = "receiving"
    /\ answers' = answers \o First(queue, Taken(r))
    /\ handler' = [handler EXCEPT ![r] = "off"]
    /\ collector' = [collector EXCEPT ![r] = "off"]
    /\ UNCHANGED <<queue, pushed, timed, limit, trimmed, excused>>

\* The handler is at the receive: it gets the events, which are removed.
HandOut(r) ==
    /\ collector[r] = "lock"
    /\ queue # <<>>
    /\ handler[r] = "receiving"
    /\ answers' = answers \o First(queue, Taken(r))
    /\ queue' = Rest(queue, Taken(r))
    /\ excused' = (excused \/ queue' # <<>>)
    /\ handler' = [handler EXCEPT ![r] = "off"]
    /\ collector' = [collector EXCEPT ![r] = "off"]
    /\ UNCHANGED <<pushed, timed, limit, trimmed>>

\* The handler is not at the receive: default.
GiveUp(r) ==
    /\ collector[r] = "lock"
    /\ queue # <<>>
    /\ handler[r] # "receiving"
    /\ excused' = TRUE
    /\ collector' = [collector EXCEPT ![r] = "off"]
    /\ UNCHANGED <<queue, pushed, handler, timed, limit, answers, trimmed>>

-----------------------------------------------------------------------------
Init ==
    /\ queue = <<>>
    /\ pushed = 0
    /\ handler = [r \in Requests |-> "off"]
    /\ collector = [r \in Requests |-> "off"]
    /\ timed = [r \in Requests |-> FALSE]
    /\ limit = [r \in Requests |-> 0]
    /\ answers = <<>>
    /\ trimmed = {}
    /\ excused = FALSE

Next ==
    \/ Push
    \/ \E r \in Requests :
          Call(r) \/ Receive(r) \/ TimeOut(r) \/ Wait(r) \/ HandOut(r) \/ GiveUp(r)

Spec == Init /\ [][Next]_vars

-----------------------------------------------------------------------------
(* Properties.                                                             *)

\* Types; the queue never holds more than max-queue-size.
TypeOK ==
    /\ queue \in Seq(1..MaxEvents)
    /\ MaxSize # 0 => Len(queue) <= MaxSize
    /\ pushed \in 0..MaxEvents
    /\ handler \in [Requests -> {"off", "started", "receiving"}]
    /\ collector \in [Requests -> {"off", "lock", "wait"}]
    /\ timed \in [Requests -> BOOLEAN]
    /\ limit \in [Requests -> Limits \cup {0}]
    /\ answers \in Seq(1..MaxEvents)
    /\ trimmed \in SUBSET (1..MaxEvents)
    /\ excused \in BOOLEAN

\* Concurrent requests share the events: each is handed out at most once, in
\* order over all answers, whichever collectors got the mutex.
HandedOutOnceInOrder ==
    \A i, j \in 1..Len(answers) : i < j => answers[i] < answers[j]

\* No event disappears: it waits, or an answer has it, or the limit cost it;
\* a request that timed out costs nothing.
NothingDisappears ==
    Elements(queue) \cup Elements(answers) \cup trimmed = 1..pushed

\* Both: get_updates gives every event at most once and in order, and loses none
\* but those the limit of the queue cost.
EachEventOnce == HandedOutOnceInOrder /\ NothingDisappears

\* A collector sleeps beside a queue with events, none being awake to take
\* them, only after another one took its wake-up and gave up, or left events
\* behind because of its limit.
SleepsBesideEventsOnlyIfExcused ==
    queue # <<>> /\ Waiting # {} /\ (\A r \in Requests : collector[r] # "lock") => excused
=============================================================================
