----------------------------- MODULE ReverseWS -----------------------------
(***************************************************************************)
(* A reverse WebSocket client of type Universal: one wsConn object whose   *)
(* connection is dialled, written by the event handler, read by an API     *)
(* listener, and replaced in place when a write fails                      *)
(* (server/websocket.go).                                                  *)
(*                                                                         *)
(* c.mu makes the event handler (the "pusher") a single process, wsConn.mu *)
(* is wmu.  Each connect starts a listener; an old listener still refers   *)
(* to the wsConn, not to the connection it was started for.                *)
(***************************************************************************)
EXTENDS Naturals, FiniteSets

CONSTANTS Conns,      \* network connections (used again when forgotten)
          Listeners,  \* listenAPI goroutines (used again when they have ended)
          Requests,   \* handleRequest goroutines (used again)
          Pusher,     \* the goroutine in onBotPushEvent, or in runWSClient
          None

ASSUME ReverseAssumption ==
    /\ None \notin Conns \cup Requests \cup {Pusher}
    /\ Pusher \notin Requests

VARIABLES
    conn,     \* wsConn.conn
    open,     \* connections this side has not closed
    alive,    \* connections that still work
    pc,       \* control state of the pusher
    dialled,  \* connection dialled but not installed yet
    listen,   \* state of each listener
    reads,    \* connection each listener waits on in NextReader
    asked,    \* connection each request came from, None if idle
    wmu,      \* who holds wsConn.mu
    target    \* connection each writer under way writes to

netVars  == <<open, alive>>
listVars == <<listen, reads>>
vars == <<conn, netVars, pc, dialled, listVars, asked, wmu, target>>

Writers == Requests \cup {Pusher}

\* A connection that nobody refers to any more.
Forgotten(c) ==
    /\ c \notin open
    /\ c # conn /\ c # dialled
    /\ \A l \in Listeners : reads[l] # c
    /\ \A r \in Requests : asked[r] # c
    /\ \A w \in Writers : target[w] # c

-----------------------------------------------------------------------------
\* The application or the network drops a connection.
Drop(c) ==
    /\ c \in alive
    /\ alive' = alive \ {c}
    /\ UNCHANGED <<conn, open, pc, dialled, listVars, asked, wmu, target>>

-----------------------------------------------------------------------------
(* connect, called by runWSClient first and then by onBotPushEvent.        *)

\* Mutant: after a failed attempt connect goes on without a connection.
DialAnyway ==
    /\ pc = "dial"
    /\ pc' = "install"
    /\ UNCHANGED <<conn, netVars, dialled, listVars, asked, wmu, target>>

\* Dial, after the pause; failures are repeated for ever.  A handshake that
\* cannot be written is only logged.
Dial ==
    /\ pc = "dial"
    /\ \E c \in Conns :
          /\ Forgotten(c)
          /\ dialled' = c
          /\ open' = open \cup {c}
          /\ alive' = alive \cup {c}
    /\ pc' = "install"
    /\ UNCHANGED <<conn, listVars, asked, wmu, target>>

\* The wsConn gets the new connection, without wsConn.mu, and a listener.
Install ==
    /\ pc = "install"
    /\ \E l \in Listeners :
          /\ listen[l] = "off"
          /\ listen' = [listen EXCEPT ![l] = "loop"]
    /\ conn' = dialled
    /\ dialled' = None
    /\ pc' = "idle"
    /\ UNCHANGED <<netVars, reads, asked, wmu, target>>

-----------------------------------------------------------------------------
(* onBotPushEvent.                                                         *)

\* An event passes the filter.
Push ==
    /\ pc = "idle"
    /\ pc' = "push"
    /\ UNCHANGED <<conn, netVars, dialled, listVars, asked, wmu, target>>

\* WriteText.
LockWrite ==
    /\ pc = "push"
    /\ wmu = None
    /\ wmu' = Pusher
    /\ target' = [target EXCEPT ![Pusher] = conn]
    /\ pc' = "write"
    /\ UNCHANGED <<conn, netVars, dialled, listVars, asked>>

\* A write to a dead connection may still succeed.
WriteOk ==
    /\ pc = "write"
    /\ conn \in open
    /\ wmu' = None
    /\ target' = [target EXCEPT ![Pusher] = None]
    /\ pc' = "idle"
    /\ UNCHANGED <<conn, netVars, dialled, listVars, asked>>

\* Mutant: the failed connection is not closed.
WriteFailsOpen ==
    /\ pc = "write"
    /\ wmu' = None
    /\ target' = [target EXCEPT ![Pusher] = None]
    /\ pc' = "dial"
    /\ UNCHANGED <<conn, netVars, dialled, listVars, asked>>

\* Mutant: the handler does not reconnect.
WriteFailsForGood ==
    /\ pc = "write"
    /\ open' = open \ {conn}
    /\ wmu' = None
    /\ target' = [target EXCEPT ![Pusher] = None]
    /\ pc' = "idle"
    /\ UNCHANGED <<conn, alive, dialled, listVars, asked>>

\* Mutant: WriteText returns its error without unlocking.
WriteFailsLocked ==
    /\ pc = "write"
    /\ open' = open \ {conn}
    /\ target' = [target EXCEPT ![Pusher] = None]
    /\ pc' = "dial"
    /\ UNCHANGED <<conn, alive, dialled, listVars, asked, wmu>>

\* The connection is closed or broken, or the peer does not read for 15 s
\* (then it counts as broken).  It is closed and replaced; the event is lost.
WriteFails ==
    /\ pc = "write"
    /\ open' = open \ {conn}
    /\ alive' = alive \ {conn}
    /\ wmu' = None
    /\ target' = [target EXCEPT ![Pusher] = None]
    /\ pc' = "dial"
    /\ UNCHANGED <<conn, dialled, listVars, asked>>

-----------------------------------------------------------------------------
(* listenAPI.                                                              *)

\* conn.conn.NextReader(): whatever connection the wsConn has by now.
Listen(l) ==
    /\ listen[l] = "loop"
    /\ listen' = [listen EXCEPT ![l] = "read"]
    /\ reads' = [reads EXCEPT ![l] = conn]
    /\ UNCHANGED <<conn, netVars, pc, dialled, asked, wmu, target>>

\* A request arrives and is handled in a goroutine of its own.
Request(l, r) ==
    /\ listen[l] = "read"
    /\ reads[l] \in open \cap alive
    /\ asked[r] = None
    /\ asked' = [asked EXCEPT ![r] = reads[l]]
    /\ listen' = [listen EXCEPT ![l] = "loop"]
    /\ reads' = [reads EXCEPT ![l] = None]
    /\ UNCHANGED <<conn, netVars, pc, dialled, wmu, target>>

ReadFails(l) ==
    /\ listen[l] = "read"
    /\ reads[l] \notin open \cap alive
    /\ listen' = [listen EXCEPT ![l] = "pause"]
    /\ reads' = [reads EXCEPT ![l] = None]
    /\ UNCHANGED <<conn, netVars, pc, dialled, asked, wmu, target>>

\* After the pause a Universal listener ends without reconnecting; its
\* deferred conn.Close() closes the connection the wsConn has by now.
ListenerEnds(l) ==
    /\ listen[l] = "pause"
    /\ listen' = [listen EXCEPT ![l] = "off"]
    /\ open' = open \ {conn}
    /\ UNCHANGED <<conn, alive, pc, dialled, reads, asked, wmu, target>>

-----------------------------------------------------------------------------
(* handleRequest.                                                          *)

\* Mutant: the answer is written without wsConn.mu.
LockAnswerFree(r) ==
    /\ asked[r] # None
    /\ target[r] = None
    /\ target' = [target EXCEPT ![r] = conn]
    /\ UNCHANGED <<conn, netVars, pc, dialled, listVars, asked, wmu>>

\* The action has run; the answer goes to the connection there is by now.
LockAnswer(r) ==
    /\ asked[r] # None
    /\ target[r] = None
    /\ wmu = None
    /\ wmu' = r
    /\ target' = [target EXCEPT ![r] = conn]
    /\ UNCHANGED <<conn, netVars, pc, dialled, listVars, asked>>

\* Written or not.
Answer(r) ==
    /\ target[r] # None
    /\ wmu' = None
    /\ target' = [target EXCEPT ![r] = None]
    /\ asked' = [asked EXCEPT ![r] = None]
    /\ UNCHANGED <<conn, netVars, pc, dialled, listVars>>

\* The action panics: no answer, and the recovery closes the connection there
\* is by now.
AnswerPanics(r) ==
    /\ asked[r] # None
    /\ target[r] = None
    /\ open' = open \ {conn}
    /\ asked' = [asked EXCEPT ![r] = None]
    /\ UNCHANGED <<conn, alive, pc, dialled, listVars, wmu, target>>

-----------------------------------------------------------------------------
Init ==
    /\ conn = None
    /\ open = {}
    /\ alive = {}
    /\ pc = "dial"
    /\ dialled = None
    /\ listen = [l \in Listeners |-> "off"]
    /\ reads = [l \in Listeners |-> None]
    /\ asked = [r \in Requests |-> None]
    /\ wmu = None
    /\ target = [w \in Writers |-> None]

Next ==
    \/ \E c \in Conns : Drop(c)
    \/ Dial \/ Install
    \/ Push \/ LockWrite \/ WriteOk \/ WriteFails
    \/ \E l \in Listeners :
          Listen(l) \/ (\E r \in Requests : Request(l, r)) \/ ReadFails(l) \/ ListenerEnds(l)
    \/ \E r \in Requests : LockAnswer(r) \/ Answer(r) \/ AnswerPanics(r)

Spec == Init /\ [][Next]_vars

\* Fairness.  Goroutines run and compete fairly for wsConn.mu (a Go mutex
\* does not starve), heartbeats keep coming, a write ends within 15 s and does
\* not succeed for ever on a connection that is gone; the application accepts
\* a connection some time.
FairSpec ==
    /\ Spec
    /\ WF_vars(Dial) /\ WF_vars(Install) /\ WF_vars(Push)
    /\ SF_vars(LockWrite) /\ WF_vars(WriteOk \/ WriteFails)
    /\ SF_vars(conn \notin open \cap alive /\ WriteFails)
    /\ \A l \in Listeners : WF_vars(Listen(l) \/ ReadFails(l) \/ ListenerEnds(l))
    /\ \A r \in Requests : SF_vars(LockAnswer(r)) /\ WF_vars(Answer(r))

-----------------------------------------------------------------------------
(* Properties.                                                             *)

\* Types; whoever uses the wsConn finds a connection in it.
TypeOK ==
    /\ conn \in Conns \cup {None}
    /\ open \in SUBSET Conns
    /\ alive \in SUBSET Conns
    /\ pc \in {"dial", "install", "idle", "push", "write"}
    /\ dialled \in Conns \cup {None}
    /\ listen \in [Listeners -> {"off", "loop", "read", "pause"}]
    /\ reads \in [Listeners -> Conns \cup {None}]
    /\ asked \in [Requests -> Conns \cup {None}]
    /\ wmu \in Writers \cup {None}
    /\ target \in [Writers -> Conns \cup {None}]
    /\ pc \in {"idle", "push", "write"} => conn # None
    /\ (\E l \in Listeners : listen[l] # "off") => conn # None

\* A connection is written by one goroutine at a time (frames would mix
\* otherwise), although it is replaced without wsConn.mu.
OneWriter ==
    \A v, w \in Writers : v # w /\ target[v] # None => target[v] # target[w]

\* Replaced connections do not pile up: besides the current connection only
\* the one being installed is open.
NothingLeaks == open \subseteq {conn, dialled}

\* An answer goes to another connection than the request came from only if
\* the latter is closed.
AnswerToAsker ==
    \A r \in Requests : target[r] # None /\ target[r] # asked[r] => asked[r] \notin open

\* A lost connection is replaced by one that the application accepted, though
\* only the next event's write notices the loss.
ConnectsAgain ==
    conn \notin open \cap alive ~> dialled # None

\* Reporting an event ends, even when it includes a reconnection.  Until it
\* does, dispatch waits, and with it every other server.
PushReturns == pc = "push" ~> pc = "idle"

\* Both: a lost application costs the time it is away, and no more.
LossIsOvercome == ConnectsAgain /\ PushReturns

\* "Universal does not reconnect, so as to avoid repeated reconnections"
\* (server/websocket.go:333): a listener that ends leaves the connection to
\* onBotPushEvent, and closes none that works.
HealthyConnectionKept ==
    [][ (\E l \in Listeners : listen[l] = "pause" /\ listen'[l] = "off")
            => open \cap alive \subseteq open' ]_vars
=============================================================================
