----------------------------- MODULE ForwardWS -----------------------------
(***************************************************************************)
(* The forward WebSocket server (server/websocket.go): clients of /event   *)
(* and / join a list that every event walks; clients of /api and / are     *)
(* read by listenAPI, which answers each request in a goroutine of its own.*)
(*                                                                         *)
(* s.mu is free exactly when no walk is under way.  wsConn.mu of a client  *)
(* is held while an answer is written.  pushed and since are history.      *)
(***************************************************************************)
EXTENDS Integers, Sequences

CONSTANTS Clients,    \* connections; each is made once
          MaxEvents   \* bound: events pushed

VARIABLES
    endpoint,   \* path a client connected to, "none" before
    open,       \* clients whose connection this side has not closed
    eventConn,  \* s.eventConn
    walk,       \* the loop of onBotPushEvent: running, i, j
    request,    \* state of the client's API request: no, asked, answering
    got,        \* what a client received: 0 is the handshake, n the n-th event
    pushed,     \* number of events that passed the filter
    since       \* events pushed before the client joined the list

connVars == <<endpoint, open>>
vars == <<connVars, eventConn, walk, request, got, pushed, since>>

Listed == {eventConn[k] : k \in 1..Len(eventConn)}
Idle == [on |-> FALSE, i |-> 1, j |-> 0]

-----------------------------------------------------------------------------
\* checkAuth passed, the connection was upgraded, and on /event and / the
\* handshake was written; a failed handshake leaves nothing behind.
Connect(c, path) ==
    /\ endpoint[c] = "none"
    /\ endpoint' = [endpoint EXCEPT ![c] = path]
    /\ open' = open \cup {c}
    /\ got' = [got EXCEPT ![c] = IF path = "/api" THEN <<>> ELSE <<0>>]
    /\ UNCHANGED <<eventConn, walk, request, pushed, since>>

\* The handler appends the client to the list under s.mu.
Join(c) ==
    /\ endpoint[c] \in {"/event", "/"}
    /\ since[c] = -1
    /\ ~walk.on
    /\ eventConn' = Append(eventConn, c)
    /\ since' = [since EXCEPT ![c] = pushed]
    /\ UNCHANGED <<connVars, walk, request, got, pushed>>

-----------------------------------------------------------------------------
(* listenAPI and handleRequest.                                            *)

\* Clients of / are read only once they are in the list.
Reads(c) == endpoint[c] = "/api" \/ (endpoint[c] = "/" /\ since[c] # -1)

Request(c) ==
    /\ Reads(c)
    /\ c \in open
    /\ request[c] = "no"
    /\ request' = [request EXCEPT ![c] = "asked"]
    /\ UNCHANGED <<connVars, eventConn, walk, got, pushed, since>>

\* The client goes away and NextReader fails: listenAPI closes the connection,
\* which stays in the list.  Nobody reads a client of /event.
ReadFails(c) ==
    /\ Reads(c)
    /\ c \in open
    /\ open' = open \ {c}
    /\ UNCHANGED <<endpoint, eventConn, walk, request, got, pushed, since>>

\* The action has run; the answer is written under wsConn.mu.
LockAnswer(c) ==
    /\ request[c] = "asked"
    /\ request' = [request EXCEPT ![c] = "answering"]
    /\ UNCHANGED <<connVars, eventConn, walk, got, pushed, since>>

Answer(c) ==
    /\ request[c] = "answering"
    /\ request' = [request EXCEPT ![c] = "no"]
    /\ UNCHANGED <<connVars, eventConn, walk, got, pushed, since>>

\* The action panics: the connection is closed and stays in the list.
AnswerPanics(c) ==
    /\ request[c] = "asked"
    /\ open' = open \ {c}
    /\ request' = [request EXCEPT ![c] = "no"]
    /\ UNCHANGED <<endpoint, eventConn, walk, got, pushed, since>>

-----------------------------------------------------------------------------
(* onBotPushEvent: an event that passes the filter is written to the       *)
(* clients one after the other; those that fail are squeezed out in place. *)

Push ==
    /\ pushed < MaxEvents
    /\ ~walk.on
    /\ walk' = [Idle EXCEPT !.on = TRUE]
    /\ pushed' = pushed + 1
    /\ UNCHANGED <<connVars, eventConn, request, got, since>>

Current == eventConn[walk.i]

\* A write is due, and nobody else writes to the client.
AtClient ==
    /\ walk.on
    /\ walk.i <= Len(eventConn)
    /\ request[Current] # "answering"

\* Mutant: the walk squeezes but the entry is not moved down.
WriteOkUnmoved ==
    /\ AtClient
    /\ Current \in open
    /\ got' = [got EXCEPT ![Current] = Append(@, pushed)]
    /\ walk' = [walk EXCEPT !.i = @ + 1, !.j = @ + 1]
    /\ UNCHANGED <<connVars, eventConn, request, pushed, since>>

\* Writing to a client that has left may still succeed.
WriteOk ==
    /\ AtClient
    /\ Current \in open
    /\ got' = [got EXCEPT ![Current] = Append(@, pushed)]
    /\ eventConn' = [eventConn EXCEPT ![walk.j + 1] = Current]
    /\ walk' = [walk EXCEPT !.i = @ + 1, !.j = @ + 1]
    /\ UNCHANGED <<connVars, request, pushed, since>>

\* The client is closed or gone, or does not read for 15 s.
WriteFails ==
    /\ AtClient
    /\ open' = open \ {Current}
    /\ walk' = [walk EXCEPT !.i = @ + 1]
    /\ UNCHANGED <<endpoint, eventConn, request, got, pushed, since>>

EndWalk ==
    /\ walk.on
    /\ walk.i > Len(eventConn)
    /\ eventConn' = SubSeq(eventConn, 1, walk.j)
    /\ walk' = Idle
    /\ UNCHANGED <<connVars, request, got, pushed, since>>

-----------------------------------------------------------------------------
Init ==
    /\ endpoint = [c \in Clients |-> "none"]
    /\ open = {}
    /\ eventConn = <<>>
    /\ walk = Idle
    /\ request = [c \in Clients |-> "no"]
    /\ got = [c \in Clients |-> <<>>]
    /\ pushed = 0
    /\ since = [c \in Clients |-> -1]

Next ==
    \/ \E c \in Clients :
          \/ \E path \in {"/event", "/api", "/"} : Connect(c, path)
          \/ Join(c) \/ Request(c) \/ ReadFails(c)
          \/ LockAnswer(c) \/ Answer(c) \/ AnswerPanics(c)
    \/ Push \/ WriteOk \/ WriteFails \/ EndWalk

Spec == Init /\ [][Next]_vars

-----------------------------------------------------------------------------
(* Properties.                                                             *)

\* Events a client still in the list has been sent: during a walk, those
\* already passed have the event of the walk.
Due(c) ==
    IF walk.on /\ \E k \in walk.i..Len(eventConn) : eventConn[k] = c
    THEN pushed - 1 ELSE pushed

\* A subscriber receives the handshake and then, without gap, repetition or
\* disorder, every event pushed since it joined, up to the first one that
\* could not be written; then its connection is closed.
EachEventOnceInOrder ==
    /\ \A c \in Clients : since[c] # -1 =>
          LET n == Len(got[c]) - 1 IN
          /\ got[c] = <<0>> \o [k \in 1..n |-> since[c] + k]
          /\ c \in open => since[c] + n = Due(c)

\* Between walks every open subscriber is in the list, once; what failed, or
\* never subscribed, is not.
SubscribersListed ==
    ~walk.on =>
        /\ \A k, l \in 1..Len(eventConn) : k # l => eventConn[k] # eventConn[l]
        /\ \A c \in Clients : c \in open /\ since[c] # -1 => c \in Listed
        /\ \A c \in Listed : since[c] # -1 /\ since[c] + Len(got[c]) - 1 = pushed
=============================================================================
