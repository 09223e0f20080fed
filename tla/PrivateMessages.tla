--------------------------- MODULE PrivateMessages ---------------------------
(***************************************************************************)
(* What becomes of a private message inside the program: API calls send    *)
(* their segments one by one, the poller normalises what peers wrote; both *)
(* then append to messages.json (internal/weixin/client.go) and store the  *)
(* message in every database backend (coolq/weixin.go, db/), under an id   *)
(* that is a 32-bit hash and that get_msg is to find again.                *)
(***************************************************************************)
EXTENDS Naturals, Sequences, FiniteSets

CONSTANTS Senders,     \* calls of send_private_msg and the like
          Events,      \* messages from peers
          Segments,    \* the segments of each call
          Gid,         \* mapWeixinMessageID of each message
          Backends,    \* databases that are enabled
          Mongo,       \* those that keep messages by _id and not by GlobalID
          Limit,       \* defaultMessageLogLength
          Torn,        \* messages.json truncated
          MaxCrashes   \* bound: crashes

Actors == Senders \cup Events

ASSUME MessagesAssumption ==
    /\ Senders \cap Events = {}
    /\ \A s \in Senders : Segments[s] \in Seq({"text", "media"})
    /\ IsFiniteSet(Backends)
    /\ Mongo \subseteq Backends
    /\ Limit \in Nat \ {0}
    /\ Torn \notin Seq(Actors)
    /\ MaxCrashes \in Nat

VARIABLES
    pc,        \* control state of each call, and of the poller at each event
    next,      \* the segment a call is at
    arrived,   \* segments that reached the Weixin server
    flying,    \* requests under way to it, also of calls that gave up
    cdn,       \* media on the CDN
    file,      \* messages.json
    entries,   \* what an actor read from it
    order,     \* db.backends
    k,         \* the backend an actor is at
    store,     \* messages in each backend
    told,      \* history: ids and failures reported to the application
    partial,   \* history: messages whose last insert did not run to its end
    logged,    \* history: messages in the order they were written to the log
    clean,     \* history: no appends overlapped, failed or were interrupted
    crashes    \* crashes so far

sendVars == <<next, arrived, flying, cdn>>
logVars == <<file, entries, logged, clean>>
dbVars == <<order, k, store, told, partial>>
vars == <<pc, sendVars, logVars, dbVars, crashes>>

N == Cardinality(Backends)
Goto(a, l) == pc' = [pc EXCEPT ![a] = l]
Tell(a, x) == told' = [told EXCEPT ![a] = @ \cup {x}]

-----------------------------------------------------------------------------
(* Sending. *)

\* Unknown user, no context token, bad message, not logged in, nothing to send.
Refuse(s) ==
    /\ pc[s] = "idle"
    /\ Goto(s, "done")
    /\ Tell(s, "error")
    /\ UNCHANGED <<sendVars, logVars, order, k, store, partial, crashes>>

Accept(s) ==
    /\ pc[s] = "idle"
    /\ Segments[s] # <<>>
    /\ Goto(s, "send")
    /\ UNCHANGED <<sendVars, logVars, dbVars, crashes>>

\* sendMediaSegment: resolveMediaPath, uploadMedia.
Upload(s) ==
    /\ pc[s] = "send"
    /\ Segments[s][next[s]] = "media"
    /\ <<s, next[s]>> \notin cdn
    /\ cdn' = cdn \cup {<<s, next[s]>>}
    /\ UNCHANGED <<pc, next, arrived, flying, logVars, dbVars, crashes>>

\* sendMessage: the request leaves.
Post(s) ==
    /\ pc[s] = "send"
    /\ Segments[s][next[s]] = "media" => <<s, next[s]>> \in cdn
    /\ flying' = flying \cup {<<s, next[s]>>}
    /\ Goto(s, "posted")
    /\ UNCHANGED <<next, arrived, cdn, logVars, dbVars, crashes>>

\* The server has the request, whether or not anybody still waits for it.
Arrive(s, i) ==
    /\ <<s, i>> \in flying
    /\ flying' = flying \ {<<s, i>>}
    /\ arrived' = arrived \cup {<<s, i>>}
    /\ UNCHANGED <<pc, next, cdn, logVars, dbVars, crashes>>

\* Mutant: one segment too many.
AcceptedPastEnd(s) ==
    /\ pc[s] = "posted"
    /\ <<s, next[s]>> \in arrived
    /\ next' = [next EXCEPT ![s] = @ + 1]
    /\ Goto(s, IF next[s] > Len(Segments[s]) THEN "log" ELSE "send")
    /\ UNCHANGED <<arrived, flying, cdn, logVars, dbVars, crashes>>

\* Its answer arrives: on to the next segment, or to the log.
Accepted(s) ==
    /\ pc[s] = "posted"
    /\ <<s, next[s]>> \in arrived
    /\ IF next[s] < Len(Segments[s])
       THEN Goto(s, "send") /\ next' = [next EXCEPT ![s] = @ + 1]
       ELSE Goto(s, "log") /\ UNCHANGED next
    /\ UNCHANGED <<arrived, flying, cdn, logVars, dbVars, crashes>>

\* Mutant: a segment that failed is skipped.
SkipSegment(s) ==
    /\ pc[s] \in {"send", "posted"}
    /\ IF next[s] < Len(Segments[s])
       THEN Goto(s, "send") /\ next' = [next EXCEPT ![s] = @ + 1]
       ELSE Goto(s, "log") /\ UNCHANGED next
    /\ UNCHANGED <<arrived, flying, cdn, logVars, dbVars, crashes>>

\* An upload or a request fails, its answer is lost, or the 30 s are over:
\* SEND_ERROR, whatever was delivered.
SendFails(s) ==
    /\ pc[s] \in {"send", "posted"}
    /\ Goto(s, "done")
    /\ Tell(s, "error")
    /\ UNCHANGED <<sendVars, logVars, order, k, store, partial, crashes>>

-----------------------------------------------------------------------------
(* Receiving. *)

\* parseUpdate: the poller, one goroutine, has normalised a message.  What
\* makes up a batch, and its order, is left open.
Normalize(e) ==
    /\ pc[e] = "idle"
    /\ \A f \in Events : pc[f] \in {"idle", "ready", "done"}
    /\ Goto(e, "log")
    /\ UNCHANGED <<sendVars, logVars, dbVars, crashes>>

\* DispatchWeixinPrivateMessage, one event after another.
Dispatch(e) ==
    /\ pc[e] = "ready"
    /\ \A f \in Events : pc[f] \in {"idle", "ready", "done"}
    /\ Goto(e, "store")
    /\ UNCHANGED <<sendVars, logVars, dbVars, crashes>>

-----------------------------------------------------------------------------
(* appendMessageLog, without a lock. *)

Appending == {a \in Actors : pc[a] \in {"trim", "write"}}

Trim(q) == IF Len(q) > Limit THEN SubSeq(q, Len(q) - Limit + 1, Len(q)) ELSE q

AfterLog(a) == IF a \in Senders THEN "store" ELSE "ready"

\* Mutant: the log is trimmed before the entry is appended.
LogReadTrimsFirst(a) ==
    /\ pc[a] = "log"
    /\ entries' = [entries EXCEPT
                      ![a] = Append(Trim(IF file = Torn THEN <<>> ELSE file), a)]
    /\ clean' = (clean /\ Appending = {})
    /\ Goto(a, "trim")
    /\ UNCHANGED <<sendVars, file, logged, dbVars, crashes>>

\* readJSONFile; a file that does not parse is an empty log.
LogRead(a) ==
    /\ pc[a] = "log"
    /\ entries' = [entries EXCEPT
                      ![a] = Trim(Append(IF file = Torn THEN <<>> ELSE file, a))]
    /\ clean' = (clean /\ Appending = {})
    /\ Goto(a, "trim")
    /\ UNCHANGED <<sendVars, file, logged, dbVars, crashes>>

\* writeJSONFile: os.WriteFile truncates, ...
LogTruncate(a) ==
    /\ pc[a] = "trim"
    /\ file' = Torn
    /\ Goto(a, "write")
    /\ UNCHANGED <<sendVars, entries, logged, clean, dbVars, crashes>>

\* ... then writes.
LogWrite(a) ==
    /\ pc[a] = "write"
    /\ file' = entries[a]
    /\ logged' = Append(logged, a)
    /\ entries' = [entries EXCEPT ![a] = <<>>]
    /\ Goto(a, AfterLog(a))
    /\ UNCHANGED <<sendVars, clean, dbVars, crashes>>

\* The file cannot be opened or written: only a warning.
LogFails(a) ==
    /\ pc[a] \in {"trim", "write"}
    /\ clean' = FALSE
    /\ entries' = [entries EXCEPT ![a] = <<>>]
    /\ Goto(a, AfterLog(a))
    /\ UNCHANGED <<sendVars, file, logged, dbVars, crashes>>

-----------------------------------------------------------------------------
(* InsertWeixinPrivateMessage and the databases. *)

\* LevelDB puts by GlobalID (SQLite replaces by it), over a message that has
\* the same; MongoDB upserts by _id.
Put(msgs, a) == {m \in msgs : Gid[m] # Gid[a]} \cup {a}
Upsert(msgs, a) == msgs \cup {a}

Place(b, a) == IF b \in Mongo THEN Upsert(store[b], a) ELSE Put(store[b], a)

\* Mutant: only the first backend is written.
InsertFirst(a) ==
    /\ pc[a] = "store"
    /\ k[a] \in 1..N
    /\ store' = [store EXCEPT ![order[k[a]]] = Place(order[k[a]], a)]
    /\ k' = [k EXCEPT ![a] = N + 1]
    /\ UNCHANGED <<pc, sendVars, logVars, order, told, partial, crashes>>

\* db.InsertPrivateMessage: the next backend.
Insert(a) ==
    /\ pc[a] = "store"
    /\ k[a] \in 1..N
    /\ store' = [store EXCEPT ![order[k[a]]] = Place(order[k[a]], a)]
    /\ k' = [k EXCEPT ![a] = @ + 1]
    /\ UNCHANGED <<pc, sendVars, logVars, order, told, partial, crashes>>

\* Mutant: the error of a backend is only logged.
InsertFailsSilently(a) ==
    /\ pc[a] = "store"
    /\ k[a] \in 1..N
    /\ Goto(a, "done")
    /\ Tell(a, "id")
    /\ partial' = partial \cup {a}
    /\ k' = [k EXCEPT ![a] = 1]
    /\ UNCHANGED <<sendVars, logVars, order, store, crashes>>

\* A backend fails, in spite of which it may have the message.  The rest is
\* not written, and the application is told the id -1.
InsertFails(a) ==
    /\ pc[a] = "store"
    /\ k[a] \in 1..N
    /\ \/ UNCHANGED store
       \/ store' = [store EXCEPT ![order[k[a]]] = Place(order[k[a]], a)]
    /\ Goto(a, "done")
    /\ Tell(a, "none")
    /\ partial' = partial \cup {a}
    /\ k' = [k EXCEPT ![a] = 1]
    /\ UNCHANGED <<sendVars, logVars, order, crashes>>

\* The application is told the id, in an answer or an event.
Report(a) ==
    /\ pc[a] = "store"
    /\ k[a] = N + 1
    /\ Goto(a, "done")
    /\ Tell(a, "id")
    /\ partial' = partial \ {a}
    /\ k' = [k EXCEPT ![a] = 1]
    /\ UNCHANGED <<sendVars, logVars, order, store, crashes>>

-----------------------------------------------------------------------------
\* db.Init ranges over a map: any order.
Orders == {o \in [1..N -> Backends] : \A b \in Backends : \E i \in 1..N : o[i] = b}

\* The program is started again.  Calls are gone; the server repeats those
\* messages that the cursor on disk does not cover.
Crash ==
    /\ crashes < MaxCrashes
    /\ crashes' = crashes + 1
    /\ order' \in Orders
    /\ \E R \in SUBSET Events :
          pc' = [a \in Actors |-> IF a \in R \/ pc[a] = "idle" THEN "idle" ELSE "done"]
    /\ partial' = partial \cup {a \in Actors : pc[a] = "store"}
    /\ clean' = (clean /\ \A a \in Actors : pc[a] # "write")
    /\ entries' = [a \in Actors |-> <<>>]
    /\ k' = [a \in Actors |-> 1]
    /\ UNCHANGED <<sendVars, file, logged, store, told>>

Init ==
    /\ pc = [a \in Actors |-> "idle"]
    /\ next = [s \in Senders |-> 1]
    /\ arrived = {} /\ flying = {} /\ cdn = {}
    /\ file = <<>> /\ logged = <<>> /\ clean = TRUE
    /\ entries = [a \in Actors |-> <<>>]
    /\ order \in Orders
    /\ k = [a \in Actors |-> 1]
    /\ store = [b \in Backends |-> {}]
    /\ told = [a \in Actors |-> {}]
    /\ partial = {}
    /\ crashes = 0

SenderStep(s) ==
    \/ Refuse(s) \/ Accept(s) \/ Upload(s) \/ Post(s)
    \/ \E i \in DOMAIN Segments[s] : Arrive(s, i)
    \/ Accepted(s) \/ SendFails(s)

EventStep(e) == Normalize(e) \/ Dispatch(e)

RecordStep(a) ==
    \/ LogRead(a) \/ LogTruncate(a) \/ LogWrite(a) \/ LogFails(a)
    \/ Insert(a) \/ InsertFails(a) \/ Report(a)

\* Everything has been sent or received and recorded.
Idle == (\A a \in Actors : pc[a] = "done") /\ UNCHANGED vars

Next ==
    \/ \E s \in Senders : SenderStep(s)
    \/ \E e \in Events : EventStep(e)
    \/ \E a \in Actors : RecordStep(a)
    \/ Crash
    \/ Idle

Spec == Init /\ [][Next]_vars

-----------------------------------------------------------------------------
(* Properties. *)

\* Every variable has its type.
TypeOK ==
    /\ pc \in [Actors -> {"idle", "send", "posted", "log", "trim", "write",
                          "ready", "store", "done"}]
    /\ next \in [Senders -> Nat]
    /\ \A s \in Senders : pc[s] = "send" => next[s] \in DOMAIN Segments[s]
    /\ arrived \cup flying \cup cdn \subseteq Senders \X Nat
    /\ file = Torn \/ file \in Seq(Actors)
    /\ entries \in [Actors -> Seq(Actors)]
    /\ logged \in Seq(Actors)
    /\ clean \in BOOLEAN
    /\ order \in Orders
    /\ k \in [Actors -> 1..(N + 1)]
    /\ store \in [Backends -> SUBSET Actors]
    /\ told \in [Actors -> SUBSET {"id", "none", "error"}]
    /\ partial \subseteq Actors
    /\ crashes \in 0..MaxCrashes

\* What get_msg finds in a backend under an id.
Found(b, id) == {m \in store[b] : Gid[m] = id}

\* An id that was reported to the application is found in every backend, so
\* get_msg finds it whichever backend comes first after the next start, and
\* although other messages may have the same id (db/multidb.go, weixinGetMessage).
ReportedIdIsFound ==
    \A a \in Actors : "id" \in told[a] => \A b \in Backends : Found(b, Gid[a]) # {}

\* Backends differ in the ids they know only by messages whose insert failed, was
\* interrupted or is under way (InsertPrivateMessage stops at the first error).
BackendsAgree ==
    \A b, c \in Backends : \A a \in store[b] :
        Found(c, Gid[a]) = {} => a \in partial \/ pc[a] = "store"

\* Of a call, an initial part of the segments arrives, media after they are on
\* the CDN; all of it if the message is logged, stored or reported (SendPrivate).
SentIsWhole ==
    \A s \in Senders :
        LET n == Len(Segments[s])
            Has(i) == <<s, i>> \in arrived
            Kept == (file # Torn /\ \E i \in DOMAIN file : file[i] = s)
                    \/ (\E b \in Backends : s \in store[b]) \/ told[s] \cap {"id", "none"} # {}
        IN  /\ \A i \in 2..n : Has(i) => Has(i - 1)
            /\ \A i \in 1..n : Has(i) /\ Segments[s][i] = "media" => <<s, i>> \in cdn
            /\ Kept => \A i \in 1..n : Has(i)

\* The message log keeps the order of the appends, and misses none of the last
\* Limit unless appends overlapped, failed or were interrupted (appendMessageLog).
LogIsFaithful ==
    file # Torn =>
        /\ \E f \in [DOMAIN file -> DOMAIN logged] :
              /\ \A i \in DOMAIN file : file[i] = logged[f[i]]
              /\ \A i, j \in DOMAIN file : i < j => f[i] < f[j]
        /\ clean => file = Trim(logged)
=============================================================================
