------------------------ MODULE PrivateMessagesProofs ------------------------
(***************************************************************************)
(* Proofs about PrivateMessages, for any calls, events, segments, ids,     *)
(* backends and log length, and any number of crashes; and, in the second  *)
(* half, about Segments, that is about what is written in those messages,  *)
(* for any texts, elements and tokens.                                     *)
(***************************************************************************)
EXTENDS PrivateMessages, Segments, SequenceTheorems, FiniteSetTheorems, TLAPS

\* The counters of actors that have not started.
CounterInv ==
    /\ \A s \in Senders : pc[s] = "idle" => next[s] = 1
    /\ \A a \in Actors : pc[a] # "store" => k[a] = 1

\* The backends an insert has passed know the id.
PassedInv ==
    \A a \in Actors : pc[a] = "store" =>
        \A i \in 1..(k[a] - 1) : Found(order[i], Gid[a]) # {}

\* What has arrived or is under way: at most the current segment of a call and
\* certainly all before it, media after they are on the CDN.
SegmentInv ==
    /\ \A s \in Senders : \A i \in Nat :
          <<s, i>> \in arrived \cup flying =>
              /\ i \in 1..next[s]
              /\ Segments[s][i] = "media" => <<s, i>> \in cdn
    /\ \A s \in Senders : \A i \in 1..(next[s] - 1) : <<s, i>> \in arrived

\* A call that left its traces behind.
Recorded(s) ==
    \/ pc[s] \in {"log", "trim", "write", "store"}
    \/ \E a \in Actors : \E i \in DOMAIN entries[a] : entries[a][i] = s
    \/ file # Torn /\ \E i \in DOMAIN file : file[i] = s
    \/ \E b \in Backends : s \in store[b]
    \/ told[s] \cap {"id", "none"} # {}

\* Whatever left traces behind has been delivered.
RecordedInv ==
    \A s \in Senders : Recorded(s) => \A i \in DOMAIN Segments[s] : <<s, i>> \in arrived

\* The entries of q occur in w, in the same order.
Embeds(q, w) ==
    \E f \in [1..Len(q) -> 1..Len(w)] :
        /\ \A i \in 1..Len(q) : q[i] = w[f[i]]
        /\ \A i, j \in 1..Len(q) : i < j => f[i] < f[j]

\* What the log and those who rewrite it hold is what was written, in order.
OrderInv ==
    /\ file # Torn => Embeds(file, logged)
    /\ \A a \in Actors : Embeds(entries[a], Append(logged, a))

\* As long as appends do not overlap, the log is complete but for the moment
\* between truncating and writing, when the one who appends has all of it.
CompleteInv ==
    clean =>
        /\ \A a, b \in Appending : a = b
        /\ IF \E a \in Actors : pc[a] = "write" THEN file = Torn ELSE file = Trim(logged)
        /\ \A a \in Appending : entries[a] = Trim(Append(logged, a))

StoreInv == CounterInv /\ PassedInv /\ ReportedIdIsFound /\ BackendsAgree
SendInv == CounterInv /\ SegmentInv /\ RecordedInv
LogInv == OrderInv /\ CompleteInv

-----------------------------------------------------------------------------
\* The number of backends is a number.
LEMMA NIsNat == N \in Nat
BY MessagesAssumption, FS_CardinalityType DEF N

\* What is left of q by Trim.
LEMMA TrimIs ==
    ASSUME NEW q \in Seq(Actors)
    PROVE  /\ Trim(q) \in Seq(Actors)
           /\ Len(q) <= Limit => Trim(q) = q
           /\ Len(q) > Limit =>
                /\ Len(Trim(q)) = Limit
                /\ \A i \in 1..Limit : Trim(q)[i] = q[i + (Len(q) - Limit)]
<1>1. Len(q) \in Nat /\ Limit \in Nat \ {0}
  BY MessagesAssumption
<1>2. CASE Len(q) > Limit
  <2> DEFINE m == Len(q) - Limit + 1
  <2>1. m \in 1..Len(q) /\ Len(q) - m + 1 = Limit
    BY <1>1, <1>2
  <2>2. /\ SubSeq(q, m, Len(q)) \in Seq(Actors)
        /\ Len(SubSeq(q, m, Len(q))) = Len(q) - m + 1
        /\ \A i \in 1..(Len(q) - m + 1) : SubSeq(q, m, Len(q))[i] = q[m + i - 1]
    BY <1>1, <2>1
  <2>3. \A i \in 1..Limit : m + i - 1 = i + (Len(q) - Limit)
    BY <1>1
  <2> HIDE DEF m
  <2>4. Trim(q) = SubSeq(q, m, Len(q))
    BY <1>2 DEF Trim, m
  <2> QED
    BY <1>1, <1>2, <2>1, <2>2, <2>3, <2>4
<1>3. CASE ~(Len(q) > Limit)
  BY <1>1, <1>3 DEF Trim
<1> QED
  BY <1>2, <1>3

\* Trimming and appending make a log of a log.
LEMMA LogType ==
    ASSUME NEW q \in Seq(Actors), NEW a \in Actors
    PROVE  Trim(Append(q, a)) \in Seq(Actors)
<1>1. Append(q, a) \in Seq(Actors)
  OBVIOUS
<1> QED
  BY <1>1, TrimIs

\* What an insert leaves in a backend: the message, and an id known before.
LEMMA PlaceKeepsIds ==
    ASSUME NEW b \in Backends, NEW a \in Actors, store[b] \subseteq Actors
    PROVE  /\ a \in Place(b, a)
           /\ Place(b, a) \subseteq store[b] \cup {a}
           /\ \A id : Found(b, id) # {} => \E m \in Place(b, a) : Gid[m] = id
BY DEF Place, Put, Upsert, Found

\* The type invariant holds initially.
LEMMA InitType == Init => TypeOK
<1> SUFFICES ASSUME Init PROVE TypeOK
  OBVIOUS
<1> USE NIsNat, MessagesAssumption DEF Init
<1>1. k \in [Actors -> 1..(N + 1)]
  OBVIOUS
<1>2. \A s \in Senders : pc[s] # "send"
  BY DEF Actors
<1>3. order \in Orders /\ crashes \in 0..MaxCrashes
  OBVIOUS
<1> QED
  BY <1>1, <1>2, <1>3 DEF TypeOK

\* Every step keeps the types.
LEMMA TypeStep == TypeOK /\ CounterInv /\ [Next]_vars => TypeOK'
<1> SUFFICES ASSUME TypeOK, CounterInv, [Next]_vars PROVE TypeOK'
  OBVIOUS
<1> USE NIsNat, MessagesAssumption DEF TypeOK, Goto, Tell, Actors,
        sendVars, logVars, dbVars
<1>1. ASSUME NEW s \in Senders, Refuse(s) PROVE TypeOK'
  BY <1>1 DEF Refuse
<1>2. ASSUME NEW s \in Senders, Accept(s) PROVE TypeOK'
  <2>1. next[s] \in DOMAIN Segments[s]
    BY <1>2 DEF Accept, CounterInv
  <2> QED
    BY <1>2, <2>1 DEF Accept
<1>3. ASSUME NEW s \in Senders, Upload(s) PROVE TypeOK'
  BY <1>3 DEF Upload
<1>4. ASSUME NEW s \in Senders, Post(s) PROVE TypeOK'
  BY <1>4 DEF Post
<1>5. ASSUME NEW s \in Senders, NEW i \in DOMAIN Segments[s], Arrive(s, i)
      PROVE  TypeOK'
  BY <1>5 DEF Arrive
<1>6. ASSUME NEW s \in Senders, Accepted(s) PROVE TypeOK'
  <2>1. CASE next[s] < Len(Segments[s])
    <3>1. /\ pc' = [pc EXCEPT ![s] = "send"] /\ next' = [next EXCEPT ![s] = @ + 1]
          /\ UNCHANGED <<arrived, flying, cdn, logVars, dbVars, crashes>>
      BY <1>6, <2>1 DEF Accepted
    <3>2. next[s] + 1 \in DOMAIN Segments[s]
      BY <2>1
    <3> QED
      BY <3>1, <3>2
  <2>2. CASE ~(next[s] < Len(Segments[s]))
    BY <1>6, <2>2 DEF Accepted
  <2> QED
    BY <2>1, <2>2
<1>7. ASSUME NEW s \in Senders, SendFails(s) PROVE TypeOK'
  BY <1>7 DEF SendFails
<1>8. ASSUME NEW e \in Events, Normalize(e) PROVE TypeOK'
  BY <1>8 DEF Normalize
<1>9. ASSUME NEW e \in Events, Dispatch(e) PROVE TypeOK'
  BY <1>9 DEF Dispatch
<1>10. ASSUME NEW a \in Actors, LogRead(a) PROVE TypeOK'
  <2> DEFINE q == IF file = Torn THEN <<>> ELSE file
  <2>1. q \in Seq(Actors)
    OBVIOUS
  <2>4. Trim(Append(q, a)) \in Seq(Actors)
    BY <2>1, LogType
  <2>5. entries' = [entries EXCEPT ![a] = Trim(Append(q, a))]
    BY <1>10 DEF LogRead
  <2> HIDE DEF q
  <2>2. entries' \in [Actors -> Seq(Actors)]
    BY <2>4, <2>5
  <2>3. clean' \in BOOLEAN
    BY <1>10 DEF LogRead
  <2> QED
    BY <1>10, <2>2, <2>3 DEF LogRead
<1>11. ASSUME NEW a \in Actors, LogTruncate(a) PROVE TypeOK'
  BY <1>11 DEF LogTruncate
<1>12. ASSUME NEW a \in Actors, LogWrite(a) PROVE TypeOK'
  BY <1>12 DEF LogWrite, AfterLog
<1>13. ASSUME NEW a \in Actors, LogFails(a) PROVE TypeOK'
  <2>1. AfterLog(a) \in {"ready", "store"}
    BY DEF AfterLog
  <2>2. pc' = [pc EXCEPT ![a] = AfterLog(a)] /\ entries' = [entries EXCEPT ![a] = <<>>]
    BY <1>13 DEF LogFails
  <2>3. entries' \in [Actors -> Seq(Actors)]
    BY <2>2
  <2>4. /\ clean' = FALSE
        /\ UNCHANGED <<sendVars, file, logged, dbVars, crashes>>
        /\ pc'[a] # "send"
    BY <1>13, <2>1, <2>2 DEF LogFails
  <2> QED
    BY <2>1, <2>2, <2>3, <2>4
<1>14. ASSUME NEW a \in Actors, Insert(a) PROVE TypeOK'
  <2> DEFINE b == order[k[a]]
  <2>1. b \in Backends
    BY <1>14 DEF Insert, Orders
  <2>4. Place(b, a) \in SUBSET Actors
    BY <2>1, PlaceKeepsIds
  <2>5. store' = [store EXCEPT ![b] = Place(b, a)]
    BY <1>14 DEF Insert
  <2> HIDE DEF b
  <2>2. store' \in [Backends -> SUBSET Actors]
    BY <2>1, <2>4, <2>5
  <2>3. k' \in [Actors -> 1..(N + 1)]
    BY <1>14 DEF Insert
  <2> QED
    BY <1>14, <2>2, <2>3 DEF Insert
<1>15. ASSUME NEW a \in Actors, InsertFails(a) PROVE TypeOK'
  <2> DEFINE b == order[k[a]]
  <2>1. b \in Backends
    BY <1>15 DEF InsertFails, Orders
  <2>3. Place(b, a) \in SUBSET Actors
    BY <2>1, PlaceKeepsIds
  <2>4. store' = store \/ store' = [store EXCEPT ![b] = Place(b, a)]
    BY <1>15 DEF InsertFails
  <2> HIDE DEF b
  <2>2. store' \in [Backends -> SUBSET Actors]
    BY <2>1, <2>3, <2>4
  <2> QED
    BY <1>15, <2>2 DEF InsertFails
<1>16. ASSUME NEW a \in Actors, Report(a) PROVE TypeOK'
  BY <1>16 DEF Report
<1>17. CASE Crash
  <2>1. pc' \in [Actors -> {"idle", "done"}]
    BY <1>17 DEF Crash
  <2>2. /\ clean' \in BOOLEAN /\ crashes' \in 0..MaxCrashes
        /\ partial' \subseteq Actors /\ k' \in [Actors -> 1..(N + 1)]
        /\ entries' \in [Actors -> Seq(Actors)] /\ order' \in Orders
    BY <1>17 DEF Crash
  <2>3. UNCHANGED <<sendVars, file, logged, store, told>>
    BY <1>17 DEF Crash
  <2> QED
    BY <2>1, <2>2, <2>3
<1>18. CASE UNCHANGED vars
  BY <1>18 DEF vars, Orders
<1> QED
  BY <1>1, <1>2, <1>3, <1>4, <1>5, <1>6, <1>7, <1>8, <1>9, <1>10, <1>11, <1>12,
     <1>13, <1>14, <1>15, <1>16, <1>17, <1>18
  DEF Next, SenderStep, EventStep, RecordStep, Idle

\* Counters start at one and return to it.
LEMMA CounterStep == TypeOK /\ CounterInv /\ [Next]_vars => CounterInv'
<1> SUFFICES ASSUME TypeOK, CounterInv, [Next]_vars PROVE CounterInv'
  OBVIOUS
<1> USE MessagesAssumption DEF TypeOK, CounterInv, Goto, Actors,
        sendVars, logVars, dbVars
<1>1. ASSUME NEW s \in Senders, SenderStep(s) PROVE CounterInv'
  BY <1>1 DEF SenderStep, Refuse, Accept, Upload, Post, Arrive, Accepted, SendFails
<1>2. ASSUME NEW e \in Events, EventStep(e) PROVE CounterInv'
  BY <1>2 DEF EventStep, Normalize, Dispatch
<1>3. ASSUME NEW a \in Actors, LogRead(a) \/ LogTruncate(a) PROVE CounterInv'
  BY <1>3 DEF LogRead, LogTruncate
<1>4. ASSUME NEW a \in Actors, LogWrite(a) \/ LogFails(a) PROVE CounterInv'
  BY <1>4 DEF LogWrite, LogFails, AfterLog
<1>5. ASSUME NEW a \in Actors, Insert(a) \/ InsertFails(a) \/ Report(a)
      PROVE  CounterInv'
  BY <1>5 DEF Insert, InsertFails, Report
<1>6. CASE Crash
  BY <1>6 DEF Crash
<1>7. CASE UNCHANGED vars
  BY <1>7 DEF vars
<1> QED
  BY <1>1, <1>2, <1>3, <1>4, <1>5, <1>6, <1>7 DEF Next, RecordStep, Idle

\* Ids known to a backend stay known to it.
IdsKept == \A b \in Backends : \A id : Found(b, id) # {} => Found(b, id)' # {}

\* A step of an insert keeps the ids, and adds only the message inserted.
LEMMA StoreStep ==
    ASSUME TypeOK, NEW a \in Actors, NEW b \in Backends,
           store' = [store EXCEPT ![b] = Place(b, a)]
    PROVE  /\ IdsKept
           /\ Found(b, Gid[a])' # {}
           /\ \A c \in Backends : store[c]' \subseteq store[c] \cup {a}
<1>1. store[b] \subseteq Actors /\ DOMAIN store = Backends
  BY DEF TypeOK
<1>2. /\ a \in Place(b, a) /\ Place(b, a) \subseteq store[b] \cup {a}
      /\ \A id : Found(b, id) # {} => \E m \in Place(b, a) : Gid[m] = id
  BY <1>1, PlaceKeepsIds
<1>3. store'[b] = Place(b, a) /\ \A c \in Backends : c # b => store'[c] = store[c]
  BY <1>1
<1>4. ASSUME NEW c \in Backends, NEW id, Found(c, id) # {} PROVE Found(c, id)' # {}
  <2>1. CASE c = b
    BY <1>2, <1>3, <1>4, <2>1 DEF Found
  <2>2. CASE c # b
    BY <1>3, <1>4, <2>2 DEF Found
  <2> QED
    BY <2>1, <2>2
<1>5. Found(b, Gid[a])' # {}
  BY <1>2, <1>3 DEF Found
<1>6. \A c \in Backends : store'[c] \subseteq store[c] \cup {a}
  BY <1>2, <1>3
<1> QED
  BY <1>4, <1>5, <1>6 DEF IdsKept

\* Steps outside the databases: nobody leaves an insert, and whoever starts one
\* is at its first backend.
LEMMA OutsideStep ==
    ASSUME TypeOK, CounterInv, StoreInv, UNCHANGED <<order, k, store, told, partial>>,
           \A a \in Actors : pc[a] = "store" => pc'[a] = "store"
    PROVE  PassedInv' /\ ReportedIdIsFound' /\ BackendsAgree'
<1> USE DEF StoreInv
<1>1. \A b \in Backends : \A id : Found(b, id)' = Found(b, id)
  BY DEF Found
<1>2. ASSUME NEW a \in Actors, pc'[a] = "store", NEW i \in 1..(k'[a] - 1)
      PROVE  Found(order[i], Gid[a])' # {}
  <2>1. CASE pc[a] = "store"
    BY <1>2, <2>1 DEF PassedInv, Found
  <2>2. CASE pc[a] # "store"
    BY <1>2, <2>2 DEF CounterInv
  <2> QED
    BY <2>1, <2>2
<1>3. PassedInv'
  BY <1>2 DEF PassedInv
<1>4. ReportedIdIsFound'
  BY <1>1 DEF ReportedIdIsFound
<1>5. BackendsAgree'
  <2> SUFFICES ASSUME NEW b \in Backends, NEW c \in Backends, NEW a \in store'[b],
                      Found(c, Gid[a])' = {}
               PROVE  a \in partial' \/ pc'[a] = "store"
    BY DEF BackendsAgree
  <2>1. a \in Actors /\ a \in store[b]
    BY DEF TypeOK
  <2> QED
    BY <1>1, <2>1 DEF BackendsAgree
<1> QED
  BY <1>3, <1>4, <1>5

\* Every step keeps the promises about the databases.
LEMMA StoreInvStep == TypeOK /\ StoreInv /\ [Next]_vars => StoreInv'
<1> SUFFICES ASSUME TypeOK, StoreInv, [Next]_vars
             PROVE  PassedInv' /\ ReportedIdIsFound' /\ BackendsAgree'
  BY CounterStep DEF StoreInv
<1> DEFINE Goal == PassedInv' /\ ReportedIdIsFound' /\ BackendsAgree'
<1> USE NIsNat, MessagesAssumption DEF StoreInv
<1>1. ASSUME NEW s \in Senders, SenderStep(s) PROVE Goal
  <2>1. CASE Refuse(s) \/ SendFails(s)
    <3>1. /\ pc[s] # "store" /\ pc' = [pc EXCEPT ![s] = "done"]
          /\ told' = [told EXCEPT ![s] = @ \cup {"error"}]
          /\ UNCHANGED <<order, k, store, partial>>
      BY <2>1 DEF Refuse, SendFails, Goto, Tell
    <3>2. \A a \in Actors : (pc[a] = "store") <=> (pc'[a] = "store")
      BY <3>1 DEF TypeOK
    <3>3. \A a \in Actors : "id" \in told'[a] => "id" \in told[a]
      BY <3>1 DEF TypeOK
    <3>4. \A b \in Backends : \A id : Found(b, id)' = Found(b, id)
      BY <3>1 DEF Found
    <3>5. PassedInv'
      BY <3>1, <3>2 DEF PassedInv, Found
    <3>6. ReportedIdIsFound'
      BY <3>3, <3>4 DEF ReportedIdIsFound
    <3>7. BackendsAgree'
      BY <3>1, <3>2, <3>4 DEF BackendsAgree, TypeOK
    <3> QED
      BY <3>5, <3>6, <3>7
  <2>2. ASSUME Accept(s) \/ Upload(s) \/ Post(s) \/ Accepted(s)
               \/ \E i \in DOMAIN Segments[s] : Arrive(s, i)
        PROVE  Goal
    <3>1. UNCHANGED <<order, k, store, told, partial>>
      BY <2>2 DEF Accept, Upload, Post, Accepted, Arrive, dbVars
    <3>2. \A a \in Actors : pc[a] = "store" => pc'[a] = "store"
      BY <2>2 DEF Accept, Upload, Post, Accepted, Arrive, Goto, TypeOK
    <3> QED
      BY <3>1, <3>2, OutsideStep
  <2> QED
    BY <1>1, <2>1, <2>2 DEF SenderStep
<1>2. ASSUME NEW e \in Events, EventStep(e) PROVE Goal
  <2>1. UNCHANGED <<order, k, store, told, partial>>
    BY <1>2 DEF EventStep, Normalize, Dispatch, dbVars
  <2>2. \A a \in Actors : pc[a] = "store" => pc'[a] = "store"
    BY <1>2 DEF EventStep, Normalize, Dispatch, Goto, TypeOK
  <2> QED
    BY <2>1, <2>2, OutsideStep
<1>3. ASSUME NEW a \in Actors, LogRead(a) \/ LogTruncate(a) \/ LogWrite(a) \/ LogFails(a)
      PROVE  Goal
  <2>1. UNCHANGED <<order, k, store, told, partial>>
    BY <1>3 DEF LogRead, LogTruncate, LogWrite, LogFails, dbVars
  <2>2. \A x \in Actors : pc[x] = "store" => pc'[x] = "store"
    BY <1>3 DEF LogRead, LogTruncate, LogWrite, LogFails, Goto, TypeOK
  <2> QED
    BY <2>1, <2>2, OutsideStep
<1>4. ASSUME NEW a \in Actors, Insert(a) PROVE Goal
  <2>2. \A i \in 1..N : order[i] \in Backends
    BY DEF TypeOK, Orders
  <2>8. PICK b \in Backends : b = order[k[a]]
    BY <1>4, <2>2 DEF Insert
  <2>1. /\ pc[a] = "store" /\ k[a] \in 1..N /\ k' = [k EXCEPT ![a] = @ + 1]
        /\ store' = [store EXCEPT ![b] = Place(b, a)]
        /\ UNCHANGED <<pc, order, told, partial>>
    BY <1>4, <2>8 DEF Insert
  <2>3. /\ IdsKept /\ Found(b, Gid[a])' # {}
        /\ \A c \in Backends : store[c]' \subseteq store[c] \cup {a}
    BY <2>1, StoreStep
  <2>4. ASSUME NEW x \in Actors, pc'[x] = "store", NEW i \in 1..(k'[x] - 1)
        PROVE  Found(order[i], Gid[x])' # {}
    <3>1. k'[x] \in 1..(N + 1) /\ i \in 1..N /\ order[i] \in Backends
      BY <2>1, <2>2, <2>4 DEF TypeOK
    <3>2. CASE i \in 1..(k[x] - 1)
      <4>1. PICK c \in Backends : c = order[i]
        BY <3>1
      <4>2. Found(c, Gid[x]) # {}
        BY <2>1, <2>4, <3>2, <4>1 DEF PassedInv
      <4>3. Found(c, Gid[x])' # {}
        BY <2>3, <4>2 DEF IdsKept
      <4> QED
        BY <2>1, <4>1, <4>3 DEF Found
    <3>3. CASE i \notin 1..(k[x] - 1)
      <4>1. x = a /\ i = k[a]
        BY <2>1, <2>4, <3>1, <3>3 DEF TypeOK
      <4> QED
        BY <4>1, <2>1, <2>3, <2>8 DEF Found
    <3> QED
      BY <3>2, <3>3
  <2>5. PassedInv'
    BY <2>1, <2>4 DEF PassedInv, Found
  <2>6. ReportedIdIsFound'
    BY <2>1, <2>3 DEF ReportedIdIsFound, IdsKept
  <2>7. BackendsAgree'
    BY <2>1, <2>3 DEF BackendsAgree, IdsKept
  <2> QED
    BY <2>5, <2>6, <2>7
<1>5. ASSUME NEW a \in Actors, InsertFails(a) PROVE Goal
  <2> DEFINE b == order[k[a]]
  <2>1. /\ pc[a] = "store" /\ k[a] \in 1..N
        /\ pc' = [pc EXCEPT ![a] = "done"] /\ told' = [told EXCEPT ![a] = @ \cup {"none"}]
        /\ partial' = partial \cup {a} /\ k' = [k EXCEPT ![a] = 1]
        /\ UNCHANGED order
        /\ \/ UNCHANGED store
           \/ store' = [store EXCEPT ![b] = Place(b, a)]
    BY <1>5 DEF InsertFails, Goto, Tell
  <2>2. b \in Backends /\ \A i \in 1..N : order[i] \in Backends
    BY <2>1 DEF TypeOK, Orders
  <2>3. IdsKept /\ \A c \in Backends : store[c]' \subseteq store[c] \cup {a}
    <3>1. CASE UNCHANGED store
      BY <3>1 DEF IdsKept, Found
    <3>2. CASE store' = [store EXCEPT ![b] = Place(b, a)]
      BY <2>2, <3>2, StoreStep
    <3> QED
      BY <2>1, <3>1, <3>2
  <2>4. \A x \in Actors : pc'[x] = "store" => pc[x] = "store" /\ k'[x] = k[x]
    BY <2>1 DEF TypeOK
  <2>5. \A x \in Actors : "id" \in told'[x] => "id" \in told[x]
    BY <2>1 DEF TypeOK
  <2>6. PassedInv'
    <3> SUFFICES ASSUME NEW x \in Actors, pc'[x] = "store", NEW i \in 1..(k'[x] - 1)
                 PROVE  Found(order[i], Gid[x])' # {}
      BY <2>1 DEF PassedInv, Found
    <3>1. i \in 1..N /\ Found(order[i], Gid[x]) # {}
      BY <2>4 DEF PassedInv, TypeOK
    <3> QED
      BY <3>1, <2>1, <2>2, <2>3 DEF IdsKept, Found
  <2>7. ReportedIdIsFound'
    BY <2>3, <2>5 DEF ReportedIdIsFound, IdsKept
  <2>8. BackendsAgree'
    <3> SUFFICES ASSUME NEW c \in Backends, NEW d \in Backends, NEW x \in store'[c],
                        Found(d, Gid[x])' = {}
                 PROVE  x \in partial' \/ pc'[x] = "store"
      BY DEF BackendsAgree
    <3>1. CASE x = a
      BY <2>1, <3>1
    <3>2. CASE x # a
      <4>1. x \in store[c] /\ Found(d, Gid[x]) = {}
        BY <2>3, <3>2 DEF IdsKept
      <4>2. x \in partial \/ pc[x] = "store"
        BY <4>1 DEF BackendsAgree
      <4>3. x \in Actors
        BY <4>1 DEF TypeOK
      <4> QED
        BY <2>1, <3>2, <4>2, <4>3 DEF TypeOK
    <3> QED
      BY <3>1, <3>2
  <2> QED
    BY <2>6, <2>7, <2>8
<1>6. ASSUME NEW a \in Actors, Report(a) PROVE Goal
  <2>1. /\ pc[a] = "store" /\ k[a] = N + 1
        /\ pc' = [pc EXCEPT ![a] = "done"] /\ told' = [told EXCEPT ![a] = @ \cup {"id"}]
        /\ partial' = partial \ {a} /\ k' = [k EXCEPT ![a] = 1]
        /\ UNCHANGED <<order, store>>
    BY <1>6 DEF Report, Goto, Tell
  <2>2. \A b \in Backends : Found(b, Gid[a]) # {}
    <3> SUFFICES ASSUME NEW b \in Backends PROVE Found(b, Gid[a]) # {}
      OBVIOUS
    <3>1. PICK i \in 1..N : order[i] = b
      BY DEF TypeOK, Orders
    <3>2. i \in 1..(k[a] - 1)
      BY <2>1
    <3> QED
      BY <2>1, <3>1, <3>2 DEF PassedInv
  <2>3. \A b \in Backends : \A id : Found(b, id)' = Found(b, id)
    BY <2>1 DEF Found
  <2>4. \A x \in Actors : pc'[x] = "store" => pc[x] = "store" /\ k'[x] = k[x]
    BY <2>1 DEF TypeOK
  <2>5. \A x \in Actors : "id" \in told'[x] => x = a \/ "id" \in told[x]
    BY <2>1 DEF TypeOK
  <2>6. PassedInv'
    BY <2>1, <2>4 DEF PassedInv, Found
  <2>7. ReportedIdIsFound'
    BY <2>2, <2>3, <2>5 DEF ReportedIdIsFound
  <2>8. BackendsAgree'
    <3> SUFFICES ASSUME NEW c \in Backends, NEW d \in Backends, NEW x \in store'[c],
                        Found(d, Gid[x])' = {}
                 PROVE  x \in partial' \/ pc'[x] = "store"
      BY DEF BackendsAgree
    <3>1. x \in store[c] /\ Found(d, Gid[x]) = {}
      BY <2>1, <2>3
    <3>2. x # a /\ x \in Actors
      BY <2>2, <3>1 DEF TypeOK
    <3> QED
      BY <2>1, <3>1, <3>2 DEF BackendsAgree, TypeOK
  <2> QED
    BY <2>6, <2>7, <2>8
<1>7. CASE Crash
  <2>1. /\ partial' = partial \cup {a \in Actors : pc[a] = "store"}
        /\ UNCHANGED <<store, told>>
    BY <1>7 DEF Crash
  <2>2. \A a \in Actors : pc'[a] # "store"
    BY <1>7 DEF Crash
  <2>3. \A b \in Backends : \A id : Found(b, id)' = Found(b, id)
    BY <2>1 DEF Found
  <2>4. PassedInv'
    BY <2>2 DEF PassedInv
  <2>5. ReportedIdIsFound'
    BY <2>1, <2>3 DEF ReportedIdIsFound
  <2>6. BackendsAgree'
    BY <2>1, <2>3 DEF BackendsAgree, TypeOK
  <2> QED
    BY <2>4, <2>5, <2>6
<1>8. CASE UNCHANGED vars
  BY <1>8, OutsideStep DEF vars, dbVars
<1> QED
  BY <1>1, <1>2, <1>3, <1>4, <1>5, <1>6, <1>7, <1>8 DEF Next, RecordStep, Idle

-----------------------------------------------------------------------------
\* Every step keeps the order of the segments.
LEMMA SegmentStep == TypeOK /\ CounterInv /\ SegmentInv /\ [Next]_vars => SegmentInv'
<1> SUFFICES ASSUME TypeOK, CounterInv, SegmentInv, [Next]_vars PROVE SegmentInv'
  OBVIOUS
<1>1. ASSUME NEW s \in Senders, Refuse(s) \/ Accept(s) \/ SendFails(s) PROVE SegmentInv'
  BY <1>1 DEF Refuse, Accept, SendFails, sendVars, SegmentInv
<1>2. ASSUME NEW s \in Senders, Upload(s) PROVE SegmentInv'
  BY <1>2 DEF Upload, SegmentInv
<1>3. ASSUME NEW s \in Senders, Post(s) PROVE SegmentInv'
  <2>1. next[s] \in 1..next[s]
    BY <1>3, MessagesAssumption DEF Post, TypeOK, Actors
  <2> QED
    BY <1>3, <2>1 DEF Post, SegmentInv
<1>4. ASSUME NEW s \in Senders, NEW i \in DOMAIN Segments[s], Arrive(s, i) PROVE SegmentInv'
  BY <1>4 DEF Arrive, SegmentInv
<1>5. ASSUME NEW s \in Senders, Accepted(s) PROVE SegmentInv'
  <2>1. UNCHANGED <<arrived, flying, cdn>> /\ <<s, next[s]>> \in arrived
    BY <1>5 DEF Accepted
  <2>2. next' = next \/ next' = [next EXCEPT ![s] = @ + 1]
    BY <1>5 DEF Accepted
  <2>7. ASSUME NEW x \in Senders PROVE /\ next[x] \in Nat
                                       /\ next'[x] = next[x] \/ next'[x] = next[x] + 1
    <3>1. CASE next' = next
      BY <3>1 DEF TypeOK
    <3>2. CASE next' = [next EXCEPT ![s] = @ + 1]
      BY <3>2 DEF TypeOK
    <3> QED
      BY <2>2, <3>1, <3>2
  <2>3. \A x \in Senders : next'[x] \in Nat /\ next[x] \in Nat
    BY <2>7
  <2>4. \A x \in Senders : next[x] <= next'[x]
    BY <2>7
  <2>5. ASSUME NEW x \in Senders, NEW i \in Nat, <<x, i>> \in arrived \cup flying
        PROVE  i \in 1..next'[x] /\ (Segments[x][i] = "media" => <<x, i>> \in cdn)
    BY <2>3, <2>4, <2>5 DEF SegmentInv
  <2>6. ASSUME NEW x \in Senders, NEW i \in 1..(next'[x] - 1) PROVE <<x, i>> \in arrived
    <3>1. CASE i \in 1..(next[x] - 1)
      BY <3>1 DEF SegmentInv
    <3>2. CASE i \notin 1..(next[x] - 1)
      <4>1. x = s /\ i = next[s]
        BY <2>2, <2>3, <3>2 DEF TypeOK
      <4> QED
        BY <2>1, <4>1
    <3> QED
      BY <3>1, <3>2
  <2> QED
    BY <2>1, <2>5, <2>6 DEF SegmentInv
<1>6. ASSUME NEW e \in Events, EventStep(e) PROVE SegmentInv'
  BY <1>6 DEF EventStep, Normalize, Dispatch, sendVars, SegmentInv
<1>7. ASSUME NEW a \in Actors, RecordStep(a) PROVE SegmentInv'
  BY <1>7 DEF RecordStep, LogRead, LogTruncate, LogWrite, LogFails, Insert, InsertFails,
              Report, sendVars, SegmentInv
<1>8. CASE Crash \/ UNCHANGED vars
  BY <1>8 DEF Crash, vars, sendVars, SegmentInv
<1> QED
  BY <1>1, <1>2, <1>3, <1>4, <1>5, <1>6, <1>7, <1>8 DEF Next, SenderStep, Idle

\* The entries of a trimmed log were in it.
LEMMA TrimKeeps ==
    ASSUME NEW q \in Seq(Actors), NEW a \in Actors,
           NEW i \in DOMAIN Trim(Append(q, a))
    PROVE  \/ Trim(Append(q, a))[i] = a
           \/ \E j \in DOMAIN q : q[j] = Trim(Append(q, a))[i]
<1> DEFINE r == Append(q, a)
           d == IF Len(r) > Limit THEN Len(r) - Limit ELSE 0
<1>1. Len(r) = Len(q) + 1 /\ r \in Seq(Actors) /\ Len(q) \in Nat /\ Limit \in Nat \ {0}
  BY MessagesAssumption
<1>2. \A j \in 1..Len(r) : r[j] = a \/ \E n \in DOMAIN q : q[n] = r[j]
  OBVIOUS
<1>3. i + d \in 1..Len(r) /\ Trim(r)[i] = r[i + d]
  <2>1. CASE Len(r) > Limit
    BY <1>1, <2>1 DEF Trim
  <2>2. CASE ~(Len(r) > Limit)
    BY <1>1, <2>2 DEF Trim
  <2> QED
    BY <2>1, <2>2
<1> QED
  BY <1>2, <1>3

\* Whatever a step records has been delivered, if it was recorded before or its
\* call is at its last segment, which has arrived.
LEMMA RecordedStep == TypeOK /\ SendInv /\ [Next]_vars => RecordedInv'
<1> SUFFICES ASSUME TypeOK, SendInv, [Next]_vars,
                    NEW s \in Senders, Recorded(s)', NEW i \in DOMAIN Segments[s]
             PROVE  <<s, i>> \in arrived'
  BY DEF RecordedInv
<1> USE MessagesAssumption DEF SendInv, Actors
<1>1. arrived \subseteq arrived'
  BY DEF Next, vars, sendVars, SenderStep, EventStep, RecordStep, Idle, Crash, Refuse,
         Accept, Upload, Post, Arrive, Accepted, SendFails, Normalize, Dispatch, LogRead,
         LogTruncate, LogWrite, LogFails, Insert, InsertFails, Report
<1> SUFFICES Recorded(s) \/ <<s, i>> \in arrived
  BY <1>1 DEF RecordedInv
<1>2. CASE \E x \in Senders : SenderStep(x) /\ ~Accepted(x)
  <2>1. PICK x \in Senders : SenderStep(x) /\ ~Accepted(x)
    BY <1>2
  <2>2. /\ UNCHANGED <<entries, file, store>>
        /\ pc'[s] \in {"log", "trim", "write", "store"} => pc'[s] = pc[s]
        /\ told'[s] \cap {"id", "none"} = told[s] \cap {"id", "none"}
    BY <2>1 DEF SenderStep, Refuse, Accept, Upload, Post, Arrive, SendFails, Goto, Tell,
                logVars, dbVars, TypeOK
  <2> QED
    BY <2>2 DEF Recorded
<1>3. CASE \E x \in Senders : Accepted(x)
  <2>1. PICK x \in Senders : Accepted(x)
    BY <1>3
  <2>2. UNCHANGED <<entries, file, store, told>>
    BY <2>1 DEF Accepted, logVars, dbVars
  <2>3. CASE x = s /\ ~(next[s] < Len(Segments[s]))
    <3>1. <<s, next[s]>> \in arrived /\ next[s] \in Nat /\ Len(Segments[s]) \in Nat
      BY <2>1, <2>3 DEF Accepted, TypeOK
    <3>2. i \in 1..(next[s] - 1) \/ i = next[s]
      BY <2>3, <3>1
    <3> QED
      BY <3>1, <3>2 DEF SegmentInv
  <2>4. CASE x # s \/ next[s] < Len(Segments[s])
    <3>1. pc'[s] \in {"log", "trim", "write", "store"} => pc'[s] = pc[s]
      BY <2>1, <2>4 DEF Accepted, Goto, TypeOK
    <3> QED
      BY <2>2, <3>1 DEF Recorded
  <2> QED
    BY <2>3, <2>4
<1>4. CASE \E e \in Events : EventStep(e)
  <2>1. PICK e \in Events : EventStep(e)
    BY <1>4
  <2>2. UNCHANGED <<entries, file, store, told>> /\ pc'[s] = pc[s]
    BY <2>1 DEF EventStep, Normalize, Dispatch, Goto, logVars, dbVars, TypeOK
  <2> QED
    BY <2>2 DEF Recorded
<1>5. ASSUME NEW a \in Actors, LogRead(a) PROVE Recorded(s)
  <2> DEFINE q == IF file = Torn THEN <<>> ELSE file
  <2>1. /\ q \in Seq(Actors) /\ pc[a] = "log"
        /\ entries' = [entries EXCEPT ![a] = Trim(Append(q, a))]
        /\ UNCHANGED <<file, store, told>>
    BY <1>5 DEF LogRead, dbVars, TypeOK
  <2>2. pc'[s] \in {"log", "trim", "write", "store"} =>
           pc[s] \in {"log", "trim", "write", "store"}
    BY <1>5 DEF LogRead, Goto, TypeOK
  <2>3. ASSUME NEW x \in Actors, NEW j \in DOMAIN entries'[x], entries'[x][j] = s
        PROVE  Recorded(s)
    <3>1. CASE x = a
      <4>1. entries'[a] = Trim(Append(q, a))
        BY <2>1 DEF TypeOK
      <4>2. s = a \/ \E n \in DOMAIN q : q[n] = s
        <5> HIDE DEF q
        <5> QED
          BY <2>1, <2>3, <3>1, <4>1, TrimKeeps
      <4>3. CASE s = a
        BY <2>1, <4>3 DEF Recorded
      <4>4. CASE \E n \in DOMAIN q : q[n] = s
        BY <4>4 DEF Recorded
      <4> QED
        BY <4>2, <4>3, <4>4
    <3>2. CASE x # a
      BY <2>1, <2>3, <3>2 DEF Recorded, TypeOK
    <3> QED
      BY <3>1, <3>2
  <2> QED
    BY <2>1, <2>2, <2>3 DEF Recorded
<1>6. ASSUME NEW a \in Actors, LogTruncate(a) PROVE Recorded(s)
  <2>1. /\ file' = Torn /\ UNCHANGED <<entries, store, told>>
        /\ pc'[s] \in {"log", "trim", "write", "store"} =>
              pc[s] \in {"log", "trim", "write", "store"}
    BY <1>6 DEF LogTruncate, Goto, dbVars, TypeOK
  <2> QED
    BY <2>1 DEF Recorded
<1>7. ASSUME NEW a \in Actors, LogWrite(a) \/ LogFails(a) PROVE Recorded(s)
  <2>1. /\ file' = file \/ file' = entries[a]
        /\ entries' = [entries EXCEPT ![a] = <<>>]
        /\ UNCHANGED <<store, told>>
        /\ pc'[s] \in {"log", "trim", "write", "store"} =>
              pc[s] \in {"log", "trim", "write", "store"}
    BY <1>7 DEF LogWrite, LogFails, AfterLog, Goto, dbVars, TypeOK
  <2>2. ASSUME NEW x \in Actors, NEW j \in DOMAIN entries'[x], entries'[x][j] = s
        PROVE  Recorded(s)
    <3>1. x # a
      BY <2>1, <2>2 DEF TypeOK
    <3> QED
      BY <2>1, <2>2, <3>1 DEF Recorded, TypeOK
  <2>3. ASSUME file' # Torn, NEW j \in DOMAIN file', file'[j] = s PROVE Recorded(s)
    BY <2>1, <2>3 DEF Recorded
  <2> QED
    BY <2>1, <2>2, <2>3 DEF Recorded
<1>8. ASSUME NEW a \in Actors, Insert(a) \/ InsertFails(a) \/ Report(a) PROVE Recorded(s)
  <2>1. /\ pc[a] = "store" /\ UNCHANGED <<entries, file>>
        /\ \A x \in Actors : x # a => pc'[x] = pc[x] /\ told'[x] = told[x]
    BY <1>8 DEF Insert, InsertFails, Report, Goto, Tell, logVars, TypeOK
  <2>2. \A b \in Backends : store'[b] \subseteq store[b] \cup {a}
    <3>1. CASE UNCHANGED store
      BY <3>1
    <3>2. CASE (Insert(a) \/ InsertFails(a)) /\ store' # store
      <4>1. PICK b \in Backends : store' = [store EXCEPT ![b] = Place(b, a)]
        BY <3>2 DEF Insert, InsertFails, TypeOK, Orders
      <4> QED
        BY <4>1, StoreStep
    <3> QED
      BY <1>8, <3>1, <3>2 DEF Report
  <2>3. CASE s = a
    BY <2>1, <2>3 DEF Recorded
  <2>4. CASE s # a
    BY <2>1, <2>2, <2>4 DEF Recorded
  <2> QED
    BY <2>3, <2>4
<1>9. CASE Crash
  <2>1. /\ UNCHANGED <<file, store, told>> /\ pc'[s] \in {"idle", "done"}
        /\ \A x \in Actors : entries'[x] = <<>>
    BY <1>9 DEF Crash
  <2> QED
    BY <2>1 DEF Recorded
<1>10. CASE UNCHANGED vars
  BY <1>10 DEF vars, logVars, dbVars, Recorded
<1> QED
  BY <1>2, <1>3, <1>4, <1>5, <1>6, <1>7, <1>8, <1>9, <1>10
  DEF Next, RecordStep, Idle

-----------------------------------------------------------------------------
\* No entries at all.
LEMMA EmbedsNone == \A w : Embeds(<<>>, w)
<1>1. Len(<<>>) = 0 /\ 1..0 = {}
  OBVIOUS
<1>2. ASSUME NEW w PROVE [i \in {} |-> i] \in [{} -> 1..Len(w)]
  OBVIOUS
<1> QED
  BY <1>1, <1>2 DEF Embeds

\* An entry more at the end of both.
LEMMA EmbedsAppend ==
    ASSUME NEW q \in Seq(Actors), NEW w \in Seq(Actors), NEW a \in Actors, Embeds(q, w)
    PROVE  Embeds(Append(q, a), Append(w, a))
<1>1. PICK f \in [1..Len(q) -> 1..Len(w)] :
            /\ \A i \in 1..Len(q) : q[i] = w[f[i]]
            /\ \A i, j \in 1..Len(q) : i < j => f[i] < f[j]
  BY DEF Embeds
<1> DEFINE u == Append(q, a)
           v == Append(w, a)
           g == [i \in 1..(Len(q) + 1) |-> IF i = Len(q) + 1 THEN Len(w) + 1 ELSE f[i]]
<1>2. /\ Len(q) \in Nat /\ Len(u) = Len(q) + 1 /\ u[Len(q) + 1] = a
      /\ Len(w) \in Nat /\ Len(v) = Len(w) + 1 /\ v[Len(w) + 1] = a
      /\ \A i \in 1..Len(q) : u[i] = q[i]
      /\ \A i \in 1..Len(w) : v[i] = w[i]
  OBVIOUS
<1> HIDE DEF u, v
<1>3. \A i \in 1..(Len(q) + 1) : i = Len(q) + 1 \/ (i \in 1..Len(q) /\ i # Len(q) + 1)
  BY <1>2
<1>4. \A i \in 1..Len(q) : f[i] \in 1..Len(w)
  OBVIOUS
<1>5. g \in [1..(Len(q) + 1) -> 1..(Len(w) + 1)]
  BY <1>2, <1>3, <1>4
<1>6. \A i \in 1..(Len(q) + 1) : u[i] = v[g[i]]
  BY <1>1, <1>2, <1>3, <1>4
<1>7. \A i, j \in 1..(Len(q) + 1) : i < j => g[i] < g[j]
  <2> SUFFICES ASSUME NEW i \in 1..(Len(q) + 1), NEW j \in 1..(Len(q) + 1), i < j
               PROVE  g[i] < g[j]
    OBVIOUS
  <2>1. i \in 1..Len(q) /\ g[i] = f[i]
    BY <1>2, <1>3
  <2> QED
    BY <1>1, <1>2, <1>3, <1>4, <2>1
<1>8. Embeds(u, v)
  BY <1>2, <1>5, <1>6, <1>7 DEF Embeds
<1> QED
  BY <1>8 DEF u, v

\* Fewer entries of q.
LEMMA EmbedsTrim ==
    ASSUME NEW q \in Seq(Actors), NEW w \in Seq(Actors), Embeds(q, w)
    PROVE  Embeds(Trim(q), w)
<1>1. CASE Len(q) <= Limit
  BY <1>1, TrimIs
<1>2. CASE Len(q) > Limit
  <2> DEFINE d == Len(q) - Limit
             t == Trim(q)
  <2>1. /\ t \in Seq(Actors) /\ Len(t) = Limit
        /\ \A i \in 1..Limit : t[i] = q[i + d]
    BY <1>2, TrimIs
  <2>2. /\ Limit \in Nat /\ Len(q) \in Nat /\ d \in Nat
        /\ \A i \in 1..Limit : i + d \in 1..Len(q)
    BY <1>2, MessagesAssumption
  <2>3. PICK f \in [1..Len(q) -> 1..Len(w)] :
            /\ \A i \in 1..Len(q) : q[i] = w[f[i]]
            /\ \A i, j \in 1..Len(q) : i < j => f[i] < f[j]
    BY DEF Embeds
  <2> HIDE DEF t, d
  <2> DEFINE g == [i \in 1..Limit |-> f[i + d]]
  <2>4. g \in [1..Limit -> 1..Len(w)]
    BY <2>2, <2>3
  <2>5. \A i \in 1..Limit : t[i] = w[g[i]]
    BY <2>1, <2>2, <2>3
  <2>6. \A i, j \in 1..Limit : i < j => g[i] < g[j]
    <3>1. \A i, j \in 1..Limit : i < j => i + d < j + d
      BY <2>2
    <3>2. \A i \in 1..Limit : g[i] = f[i + d]
      OBVIOUS
    <3> HIDE DEF g
    <3> QED
      BY <2>2, <2>3, <3>1, <3>2
  <2>7. Embeds(t, w)
    BY <2>1, <2>4, <2>5, <2>6 DEF Embeds
  <2> QED
    BY <2>7 DEF t
<1> QED
  BY <1>1, <1>2, MessagesAssumption

\* Another entry of w before the last.
LEMMA EmbedsLater ==
    ASSUME NEW q \in Seq(Actors), NEW w \in Seq(Actors), NEW a \in Actors,
           NEW b \in Actors, Embeds(q, Append(w, a))
    PROVE  Embeds(q, Append(Append(w, b), a))
<1> DEFINE u == Append(w, a)
           v == Append(Append(w, b), a)
<1>1. PICK f \in [1..Len(q) -> 1..(Len(w) + 1)] :
            /\ \A i \in 1..Len(q) : q[i] = u[f[i]]
            /\ \A i, j \in 1..Len(q) : i < j => f[i] < f[j]
  BY DEF Embeds
<1>2. /\ Len(w) \in Nat /\ Len(q) \in Nat /\ Len(v) = Len(w) + 2
      /\ \A n \in 1..Len(w) : u[n] = w[n] /\ v[n] = w[n]
      /\ u[Len(w) + 1] = a /\ v[Len(w) + 2] = a
  OBVIOUS
<1> HIDE DEF u, v
<1> DEFINE h(n) == IF n = Len(w) + 1 THEN Len(w) + 2 ELSE n
           g == [i \in 1..Len(q) |-> h(f[i])]
<1>3. \A n \in 1..(Len(w) + 1) : h(n) \in 1..(Len(w) + 2) /\ v[h(n)] = u[n]
  BY <1>2
<1>4. \A n, o \in 1..(Len(w) + 1) : n < o => h(n) < h(o)
  BY <1>2
<1> HIDE DEF h
<1>5. g \in [1..Len(q) -> 1..(Len(w) + 2)]
  BY <1>1, <1>3
<1>6. \A i \in 1..Len(q) : q[i] = v[g[i]]
  BY <1>1, <1>3
<1>7. \A i, j \in 1..Len(q) : i < j => g[i] < g[j]
  BY <1>1, <1>4
<1>8. Embeds(q, v)
  BY <1>2, <1>5, <1>6, <1>7 DEF Embeds
<1> QED
  BY <1>8 DEF v

\* Appending to the trimmed log and trimming is trimming the whole.
LEMMA TrimAppend ==
    ASSUME NEW q \in Seq(Actors), NEW a \in Actors
    PROVE  Trim(Append(Trim(q), a)) = Trim(Append(q, a))
<1>1. CASE Len(q) <= Limit
  BY <1>1, TrimIs
<1>2. CASE Len(q) > Limit
  <2> DEFINE t == Trim(q)
             r == Append(t, a)
             s == Append(q, a)
  <2>1. /\ t \in Seq(Actors) /\ Len(t) = Limit
        /\ \A i \in 1..Limit : t[i] = q[i + (Len(q) - Limit)]
    BY <1>2, TrimIs
  <2>2. Limit \in Nat \ {0} /\ Len(q) \in Nat
    BY MessagesAssumption
  <2> HIDE DEF t
  <2>3. /\ r \in Seq(Actors) /\ Len(r) = Limit + 1 /\ r[Limit + 1] = a
        /\ \A i \in 1..Limit : r[i] = t[i]
    BY <2>1, <2>2
  <2>4. /\ s \in Seq(Actors) /\ Len(s) = Len(q) + 1 /\ s[Len(q) + 1] = a
        /\ \A i \in 1..Len(q) : s[i] = q[i]
    BY <2>2
  <2> HIDE DEF r, s
  <2>5. /\ Trim(r) \in Seq(Actors) /\ Len(Trim(r)) = Limit
        /\ \A i \in 1..Limit : Trim(r)[i] = r[i + 1]
    BY <2>2, <2>3, TrimIs
  <2>6. /\ Trim(s) \in Seq(Actors) /\ Len(Trim(s)) = Limit
        /\ \A i \in 1..Limit : Trim(s)[i] = s[i + (Len(q) + 1 - Limit)]
    <3>1. Len(s) > Limit /\ Len(s) - Limit = Len(q) + 1 - Limit
      BY <1>2, <2>2, <2>4
    <3> QED
      BY <2>4, <3>1, TrimIs
  <2>7. ASSUME NEW i \in 1..Limit PROVE Trim(r)[i] = Trim(s)[i]
    <3>1. CASE i = Limit
      BY <2>2, <2>3, <2>4, <2>5, <2>6, <3>1
    <3>2. CASE i # Limit
      <4>1. i + 1 \in 1..Limit /\ i + (Len(q) + 1 - Limit) \in 1..Len(q)
            /\ (i + 1) + (Len(q) - Limit) = i + (Len(q) + 1 - Limit)
        BY <1>2, <2>2, <3>2
      <4>2. Trim(r)[i] = q[(i + 1) + (Len(q) - Limit)]
        BY <2>1, <2>3, <2>5, <4>1
      <4> QED
        BY <2>4, <2>6, <4>1, <4>2
    <3> QED
      BY <3>1, <3>2
  <2>8. Trim(r) = Trim(s)
    BY <2>5, <2>6, <2>7
  <2> QED
    BY <2>8 DEF r, s, t
<1> QED
  BY <1>1, <1>2, MessagesAssumption

\* Steps that leave the log alone, and nobody in the middle of an append.
LEMMA OutsideLog ==
    ASSUME TypeOK, LogInv, UNCHANGED logVars,
           \A a \in Actors : pc'[a] # pc[a] =>
               pc[a] \notin {"trim", "write"} /\ pc'[a] \notin {"trim", "write"}
    PROVE  LogInv'
<1>1. Appending' = Appending /\ UNCHANGED <<file, entries, logged, clean>>
  BY DEF Appending, logVars
<1>2. OrderInv'
  BY <1>1 DEF LogInv, OrderInv
<1>3. (\E a \in Actors : pc'[a] = "write") <=> \E a \in Actors : pc[a] = "write"
  OBVIOUS
<1>4. CompleteInv'
  BY <1>1, <1>3 DEF LogInv, CompleteInv
<1> QED
  BY <1>2, <1>4 DEF LogInv

\* Every step keeps the log in order, and complete if it was.
LEMMA LogStep == TypeOK /\ LogInv /\ [Next]_vars => LogInv'
<1> SUFFICES ASSUME TypeOK, LogInv, [Next]_vars PROVE LogInv'
  OBVIOUS
<1> USE MessagesAssumption
<1>1. ASSUME NEW s \in Senders, SenderStep(s) PROVE LogInv'
  <2>1. UNCHANGED logVars
    BY <1>1 DEF SenderStep, Refuse, Accept, Upload, Post, Arrive, Accepted, SendFails,
               logVars
  <2>2. \A a \in Actors : pc'[a] # pc[a] =>
            pc[a] \notin {"trim", "write"} /\ pc'[a] \notin {"trim", "write"}
    BY <1>1 DEF TypeOK, SenderStep, Refuse, Accept, Upload, Post, Arrive, Accepted,
               SendFails, Goto, Actors
  <2> QED
    BY <2>1, <2>2, OutsideLog
<1>2. ASSUME NEW e \in Events, EventStep(e) PROVE LogInv'
  <2>1. UNCHANGED logVars
    BY <1>2 DEF EventStep, Normalize, Dispatch
  <2>2. \A a \in Actors : pc'[a] # pc[a] =>
            pc[a] \notin {"trim", "write"} /\ pc'[a] \notin {"trim", "write"}
    BY <1>2 DEF TypeOK, EventStep, Normalize, Dispatch, Goto, Actors
  <2> QED
    BY <2>1, <2>2, OutsideLog
<1>3. ASSUME NEW a \in Actors, Insert(a) \/ InsertFails(a) \/ Report(a) PROVE LogInv'
  <2>1. UNCHANGED logVars
    BY <1>3 DEF Insert, InsertFails, Report
  <2>2. \A b \in Actors : pc'[b] # pc[b] =>
            pc[b] \notin {"trim", "write"} /\ pc'[b] \notin {"trim", "write"}
    BY <1>3 DEF TypeOK, Insert, InsertFails, Report, Goto
  <2> QED
    BY <2>1, <2>2, OutsideLog
<1>4. ASSUME NEW a \in Actors, LogRead(a) PROVE LogInv'
  <2> DEFINE q == IF file = Torn THEN <<>> ELSE file
  <2>1. q \in Seq(Actors) /\ logged \in Seq(Actors) /\ Embeds(q, logged)
    <3>1. q \in Seq(Actors) /\ logged \in Seq(Actors)
      BY DEF TypeOK
    <3> QED
      BY <3>1, EmbedsNone DEF LogInv, OrderInv
  <2>2. /\ entries' = [entries EXCEPT ![a] = Trim(Append(q, a))]
        /\ clean' = (clean /\ Appending = {})
        /\ pc' = [pc EXCEPT ![a] = "trim"] /\ pc[a] = "log"
        /\ UNCHANGED <<file, logged>>
    BY <1>4 DEF LogRead, Goto
  <2> HIDE DEF q
  <2>3. Embeds(Trim(Append(q, a)), Append(logged, a))
    <3>1. Embeds(Append(q, a), Append(logged, a))
      BY <2>1, EmbedsAppend
    <3>2. Append(q, a) \in Seq(Actors) /\ Append(logged, a) \in Seq(Actors)
      BY <2>1
    <3> QED
      BY <3>1, <3>2, EmbedsTrim
  <2>4. OrderInv'
    <3>1. ASSUME NEW b \in Actors PROVE Embeds(entries'[b], Append(logged, b))
      <4>1. CASE b = a
        BY <2>2, <2>3, <4>1 DEF TypeOK
      <4>2. CASE b # a
        BY <2>2, <4>2 DEF TypeOK, LogInv, OrderInv
      <4> QED
        BY <4>1, <4>2
    <3>2. file' # Torn => Embeds(file', logged')
      BY <2>2 DEF LogInv, OrderInv
    <3> QED
      BY <2>2, <3>1, <3>2 DEF OrderInv
  <2>5. CompleteInv'
    <3> SUFFICES ASSUME clean', clean, Appending = {} PROVE CompleteInv'
      BY <2>2 DEF CompleteInv
    <3>1. Appending' = {a}
      BY <2>2 DEF Appending, TypeOK
    <3>2. \A b \in Actors : pc[b] # "write"
      BY DEF Appending
    <3>3. file = Trim(logged) /\ logged \in Seq(Actors)
      BY <3>2 DEF LogInv, CompleteInv, TypeOK
    <3>4. file # Torn
      BY <3>3, TrimIs
    <3>5. entries'[a] = Trim(Append(logged, a))
      <4>1. entries'[a] = Trim(Append(Trim(logged), a))
        BY <2>2, <3>3, <3>4 DEF q, TypeOK
      <4> QED
        BY <3>3, <4>1, TrimAppend
    <3>6. ~\E b \in Actors : pc'[b] = "write"
      BY <2>2, <3>2 DEF TypeOK
    <3>7. file' = Trim(logged') /\ entries'[a] = Trim(Append(logged', a))
      BY <2>2, <3>3, <3>5
    <3> QED
      BY <3>1, <3>6, <3>7 DEF CompleteInv
  <2> QED
    BY <2>4, <2>5 DEF LogInv
<1>5. ASSUME NEW a \in Actors, LogTruncate(a) PROVE LogInv'
  <2>1. /\ file' = Torn /\ pc[a] = "trim" /\ pc' = [pc EXCEPT ![a] = "write"]
        /\ UNCHANGED <<entries, logged, clean>>
    BY <1>5 DEF LogTruncate, Goto
  <2>2. OrderInv'
    BY <2>1 DEF LogInv, OrderInv
  <2>3. Appending' = Appending /\ pc'[a] = "write"
    BY <2>1 DEF Appending, TypeOK
  <2>4. CompleteInv'
    BY <2>1, <2>3 DEF LogInv, CompleteInv
  <2> QED
    BY <2>2, <2>4 DEF LogInv
<1>6. ASSUME NEW a \in Actors, LogWrite(a) PROVE LogInv'
  <2>1. /\ file' = entries[a] /\ logged' = Append(logged, a)
        /\ entries' = [entries EXCEPT ![a] = <<>>]
        /\ pc[a] = "write" /\ pc' = [pc EXCEPT ![a] = AfterLog(a)]
        /\ UNCHANGED clean
    BY <1>6 DEF LogWrite, Goto
  <2>2. AfterLog(a) \notin {"trim", "write"}
    BY DEF AfterLog
  <2>3. logged \in Seq(Actors) /\ \A b \in Actors : entries[b] \in Seq(Actors)
    BY DEF TypeOK
  <2>4. OrderInv'
    <3>1. Embeds(file', logged')
      BY <2>1 DEF LogInv, OrderInv
    <3>2. ASSUME NEW b \in Actors PROVE Embeds(entries'[b], Append(logged', b))
      <4>1. CASE b = a
        <5>1. entries'[b] = <<>>
          BY <2>1, <4>1 DEF TypeOK
        <5> QED
          BY <5>1, EmbedsNone
      <4>2. CASE b # a
        <5>1. entries'[b] = entries[b]
          BY <2>1, <4>2 DEF TypeOK
        <5>2. Embeds(entries[b], Append(logged, b))
          BY DEF LogInv, OrderInv
        <5> QED
          BY <2>1, <2>3, <5>1, <5>2, EmbedsLater
      <4> QED
        BY <4>1, <4>2
    <3> QED
      BY <3>1, <3>2 DEF OrderInv
  <2>5. CompleteInv'
    <3> SUFFICES ASSUME clean', clean PROVE CompleteInv'
      BY <2>1 DEF CompleteInv
    <3>1. Appending = {a}
      BY <2>1 DEF Appending, LogInv, CompleteInv
    <3>2. Appending' = {}
      BY <2>1, <2>2, <3>1 DEF Appending, TypeOK
    <3>3. entries[a] = Trim(Append(logged, a))
      BY <3>1 DEF LogInv, CompleteInv
    <3>4. file' = Trim(logged') /\ ~\E b \in Actors : pc'[b] = "write"
      BY <2>1, <3>2, <3>3 DEF Appending
    <3> QED
      BY <3>2, <3>4 DEF CompleteInv
  <2> QED
    BY <2>4, <2>5 DEF LogInv
<1>7. ASSUME NEW a \in Actors, LogFails(a) PROVE LogInv'
  <2>1. /\ clean' = FALSE /\ entries' = [entries EXCEPT ![a] = <<>>]
        /\ UNCHANGED <<file, logged>>
    BY <1>7 DEF LogFails
  <2>2. ASSUME NEW b \in Actors PROVE Embeds(entries'[b], Append(logged, b))
    <3>1. CASE b = a
      <4>1. entries'[b] = <<>>
        BY <2>1, <3>1 DEF TypeOK
      <4> QED
        BY <4>1, EmbedsNone
    <3>2. CASE b # a
      BY <2>1, <3>2 DEF TypeOK, LogInv, OrderInv
    <3> QED
      BY <3>1, <3>2
  <2>3. OrderInv'
    <3>1. file # Torn => Embeds(file, logged)
      BY DEF LogInv, OrderInv
    <3>2. \A b \in Actors : Embeds(entries'[b], Append(logged', b))
      BY <2>1, <2>2
    <3>3. file' # Torn => Embeds(file', logged')
      BY <2>1, <3>1
    <3> QED
      BY <3>2, <3>3 DEF OrderInv
  <2>4. CompleteInv'
    BY <2>1 DEF CompleteInv
  <2> QED
    BY <2>3, <2>4 DEF LogInv
<1>8. CASE Crash
  <2>1. /\ clean' = (clean /\ \A a \in Actors : pc[a] # "write")
        /\ entries' = [a \in Actors |-> <<>>]
        /\ UNCHANGED <<file, logged>>
        /\ \A a \in Actors : pc'[a] \in {"idle", "done"}
    BY <1>8 DEF Crash
  <2>2. OrderInv'
    <3>1. ASSUME NEW b \in Actors PROVE Embeds(entries'[b], Append(logged, b))
      BY <2>1, EmbedsNone
    <3> QED
      BY <2>1, <3>1 DEF LogInv, OrderInv
  <2>3. Appending' = {}
    BY <2>1 DEF Appending
  <2>4. CompleteInv'
    BY <2>1, <2>3 DEF LogInv, CompleteInv
  <2> QED
    BY <2>2, <2>4 DEF LogInv
<1>9. CASE UNCHANGED vars
  BY <1>9, OutsideLog DEF vars
<1> QED
  BY <1>1, <1>2, <1>3, <1>4, <1>5, <1>6, <1>7, <1>8, <1>9 DEF Next, RecordStep, Idle

\* The log is empty at first.
LEMMA InitLog == Init => LogInv
<1> SUFFICES ASSUME Init PROVE LogInv
  OBVIOUS
<1> USE MessagesAssumption DEF Init
<1>3. OrderInv
  BY EmbedsNone DEF OrderInv
<1>4. Trim(logged) = file
  BY DEF Trim
<1>5. Appending = {}
  BY DEF Appending
<1>6. CompleteInv
  BY <1>4, <1>5 DEF CompleteInv
<1> QED
  BY <1>3, <1>6 DEF LogInv

\* What the invariant says of the log.
LEMMA InvImpliesLog == TypeOK /\ LogInv => LogIsFaithful
<1> SUFFICES ASSUME TypeOK, LogInv, file # Torn PROVE LogIsFaithful
  BY DEF LogIsFaithful
<1>1. PICK f \in [1..Len(file) -> 1..Len(logged)] :
            /\ \A i \in 1..Len(file) : file[i] = logged[f[i]]
            /\ \A i, j \in 1..Len(file) : i < j => f[i] < f[j]
  BY DEF LogInv, OrderInv, Embeds
<1>2. DOMAIN file = 1..Len(file) /\ DOMAIN logged = 1..Len(logged)
  BY DEF TypeOK
<1>3. clean => file = Trim(logged)
  BY DEF LogInv, CompleteInv
<1> QED
  BY <1>1, <1>2, <1>3, Zenon DEF LogIsFaithful

-----------------------------------------------------------------------------
\* The invariants hold initially.
LEMMA InitInvs == Init => StoreInv /\ SendInv
<1> SUFFICES ASSUME Init PROVE StoreInv /\ SendInv
  OBVIOUS
<1> USE MessagesAssumption DEF Init, Actors
<1>1. CounterInv
  BY DEF CounterInv
<1>2. PassedInv /\ ReportedIdIsFound /\ BackendsAgree
  BY DEF PassedInv, ReportedIdIsFound, BackendsAgree
<1>3. SegmentInv
  BY DEF SegmentInv
<1>4. \A s \in Senders : ~Recorded(s)
  BY DEF Recorded
<1> QED
  BY <1>1, <1>2, <1>3, <1>4 DEF StoreInv, SendInv, RecordedInv

\* What calls have sent is whole, from the invariants about segments.
LEMMA InvImpliesWhole == TypeOK /\ SendInv => SentIsWhole
<1> SUFFICES ASSUME TypeOK, SendInv, NEW s \in Senders
             PROVE  /\ \A i \in 2..Len(Segments[s]) :
                          <<s, i>> \in arrived => <<s, i - 1>> \in arrived
                    /\ \A i \in 1..Len(Segments[s]) :
                          <<s, i>> \in arrived /\ Segments[s][i] = "media" => <<s, i>> \in cdn
                    /\ Recorded(s) => \A i \in 1..Len(Segments[s]) : <<s, i>> \in arrived
  BY DEF SentIsWhole, Recorded, Actors
<1>1. Segments[s] \in Seq({"text", "media"}) /\ next[s] \in Nat
  BY MessagesAssumption DEF TypeOK
<1>2. ASSUME NEW i \in 2..Len(Segments[s]), <<s, i>> \in arrived
      PROVE  <<s, i - 1>> \in arrived
  <2>1. i \in 1..next[s]
    BY <1>1, <1>2 DEF SendInv, SegmentInv
  <2>2. i - 1 \in 1..(next[s] - 1)
    BY <1>1, <2>1
  <2> QED
    BY <2>2 DEF SendInv, SegmentInv
<1>3. ASSUME NEW i \in 1..Len(Segments[s]), <<s, i>> \in arrived, Segments[s][i] = "media"
      PROVE  <<s, i>> \in cdn
  BY <1>1, <1>3 DEF SendInv, SegmentInv
<1>4. Recorded(s) => \A i \in 1..Len(Segments[s]) : <<s, i>> \in arrived
  BY <1>1 DEF SendInv, RecordedInv
<1> QED
  BY <1>2, <1>3, <1>4

\* The invariants hold in every state.
LEMMA Invariance == Spec => [](TypeOK /\ StoreInv /\ SendInv /\ LogInv)
<1> DEFINE Inv == TypeOK /\ StoreInv /\ SendInv /\ LogInv
<1>1. Init => Inv
  BY InitType, InitInvs, InitLog
<1>2. Inv /\ [Next]_vars => Inv'
  BY TypeStep, CounterStep, StoreInvStep, SegmentStep, RecordedStep, LogStep
  DEF StoreInv, SendInv
<1> QED
  BY <1>1, <1>2, PTL DEF Spec

\* Every variable always has its type.
THEOREM TypeCorrect == Spec => []TypeOK
BY Invariance, PTL

\* Whatever fails, crashes or shares its id, an id the application was told is
\* known to every database (InsertWeixinPrivateMessage, InsertPrivateMessage).
THEOREM ReportedIdStaysFound == Spec => []ReportedIdIsFound
<1>1. StoreInv => ReportedIdIsFound
  BY DEF StoreInv
<1> QED
  BY <1>1, Invariance, PTL

\* The databases know the same ids but for inserts that did not run to their end
\* (InsertPrivateMessage).
THEOREM BackendsStayInAgreement == Spec => []BackendsAgree
<1>1. StoreInv => BackendsAgree
  BY DEF StoreInv
<1> QED
  BY <1>1, Invariance, PTL

\* No call skips a segment, refers to media that are not on the CDN, or records a
\* message that did not arrive in full (SendPrivate, sendMediaSegment).
THEOREM SentStaysWhole == Spec => []SentIsWhole
<1>1. TypeOK /\ SendInv => SentIsWhole
  BY InvImpliesWhole
<1> QED
  BY <1>1, Invariance, PTL

\* What messages.json holds was written in that order, and none of the last
\* entries is missing unless appends overlapped, failed or were interrupted
\* (appendMessageLog).
THEOREM LogStaysFaithful == Spec => []LogIsFaithful
<1>1. TypeOK /\ LogInv => LogIsFaithful
  BY InvImpliesLog
<1> QED
  BY <1>1, Invariance, PTL
-----------------------------------------------------------------------------
(* Segments: induction, and lists of lists.                                 *)

\* Induction for sets, which needs no operator.
LEMMA EveryNat ==
    ASSUME NEW X, 0 \in X, \A n \in X : n \in Nat => n + 1 \in X
    PROVE  Nat \subseteq X
<1> DEFINE others == Nat \ X
<1> SUFFICES ASSUME others # {} PROVE FALSE
  OBVIOUS
<1>1. PICK n \in others : \A m \in others : ~(<<m, n>> \in OpToRel(<, Nat))
  <2>1. others \subseteq Nat
    OBVIOUS
  <2> HIDE DEF others
  <2> QED BY <2>1, NatLessThanWellFounded, WFMin, Zenon
<1>2. n \in Nat /\ n \notin X /\ n # 0
  OBVIOUS
<1>3. n - 1 \in Nat /\ n - 1 < n /\ (n - 1) + 1 = n
  BY <1>2
<1>4. n - 1 \in X
  <2> SUFFICES ASSUME n - 1 \notin X PROVE FALSE
    OBVIOUS
  <2>1. n - 1 \in others
    BY <1>3
  <2>2. <<n - 1, n>> \notin OpToRel(<, Nat)
    BY <1>1, <2>1, Zenon
  <2> QED BY ONLY <1>2, <1>3, <2>2 DEF OpToRel
<1> QED BY <1>2, <1>3, <1>4

LEMMA EverySeq ==
    ASSUME NEW S, NEW X, <<>> \in X,
           \A s \in Seq(S) : \A c \in S : s \in X => Append(s, c) \in X
    PROVE  Seq(S) \subseteq X
<1> DEFINE Y == {n \in Nat : \A s \in Seq(S) : Len(s) = n => s \in X}
<1>1. 0 \in Y
  BY EmptySeq
<1>2. ASSUME NEW n \in Y PROVE n + 1 \in Y
  <2> SUFFICES ASSUME NEW s \in Seq(S), Len(s) = n + 1 PROVE s \in X
    BY <1>2
  <2> DEFINE front == SubSeq(s, 1, n)
             last == s[n + 1]
  <2>1. n \in Nat /\ front \in Seq(S) /\ Len(front) = n /\ last \in S /\ s = Append(front, last)
    BY <1>2
  <2> HIDE DEF front, last
  <2>2. front \in X
    BY <1>2, <2>1
  <2> QED BY <2>1, <2>2
<1>3. Nat \subseteq Y
  <2> HIDE DEF Y
  <2> QED BY <1>1, <1>2, EveryNat
<1> QED BY <1>3

LEMMA EverySeqFromHead ==
    ASSUME NEW S, NEW X, <<>> \in X,
           \A s \in Seq(S) : \A c \in S : s \in X => <<c>> \o s \in X
    PROVE  Seq(S) \subseteq X
<1> DEFINE Y == {n \in Nat : \A s \in Seq(S) : Len(s) = n => s \in X}
<1>1. 0 \in Y
  BY EmptySeq
<1>2. ASSUME NEW n \in Y PROVE n + 1 \in Y
  <2> SUFFICES ASSUME NEW s \in Seq(S), Len(s) = n + 1 PROVE s \in X
    BY <1>2
  <2> DEFINE rest == SubSeq(s, 2, n + 1)
             first == s[1]
  <2>1. n \in Nat /\ rest \in Seq(S) /\ Len(rest) = n /\ first \in S /\ s = <<first>> \o rest
    BY <1>2
  <2> HIDE DEF rest, first
  <2>2. rest \in X
    BY <1>2, <2>1
  <2> QED BY <2>1, <2>2
<1>3. Nat \subseteq Y
  <2> HIDE DEF Y
  <2> QED BY <1>1, <1>2, EveryNat
<1> QED BY <1>3

LEMMA Joined ==
    ASSUME NEW S, NEW x \in Seq(S), NEW y \in Seq(S)
    PROVE  /\ x \o y \in Seq(S) /\ Len(x \o y) = Len(x) + Len(y)
           /\ Len(x) \in Nat /\ Len(y) \in Nat
           /\ \A i \in 1..Len(x) : (x \o y)[i] = x[i]
           /\ \A i \in 1..Len(y) : (x \o y)[Len(x) + i] = y[i]
OBVIOUS

\* The parts of what was joined.
LEMMA Parted ==
    ASSUME NEW S, NEW x \in Seq(S), NEW y \in Seq(S)
    PROVE  /\ SubSeq(x \o y, 1, Len(x)) = x
           /\ SubSeq(x \o y, Len(x) + 1, Len(x \o y)) = y
OBVIOUS

LEMMA JoinedTwice ==
    ASSUME NEW S, NEW x \in Seq(S), NEW y \in Seq(S), NEW z \in Seq(S)
    PROVE  (x \o y) \o z = x \o (y \o z)
OBVIOUS

\* FlattenSeq appends its lists one after the other.
LEMMA Appended ==
    ASSUME NEW S, NEW seqs \in Seq(Seq(S)), seqs # <<>>
    PROVE  \E f : /\ FlattenSeq(seqs) = f[Len(seqs)]
                  /\ f[1] = seqs[1]
                  /\ \A i \in 2..Len(seqs) : f[i] = f[i - 1] \o seqs[i]
<1> DEFINE Of(f, n) == f = [i \in 1..n |-> IF i = 1 THEN seqs[i] ELSE f[i - 1] \o seqs[i]]
           none == {n \in Nat : n >= 1 /\ n <= Len(seqs) /\ ~\E f : Of(f, n)}
<1>1. none = {}
  <2> SUFFICES ASSUME none # {} PROVE FALSE
    OBVIOUS
  <2>1. PICK n \in none : \A m \in none : ~(<<m, n>> \in OpToRel(<, Nat))
    <3>1. none \subseteq Nat
      OBVIOUS
    <3> HIDE DEF none
    <3> QED BY <3>1, NatLessThanWellFounded, WFMin, Zenon
  <2>2. \A m \in none : ~(m < n)
    BY <2>1 DEF OpToRel
  <2>3. CASE n = 1
    <3>1. Of([i \in 1..n |-> seqs[i]], n)
      BY <2>3
    <3> QED BY <3>1
  <2>4. CASE n # 1
    <3>1. n - 1 \in Nat /\ n - 1 >= 1 /\ n - 1 <= Len(seqs) /\ n - 1 < n /\ n \in Nat
      BY <2>4
    <3>2. n - 1 \notin none
      BY <2>2, <3>1
    <3>3. PICK f : Of(f, n - 1)
      BY <3>1, <3>2
    <3> DEFINE g == [i \in 1..n |-> IF i = n THEN f[n - 1] \o seqs[n] ELSE f[i]]
    <3>4. \A i \in 1..(n - 1) : f[i] = IF i = 1 THEN seqs[i] ELSE f[i - 1] \o seqs[i]
      BY <3>3
    <3>5. ASSUME NEW i \in 1..n
          PROVE  g[i] = IF i = 1 THEN seqs[i] ELSE g[i - 1] \o seqs[i]
      BY <2>4, <3>1, <3>4
    <3>6. Of(g, n)
      BY <3>5
    <3> QED BY <3>6
  <2> QED BY <2>3, <2>4
<1>2. Len(seqs) \in Nat /\ Len(seqs) >= 1 /\ Len(seqs) # 0
  OBVIOUS
<1>3. \E f : Of(f, Len(seqs))
  <2> DEFINE n == Len(seqs)
  <2>1. n \in Nat /\ n >= 1 /\ n <= Len(seqs)
    BY <1>2
  <2>2. n \notin none
    <3> HIDE DEF none
    <3> QED BY <1>1
  <2> QED BY <2>1, <2>2
<1> DEFINE f == CHOOSE f : Of(f, Len(seqs))
<1>4. Of(f, Len(seqs))
  BY <1>3, Zenon
<1>5. FlattenSeq(seqs) = f[Len(seqs)]
  BY ONLY <1>2, Zenon DEF FlattenSeq
<1> HIDE DEF f
<1>6. \A i \in 1..Len(seqs) : f[i] = IF i = 1 THEN seqs[i] ELSE f[i - 1] \o seqs[i]
  BY <1>4
<1>7. f[1] = seqs[1]
  <2>1. 1 \in 1..Len(seqs)
    BY <1>2
  <2> QED BY <1>6, <2>1
<1>8. ASSUME NEW i \in 2..Len(seqs) PROVE f[i] = f[i - 1] \o seqs[i]
  <2>1. i \in 1..Len(seqs) /\ i # 1
    OBVIOUS
  <2> QED BY <1>6, <2>1
<1> QED
  BY <1>5, <1>7, <1>8, Zenon

LEMMA FlattenedIsAList ==
    ASSUME NEW S, NEW seqs \in Seq(Seq(S))
    PROVE  FlattenSeq(seqs) \in Seq(S)
<1>1. CASE seqs = <<>>
  <2>1. Len(seqs) = 0 /\ seqs \in Seq(S)
    BY <1>1
  <2> QED BY ONLY <2>1, Zenon DEF FlattenSeq
<1>2. CASE seqs # <<>>
  <2>1. PICK f : /\ FlattenSeq(seqs) = f[Len(seqs)]
                 /\ f[1] = seqs[1]
                 /\ \A i \in 2..Len(seqs) : f[i] = f[i - 1] \o seqs[i]
    BY <1>2, Appended
  <2> DEFINE others == {n \in Nat : n >= 1 /\ n <= Len(seqs) /\ f[n] \notin Seq(S)}
  <2>2. others = {}
    <3> SUFFICES ASSUME others # {} PROVE FALSE
      OBVIOUS
    <3>1. PICK n \in others : \A m \in others : ~(<<m, n>> \in OpToRel(<, Nat))
      <4>1. others \subseteq Nat
        OBVIOUS
      <4> HIDE DEF others
      <4> QED BY <4>1, NatLessThanWellFounded, WFMin, Zenon
    <3>2. \A m \in others : ~(m < n)
      BY <3>1 DEF OpToRel
    <3>3. CASE n = 1
      BY <2>1, <3>3
    <3>4. CASE n # 1
      <4>1. n - 1 \in Nat /\ n - 1 >= 1 /\ n - 1 <= Len(seqs) /\ n - 1 < n /\ n \in 2..Len(seqs)
        BY <3>4
      <4>2. f[n - 1] \in Seq(S)
        BY <3>2, <4>1
      <4>3. f[n] = f[n - 1] \o seqs[n]
        <5> HIDE DEF others
        <5> QED BY <2>1, <4>1
      <4>4. seqs[n] \in Seq(S)
        BY <4>1
      <4>5. f[n - 1] \o seqs[n] \in Seq(S)
        <5> DEFINE s == f[n - 1]
                   t == seqs[n]
        <5>1. s \in Seq(S) /\ t \in Seq(S)
          BY <4>2, <4>4
        <5> HIDE DEF s, t
        <5>2. s \o t \in Seq(S)
          BY <5>1
        <5> QED BY <5>2 DEF s, t
      <4> QED BY <4>3, <4>5
    <3> QED BY <3>3, <3>4
  <2>3. Len(seqs) \in Nat /\ Len(seqs) >= 1 /\ Len(seqs) \notin others
    <3> HIDE DEF others
    <3> QED BY <1>2, <2>2
  <2>4. f[Len(seqs)] \in Seq(S)
    BY <2>3
  <2> QED BY <2>1, <2>4
<1> QED BY <1>1, <1>2

LEMMA FlattenedSingles ==
    ASSUME NEW n \in Nat, NEW es
    PROVE  FlattenSeq([i \in 1..n |-> <<es[i]>>]) = [i \in 1..n |-> es[i]]
<1> DEFINE S == {es[i] : i \in 1..n}
           seqs == [i \in 1..n |-> <<es[i]>>]
           upto(m) == [i \in 1..m |-> es[i]]
<1>1. seqs \in Seq(Seq(S)) /\ Len(seqs) = n
  OBVIOUS
<1>2. CASE n = 0
  <2>1. Len(seqs) = 0 /\ seqs = [i \in 1..n |-> es[i]]
    BY <1>2
  <2> QED BY ONLY <2>1, Zenon DEF FlattenSeq
<1>3. CASE n # 0
  <2>1. PICK f : /\ FlattenSeq(seqs) = f[n]
                 /\ f[1] = seqs[1]
                 /\ \A i \in 2..n : f[i] = f[i - 1] \o seqs[i]
    <3>1. seqs # <<>>
      BY <1>1, <1>3
    <3> HIDE DEF seqs, S
    <3> QED BY <1>1, <3>1, Appended
  <2> DEFINE others == {m \in Nat : m >= 1 /\ m <= n /\ f[m] # upto(m)}
  <2>2. others = {}
    <3> SUFFICES ASSUME others # {} PROVE FALSE
      OBVIOUS
    <3>1. PICK m \in others : \A w \in others : ~(<<w, m>> \in OpToRel(<, Nat))
      <4>1. others \subseteq Nat
        OBVIOUS
      <4> HIDE DEF others
      <4> QED BY <4>1, NatLessThanWellFounded, WFMin, Zenon
    <3>2. \A w \in others : ~(w < m)
      BY <3>1 DEF OpToRel
    <3>3. CASE m = 1
      <4>1. f[1] = <<es[1]>>
        BY <1>3, <2>1
      <4>2. upto(1) = <<es[1]>>
        OBVIOUS
      <4> QED BY <3>3, <4>1, <4>2
    <3>4. CASE m # 1
      <4>1. m - 1 \in Nat /\ m - 1 >= 1 /\ m - 1 <= n /\ m - 1 < m /\ m \in 2..n
        BY <3>4
      <4>2. f[m - 1] = upto(m - 1)
        BY <3>2, <4>1
      <4>3. f[m] = f[m - 1] \o <<es[m]>>
        <5>1. f[m] = f[m - 1] \o seqs[m]
          <6> HIDE DEF others, seqs
          <6> QED BY <2>1, <4>1
        <5>2. seqs[m] = <<es[m]>>
          BY <4>1
        <5> QED BY <5>1, <5>2, Zenon
      <4>4. upto(m - 1) \in Seq(S) /\ <<es[m]>> \in Seq(S) /\ Len(upto(m - 1)) = m - 1
        BY <4>1
      <4>5. upto(m - 1) \o <<es[m]>> = upto(m)
        BY <4>1, <4>4
      <4> HIDE DEF upto
      <4> QED BY <4>2, <4>3, <4>5
    <3> QED BY <3>3, <3>4
  <2>3. n >= 1 /\ n \notin others
    <3> HIDE DEF others
    <3> QED BY <1>3, <2>2
  <2>4. f[n] = upto(n)
    BY <2>3
  <2> QED BY <2>1, <2>4
<1> QED BY <1>2, <1>3

-----------------------------------------------------------------------------
(* Segments: lists of lists, and characters that become strings.           *)

LEMMA FlattenedNone == FlattenSeq(<<>>) = <<>>
<1>1. Len(<<>>) = 0
  OBVIOUS
<1> QED BY ONLY <1>1, Zenon DEF FlattenSeq

\* What is flattened grows with the list.
LEMMA FlattenedAppend ==
    ASSUME NEW S, NEW seqs \in Seq(Seq(S)), NEW s \in Seq(S)
    PROVE  FlattenSeq(Append(seqs, s)) = FlattenSeq(seqs) \o s
<1> DEFINE n == Len(seqs)
           more == Append(seqs, s)
<1>1. /\ n \in Nat /\ more \in Seq(Seq(S)) /\ more # <<>> /\ Len(more) = n + 1
      /\ more[n + 1] = s /\ \A i \in 1..n : more[i] = seqs[i]
  <2>1. Len(more) = n + 1 /\ n \in Nat /\ more \in Seq(Seq(S))
    OBVIOUS
  <2>2. more # <<>>
    BY <2>1
  <2>3. more[n + 1] = s /\ \A i \in 1..n : more[i] = seqs[i]
    OBVIOUS
  <2> QED BY <2>1, <2>2, <2>3
<1>2. PICK g : /\ FlattenSeq(more) = g[n + 1]
               /\ g[1] = more[1]
               /\ \A i \in 2..(n + 1) : g[i] = g[i - 1] \o more[i]
  <2> HIDE DEF more
  <2>1. \E g : /\ FlattenSeq(more) = g[Len(more)]
               /\ g[1] = more[1]
               /\ \A i \in 2..Len(more) : g[i] = g[i - 1] \o more[i]
    BY <1>1, Appended
  <2> QED BY ONLY <1>1, <2>1, Zenon
<1>3. CASE seqs = <<>>
  <2>1. n = 0 /\ <<>> \o s = s
    BY <1>3
  <2>2. g[n + 1] = s
    BY <1>1, <1>2, <2>1
  <2> QED BY ONLY <1>2, <1>3, <2>1, <2>2, FlattenedNone, Zenon
<1>4. CASE seqs # <<>>
  <2>1. PICK f : /\ FlattenSeq(seqs) = f[n]
                 /\ f[1] = seqs[1]
                 /\ \A i \in 2..n : f[i] = f[i - 1] \o seqs[i]
    BY <1>4, Appended
  <2>2. n >= 1
    BY <1>4
  <2> DEFINE X == {w \in Nat : w + 1 <= n => f[w + 1] = g[w + 1]}
  <2> HIDE DEF more, n
  <2>3. 0 \in X
    BY <1>1, <1>2, <2>1, <2>2
  <2>4. \A w \in X : w \in Nat => w + 1 \in X
    <3> SUFFICES ASSUME NEW w \in Nat, w + 2 <= n, f[w + 1] = g[w + 1]
                 PROVE  f[w + 2] = g[w + 2]
      <4>1. \A w \in Nat : (w + 1) + 1 = w + 2 /\ (w + 2 <= n => w + 1 <= n)
        BY <1>1
      <4> QED BY <4>1
    <3>1. w + 2 \in 2..n /\ w + 2 \in 2..(n + 1) /\ (w + 2) - 1 = w + 1 /\ w + 2 \in 1..n
      BY <1>1
    <3>2. f[w + 2] = f[w + 1] \o seqs[w + 2]
      BY <2>1, <3>1
    <3>3. g[w + 2] = g[w + 1] \o more[w + 2]
      BY <1>2, <3>1
    <3> QED BY <1>1, <3>1, <3>2, <3>3
  <2>5. n - 1 \in Nat /\ (n - 1) + 1 = n /\ n + 1 \in 2..(n + 1) /\ (n + 1) - 1 = n
    BY <1>1, <2>2
  <2>6. Nat \subseteq X
    <3> HIDE DEF X
    <3> QED BY <2>3, <2>4, EveryNat
  <2>7. f[n] = g[n]
    <3>1. n - 1 \in X
      BY <2>5, <2>6
    <3> QED BY <2>5, <3>1
  <2>8. g[n + 1] = g[n] \o more[n + 1]
    BY <1>2, <2>5
  <2>9. g[n + 1] = f[n] \o s
    BY <1>1, <2>7, <2>8, Zenon
  <2> QED BY ONLY <1>2, <2>1, <2>9, Zenon DEF more
<1> QED BY <1>3, <1>4

LEMMA FlattenedOne ==
    ASSUME NEW S, NEW s \in Seq(S)
    PROVE  FlattenSeq(<<s>>) = s
<1>1. <<s>> = Append(<<>>, s) /\ <<>> \in Seq(Seq(S)) /\ <<>> \o s = s
  OBVIOUS
<1>2. FlattenSeq(Append(<<>>, s)) = FlattenSeq(<<>>) \o s
  BY <1>1, FlattenedAppend
<1> QED BY ONLY <1>1, <1>2, FlattenedNone, Zenon

LEMMA FlattenedJoined ==
    ASSUME NEW S, NEW xs \in Seq(Seq(S)), NEW ys \in Seq(Seq(S))
    PROVE  FlattenSeq(xs \o ys) = FlattenSeq(xs) \o FlattenSeq(ys)
<1> DEFINE X == {zs \in Seq(Seq(S)) : FlattenSeq(xs \o zs) = FlattenSeq(xs) \o FlattenSeq(zs)}
<1>1. <<>> \in X
  <2>1. FlattenSeq(xs) \in Seq(S)
    BY FlattenedIsAList
  <2>2. FlattenSeq(xs) \o <<>> = FlattenSeq(xs)
    BY <2>1
  <2>3. <<>> \in Seq(Seq(S)) /\ xs \o <<>> = xs
    OBVIOUS
  <2> QED BY ONLY <2>2, <2>3, FlattenedNone, Zenon
<1>2. \A zs \in Seq(Seq(S)) : \A s \in Seq(S) : zs \in X => Append(zs, s) \in X
  <2> SUFFICES ASSUME NEW zs \in Seq(Seq(S)), NEW s \in Seq(S), zs \in X
               PROVE  Append(zs, s) \in X
    OBVIOUS
  <2>1. /\ xs \o Append(zs, s) = Append(xs \o zs, s)
        /\ xs \o zs \in Seq(Seq(S)) /\ Append(zs, s) \in Seq(Seq(S))
    OBVIOUS
  <2>2. /\ FlattenSeq(Append(xs \o zs, s)) = FlattenSeq(xs \o zs) \o s
        /\ FlattenSeq(Append(zs, s)) = FlattenSeq(zs) \o s
    BY <2>1, FlattenedAppend
  <2>3. FlattenSeq(xs) \in Seq(S) /\ FlattenSeq(zs) \in Seq(S)
    BY FlattenedIsAList
  <2>4. (FlattenSeq(xs) \o FlattenSeq(zs)) \o s = FlattenSeq(xs) \o (FlattenSeq(zs) \o s)
    BY <2>3, JoinedTwice
  <2>5. FlattenSeq(xs \o zs) = FlattenSeq(xs) \o FlattenSeq(zs)
    OBVIOUS
  <2> QED BY ONLY <2>1, <2>2, <2>4, <2>5, Zenon
<1>3. Seq(Seq(S)) \subseteq X
  <2> HIDE DEF X
  <2> QED BY <1>1, <1>2, EverySeq
<1> QED BY <1>3


\* Every element of t replaced by the list that m has for it.
Each(m, t) == FlattenSeq([i \in 1..Len(t) |-> m[t[i]]])

LEMMA EachList ==
    ASSUME NEW A, NEW S, NEW m \in [A -> Seq(S)], NEW t \in Seq(A)
    PROVE  [i \in 1..Len(t) |-> m[t[i]]] \in Seq(Seq(S))
<1>1. \A i \in 1..Len(t) : m[t[i]] \in Seq(S)
  OBVIOUS
<1> QED BY <1>1

LEMMA EachTyped ==
    ASSUME NEW A, NEW S, NEW m \in [A -> Seq(S)], NEW t \in Seq(A)
    PROVE  Each(m, t) \in Seq(S)
<1>1. [i \in 1..Len(t) |-> m[t[i]]] \in Seq(Seq(S))
  BY EachList
<1> DEFINE list == [i \in 1..Len(t) |-> m[t[i]]]
<1>2. FlattenSeq(list) \in Seq(S)
  <2> HIDE DEF list
  <2>1. list \in Seq(Seq(S))
    BY <1>1 DEF list
  <2> QED BY <2>1, FlattenedIsAList
<1> QED BY ONLY <1>2, Zenon DEF Each

LEMMA EachNone ==
    ASSUME NEW m
    PROVE  Each(m, <<>>) = <<>>
<1>1. [i \in 1..Len(<<>>) |-> m[<<>>[i]]] = <<>>
  OBVIOUS
<1> QED BY ONLY <1>1, FlattenedNone, Zenon DEF Each

LEMMA EachOne ==
    ASSUME NEW A, NEW S, NEW m \in [A -> Seq(S)], NEW c \in A
    PROVE  Each(m, <<c>>) = m[c]
<1>1. [i \in 1..Len(<<c>>) |-> m[<<c>>[i]]] = <<m[c]>> /\ m[c] \in Seq(S)
  OBVIOUS
<1> QED BY ONLY <1>1, FlattenedOne, Zenon DEF Each

LEMMA EachJoined ==
    ASSUME NEW A, NEW S, NEW m \in [A -> Seq(S)], NEW x \in Seq(A), NEW y \in Seq(A)
    PROVE  Each(m, x \o y) = Each(m, x) \o Each(m, y)
<1> DEFINE xs == [i \in 1..Len(x) |-> m[x[i]]]
           ys == [i \in 1..Len(y) |-> m[y[i]]]
           zs == [i \in 1..Len(x \o y) |-> m[(x \o y)[i]]]
<1>1. xs \in Seq(Seq(S)) /\ ys \in Seq(Seq(S))
  BY EachList
<1>2. Len(xs) = Len(x) /\ Len(ys) = Len(y) /\ Len(zs) = Len(x) + Len(y)
  OBVIOUS
<1>3. x \o y \in Seq(A)
  OBVIOUS
<1>4. zs \in Seq(Seq(S))
  BY <1>3, EachList
<1>5. xs \o ys \in Seq(Seq(S)) /\ Len(xs \o ys) = Len(x) + Len(y)
  <2>1. xs \o ys \in Seq(Seq(S)) /\ Len(xs \o ys) = Len(xs) + Len(ys)
    <3> HIDE DEF xs, ys
    <3> QED BY <1>1, Joined
  <2> QED BY ONLY <1>2, <2>1, Zenon
<1>6. ASSUME NEW i \in 1..(Len(x) + Len(y)) PROVE zs[i] = (xs \o ys)[i]
  <2>1. CASE i <= Len(x)
    <3>1. zs[i] = m[x[i]] /\ xs[i] = m[x[i]] /\ i \in 1..Len(xs)
      BY <1>2, <2>1
    <3>2. (xs \o ys)[i] = xs[i]
      <4> HIDE DEF xs, ys
      <4> QED BY <1>1, <3>1
    <3> QED BY <3>1, <3>2, Zenon
  <2>2. CASE i > Len(x)
    <3> DEFINE j == i - Len(x)
    <3>1. j \in 1..Len(y) /\ i = Len(x) + j /\ j \in 1..Len(ys) /\ i = Len(xs) + j
      BY <1>2, <2>2
    <3>2. zs[i] = m[y[j]] /\ ys[j] = m[y[j]]
      BY <2>2
    <3>3. (xs \o ys)[Len(xs) + j] = ys[j]
      <4> HIDE DEF xs, ys, j
      <4> QED BY <1>1, <3>1
    <3> QED BY <3>1, <3>2, <3>3, Zenon
  <2> QED BY <2>1, <2>2
<1>7. zs = xs \o ys
  <2> DEFINE all == xs \o ys
  <2>1. all \in Seq(Seq(S)) /\ Len(all) = Len(x) + Len(y)
    BY <1>5
  <2>2. \A i \in 1..(Len(x) + Len(y)) : zs[i] = all[i]
    BY <1>6
  <2> HIDE DEF all, zs
  <2>3. zs = all
    BY <1>2, <1>4, <2>1, <2>2
  <2> QED BY <2>3 DEF all
<1>8. FlattenSeq(xs \o ys) = FlattenSeq(xs) \o FlattenSeq(ys)
  <2> HIDE DEF xs, ys
  <2> QED BY <1>1, FlattenedJoined
<1> QED BY ONLY <1>7, <1>8, Zenon DEF Each

Joins(m, A) == \A u, v \in Seq(A) : Each(m, u \o v) = Each(m, u) \o Each(m, v)

LEMMA EachJoins ==
    ASSUME NEW A, NEW S, NEW m \in [A -> Seq(S)]
    PROVE  Joins(m, A)
<1>1. \A u, v \in Seq(A) : Each(m, u \o v) = Each(m, u) \o Each(m, v)
  BY EachJoined, SMTT(30)
<1> QED BY ONLY <1>1, Zenon DEF Joins

LEMMA EachAppend ==
    ASSUME NEW A, NEW S, NEW m \in [A -> Seq(S)], NEW t \in Seq(A), NEW c \in A
    PROVE  Each(m, Append(t, c)) = Each(m, t) \o m[c]
<1>1. Append(t, c) = t \o <<c>> /\ <<c>> \in Seq(A)
  OBVIOUS
<1>2. Each(m, t \o <<c>>) = Each(m, t) \o Each(m, <<c>>)
  <2> DEFINE y == <<c>>
  <2>1. y \in Seq(A)
    BY <1>1
  <2> HIDE DEF y
  <2>2. Each(m, t \o y) = Each(m, t) \o Each(m, y)
    BY <2>1, EachJoined
  <2> QED BY <2>2 DEF y
<1>3. Each(m, <<c>>) = m[c]
  BY EachOne
<1> QED BY ONLY <1>1, <1>2, <1>3, Zenon

LEMMA EachFromHead ==
    ASSUME NEW A, NEW S, NEW m \in [A -> Seq(S)], NEW t \in Seq(A), NEW c \in A
    PROVE  Each(m, <<c>> \o t) = m[c] \o Each(m, t)
<1>1. <<c>> \in Seq(A)
  OBVIOUS
<1>2. Each(m, <<c>> \o t) = Each(m, <<c>>) \o Each(m, t)
  <2> DEFINE one == <<c>>
  <2>1. one \in Seq(A)
    BY <1>1
  <2> HIDE DEF one
  <2>2. Joins(m, A)
    BY EachJoins
  <2>3. Each(m, one \o t) = Each(m, one) \o Each(m, t)
    BY ONLY <2>1, <2>2, t \in Seq(A) DEF Joins
  <2> QED BY <2>3 DEF one
<1>3. Each(m, <<c>>) = m[c]
  BY EachOne
<1> QED BY ONLY <1>2, <1>3, Zenon

\* b is m, and then n.
Composed(m, n, b, A, B, S) ==
    /\ m \in [A -> Seq(B)] /\ n \in [B -> Seq(S)] /\ b \in [A -> Seq(S)]
    /\ \A c \in A : b[c] = Each(n, m[c])

LEMMA EachOfEach ==
    ASSUME NEW A, NEW B, NEW S, NEW m, NEW n, NEW b, Composed(m, n, b, A, B, S), NEW t \in Seq(A)
    PROVE  Each(n, Each(m, t)) = Each(b, t)
<1> m \in [A -> Seq(B)] /\ n \in [B -> Seq(S)] /\ b \in [A -> Seq(S)]
  BY DEF Composed
<1> DEFINE X == {x \in Seq(A) : Each(n, Each(m, x)) = Each(b, x)}
<1>2. <<>> \in X
  <2>1. Each(n, Each(m, <<>>)) = Each(b, <<>>)
    <3>1. Each(m, <<>>) = <<>> /\ Each(n, <<>>) = <<>> /\ Each(b, <<>>) = <<>>
      BY ONLY EachNone, Zenon
    <3> QED BY ONLY <3>1, Zenon
  <2> QED BY <2>1
<1>3. \A x \in Seq(A) : \A c \in A : x \in X => Append(x, c) \in X
  <2> SUFFICES ASSUME NEW x \in Seq(A), NEW c \in A, Each(n, Each(m, x)) = Each(b, x)
               PROVE  Each(n, Each(m, Append(x, c))) = Each(b, Append(x, c))
    OBVIOUS
  <2>1. Each(m, Append(x, c)) = Each(m, x) \o m[c]
    BY EachAppend
  <2>2. Each(m, x) \in Seq(B) /\ m[c] \in Seq(B)
    BY EachTyped
  <2>3. Each(n, Each(m, x) \o m[c]) = Each(n, Each(m, x)) \o Each(n, m[c])
    <3> DEFINE u == Each(m, x)
               v == m[c]
    <3>1. u \in Seq(B) /\ v \in Seq(B)
      BY <2>2
    <3> HIDE DEF u, v
    <3>2. Joins(n, B)
      BY EachJoins
    <3>3. Each(n, u \o v) = Each(n, u) \o Each(n, v)
      BY ONLY <3>1, <3>2 DEF Joins
    <3> QED BY <3>3 DEF u, v
  <2>4. b[c] = Each(n, m[c])
    BY DEF Composed
  <2>5. Each(b, Append(x, c)) = Each(b, x) \o b[c]
    BY EachAppend
  <2> QED BY ONLY <2>1, <2>3, <2>4, <2>5, Each(n, Each(m, x)) = Each(b, x), Zenon
<1>4. Seq(A) \subseteq X
  <2> HIDE DEF X
  <2> QED BY <1>2, <1>3, EverySeq
<1> QED BY <1>4

\* What agrees on the elements of t does the same to it.
LEMMA EachAgree ==
    ASSUME NEW A, NEW m, NEW n, NEW t \in Seq(A), \A c \in A : m[c] = n[c]
    PROVE  Each(m, t) = Each(n, t)
<1>1. [i \in 1..Len(t) |-> m[t[i]]] = [i \in 1..Len(t) |-> n[t[i]]]
  <2>1. \A i \in 1..Len(t) : m[t[i]] = n[t[i]]
    OBVIOUS
  <2> QED BY <2>1
<1> QED BY ONLY <1>1, Zenon DEF Each

LEMMA EachItself ==
    ASSUME NEW A, NEW m, NEW t \in Seq(A), \A c \in A : m[c] = <<c>>
    PROVE  Each(m, t) = t
<1>1. Len(t) \in Nat /\ [i \in 1..Len(t) |-> t[i]] = t
  OBVIOUS
<1>2. FlattenSeq([i \in 1..Len(t) |-> <<t[i]>>]) = [i \in 1..Len(t) |-> t[i]]
  BY <1>1, FlattenedSingles, Zenon
<1>3. [i \in 1..Len(t) |-> m[t[i]]] = [i \in 1..Len(t) |-> <<t[i]>>]
  <2>1. \A i \in 1..Len(t) : m[t[i]] = <<t[i]>>
    OBVIOUS
  <2> QED BY <2>1
<1> QED BY ONLY <1>1, <1>2, <1>3, Zenon DEF Each

\* What Each does, for one replacement.
Steps(m, A) ==
    /\ \A t \in Seq(A) : \A c \in A : /\ Each(m, <<c>> \o t) = m[c] \o Each(m, t)
                                      /\ Each(m, Append(t, c)) = Each(m, t) \o m[c]
    /\ \A u, v \in Seq(A) : Each(m, u \o v) = Each(m, u) \o Each(m, v)

LEMMA EachSteps ==
    ASSUME NEW A, NEW S, NEW m \in [A -> Seq(S)]
    PROVE  Steps(m, A)
<1>1. ASSUME NEW t \in Seq(A), NEW c \in A
      PROVE  /\ Each(m, <<c>> \o t) = m[c] \o Each(m, t)
             /\ Each(m, Append(t, c)) = Each(m, t) \o m[c]
  <2>1. Each(m, <<c>> \o t) = m[c] \o Each(m, t)
    BY EachFromHead
  <2>2. Each(m, Append(t, c)) = Each(m, t) \o m[c]
    BY EachAppend
  <2> QED BY ONLY <2>1, <2>2, Zenon
<1>2. Joins(m, A)
  BY EachJoins
<1> QED BY ONLY <1>1, <1>2, Zenon DEF Steps, Joins


-----------------------------------------------------------------------------
(* Segments: escapes.                                                      *)

LEMMA FlattenedTwo ==
    ASSUME NEW S, NEW x \in Seq(S), NEW y \in Seq(S)
    PROVE  FlattenSeq(<<x, y>>) = x \o y
<1>1. <<x, y>> = Append(<<x>>, y) /\ <<x>> \in Seq(Seq(S))
  OBVIOUS
<1> DEFINE one == <<x>>
<1>2. FlattenSeq(Append(one, y)) = FlattenSeq(one) \o y
  <2>1. one \in Seq(Seq(S))
    BY <1>1
  <2> HIDE DEF one
  <2> QED BY <2>1, FlattenedAppend
<1>3. FlattenSeq(<<x>>) = x
  BY FlattenedOne
<1> QED BY ONLY <1>1, <1>2, <1>3, Zenon

LEMMA TwoElements ==
    ASSUME NEW S, NEW s \in Seq(S), Len(s) = 2
    PROVE  s = <<s[1], s[2]>>
OBVIOUS

LEMMA TwoTyped ==
    ASSUME NEW K, NEW a \in K, NEW b \in K
    PROVE  <<a, b>> \in Seq(K)
OBVIOUS

LEMMA OneAndOne ==
    ASSUME NEW K, NEW a \in K, NEW b \in K
    PROVE  <<a>> \o <<b>> = <<a, b>>
<1> DEFINE x == <<a>>
           y == <<b>>
           z == x \o y
<1>1. x \in Seq(K) /\ y \in Seq(K) /\ Len(x) = 1 /\ Len(y) = 1 /\ x[1] = a /\ y[1] = b
  OBVIOUS
<1> HIDE DEF x, y
<1>2. z \in Seq(K) /\ Len(z) = 2 /\ z[1] = a /\ z[2] = b
  <2>1. z \in Seq(K) /\ Len(z) = 1 + 1
    <3>1. x \o y \in Seq(K) /\ Len(x \o y) = Len(x) + Len(y)
      BY ONLY <1>1, Joined
    <3> QED BY ONLY <1>1, <3>1, Zenon
  <2>2. 1 \in 1..Len(x) /\ 1 \in 1..Len(y) /\ Len(x) + 1 = 2
    BY <1>1
  <2>3. z[1] = x[1] /\ z[Len(x) + 1] = y[1]
    BY ONLY <1>1, <2>2, Joined
  <2> QED BY <1>1, <2>1, <2>2, <2>3
<1> HIDE DEF z
<1>3. z = <<z[1], z[2]>>
  BY <1>2, TwoElements
<1> QED BY ONLY <1>2, <1>3, Zenon DEF x, y, z

\* The pieces that Replace puts together.
Pieces(s, code, char) ==
    [i \in 1..Len(s) |->
        IF i \in 1..(Len(s) - 1) /\ s[i] = "&" /\ s[i + 1] = code THEN <<char>>
        ELSE IF (i - 1) \in 1..(Len(s) - 1) /\ s[i - 1] = "&" /\ s[(i - 1) + 1] = code THEN <<>>
        ELSE <<s[i]>>]

LEMMA ReplacedPieces ==
    ASSUME NEW s, NEW code, NEW char
    PROVE  Replace(s, code, char) = FlattenSeq(Pieces(s, code, char))
BY Zenon DEF Replace, Pieces

Piece(s, code, char, i) ==
    IF i < Len(s) /\ s[i] = "&" /\ s[i + 1] = code THEN <<char>>
    ELSE IF i > 1 /\ s[i - 1] = "&" /\ s[i] = code THEN <<>>
    ELSE <<s[i]>>

Cut(s, code, char, K) ==
    /\ Pieces(s, code, char) \in Seq(Seq(K))
    /\ Len(Pieces(s, code, char)) = Len(s)
    /\ \A i \in 1..Len(s) : Pieces(s, code, char)[i] = Piece(s, code, char, i)

LEMMA PiecesTyped ==
    ASSUME NEW K, NEW s \in Seq(K), NEW code, NEW char \in K
    PROVE  Cut(s, code, char, K)
<1> DEFINE list == Pieces(s, code, char)
<1>1. ASSUME NEW i \in 1..Len(s)
      PROVE  list[i] \in Seq(K) /\ list[i] = Piece(s, code, char, i)
  <2>1. (i - 1) + 1 = i /\ s[i] \in K
    OBVIOUS
  <2>2. /\ (i \in 1..(Len(s) - 1) <=> i < Len(s))
        /\ ((i - 1) \in 1..(Len(s) - 1) <=> i > 1)
    OBVIOUS
  <2>3. list[i] = IF i < Len(s) /\ s[i] = "&" /\ s[i + 1] = code THEN <<char>>
                  ELSE IF i > 1 /\ s[i - 1] = "&" /\ s[i] = code THEN <<>>
                  ELSE <<s[i]>>
    BY <2>1, <2>2 DEF Pieces
  <2>4. list[i] \in Seq(K)
    BY <2>1, <2>3
  <2> QED BY ONLY <2>3, <2>4, Zenon DEF Piece
<1>2. \A i \in 1..Len(s) : list[i] \in Seq(K)
  BY <1>1
<1>3. list = [i \in 1..Len(s) |-> list[i]]
  BY DEF Pieces
<1>4. list \in Seq(Seq(K)) /\ Len(list) = Len(s)
  <2> HIDE DEF list
  <2> QED BY <1>2, <1>3
<1> QED BY ONLY <1>1, <1>4, Zenon DEF Cut

LEMMA ReplaceTyped ==
    ASSUME NEW K, NEW s \in Seq(K), NEW code, NEW char \in K
    PROVE  Replace(s, code, char) \in Seq(K)
<1>1. Pieces(s, code, char) \in Seq(Seq(K))
  BY PiecesTyped, Zenon DEF Cut
<1>2. FlattenSeq(Pieces(s, code, char)) \in Seq(K)
  BY <1>1, FlattenedIsAList
<1> QED BY ONLY <1>2, ReplacedPieces, Zenon

LEMMA ReplaceNone ==
    ASSUME NEW code, NEW char
    PROVE  Replace(<<>>, code, char) = <<>>
<1>1. Pieces(<<>>, code, char) = <<>>
  BY DEF Pieces
<1> QED BY ONLY <1>1, ReplacedPieces, FlattenedNone, Zenon

LEMMA ReplaceOne ==
    ASSUME NEW K, NEW c \in K, NEW code, NEW char \in K
    PROVE  Replace(<<c>>, code, char) = <<c>>
<1>1. Pieces(<<c>>, code, char) = <<<<c>>>>
  <2>1. Len(<<c>>) = 1 /\ <<c>>[1] = c
    OBVIOUS
  <2> QED BY <2>1 DEF Pieces
<1>2. FlattenSeq(<<<<c>>>>) = <<c>>
  <2> DEFINE one == <<c>>
  <2>1. one \in Seq(K)
    OBVIOUS
  <2> HIDE DEF one
  <2>2. FlattenSeq(<<one>>) = one
    BY <2>1, FlattenedOne
  <2> QED BY <2>2 DEF one
<1> QED BY ONLY <1>1, <1>2, ReplacedPieces, Zenon

LEMMA ReplaceEscape ==
    ASSUME NEW K, "&" \in K, NEW d \in K, NEW code, NEW char \in K
    PROVE  Replace(<<"&", d>>, code, char) = IF d = code THEN <<char>> ELSE <<"&", d>>
<1> DEFINE s == <<"&", d>>
<1>1. Len(s) = 2 /\ s[1] = "&" /\ s[2] = d /\ s \in Seq(K)
  OBVIOUS
<1> HIDE DEF s
<1>2. Cut(s, code, char, K)
  BY ONLY <1>1, char \in K, PiecesTyped, Zenon
<1>3. /\ Len(Pieces(s, code, char)) = 2 /\ Pieces(s, code, char) \in Seq(Seq(K))
      /\ Pieces(s, code, char)[1] = IF d = code THEN <<char>> ELSE <<"&">>
      /\ Pieces(s, code, char)[2] = IF d = code THEN <<>> ELSE <<d>>
  <2>1. Piece(s, code, char, 1) = IF d = code THEN <<char>> ELSE <<"&">>
    BY <1>1 DEF Piece
  <2>2. Piece(s, code, char, 2) = IF d = code THEN <<>> ELSE <<d>>
    BY <1>1 DEF Piece
  <2>3. 1 \in 1..Len(s) /\ 2 \in 1..Len(s)
    BY <1>1
  <2> QED BY ONLY <1>1, <1>2, <2>1, <2>2, <2>3, Zenon DEF Cut
<1>4. CASE d = code
  <2>1. Pieces(s, code, char) = <<<<char>>, <<>>>>
    BY ONLY <1>3, <1>4, TwoElements, Zenon
  <2>2. <<char>> \in Seq(K) /\ <<>> \in Seq(K) /\ <<char>> \o <<>> = <<char>>
    OBVIOUS
  <2>3. FlattenSeq(<<<<char>>, <<>>>>) = <<char>> \o <<>>
    <3> DEFINE x == <<char>>
               y == <<>>
    <3>1. x \in Seq(K) /\ y \in Seq(K)
      BY <2>2
    <3> HIDE DEF x, y
    <3>2. FlattenSeq(<<x, y>>) = x \o y
      BY <3>1, FlattenedTwo
    <3> QED BY <3>2 DEF x, y
  <2>4. Replace(s, code, char) = <<char>>
    BY ONLY <2>1, <2>2, <2>3, ReplacedPieces, Zenon
  <2> QED BY <1>4, <2>4 DEF s
<1>5. CASE d # code
  <2>1. Pieces(s, code, char) = <<<<"&">>, <<d>>>>
    BY ONLY <1>3, <1>5, TwoElements, Zenon
  <2>2. <<"&">> \in Seq(K) /\ <<d>> \in Seq(K) /\ <<"&">> \o <<d>> = <<"&", d>>
    BY OneAndOne
  <2>3. FlattenSeq(<<<<"&">>, <<d>>>>) = <<"&">> \o <<d>>
    <3> DEFINE x == <<"&">>
               y == <<d>>
    <3>1. x \in Seq(K) /\ y \in Seq(K)
      BY <2>2
    <3> HIDE DEF x, y
    <3>2. FlattenSeq(<<x, y>>) = x \o y
      BY <3>1, FlattenedTwo
    <3> QED BY <3>2 DEF x, y
  <2>4. Replace(s, code, char) = <<"&", d>>
    BY ONLY <2>1, <2>2, <2>3, ReplacedPieces, Zenon
  <2> QED BY <1>5, <2>4 DEF s
<1> QED BY <1>4, <1>5

\* No code begins in one string and ends in the next.
Apart(x, y, code) == ~(x # <<>> /\ y # <<>> /\ x[Len(x)] = "&" /\ y[1] = code)

LEMMA ReplaceJoined ==
    ASSUME NEW K, NEW x \in Seq(K), NEW y \in Seq(K), NEW code, NEW char \in K, Apart(x, y, code)
    PROVE  Replace(x \o y, code, char) = Replace(x, code, char) \o Replace(y, code, char)
<1> DEFINE all == x \o y
           xs == Pieces(x, code, char)
           ys == Pieces(y, code, char)
           zs == Pieces(all, code, char)
           n == Len(x)
           l == Len(y)
<1>1. /\ all \in Seq(K) /\ Len(all) = n + l /\ n \in Nat /\ l \in Nat
      /\ \A i \in 1..n : all[i] = x[i]
      /\ \A i \in 1..l : all[n + i] = y[i]
  BY Joined
<1>2. /\ xs \in Seq(Seq(K)) /\ Len(xs) = n
      /\ \A i \in 1..n : xs[i] = Piece(x, code, char, i)
  <2>1. Cut(x, code, char, K)
    BY PiecesTyped
  <2> QED BY ONLY <2>1, Zenon DEF Cut
<1>3. /\ ys \in Seq(Seq(K)) /\ Len(ys) = l
      /\ \A i \in 1..l : ys[i] = Piece(y, code, char, i)
  <2>1. Cut(y, code, char, K)
    BY PiecesTyped
  <2> QED BY ONLY <2>1, Zenon DEF Cut
<1>4. /\ zs \in Seq(Seq(K)) /\ Len(zs) = n + l
      /\ \A i \in 1..(n + l) : zs[i] = Piece(all, code, char, i)
  <2>1. Cut(all, code, char, K)
    <3> HIDE DEF all
    <3> QED BY ONLY <1>1, char \in K, PiecesTyped, Zenon
  <2> HIDE DEF all
  <2> QED BY ONLY <1>1, <2>1, Zenon DEF Cut
<1>5. n >= 1 /\ l >= 1 => ~(x[n] = "&" /\ y[1] = code)
  BY DEF Apart
<1> HIDE DEF xs, ys, zs, all
<1>6. ASSUME NEW i \in 1..n PROVE zs[i] = xs[i]
  <2>1. i \in 1..(n + l) /\ all[i] = x[i] /\ (i > 1 => all[i - 1] = x[i - 1])
    BY <1>1
  <2>2. Piece(all, code, char, i) = Piece(x, code, char, i)
    <3>1. CASE i < n
      <4>1. i + 1 \in 1..n
        BY <1>1, <3>1
      <4>2. all[i + 1] = x[i + 1] /\ i < n + l
        BY <1>1, <3>1, <4>1
      <4> QED BY <1>1, <2>1, <3>1, <4>2 DEF Piece
    <3>2. CASE i = n
      <4>1. ~(i < n + l /\ all[i] = "&" /\ all[i + 1] = code)
        <5>1. CASE l = 0
          BY <1>1, <3>2, <5>1
        <5>2. CASE l >= 1
          <6>1. all[n + 1] = y[1]
            BY <1>1, <5>2
          <6> QED BY <1>1, <1>5, <2>1, <3>2, <5>2, <6>1
        <5> QED BY <1>1, <5>1, <5>2
      <4> QED BY <1>1, <2>1, <3>2, <4>1 DEF Piece
    <3> QED BY <1>1, <3>1, <3>2
  <2> QED BY <1>2, <1>4, <2>1, <2>2
<1>7. ASSUME NEW i \in 1..l PROVE zs[n + i] = ys[i]
  <2>1. (n + i) \in 1..(n + l) /\ all[n + i] = y[i]
    BY <1>1
  <2>2. (n + i < n + l /\ all[n + i] = "&" /\ all[(n + i) + 1] = code)
           <=> (i < l /\ y[i] = "&" /\ y[i + 1] = code)
    <3>1. CASE i < l
      <4>1. all[n + (i + 1)] = y[i + 1] /\ (n + i) + 1 = n + (i + 1)
        BY <1>1, <3>1
      <4> QED BY <1>1, <2>1, <3>1, <4>1
    <3>2. CASE i = l
      BY <1>1, <3>2
    <3> QED BY <1>1, <3>1, <3>2
  <2>3. (n + i > 1 /\ all[(n + i) - 1] = "&" /\ all[n + i] = code)
           <=> (i > 1 /\ y[i - 1] = "&" /\ y[i] = code)
    <3>1. CASE i > 1
      <4>1. all[n + (i - 1)] = y[i - 1] /\ (n + i) - 1 = n + (i - 1)
        BY <1>1, <3>1
      <4> QED BY <1>1, <2>1, <3>1, <4>1
    <3>2. CASE i = 1
      <4>1. n + i > 1 => n >= 1 /\ (n + i) - 1 = n /\ all[n] = x[n]
        BY <1>1, <3>2
      <4> QED BY <1>1, <1>5, <2>1, <3>2, <4>1
    <3> QED BY <1>1, <3>1, <3>2
  <2>4. Piece(all, code, char, n + i) = Piece(y, code, char, i)
    BY ONLY <1>1, <2>1, <2>2, <2>3, Zenon DEF Piece
  <2> QED BY ONLY <1>3, <1>4, <2>1, <2>4, i \in 1..l, Zenon
<1>8. zs = xs \o ys
  <2> DEFINE both == xs \o ys
  <2>1. both \in Seq(Seq(K)) /\ Len(both) = n + l
        /\ (\A i \in 1..n : both[i] = xs[i]) /\ (\A i \in 1..l : both[n + i] = ys[i])
    <3>1. /\ xs \o ys \in Seq(Seq(K)) /\ Len(xs \o ys) = Len(xs) + Len(ys)
          /\ \A i \in 1..Len(xs) : (xs \o ys)[i] = xs[i]
          /\ \A i \in 1..Len(ys) : (xs \o ys)[Len(xs) + i] = ys[i]
      <4>1. xs \in Seq(Seq(K)) /\ ys \in Seq(Seq(K))
        BY <1>2, <1>3
      <4> QED BY ONLY <4>1, Joined
    <3> QED BY ONLY <1>2, <1>3, <3>1, Zenon
  <2> HIDE DEF both
  <2>2. \A i \in 1..(n + l) : zs[i] = both[i]
    <3> SUFFICES ASSUME NEW i \in 1..(n + l) PROVE zs[i] = both[i]
      OBVIOUS
    <3>1. CASE i <= n
      BY <1>1, <1>6, <2>1, <3>1
    <3>2. CASE i > n
      <4>1. i - n \in 1..l /\ i = n + (i - n)
        BY <1>1, <3>2
      <4>2. zs[n + (i - n)] = ys[i - n] /\ both[n + (i - n)] = ys[i - n]
        BY <1>7, <2>1, <4>1
      <4> QED BY <4>1, <4>2, Zenon
    <3> QED BY <1>1, <3>1, <3>2
  <2>3. zs = both
    BY <1>1, <1>4, <2>1, <2>2
  <2> QED BY <2>3 DEF both
<1>9. FlattenSeq(xs \o ys) = FlattenSeq(xs) \o FlattenSeq(ys)
  BY ONLY <1>2, <1>3, FlattenedJoined, Zenon
<1>10. FlattenSeq(zs) = FlattenSeq(xs) \o FlattenSeq(ys)
  BY ONLY <1>8, <1>9, Zenon
<1> QED BY ONLY <1>10, ReplacedPieces, Zenon DEF all, xs, ys, zs


\* n is what replacing makes of m, whose lists end in no ampersand.
Rewrites(K, m, n, code, char) ==
    /\ m \in [K -> Seq(K)] /\ code # "&" /\ char \in K
    /\ \A c \in K : m[c] # <<>> /\ m[c][Len(m[c])] # "&" /\ n[c] = Replace(m[c], code, char)

LEMMA ReplaceBlocks ==
    ASSUME NEW K, NEW m, NEW n, NEW code, NEW char, Rewrites(K, m, n, code, char), NEW t \in Seq(K)
    PROVE  Replace(Each(m, t), code, char) = Each(n, t)
<1> m \in [K -> Seq(K)] /\ code # "&" /\ char \in K
  BY DEF Rewrites
<1> \A c \in K : m[c] # <<>> /\ m[c][Len(m[c])] # "&" /\ n[c] = Replace(m[c], code, char)
  BY DEF Rewrites
<1> DEFINE b == [c \in K |-> n[c]]
           Ends(x) == Each(m, x) = <<>> \/ Each(m, x)[Len(Each(m, x))] # "&"
           X == {x \in Seq(K) : Replace(Each(m, x), code, char) = Each(b, x) /\ Ends(x)}
<1>1. b \in [K -> Seq(K)]
  BY ReplaceTyped
<1>2. <<>> \in X
  <2>1. Each(m, <<>>) = <<>> /\ Each(b, <<>>) = <<>>
    <3> HIDE DEF b
    <3> QED BY ONLY EachNone, Zenon
  <2>2. Replace(Each(m, <<>>), code, char) = Each(b, <<>>)
    <3> HIDE DEF b
    <3> QED BY ONLY <2>1, ReplaceNone, Zenon
  <2> HIDE DEF b
  <2> QED BY <2>1, <2>2
<1>3. ASSUME NEW x \in Seq(K), NEW c \in K, x \in X PROVE Append(x, c) \in X
  <2> DEFINE u == Each(m, x)
             v == m[c]
  <2>1. Each(m, Append(x, c)) = u \o v
    BY EachAppend
  <2>2. Each(b, Append(x, c)) = Each(b, x) \o b[c]
    <3> HIDE DEF b
    <3> QED BY <1>1, EachAppend
  <2>3. u \in Seq(K) /\ v \in Seq(K)
    BY EachTyped
  <2>4. v # <<>> /\ v[Len(v)] # "&" /\ b[c] = Replace(v, code, char)
    OBVIOUS
  <2>5. Replace(u, code, char) = Each(b, x) /\ Ends(x)
    BY <1>3
  <2> HIDE DEF b, v
  <2>6. Apart(u, v, code)
    BY <2>5 DEF Apart
  <2>7. Replace(u \o v, code, char) = Replace(u, code, char) \o Replace(v, code, char)
    <3> HIDE DEF u
    <3> QED BY ONLY <2>3, <2>6, char \in K, ReplaceJoined
  <2>8. Replace(Each(m, Append(x, c)), code, char) = Each(b, Append(x, c))
    BY ONLY <2>1, <2>2, <2>4, <2>5, <2>7, Zenon
  <2>9. (u \o v)[Len(u \o v)] # "&"
    <3> HIDE DEF u
    <3>1. Len(v) \in 1..Len(v) /\ Len(u \o v) = Len(u) + Len(v)
      BY <2>3, <2>4
    <3>2. (u \o v)[Len(u) + Len(v)] = v[Len(v)]
      BY ONLY <2>3, <3>1, Joined
    <3> QED BY ONLY <2>4, <3>1, <3>2, Zenon
  <2>10. Ends(Append(x, c))
    BY ONLY <2>1, <2>9, Zenon
  <2>11. Append(x, c) \in Seq(K)
    OBVIOUS
  <2> HIDE DEF Ends, u
  <2> QED BY <2>8, <2>10, <2>11
<1>4. Seq(K) \subseteq X
  <2> HIDE DEF X
  <2> QED BY <1>2, <1>3, EverySeq
<1>5. Replace(Each(m, t), code, char) = Each(b, t)
  <2> HIDE DEF b, Ends
  <2> QED BY <1>4
<1>6. Each(b, t) = Each(n, t)
  <2>1. \A c \in K : b[c] = n[c]
    OBVIOUS
  <2> HIDE DEF b
  <2> QED BY ONLY <2>1, t \in Seq(K), EachAgree
<1> QED BY ONLY <1>5, <1>6, Zenon

Special == {"&", "[", "]", ","}

LEMMA Escapes ==
    /\ Escape["&"] = "amp;" /\ Escape["["] = "#91;"
    /\ Escape["]"] = "#93;" /\ Escape[","] = "#44;"
    /\ \A c \in Special : \A d \in Special : Escape[c] = Escape[d] => c = d
    /\ \A c \in Special : Escape[c] \notin Special
<1>1. \A c \in Special :
         Escape[c] = CASE c = "&" -> "amp;" [] c = "[" -> "#91;" [] c = "]" -> "#93;" [] OTHER -> "#44;"
  BY DEF Escape, Special
<1>2. Escape["&"] = "amp;"
  BY <1>1 DEF Special
<1>3. Escape["["] = "#91;"
  BY <1>1 DEF Special
<1>4. Escape["]"] = "#93;"
  BY <1>1 DEF Special
<1>5. Escape[","] = "#44;"
  BY <1>1 DEF Special
<1>6. "amp;" # "#91;" /\ "amp;" # "#93;" /\ "amp;" # "#44;" /\ "#91;" # "#93;" /\ "#91;" # "#44;"
      /\ "#93;" # "#44;" /\ "amp;" \notin Special /\ "#91;" \notin Special
      /\ "#93;" \notin Special /\ "#44;" \notin Special
  BY DEF Special
<1>7. \A c \in Special : c = "&" \/ c = "[" \/ c = "]" \/ c = ","
  BY DEF Special
<1>8. \A c \in Special : Escape[c] \notin Special
  BY ONLY <1>2, <1>3, <1>4, <1>5, <1>6, <1>7, Zenon
<1>9. ASSUME NEW c \in Special, NEW d \in Special, Escape[c] = Escape[d] PROVE c = d
  BY ONLY <1>2, <1>3, <1>4, <1>5, <1>6, <1>7, <1>9, c \in Special, d \in Special
<1> QED BY <1>2, <1>3, <1>4, <1>5, <1>8, <1>9

LEMMA TokensThere ==
    /\ {"&", "[", "]", ",", "=", "amp;", "#91;", "#93;", "#44;", "CQ:", "text", "file", "url",
        "image", "record", "video"} \subseteq Tokens
    /\ \A c \in Special : Escape[c] \in Tokens /\ c \in Tokens
<1>1. {"&", "[", "]", ",", "=", "amp;", "#91;", "#93;", "#44;", "CQ:", "text", "file", "url",
       "image", "record", "video"} \subseteq Tokens
  BY SegmentsAssumption, Zenon
<1>2. ASSUME NEW c \in Special PROVE Escape[c] \in Tokens /\ c \in Tokens
  BY <1>1, Escapes DEF Special
<1> QED BY <1>1, <1>2

Blocks(C) == [c \in Tokens |-> IF c \in C THEN <<"&", Escape[c]>> ELSE <<c>>]

LEMMA BlocksTyped ==
    ASSUME NEW C \in SUBSET Special
    PROVE  /\ Blocks(C) \in [Tokens -> Seq(Tokens)]
           /\ Blocks(C) \in [Tokens -> Seq(Tokens \ (C \ {"&"}))]
<1>1. ASSUME NEW c \in Tokens PROVE Blocks(C)[c] \in Seq(Tokens \ (C \ {"&"}))
  <2>1. Blocks(C)[c] = IF c \in C THEN <<"&", Escape[c]>> ELSE <<c>>
    BY DEF Blocks
  <2>2. CASE c \in C
    <3>1. "&" \in Tokens \ (C \ {"&"}) /\ Escape[c] \in Tokens \ (C \ {"&"})
      <4>1. "&" \in Tokens
        BY TokensThere
      <4>2. Escape[c] \in Tokens /\ Escape[c] \notin Special
        BY <2>2, TokensThere, Escapes, Zenon
      <4> QED BY <4>1, <4>2
    <3> QED BY <2>1, <2>2, <3>1
  <2>3. CASE c \notin C
    BY <2>1, <2>3
  <2> QED BY <2>2, <2>3
<1>2. \A c \in Tokens : Blocks(C)[c] \in Seq(Tokens)
  <2>1. Seq(Tokens \ (C \ {"&"})) \subseteq Seq(Tokens)
    OBVIOUS
  <2> QED BY <1>1, <2>1
<1>3. Blocks(C) = [c \in Tokens |-> Blocks(C)[c]]
  BY DEF Blocks
<1> QED BY ONLY <1>1, <1>2, <1>3

LEMMA EscapeIsEach ==
    ASSUME NEW t \in Seq(Tokens), NEW C
    PROVE  EscapeBy(t, C) = Each(Blocks(C), t)
<1>1. [i \in 1..Len(t) |-> IF t[i] \in C THEN <<"&", Escape[t[i]]>> ELSE <<t[i]>>]
        = [i \in 1..Len(t) |-> Blocks(C)[t[i]]]
  <2>1. \A i \in 1..Len(t) :
           Blocks(C)[t[i]] = IF t[i] \in C THEN <<"&", Escape[t[i]]>> ELSE <<t[i]>>
    BY DEF Blocks
  <2> QED BY <2>1
<1> QED BY ONLY <1>1, Zenon DEF EscapeBy, Each

LEMMA EscapeTyped ==
    ASSUME NEW t \in Seq(Tokens), NEW C \in SUBSET Special
    PROVE  /\ EscapeBy(t, C) \in Seq(Tokens)
           /\ EscapeBy(t, C) \in Seq(Tokens \ (C \ {"&"}))
<1>1. /\ Each(Blocks(C), t) \in Seq(Tokens)
      /\ Each(Blocks(C), t) \in Seq(Tokens \ (C \ {"&"}))
  BY BlocksTyped, EachTyped
<1> QED BY ONLY <1>1, EscapeIsEach, t \in Seq(Tokens), Zenon

LEMMA ReplaceEscaped ==
    ASSUME NEW C \in SUBSET Special, "&" \in C, NEW d \in Special, NEW t \in Seq(Tokens)
    PROVE  Replace(EscapeBy(t, C), Escape[d], d) = EscapeBy(t, C \ {d})
<1>1. ASSUME NEW c \in Tokens
      PROVE  /\ Blocks(C)[c] # <<>> /\ Blocks(C)[c][Len(Blocks(C)[c])] # "&"
             /\ Blocks(C \ {d})[c] = Replace(Blocks(C)[c], Escape[d], d)
  <2>1. /\ Blocks(C)[c] = IF c \in C THEN <<"&", Escape[c]>> ELSE <<c>>
        /\ Blocks(C \ {d})[c] = IF c \in C \ {d} THEN <<"&", Escape[c]>> ELSE <<c>>
    BY DEF Blocks
  <2>2. d \in Tokens /\ "&" \in Tokens
    BY TokensThere
  <2>3. CASE c \in C
    <3>1. Escape[c] \in Tokens /\ Escape[c] # "&"
      BY <2>3, TokensThere, Escapes DEF Special
    <3>2. Replace(<<"&", Escape[c]>>, Escape[d], d)
            = IF Escape[c] = Escape[d] THEN <<d>> ELSE <<"&", Escape[c]>>
      BY ONLY <2>2, <3>1, ReplaceEscape
    <3>3. Escape[c] = Escape[d] <=> c = d
      BY <2>3, Escapes
    <3>4. Blocks(C \ {d})[c] = Replace(Blocks(C)[c], Escape[d], d)
      BY <2>1, <2>3, <3>2, <3>3, Zenon
    <3>5. Blocks(C)[c] # <<>> /\ Blocks(C)[c][Len(Blocks(C)[c])] # "&"
      BY <2>1, <2>3, <3>1
    <3> QED BY <3>4, <3>5
  <2>4. CASE c \notin C
    <3>1. Replace(<<c>>, Escape[d], d) = <<c>>
      BY ONLY <2>2, c \in Tokens, ReplaceOne, Zenon
    <3>2. Blocks(C \ {d})[c] = Replace(Blocks(C)[c], Escape[d], d)
      BY <2>1, <2>4, <3>1, Zenon
    <3>3. Blocks(C)[c] # <<>> /\ Blocks(C)[c][Len(Blocks(C)[c])] # "&"
      BY <2>1, <2>4
    <3> QED BY <3>2, <3>3
  <2> QED BY <2>3, <2>4
<1>2. Blocks(C) \in [Tokens -> Seq(Tokens)] /\ Escape[d] # "&" /\ d \in Tokens
  BY BlocksTyped, TokensThere, Escapes DEF Special
<1>3. Replace(Each(Blocks(C), t), Escape[d], d) = Each(Blocks(C \ {d}), t)
  <2> DEFINE m == Blocks(C)
             n == Blocks(C \ {d})
             code == Escape[d]
  <2>1. \A c \in Tokens : m[c] # <<>> /\ m[c][Len(m[c])] # "&" /\ n[c] = Replace(m[c], code, d)
    BY ONLY <1>1, Zenon
  <2>2. m \in [Tokens -> Seq(Tokens)] /\ code # "&"
    BY <1>2
  <2> HIDE DEF m, n, code
  <2>3. Replace(Each(m, t), code, d) = Each(n, t)
    <3>1. Rewrites(Tokens, m, n, code, d)
      BY ONLY <1>2, <2>1, <2>2, Zenon DEF Rewrites
    <3> QED BY ONLY <3>1, t \in Seq(Tokens), ReplaceBlocks, SMTT(20)
  <2> QED BY ONLY <2>3, Zenon DEF m, n, code
<1> QED BY ONLY <1>3, t \in Seq(Tokens), EscapeIsEach, Zenon

LEMMA EscapeNothing ==
    ASSUME NEW C, NEW t \in Seq(Tokens \ C)
    PROVE  EscapeBy(t, C) = t
<1>1. t \in Seq(Tokens)
  OBVIOUS
<1>2. \A c \in Tokens \ C : Blocks(C)[c] = <<c>>
  BY DEF Blocks
<1>3. Each(Blocks(C), t) = t
  BY ONLY <1>2, t \in Seq(Tokens \ C), EachItself, Zenon
<1> QED BY ONLY <1>1, <1>3, EscapeIsEach, Zenon

LEMMA TextUnescaped ==
    ASSUME NEW t \in Seq(Tokens), NEW C \in {{"&", "["}, {"&", "[", "]"}}
    PROVE  UnescapeText(EscapeBy(t, C)) = t
<1>1. C \in SUBSET Special /\ "&" \in C /\ "[" \in Special /\ "]" \in Special /\ "&" \in Special
  BY DEF Special
<1> DEFINE C1 == C \ {"["}
           C2 == C1 \ {"]"}
           C3 == C2 \ {"&"}
<1>2. C1 \in SUBSET Special /\ "&" \in C1 /\ C2 \in SUBSET Special /\ "&" \in C2 /\ C3 = {}
  BY <1>1
<1>3. Replace(EscapeBy(t, C), Escape["["], "[") = EscapeBy(t, C1)
  BY <1>1, ReplaceEscaped
<1> HIDE DEF C1
<1>4. Replace(EscapeBy(t, C1), Escape["]"], "]") = EscapeBy(t, C2)
  BY <1>1, <1>2, ReplaceEscaped
<1> HIDE DEF C2
<1>5. Replace(EscapeBy(t, C2), Escape["&"], "&") = EscapeBy(t, C3)
  BY <1>1, <1>2, ReplaceEscaped
<1> HIDE DEF C3
<1>6. EscapeBy(t, {}) = t
  <2>1. t \in Seq(Tokens \ {})
    OBVIOUS
  <2> QED BY ONLY <2>1, EscapeNothing, Zenon
<1> QED BY ONLY <1>2, <1>3, <1>4, <1>5, <1>6, Escapes, Zenon DEF UnescapeText

LEMMA ValueEscaped ==
    ASSUME NEW v \in Seq(Tokens)
    PROVE  EscapeValue(v) = EscapeBy(v, Special)
<1> DEFINE C == {"&", "[", "]"}
<1>1. C \in SUBSET Special /\ {","} \in SUBSET Special
  BY DEF Special
<1>2. EscapeText(v) = EscapeBy(v, C)
  BY DEF EscapeText
<1>3. EscapeBy(v, C) \in Seq(Tokens)
  BY <1>1, EscapeTyped
<1>4. EscapeValue(v) = Each(Blocks({","}), Each(Blocks(C), v))
  <2>1. EscapeValue(v) = EscapeBy(EscapeText(v), {","})
    BY DEF EscapeValue
  <2> HIDE DEF C
  <2> QED BY ONLY <1>2, <1>3, <2>1, v \in Seq(Tokens), EscapeIsEach, Zenon
<1> HIDE DEF C
<1>6. ASSUME NEW c \in Tokens
      PROVE  Each(Blocks({","}), Blocks(C)[c]) = Blocks(Special)[c]
  <2>1. /\ Blocks(C)[c] = IF c \in C THEN <<"&", Escape[c]>> ELSE <<c>>
        /\ Blocks(Special)[c] = IF c \in Special THEN <<"&", Escape[c]>> ELSE <<c>>
        /\ Blocks({","})[c] = IF c = "," THEN <<"&", Escape[c]>> ELSE <<c>>
    BY DEF Blocks
  <2>2. CASE c \in C
    <3>1. "&" \in Tokens \ {","} /\ Escape[c] \in Tokens \ {","}
      <4>1. c \in Special
        BY <1>1, <2>2
      <4>2. Escape[c] \in Tokens /\ Escape[c] \notin Special
        BY <4>1, TokensThere, Escapes, Zenon
      <4>3. "," \in Special /\ "&" \in Tokens
        BY TokensThere DEF Special
      <4> QED BY <4>2, <4>3
    <3> DEFINE e == <<"&", Escape[c]>>
    <3>2. e \in Seq(Tokens \ {","}) /\ e \in Seq(Tokens)
      <4>1. "&" \in Tokens /\ Escape[c] \in Tokens
        BY ONLY <3>1
      <4> QED BY ONLY <3>1, <4>1, TwoTyped, Zenon
    <3>3. EscapeBy(e, {","}) = e
      <4> HIDE DEF e
      <4> QED BY ONLY <3>2, EscapeNothing
    <3>4. e \in Seq(Tokens)
      BY <3>2
    <3>5. c \in Special
      BY <1>1, <2>2
    <3> QED BY ONLY <2>1, <2>2, <3>3, <3>4, <3>5, EscapeIsEach, Zenon
  <2>3. CASE c \notin C
    <3>1. Each(Blocks({","}), <<c>>) = Blocks({","})[c]
      <4>1. Blocks({","}) \in [Tokens -> Seq(Tokens)]
        BY <1>1, BlocksTyped, Zenon
      <4> QED BY ONLY <4>1, c \in Tokens, EachOne, Zenon
    <3>2. c \in Special <=> c = ","
      BY <2>3 DEF Special, C
    <3> QED BY ONLY <2>1, <2>3, <3>1, <3>2, Zenon
  <2> QED BY <2>2, <2>3
<1>7. Each(Blocks({","}), Each(Blocks(C), v)) = Each(Blocks(Special), v)
  <2> DEFINE m == Blocks(C)
             n == Blocks({","})
             b == Blocks(Special)
  <2>1. m \in [Tokens -> Seq(Tokens)] /\ n \in [Tokens -> Seq(Tokens)] /\ b \in [Tokens -> Seq(Tokens)]
    <3>1. Special \in SUBSET Special
      OBVIOUS
    <3> QED BY <1>1, <3>1, BlocksTyped, Zenon
  <2>2. \A c \in Tokens : b[c] = Each(n, m[c])
    BY <1>6
  <2> HIDE DEF m, n, b
  <2>3. Composed(m, n, b, Tokens, Tokens, Tokens)
    BY ONLY <2>1, <2>2, Zenon DEF Composed
  <2>4. Each(n, Each(m, v)) = Each(b, v)
    BY ONLY <2>3, v \in Seq(Tokens), EachOfEach, SMTT(20)
  <2> QED BY ONLY <2>4, Zenon DEF m, n, b
<1> QED BY ONLY <1>4, <1>7, v \in Seq(Tokens), EscapeIsEach, Zenon

LEMMA ValueUnescaped ==
    ASSUME NEW v \in Seq(Tokens)
    PROVE  UnescapeValue(EscapeValue(v)) = v
<1> DEFINE C == Special \ {","}
<1>1. Special \in SUBSET Special /\ "&" \in Special /\ "," \in Special
  BY DEF Special
<1>2. Replace(EscapeBy(v, Special), Escape[","], ",") = EscapeBy(v, C)
  BY <1>1, ReplaceEscaped
<1>3. C = {"&", "[", "]"}
  BY DEF Special
<1>4. UnescapeText(EscapeBy(v, C)) = v
  <2> HIDE DEF C
  <2>1. C \in {{"&", "["}, {"&", "[", "]"}}
    BY <1>3
  <2> QED BY ONLY <2>1, v \in Seq(Tokens), TextUnescaped, Zenon
<1> HIDE DEF C
<1> QED BY ONLY <1>2, <1>4, ValueEscaped, v \in Seq(Tokens), Escapes, Zenon DEF UnescapeValue


-----------------------------------------------------------------------------
(* Segments: what a round of the parser reads.                             *)

LEMMA LeastThere ==
    ASSUME NEW S \in SUBSET Nat, S # {}
    PROVE  Min(S) \in S /\ \A y \in S : Min(S) <= y
<1>1. PICK n \in S : \A m \in S : ~(<<m, n>> \in OpToRel(<, Nat))
  BY NatLessThanWellFounded, WFMin, Zenon
<1>2. \A m \in S : ~(m < n)
  BY ONLY <1>1, S \in SUBSET Nat DEF OpToRel
<1>3. \A m \in S : n <= m
  BY <1>2
<1>4. \E x \in S : \A y \in S : x <= y
  BY <1>3
<1> QED BY ONLY <1>4, Zenon DEF Min

LEMMA LeastIs ==
    ASSUME NEW S \in SUBSET Nat, NEW n \in S, \A m \in S : n <= m
    PROVE  Min(S) = n
<1>1. Min(S) \in S /\ \A y \in S : Min(S) <= y
  BY LeastThere
<1>2. Min(S) <= n /\ n <= Min(S) /\ Min(S) \in Nat /\ n \in Nat
  BY <1>1
<1> QED BY <1>2

LEMMA UptoReads ==
    ASSUME NEW K, NEW s \in Seq(K), NEW stops
    PROVE  /\ Upto(s, stops) \in 0..Len(s)
           /\ \A i \in 1..Upto(s, stops) : s[i] \notin stops
           /\ Upto(s, stops) # Len(s) => s[Upto(s, stops) + 1] \in stops
<1> DEFINE I == {i \in 1..Len(s) : s[i] \in stops}
           at == IF I # {} THEN Min(I) ELSE 0
<1>1. Upto(s, stops) = IF at = 0 THEN Len(s) ELSE at - 1
  BY Zenon DEF Upto, SelectInSeq
<1>2. CASE I = {}
  <2>1. Upto(s, stops) = Len(s)
    BY <1>1, <1>2
  <2> QED BY <1>2, <2>1
<1>3. CASE I # {}
  <2>1. Min(I) \in I /\ \A y \in I : Min(I) <= y
    <3>1. I \in SUBSET Nat
      OBVIOUS
    <3> HIDE DEF I
    <3> QED BY <1>3, <3>1, LeastThere
  <2>2. at = Min(I) /\ at \in 1..Len(s) /\ s[at] \in stops
    BY <1>3, <2>1
  <2>3. Upto(s, stops) = at - 1
    BY <1>1, <2>2
  <2>4. ASSUME NEW i \in 1..(at - 1) PROVE s[i] \notin stops
    <3>1. ~(at <= i) /\ i \in 1..Len(s)
      BY <2>2
    <3>2. i \notin I
      BY <2>1, <2>2, <3>1
    <3> QED BY <3>1, <3>2
  <2> HIDE DEF at, I
  <2> QED BY <2>2, <2>3, <2>4
<1> QED BY <1>2, <1>3

LEMMA UptoJoined ==
    ASSUME NEW K, NEW stops, NEW x \in Seq(K \ stops), NEW y \in Seq(K), y # <<>>, y[1] \in stops
    PROVE  Upto(x \o y, stops) = Len(x)
<1> DEFINE s == x \o y
           n == Upto(s, stops)
<1>1. x \in Seq(K) /\ \A i \in 1..Len(x) : x[i] \notin stops
  OBVIOUS
<1>2. /\ s \in Seq(K) /\ Len(s) = Len(x) + Len(y)
      /\ \A i \in 1..Len(x) : s[i] = x[i]
      /\ \A i \in 1..Len(y) : s[Len(x) + i] = y[i]
  BY <1>1, Joined
<1>3. Len(y) \in Nat /\ Len(y) >= 1 /\ Len(x) \in Nat
  OBVIOUS
<1>4. s[Len(x) + 1] = y[1] /\ Len(x) + 1 <= Len(s)
  BY <1>2, <1>3
<1> HIDE DEF s
<1>5. /\ n \in 0..Len(s)
      /\ \A i \in 1..n : s[i] \notin stops
      /\ n # Len(s) => s[n + 1] \in stops
  BY <1>2, UptoReads
<1> HIDE DEF n
<1>6. ~(n > Len(x))
  <2> SUFFICES ASSUME n > Len(x) PROVE FALSE
    OBVIOUS
  <2>1. Len(x) + 1 \in 1..n
    BY <1>3, <1>5
  <2> QED BY <1>4, <1>5, <2>1
<1>7. ~(n < Len(x))
  <2> SUFFICES ASSUME n < Len(x) PROVE FALSE
    OBVIOUS
  <2>1. n + 1 \in 1..Len(x) /\ n # Len(s)
    BY <1>2, <1>3, <1>5
  <2> QED BY <1>1, <1>2, <1>5, <2>1
<1>8. n = Len(x)
  BY <1>3, <1>5, <1>6, <1>7
<1> QED BY <1>8 DEF n, s

LEMMA DropJoined ==
    ASSUME NEW K, NEW x \in Seq(K), NEW y \in Seq(K)
    PROVE  Drop(x \o y, Len(x)) = y /\ SubSeq(x \o y, 1, Len(x)) = x
BY Parted DEF Drop

LEMMA TailJoined ==
    ASSUME NEW K, NEW c \in K, NEW y \in Seq(K)
    PROVE  /\ Tail(<<c>> \o y) = y /\ (<<c>> \o y)[1] = c /\ <<c>> \o y # <<>>
           /\ <<c>> \o y \in Seq(K) /\ Drop(<<c>> \o y, 1) = y
<1> DEFINE x == <<c>>
           z == x \o y
<1>1. x \in Seq(K) /\ Len(x) = 1 /\ x[1] = c
  OBVIOUS
<1> HIDE DEF x
<1>2. z \in Seq(K) /\ Len(z) = 1 + Len(y) /\ z[1] = c
  <2>1. /\ x \o y \in Seq(K) /\ Len(x \o y) = Len(x) + Len(y)
        /\ \A i \in 1..Len(x) : (x \o y)[i] = x[i]
    BY ONLY <1>1, y \in Seq(K), Joined
  <2> QED BY ONLY <1>1, <2>1
<1>3. SubSeq(z, 2, Len(z)) = y
  <2>1. SubSeq(x \o y, Len(x) + 1, Len(x \o y)) = y /\ Len(x) + 1 = 2
    <3>1. SubSeq(x \o y, Len(x) + 1, Len(x \o y)) = y
      BY ONLY <1>1, y \in Seq(K), Parted
    <3>2. Len(x) + 1 = 2
      BY ONLY <1>1
    <3> QED BY ONLY <3>1, <3>2
  <2> QED BY ONLY <2>1, Zenon
<1>4. Drop(z, 1) = y
  <2>1. 1 + 1 = 2
    OBVIOUS
  <2> QED BY ONLY <1>3, <2>1, Zenon DEF Drop
<1> HIDE DEF z
<1>5. z # <<>> /\ Tail(z) = SubSeq(z, 2, Len(z))
  BY <1>2
<1> QED BY ONLY <1>2, <1>3, <1>4, <1>5, Zenon DEF z, x


\* Behind names of types, and behind values.
Comma == ","
Stops == {",", "]"}

\* What the parser does with the end of a string that holds no code.
LEMMA RoundTextOnly ==
    ASSUME NEW s \in Seq(Tokens \ {"["}), s # <<>>, NEW done
    PROVE  Round([raw |-> s, read |-> done, open |-> <<>>])
             = [raw |-> <<>>, read |-> Append(done, Text(UnescapeText(s))), open |-> <<>>]
<1> DEFINE x == [raw |-> s, read |-> done, open |-> <<>>]
           starts == {i \in 1..Len(x.raw) : IsCode(x.raw, i)}
<1>1. x.raw = s /\ x.read = done /\ x.open = <<>> /\ Len(s) \in Nat /\ Len(s) # 0
  OBVIOUS
<1>2. starts = {}
  <2> SUFFICES ASSUME NEW i \in 1..Len(s), IsCode(s, i) PROVE FALSE
    OBVIOUS
  <2>1. s[i] = "["
    BY DEF IsCode
  <2> QED BY <2>1
<1>3. SubSeq(s, 1, Len(s)) = s
  OBVIOUS
<1> HIDE DEF x
<1>4. Header(x) = Return(Append(done, Text(UnescapeText(s))))
  BY ONLY <1>1, <1>2, <1>3, Zenon DEF Header
<1>5. Round(x) = Header(x)
  BY ONLY <1>1, s # <<>>, Zenon DEF Round
<1> QED BY ONLY <1>4, <1>5, Zenon DEF Return, x

\* And with a code, behind a text or none.
LEMMA RoundHeader ==
    ASSUME NEW s \in Seq(Tokens \ {"["}), NEW done,
           NEW type \in Seq(Tokens \ Stops),
           NEW rest \in Seq(Tokens), rest # <<>>, rest[1] \in Stops
    PROVE  Round([raw |-> s \o (<<"[", "CQ:">> \o (type \o rest)), read |-> done, open |-> <<>>])
             = [raw |-> rest, open |-> <<type, <<>>>>,
                read |-> IF s = <<>> THEN done ELSE Append(done, Text(UnescapeText(s)))]
<1> DEFINE front == <<"[", "CQ:">>
           body == type \o rest
           code == front \o body
           all == s \o code
           x == [raw |-> all, read |-> done, open |-> <<>>]
           starts == {i \in 1..Len(x.raw) : IsCode(x.raw, i)}
<1>1. s \in Seq(Tokens) /\ type \in Seq(Tokens) /\ Len(s) \in Nat
      /\ \A i \in 1..Len(s) : s[i] # "["
  OBVIOUS
<1>2. front \in Seq(Tokens) /\ Len(front) = 2 /\ front[1] = "[" /\ front[2] = "CQ:"
  <2>1. "[" \in Tokens /\ "CQ:" \in Tokens
    BY TokensThere, Zenon
  <2> QED BY ONLY <2>1
<1> HIDE DEF front
<1>3. body \in Seq(Tokens) /\ Len(body) >= 1 /\ Len(body) \in Nat /\ Len(type) # Len(body)
  <2>1. body \in Seq(Tokens) /\ Len(body) = Len(type) + Len(rest) /\ Len(type) \in Nat /\ Len(rest) \in Nat
    BY <1>1, Joined
  <2>2. Len(rest) # 0
    OBVIOUS
  <2> QED BY ONLY <2>1, <2>2
<1>4. Upto(body, Stops) = Len(type) /\ Drop(body, Len(type)) = rest
      /\ SubSeq(body, 1, Len(type)) = type
  <2>1. Upto(body, Stops) = Len(type)
    BY UptoJoined
  <2>2. Drop(body, Len(type)) = rest /\ SubSeq(body, 1, Len(type)) = type
    BY ONLY <1>1, rest \in Seq(Tokens), DropJoined
  <2> QED BY <2>1, <2>2
<1> HIDE DEF body
<1>5. code \in Seq(Tokens) /\ Len(code) = 2 + Len(body) /\ code[1] = "[" /\ code[2] = "CQ:"
  <2>1. /\ code \in Seq(Tokens) /\ Len(code) = Len(front) + Len(body)
        /\ \A i \in 1..Len(front) : code[i] = front[i]
    BY ONLY <1>2, <1>3, Joined
  <2>2. 1 \in 1..Len(front) /\ 2 \in 1..Len(front)
    BY ONLY <1>2
  <2> QED BY ONLY <1>2, <2>1, <2>2
<1>6. /\ all \in Seq(Tokens) /\ Len(all) = Len(s) + Len(code)
      /\ \A i \in 1..Len(s) : all[i] = s[i]
      /\ \A i \in 1..Len(code) : all[Len(s) + i] = code[i]
  <2> HIDE DEF code
  <2>1. s \in Seq(Tokens) /\ code \in Seq(Tokens)
    BY ONLY <1>1, <1>5
  <2> QED BY ONLY <2>1, Joined
<1>7. Drop(all, Len(s) + 2) = body
  <2>1. SubSeq(all, Len(s) + 1, Len(all)) = code
    <3> HIDE DEF code
    <3> QED BY ONLY <1>1, <1>5, Parted
  <2>2. SubSeq(code, 3, Len(code)) = body
    <3>1. SubSeq(code, Len(front) + 1, Len(code)) = body
      BY ONLY <1>2, <1>3, Parted
    <3>2. Len(front) + 1 = 3
      BY ONLY <1>2
    <3> QED BY ONLY <3>1, <3>2
  <2> HIDE DEF all, code
  <2>3. SubSeq(all, (Len(s) + 2) + 1, Len(all)) = SubSeq(SubSeq(all, Len(s) + 1, Len(all)), 3, Len(code))
    BY ONLY <1>1, <1>3, <1>5, <1>6
  <2> QED BY ONLY <2>1, <2>2, <2>3, Zenon DEF Drop
<1>8. SubSeq(all, 1, Len(s)) = s
  <2> HIDE DEF code
  <2> QED BY ONLY <1>1, <1>5, Parted
<1> HIDE DEF all, code
<1>9. all # <<>>
  BY <1>1, <1>3, <1>5, <1>6
<1>10. Min({i \in 1..Len(all) : IsCode(all, i)}) = Len(s) + 1
       /\ {i \in 1..Len(all) : IsCode(all, i)} # {}
  <2> DEFINE I == {i \in 1..Len(all) : IsCode(all, i)}
             n == Len(s) + 1
  <2>1. 1 \in 1..Len(code) /\ 2 \in 1..Len(code) /\ (Len(s) + 1) + 1 = Len(s) + 2
    BY <1>1, <1>3, <1>5
  <2>2. all[n] = "[" /\ all[n + 1] = "CQ:"
    BY ONLY <1>5, <1>6, <2>1, Zenon
  <2>3. n + 2 <= Len(all) /\ n \in 1..Len(all)
    BY ONLY <1>1, <1>3, <1>5, <1>6
  <2>4. n \in I
    BY <2>2, <2>3 DEF IsCode
  <2>5. ASSUME NEW m \in I PROVE n <= m
    <3>1. m \in 1..Len(all) /\ all[m] = "["
      BY DEF IsCode
    <3> HIDE DEF I
    <3>2. m \notin 1..Len(s)
      BY <1>1, <1>6, <3>1
    <3> QED BY <1>1, <1>6, <3>1, <3>2
  <2>6. I \in SUBSET Nat
    OBVIOUS
  <2> HIDE DEF I, n
  <2>7. Min(I) = n
    BY ONLY <2>4, <2>5, <2>6, LeastIs
  <2> QED BY ONLY <2>4, <2>7 DEF I, n
<1>11. x.raw = all /\ x.read = done /\ x.open = <<>> /\ (Len(s) + 1) - 1 = Len(s)
       /\ (Len(s) = 0 <=> s = <<>>)
  OBVIOUS
<1> HIDE DEF x
<1>12. Header(x) = [raw |-> Drop(body, Len(type)),
                      read |-> IF Len(s) = 0 THEN done
                               ELSE Append(done, Text(UnescapeText(SubSeq(all, 1, Len(s))))),
                      open |-> <<SubSeq(body, 1, Len(type)), <<>>>>]
  BY ONLY <1>3, <1>4, <1>7, <1>10, <1>11, Zenon DEF Header, Stops
<1>13. Round(x) = Header(x)
  BY ONLY <1>9, <1>11, Zenon DEF Round
<1> QED BY ONLY <1>4, <1>8, <1>11, <1>12, <1>13 DEF x, all, code, body, front

LEMMA RoundClose ==
    ASSUME NEW type, NEW pairs, NEW done, NEW rest \in Seq(Tokens)
    PROVE  Round([raw |-> <<"]">> \o rest, read |-> done, open |-> <<type, pairs>>])
             = [raw |-> rest, read |-> Append(done, <<type, pairs>>), open |-> <<>>]
<1> DEFINE all == <<"]">> \o rest
           x == [raw |-> all, read |-> done, open |-> <<type, pairs>>]
<1>1. "]" \in Tokens
  BY TokensThere
<1>2. Tail(all) = rest /\ all[1] = "]" /\ all # <<>>
  BY ONLY <1>1, rest \in Seq(Tokens), TailJoined
<1> HIDE DEF all
<1>3. x.raw = all /\ x.read = done /\ x.open = <<type, pairs>> /\ <<type, pairs>> # <<>>
  OBVIOUS
<1> HIDE DEF x
<1>4. Round(x) = Close(x)
  BY ONLY <1>2, <1>3, Zenon DEF Round
<1>5. Close(x) = [raw |-> rest, read |-> Append(done, <<type, pairs>>), open |-> <<>>]
  BY ONLY <1>2, <1>3, Zenon DEF Close
<1> QED BY ONLY <1>4, <1>5, Zenon DEF x, all

PairRead(type, pairs, done, key, value, rest) ==
    Round([raw |-> <<Comma>> \o (key \o (<<"=">> \o (value \o rest))),
             read |-> done, open |-> <<type, pairs>>])
      = [raw |-> rest, read |-> done,
         open |-> <<type, Append(pairs, <<key, UnescapeValue(value)>>)>>]

LEMMA RoundPair ==
    ASSUME NEW type, NEW pairs, NEW done,
           NEW key \in Seq(Tokens \ {"="}), NEW value \in Seq(Tokens \ Stops),
           NEW rest \in Seq(Tokens), rest # <<>>, rest[1] \in Stops
    PROVE  PairRead(type, pairs, done, key, value, rest)
<1> DEFINE u == value \o rest
           v == <<"=">> \o u
           t == key \o v
           all == <<Comma>> \o t
           x == [raw |-> all, read |-> done, open |-> <<type, pairs>>]
<1>1. key \in Seq(Tokens) /\ value \in Seq(Tokens) /\ "=" \in Tokens /\ Comma \in Tokens
  <2>1. "=" \in Tokens /\ Comma \in Tokens
    BY TokensThere, Zenon DEF Comma
  <2> QED BY <2>1
<1>2. u \in Seq(Tokens) /\ Len(value) # Len(u)
  <2>1. u \in Seq(Tokens) /\ Len(u) = Len(value) + Len(rest) /\ Len(value) \in Nat /\ Len(rest) \in Nat
    BY <1>1, Joined
  <2>2. Len(rest) # 0
    OBVIOUS
  <2> QED BY ONLY <2>1, <2>2
<1>3. Upto(u, Stops) = Len(value) /\ Drop(u, Len(value)) = rest
      /\ SubSeq(u, 1, Len(value)) = value
  <2>1. Upto(u, Stops) = Len(value)
    BY UptoJoined
  <2>2. Drop(u, Len(value)) = rest /\ SubSeq(u, 1, Len(value)) = value
    BY ONLY <1>1, rest \in Seq(Tokens), DropJoined
  <2> QED BY <2>1, <2>2
<1> HIDE DEF u
<1>4. v \in Seq(Tokens) /\ v # <<>> /\ v[1] = "=" /\ Drop(v, 1) = u
  BY ONLY <1>1, <1>2, TailJoined
<1> HIDE DEF v
<1>5. Upto(t, {"="}) = Len(key) /\ SubSeq(t, 1, Len(key)) = key /\ Drop(t, Len(key)) = v
  <2>1. v[1] \in {"="}
    BY <1>4
  <2>2. Upto(t, {"="}) = Len(key)
    BY ONLY <1>4, <2>1, key \in Seq(Tokens \ {"="}), UptoJoined
  <2>3. Drop(t, Len(key)) = v /\ SubSeq(t, 1, Len(key)) = key
    BY ONLY <1>1, <1>4, DropJoined
  <2> QED BY <2>2, <2>3
<1>6. t \in Seq(Tokens) /\ Len(t) = Len(key) + Len(v) /\ Len(key) \in Nat /\ Len(v) \in Nat /\ Len(v) # 0
  BY <1>1, <1>4
<1> HIDE DEF t
<1>7. Tail(all) = t /\ all[1] = Comma /\ all # <<>>
  BY ONLY <1>1, <1>6, TailJoined
<1>8. Drop(t, Len(key) + 1) = u
  <2>1. SubSeq(t, (Len(key) + 1) + 1, Len(t)) = SubSeq(SubSeq(t, Len(key) + 1, Len(t)), 1 + 1, Len(v))
    BY ONLY <1>6
  <2> QED BY ONLY <1>4, <1>5, <2>1, Zenon DEF Drop
<1> HIDE DEF all
<1>9. x.raw = all /\ x.read = done /\ x.open = <<type, pairs>> /\ <<type, pairs>> # <<>>
      /\ Comma # "]" /\ Len(key) # Len(t)
  <2>1. Comma # "]"
    BY Zenon DEF Comma
  <2> QED BY <1>6, <2>1
<1>10. Round(x) = KeyAndValue(x)
  BY ONLY <1>7, <1>9, Zenon DEF Round
<1>11. KeyAndValue(x)
         = [raw |-> Drop(u, Len(value)), read |-> x.read,
            open |-> <<x.open[1], Append(x.open[2], <<SubSeq(t, 1, Len(key)),
                                                      UnescapeValue(SubSeq(u, 1, Len(value)))>>)>>]
  <2> HIDE DEF x
  <2> QED BY ONLY <1>2, <1>3, <1>5, <1>7, <1>8, <1>9, Zenon DEF KeyAndValue, Stops
<1>12. Round(x) = [raw |-> rest, read |-> done,
                     open |-> <<type, Append(pairs, <<key, UnescapeValue(value)>>)>>]
  <2> DEFINE p == <<type, pairs>>
  <2>1. p[1] = type /\ p[2] = pairs
    OBVIOUS
  <2>2. x.open = p
    OBVIOUS
  <2> HIDE DEF p, x
  <2>3. x.open[1] = type /\ x.open[2] = pairs
    BY ONLY <2>1, <2>2, Zenon
  <2> QED BY ONLY <1>3, <1>5, <1>9, <1>10, <1>11, <2>3, Zenon
<1> QED BY ONLY <1>12, Zenon DEF x, all, t, v, u, PairRead


-----------------------------------------------------------------------------
(* Segments: what is printed, and what is seen.                            *)

Pairs == Seq(Tokens \ {"="}) \X Seq(Tokens)
Sayable == Seq(Tokens \ Stops) \X Seq(Pairs)
Printables == {e \in Sayable : e[1] = <<"text">> => e[2] # <<>>}

PairPrinted == [p \in Pairs |-> <<Comma>> \o (p[1] \o (<<"=">> \o EscapeBy(p[2], Special)))]
Printed(C) == [e \in Printables |-> IF e[1] = <<"text">> THEN EscapeBy(e[2][1][2], C) ELSE CQCode(e)]

LEMMA PairTyped ==
    ASSUME NEW p \in Pairs
    PROVE  p[1] \in Seq(Tokens \ {"="}) /\ p[1] \in Seq(Tokens) /\ p[2] \in Seq(Tokens)
<1>1. p[1] \in Seq(Tokens \ {"="}) /\ p[2] \in Seq(Tokens)
  BY DEF Pairs
<1>2. Seq(Tokens \ {"="}) \subseteq Seq(Tokens)
  OBVIOUS
<1> QED BY <1>1, <1>2

LEMMA ElementTyped ==
    ASSUME NEW e \in Sayable
    PROVE  e[1] \in Seq(Tokens \ Stops) /\ e[1] \in Seq(Tokens) /\ e[2] \in Seq(Pairs) /\ e = <<e[1], e[2]>>
<1>1. e[1] \in Seq(Tokens \ Stops) /\ e[2] \in Seq(Pairs) /\ e = <<e[1], e[2]>>
  BY DEF Sayable
<1>2. Seq(Tokens \ Stops) \subseteq Seq(Tokens)
  OBVIOUS
<1> QED BY <1>1, <1>2

LEMMA ElementMade ==
    ASSUME NEW type \in Seq(Tokens \ Stops), NEW pairs \in Seq(Pairs)
    PROVE  /\ <<type, pairs>> \in Sayable
           /\ <<type, pairs>>[1] = type /\ <<type, pairs>>[2] = pairs
BY DEF Sayable

LEMMA ValueUnstopped ==
    ASSUME NEW v \in Seq(Tokens)
    PROVE  /\ EscapeBy(v, Special) \in Seq(Tokens \ Stops)
           /\ EscapeBy(v, Special) \in Seq(Tokens)
<1>1. Special \in SUBSET Special /\ Stops \subseteq Special \ {"&"}
  <2>1. \A c : c \in Stops => c \in Special \ {"&"}
    BY Zenon DEF Stops, Special
  <2> QED BY <2>1
<1>2. /\ EscapeBy(v, Special) \in Seq(Tokens)
      /\ EscapeBy(v, Special) \in Seq(Tokens \ (Special \ {"&"}))
  BY <1>1, EscapeTyped
<1>3. Tokens \ (Special \ {"&"}) \subseteq Tokens \ Stops
  BY <1>1
<1>4. Seq(Tokens \ (Special \ {"&"})) \subseteq Seq(Tokens \ Stops)
  BY <1>3
<1> QED BY <1>2, <1>4

LEMMA MarksTyped ==
    /\ <<Comma>> \in Seq(Tokens) /\ <<"=">> \in Seq(Tokens) /\ <<"]">> \in Seq(Tokens)
    /\ <<"[", "CQ:">> \in Seq(Tokens)
<1>1. Comma \in Tokens /\ "=" \in Tokens /\ "]" \in Tokens /\ "[" \in Tokens /\ "CQ:" \in Tokens
  BY TokensThere, Zenon DEF Comma
<1>2. \A c \in Tokens : <<c>> \in Seq(Tokens)
  OBVIOUS
<1>3. \A c, d \in Tokens : <<c, d>> \in Seq(Tokens)
  OBVIOUS
<1> QED BY ONLY <1>1, <1>2, <1>3, Zenon

LEMMA PairPrintedTyped == PairPrinted \in [Pairs -> Seq(Tokens)]
<1>1. ASSUME NEW p \in Pairs
      PROVE  <<Comma>> \o (p[1] \o (<<"=">> \o EscapeBy(p[2], Special))) \in Seq(Tokens)
  <2>1. EscapeBy(p[2], Special) \in Seq(Tokens) /\ p[1] \in Seq(Tokens)
    BY PairTyped, ValueUnstopped
  <2>2. \A a, b \in Seq(Tokens) : a \o b \in Seq(Tokens)
    OBVIOUS
  <2> QED BY ONLY <2>1, <2>2, MarksTyped, Zenon
<1> QED BY ONLY <1>1 DEF PairPrinted

Four(a, b, c, d) ==
    ((a \o b) \o c) \o d = a \o (b \o (c \o d)) /\ a \o (b \o (c \o d)) \in Seq(Tokens)

LEMMA FourJoined ==
    ASSUME NEW a \in Seq(Tokens), NEW b \in Seq(Tokens), NEW c \in Seq(Tokens), NEW d \in Seq(Tokens)
    PROVE  Four(a, b, c, d)
<1>1. a \o b \in Seq(Tokens) /\ c \o d \in Seq(Tokens) /\ b \o (c \o d) \in Seq(Tokens)
  OBVIOUS
<1>2. ((a \o b) \o c) \o d = (a \o b) \o (c \o d)
  <2> DEFINE ab == a \o b
  <2>1. ab \in Seq(Tokens)
    BY <1>1
  <2> HIDE DEF ab
  <2>2. (ab \o c) \o d = ab \o (c \o d)
    BY <2>1, JoinedTwice
  <2> QED BY <2>2 DEF ab
<1>3. (a \o b) \o (c \o d) = a \o (b \o (c \o d)) /\ a \o (b \o (c \o d)) \in Seq(Tokens)
  <2> DEFINE cd == c \o d
  <2>1. cd \in Seq(Tokens)
    BY <1>1
  <2> HIDE DEF cd
  <2>2. (a \o b) \o cd = a \o (b \o cd) /\ a \o (b \o cd) \in Seq(Tokens)
    BY <2>1, JoinedTwice
  <2> QED BY <2>2 DEF cd
<1> QED BY ONLY <1>2, <1>3, Zenon DEF Four

\* A code, piece by piece.
LEMMA CodePrinted ==
    ASSUME NEW e \in Sayable, e[1] # <<"text">>
    PROVE  /\ CQCode(e) = <<"[", "CQ:">> \o (e[1] \o (Each(PairPrinted, e[2]) \o <<"]">>))
           /\ CQCode(e) \in Seq(Tokens)
<1> DEFINE pairs == e[2]
           list == [i \in 1..Len(pairs) |-> <<",">> \o pairs[i][1] \o <<"=">> \o EscapeValue(pairs[i][2])]
<1>1. e[1] \in Seq(Tokens) /\ pairs \in Seq(Pairs)
  BY ElementTyped
<1>2. ASSUME NEW i \in 1..Len(pairs)
      PROVE  <<Comma>> \o pairs[i][1] \o <<"=">> \o EscapeValue(pairs[i][2]) = PairPrinted[pairs[i]]
  <2>1. pairs[i] \in Pairs
    BY <1>1
  <2> DEFINE p == pairs[i]
  <2> HIDE DEF p
  <2>2. p[1] \in Seq(Tokens) /\ p[2] \in Seq(Tokens)
    BY <2>1, PairTyped DEF p
  <2>3. EscapeBy(p[2], Special) \in Seq(Tokens) /\ EscapeValue(p[2]) = EscapeBy(p[2], Special)
    BY <2>2, ValueUnstopped, ValueEscaped
  <2>4. PairPrinted[p] = <<Comma>> \o (p[1] \o (<<"=">> \o EscapeBy(p[2], Special)))
    BY <2>1 DEF PairPrinted, p
  <2>6. ((<<Comma>> \o p[1]) \o <<"=">>) \o EscapeBy(p[2], Special)
          = <<Comma>> \o (p[1] \o (<<"=">> \o EscapeBy(p[2], Special)))
    <3>1. /\ p[1] \in Seq(Tokens) /\ EscapeBy(p[2], Special) \in Seq(Tokens)
          /\ <<Comma>> \in Seq(Tokens) /\ <<"=">> \in Seq(Tokens)
      BY ONLY <2>2, <2>3, MarksTyped, Zenon
    <3>2. Four(<<Comma>>, p[1], <<"=">>, EscapeBy(p[2], Special))
      BY ONLY <3>1, FourJoined, Zenon
    <3> QED BY ONLY <3>2, Zenon DEF Four
  <2> QED BY ONLY <2>3, <2>4, <2>6, Zenon DEF p
<1>3. list = [i \in 1..Len(pairs) |-> PairPrinted[pairs[i]]]
  <2>1. \A i \in 1..Len(pairs) :
           <<",">> \o pairs[i][1] \o <<"=">> \o EscapeValue(pairs[i][2]) = PairPrinted[pairs[i]]
    BY ONLY <1>2, Zenon DEF Comma
  <2> QED BY ONLY <2>1, Zenon
<1>4. FlattenSeq(list) = Each(PairPrinted, pairs)
  <2> HIDE DEF list
  <2> QED BY ONLY <1>3, Zenon DEF Each
<1>5. CQCode(e) = <<"[", "CQ:">> \o e[1] \o FlattenSeq(list) \o <<"]">>
  BY ONLY e[1] # <<"text">>, Zenon DEF CQCode
<1> DEFINE mid == Each(PairPrinted, pairs)
<1>6. mid \in Seq(Tokens)
  BY <1>1, PairPrintedTyped, EachTyped
<1> HIDE DEF mid, list
<1>8. /\ ((<<"[", "CQ:">> \o e[1]) \o mid) \o <<"]">> = <<"[", "CQ:">> \o (e[1] \o (mid \o <<"]">>))
      /\ <<"[", "CQ:">> \o (e[1] \o (mid \o <<"]">>)) \in Seq(Tokens)
  <2>1. Four(<<"[", "CQ:">>, e[1], mid, <<"]">>)
    BY ONLY <1>1, <1>6, FourJoined, MarksTyped, Zenon
  <2> QED BY ONLY <2>1, Zenon DEF Four
<1> QED BY ONLY <1>4, <1>5, <1>8, Zenon DEF mid

LEMMA TextValue ==
    ASSUME NEW e \in Printables, e[1] = <<"text">>
    PROVE  e[2][1][2] \in Seq(Tokens)
<1>1. e \in Sayable /\ e[2] # <<>>
  BY DEF Printables
<1>2. e[2] \in Seq(Pairs)
  BY <1>1, ElementTyped
<1>3. e[2][1] \in Pairs
  BY <1>1, <1>2
<1> QED BY <1>3, PairTyped

LEMMA PrintedTyped ==
    ASSUME NEW C \in SUBSET Special
    PROVE  Printed(C) \in [Printables -> Seq(Tokens)]
<1>1. ASSUME NEW e \in Printables
      PROVE  (IF e[1] = <<"text">> THEN EscapeBy(e[2][1][2], C) ELSE CQCode(e)) \in Seq(Tokens)
  <2>1. CASE e[1] = <<"text">>
    <3>1. EscapeBy(e[2][1][2], C) \in Seq(Tokens)
      BY <2>1, TextValue, EscapeTyped
    <3> QED BY <2>1, <3>1
  <2>2. CASE e[1] # <<"text">>
    <3>1. e \in Sayable
      BY DEF Printables
    <3>2. CQCode(e) \in Seq(Tokens)
      BY <2>2, <3>1, CodePrinted
    <3> QED BY <2>2, <3>2
  <2> QED BY <2>1, <2>2
<1> QED BY ONLY <1>1 DEF Printed

Seeable == Seq(Tokens) \X SUBSET (Tokens \cup Pairs)
TextItem == [c \in Tokens |-> <<<<<<"text">>, {c}>>>>]
Sight == [e \in Printables |->
             IF e[1] = <<"text">> THEN Each(TextItem, e[2][1][2])
             ELSE <<<<e[1], {e[2][j] : j \in 1..Len(e[2])}>>>>]

LEMMA TextItemTyped == TextItem \in [Tokens -> Seq(Seeable)]
<1>1. <<"text">> \in Seq(Tokens)
  <2>1. "text" \in Tokens
    BY TokensThere, Zenon
  <2> QED BY ONLY <2>1
<1>2. ASSUME NEW c \in Tokens PROVE <<<<<<"text">>, {c}>>>> \in Seq(Seeable)
  <2>1. {c} \in SUBSET (Tokens \cup Pairs)
    OBVIOUS
  <2>2. <<<<"text">>, {c}>> \in Seeable
    BY <1>1, <2>1, Zenon DEF Seeable
  <2>3. \A a \in Seeable : <<a>> \in Seq(Seeable)
    OBVIOUS
  <2> QED BY ONLY <2>2, <2>3, Zenon
<1> QED BY ONLY <1>2 DEF TextItem

LEMMA SightTyped == Sight \in [Printables -> Seq(Seeable)]
<1>1. ASSUME NEW e \in Printables
      PROVE  (IF e[1] = <<"text">> THEN Each(TextItem, e[2][1][2])
              ELSE <<<<e[1], {e[2][j] : j \in 1..Len(e[2])}>>>>) \in Seq(Seeable)
  <2>1. CASE e[1] = <<"text">>
    <3>1. Each(TextItem, e[2][1][2]) \in Seq(Seeable)
      BY <2>1, TextValue, TextItemTyped, EachTyped
    <3> QED BY <2>1, <3>1
  <2>2. CASE e[1] # <<"text">>
    <3>1. e[1] \in Seq(Tokens) /\ e[2] \in Seq(Pairs)
      BY ElementTyped DEF Printables
    <3>2. {e[2][j] : j \in 1..Len(e[2])} \in SUBSET (Tokens \cup Pairs)
      BY <3>1
    <3>3. <<e[1], {e[2][j] : j \in 1..Len(e[2])}>> \in Seeable
      BY ONLY <3>1, <3>2, Zenon DEF Seeable
    <3>4. \A a \in Seeable : <<a>> \in Seq(Seeable)
      OBVIOUS
    <3>5. <<<<e[1], {e[2][j] : j \in 1..Len(e[2])}>>>> \in Seq(Seeable)
      BY ONLY <3>3, <3>4, Zenon
    <3> QED BY ONLY <2>2, <3>5, Zenon
  <2> QED BY <2>1, <2>2
<1> QED BY ONLY <1>1 DEF Sight

LEMMA SeenIs ==
    ASSUME NEW es \in Seq(Printables)
    PROVE  Seen(es) = Each(Sight, es)
<1> DEFINE list == [i \in 1..Len(es) |->
               IF es[i][1] = <<"text">>
               THEN [j \in 1..Len(es[i][2][1][2]) |-> <<es[i][1], {es[i][2][1][2][j]}>>]
               ELSE <<<<es[i][1], {es[i][2][j] : j \in 1..Len(es[i][2])}>>>>]
<1>1. ASSUME NEW i \in 1..Len(es), es[i][1] = <<"text">>
      PROVE  [j \in 1..Len(es[i][2][1][2]) |-> <<es[i][1], {es[i][2][1][2][j]}>>]
               = Each(TextItem, es[i][2][1][2])
  <2> DEFINE t == es[i][2][1][2]
             its == [j \in 1..Len(t) |-> <<<<"text">>, {t[j]}>>]
  <2>1. t \in Seq(Tokens)
    BY <1>1, TextValue
  <2> HIDE DEF t
  <2>2. FlattenSeq([j \in 1..Len(t) |-> <<its[j]>>]) = [j \in 1..Len(t) |-> its[j]]
    <3>1. Len(t) \in Nat
      BY <2>1
    <3> HIDE DEF its
    <3> QED BY ONLY <3>1, FlattenedSingles, Zenon
  <2>3. [j \in 1..Len(t) |-> <<its[j]>>] = [j \in 1..Len(t) |-> TextItem[t[j]]]
    <3>1. \A j \in 1..Len(t) : <<its[j]>> = TextItem[t[j]]
      BY ONLY <2>1 DEF TextItem
    <3> HIDE DEF its
    <3> QED BY ONLY <3>1, Zenon
  <2>4. [j \in 1..Len(t) |-> its[j]] = its
    OBVIOUS
  <2>5. its = Each(TextItem, t)
    <3> HIDE DEF its
    <3> QED BY ONLY <2>2, <2>3, <2>4, Zenon DEF Each
  <2> QED BY ONLY <1>1, <2>5, Zenon DEF t
<1>2. \A i \in 1..Len(es) : list[i] = Sight[es[i]]
  <2> SUFFICES ASSUME NEW i \in 1..Len(es) PROVE list[i] = Sight[es[i]]
    BY Zenon
  <2>1. es[i] \in Printables
    OBVIOUS
  <2>2. Sight[es[i]] = IF es[i][1] = <<"text">> THEN Each(TextItem, es[i][2][1][2])
                       ELSE <<<<es[i][1], {es[i][2][j] : j \in 1..Len(es[i][2])}>>>>
    BY ONLY <2>1, Zenon DEF Sight
  <2>3. list[i] = IF es[i][1] = <<"text">>
                  THEN [j \in 1..Len(es[i][2][1][2]) |-> <<es[i][1], {es[i][2][1][2][j]}>>]
                  ELSE <<<<es[i][1], {es[i][2][j] : j \in 1..Len(es[i][2])}>>>>
    BY ONLY i \in 1..Len(es), Zenon
  <2> QED BY ONLY <1>1, <2>2, <2>3, i \in 1..Len(es), Zenon
<1>3. list = [i \in 1..Len(es) |-> Sight[es[i]]]
  BY ONLY <1>2, Zenon
<1>4. Seen(es) = FlattenSeq(list)
  BY Zenon DEF Seen
<1> HIDE DEF list
<1> QED BY ONLY <1>3, <1>4, Zenon DEF Each


Three(a, b, c) == (a \o b) \o c = a \o (b \o c)

LEMMA ThreeJoined ==
    ASSUME NEW S, NEW a \in Seq(S), NEW b \in Seq(S), NEW c \in Seq(S)
    PROVE  Three(a, b, c)
<1>1. (a \o b) \o c = a \o (b \o c)
  OBVIOUS
<1> QED BY ONLY <1>1, Zenon DEF Three

LEMMA NothingJoined ==
    ASSUME NEW S, NEW a \in Seq(S)
    PROVE  <<>> \o a = a /\ a \o <<>> = a
OBVIOUS

\* The texts that a list of elements begins with, as one.
Run(es, C, t, others) ==
    /\ t \in Seq(Tokens) /\ others \in Seq(Printables)
    /\ Each(Printed(C), es) = EscapeBy(t, C) \o Each(Printed(C), others)
    /\ Each(Sight, es) = Each(TextItem, t) \o Each(Sight, others)
    /\ others = <<>> \/ others[1][1] # <<"text">>

LEMMA EscapeNone ==
    ASSUME NEW C
    PROVE  EscapeBy(<<>>, C) = <<>>
<1>1. <<>> \in Seq(Tokens)
  OBVIOUS
<1> QED BY ONLY <1>1, EscapeIsEach, EachNone, Zenon

LEMMA EscapeJoined ==
    ASSUME NEW C \in SUBSET Special, NEW u \in Seq(Tokens), NEW t \in Seq(Tokens)
    PROVE  EscapeBy(u \o t, C) = EscapeBy(u, C) \o EscapeBy(t, C)
<1>1. Blocks(C) \in [Tokens -> Seq(Tokens)]
  BY BlocksTyped
<1>2. Joins(Blocks(C), Tokens)
  BY <1>1, EachJoins
<1>3. Each(Blocks(C), u \o t) = Each(Blocks(C), u) \o Each(Blocks(C), t)
  BY ONLY <1>2, u \in Seq(Tokens), t \in Seq(Tokens), Zenon DEF Joins
<1>4. u \o t \in Seq(Tokens)
  OBVIOUS
<1> QED BY ONLY <1>3, <1>4, u \in Seq(Tokens), t \in Seq(Tokens), EscapeIsEach, Zenon

LEMMA PrintedOne ==
    ASSUME NEW C, NEW e \in Printables
    PROVE  Printed(C)[e] = IF e[1] = <<"text">> THEN EscapeBy(e[2][1][2], C) ELSE CQCode(e)
BY Zenon DEF Printed

LEMMA SightOne ==
    ASSUME NEW e \in Printables
    PROVE  Sight[e] = IF e[1] = <<"text">> THEN Each(TextItem, e[2][1][2])
                      ELSE <<<<e[1], {e[2][j] : j \in 1..Len(e[2])}>>>>
BY Zenon DEF Sight

LEMMA TextsRun ==
    ASSUME NEW C \in SUBSET Special, NEW es \in Seq(Printables)
    PROVE  \E t, others : Run(es, C, t, others)
<1> DEFINE X == {x \in Seq(Printables) : \E t, others : Run(x, C, t, others)}
<1>1. /\ Printed(C) \in [Printables -> Seq(Tokens)] /\ Sight \in [Printables -> Seq(Seeable)]
      /\ TextItem \in [Tokens -> Seq(Seeable)]
  BY PrintedTyped, SightTyped, TextItemTyped
<1>2. <<>> \in X
  <2>1. /\ Each(Printed(C), <<>>) = <<>> /\ Each(Sight, <<>>) = <<>> /\ Each(TextItem, <<>>) = <<>>
        /\ EscapeBy(<<>>, C) = <<>>
    BY ONLY EachNone, EscapeNone, Zenon
  <2>2. <<>> \o <<>> = <<>> /\ <<>> \in Seq(Tokens) /\ <<>> \in Seq(Printables)
    OBVIOUS
  <2>3. Run(<<>>, C, <<>>, <<>>)
    BY ONLY <2>1, <2>2, Zenon DEF Run
  <2> HIDE DEF Run
  <2> QED BY <2>2, <2>3
<1>3. ASSUME NEW x \in Seq(Printables), NEW e \in Printables, x \in X PROVE <<e>> \o x \in X
  <2> DEFINE y == <<e>> \o x
  <2>1. PICK t, others : Run(x, C, t, others)
    BY <1>3
  <2>2. /\ Each(Printed(C), y) = Printed(C)[e] \o Each(Printed(C), x)
        /\ Each(Sight, y) = Sight[e] \o Each(Sight, x)
    <3>1. Steps(Printed(C), Printables) /\ Steps(Sight, Printables)
      BY <1>1, EachSteps, Zenon
    <3> QED BY ONLY <3>1, x \in Seq(Printables), e \in Printables, Zenon DEF Steps
  <2>3. y \in Seq(Printables) /\ y[1] = e
    BY TailJoined
  <2> HIDE DEF y
  <2>4. CASE e[1] = <<"text">>
    <3> DEFINE u == e[2][1][2]
    <3>1. u \in Seq(Tokens)
      BY <2>4, TextValue
    <3>2. Printed(C)[e] = EscapeBy(u, C) /\ Sight[e] = Each(TextItem, u)
      BY ONLY <2>4, e \in Printables, PrintedOne, SightOne, Zenon
    <3> HIDE DEF u
    <3>3. t \in Seq(Tokens) /\ others \in Seq(Printables)
      BY ONLY <2>1, Zenon DEF Run
    <3>4. u \o t \in Seq(Tokens)
      BY <3>1, <3>3
    <3>5. EscapeBy(u \o t, C) = EscapeBy(u, C) \o EscapeBy(t, C)
      BY <3>1, <3>3, EscapeJoined
    <3>6. Each(TextItem, u \o t) = Each(TextItem, u) \o Each(TextItem, t)
      <4>1. Joins(TextItem, Tokens)
        BY <1>1, EachJoins
      <4> QED BY ONLY <3>1, <3>3, <4>1, Zenon DEF Joins
    <3>7. Three(EscapeBy(u, C), EscapeBy(t, C), Each(Printed(C), others))
      <4>1. /\ EscapeBy(u, C) \in Seq(Tokens) /\ EscapeBy(t, C) \in Seq(Tokens)
            /\ Each(Printed(C), others) \in Seq(Tokens)
        BY <1>1, <3>1, <3>3, EscapeTyped, EachTyped
      <4> QED BY ONLY <4>1, ThreeJoined, Zenon
    <3>8. Three(Each(TextItem, u), Each(TextItem, t), Each(Sight, others))
      <4>1. /\ Each(TextItem, u) \in Seq(Seeable) /\ Each(TextItem, t) \in Seq(Seeable)
            /\ Each(Sight, others) \in Seq(Seeable)
        BY <1>1, <3>1, <3>3, EachTyped
      <4> QED BY ONLY <4>1, ThreeJoined, Zenon
    <3>9. Each(Printed(C), y) = EscapeBy(u \o t, C) \o Each(Printed(C), others)
      BY ONLY <2>1, <2>2, <3>2, <3>5, <3>7, Zenon DEF Run, Three
    <3>10. Each(Sight, y) = Each(TextItem, u \o t) \o Each(Sight, others)
      BY ONLY <2>1, <2>2, <3>2, <3>6, <3>8, Zenon DEF Run, Three
    <3>11. Run(y, C, u \o t, others)
      BY ONLY <2>1, <3>3, <3>4, <3>9, <3>10, Zenon DEF Run
    <3> QED BY ONLY <2>3, <3>11, Zenon DEF y
  <2>5. CASE e[1] # <<"text">>
    <3>1. <<>> \o Each(Printed(C), y) = Each(Printed(C), y) /\ <<>> \o Each(Sight, y) = Each(Sight, y)
      <4>1. Each(Printed(C), y) \in Seq(Tokens) /\ Each(Sight, y) \in Seq(Seeable)
        BY <1>1, <2>3, EachTyped
      <4> QED BY ONLY <4>1, NothingJoined, Zenon
    <3>2. EscapeBy(<<>>, C) = <<>> /\ Each(TextItem, <<>>) = <<>>
      BY ONLY EachNone, EscapeNone, Zenon
    <3>3. <<>> \in Seq(Tokens) /\ y[1][1] # <<"text">>
      BY <2>3, <2>5
    <3>4. Run(y, C, <<>>, y)
      BY ONLY <2>3, <3>1, <3>2, <3>3, Zenon DEF Run
    <3> QED BY ONLY <2>3, <3>4, Zenon DEF y
  <2> QED BY <2>4, <2>5
<1>4. Seq(Printables) \subseteq X
  <2> HIDE DEF X
  <2> QED BY <1>2, <1>3, EverySeqFromHead
<1> QED BY ONLY <1>4, es \in Seq(Printables), Zenon

\* A text read is as good as the texts it came from, an element read as itself.
LEMMA TextMade ==
    ASSUME NEW t \in Seq(Tokens)
    PROVE  Text(t) \in Printables /\ Sight[Text(t)] = Each(TextItem, t)
<1> DEFINE type == <<"text">>
           p == <<type, t>>
           pairs == <<p>>
           e == <<type, pairs>>
<1>1. type \in Seq(Tokens \ Stops) /\ type \in Seq(Tokens \ {"="})
  <2>1. "text" \in Tokens /\ "text" \notin Stops /\ "text" \notin {"="}
    BY TokensThere, Zenon DEF Stops
  <2> QED BY ONLY <2>1
<1> HIDE DEF type
<1>2. p \in Pairs /\ p[2] = t
  BY <1>1 DEF Pairs
<1> HIDE DEF p
<1>3. pairs \in Seq(Pairs) /\ pairs # <<>> /\ pairs[1] = p
  BY <1>2
<1> HIDE DEF pairs
<1>4. e \in Sayable /\ e[1] = type /\ e[2] = pairs
  BY <1>1, <1>3, ElementMade
<1> HIDE DEF e
<1>5. e \in Printables
  BY <1>3, <1>4 DEF Printables
<1>6. e[2][1][2] = t /\ e[1] = <<"text">>
  BY ONLY <1>2, <1>3, <1>4, Zenon DEF type
<1>7. Sight[e] = Each(TextItem, t)
  BY ONLY <1>5, <1>6, SightOne, Zenon
<1> QED BY ONLY <1>5, <1>7, Zenon DEF Text, e, pairs, p, type


-----------------------------------------------------------------------------
(* Segments: the printed form of elements is read back.                    *)

CodeSets == {{"&", "["}, {"&", "[", "]"}}

\* A string being read: what was read and what is left to read make the elements.
Between(x, es, C) ==
    \E done, todo \in Seq(Printables) :
       /\ x = [raw |-> Each(Printed(C), todo), read |-> done, open |-> <<>>]
       /\ Each(Sight, done) \o Each(Sight, todo) = Each(Sight, es)

Within(x, es, C) ==
    \E done, todo \in Seq(Printables) : \E type \in Seq(Tokens \ Stops) : \E had, left \in Seq(Pairs) :
       /\ type # <<"text">>
       /\ x = [raw |-> Each(PairPrinted, left) \o (<<"]">> \o Each(Printed(C), todo)),
               read |-> done, open |-> <<type, had>>]
       /\ Each(Sight, done) \o (Sight[<<type, had \o left>>] \o Each(Sight, todo)) = Each(Sight, es)

LEMMA CodeSetsSpecial ==
    ASSUME NEW C \in CodeSets
    PROVE  C \in SUBSET Special /\ "[" \in C /\ C \in {{"&", "["}, {"&", "[", "]"}}
BY DEF CodeSets, Special

LEMMA SeqSplit ==
    ASSUME NEW S, NEW s \in Seq(S), s # <<>>
    PROVE  \E c \in S : \E t \in Seq(S) : s = <<c>> \o t /\ c = s[1]
<1> DEFINE c == s[1]
           t == SubSeq(s, 2, Len(s))
<1>1. c \in S /\ t \in Seq(S) /\ s = <<c>> \o t
  OBVIOUS
<1> QED BY ONLY <1>1, Zenon

Five(a, b, c, d, e) == (a \o (b \o (c \o d))) \o e = a \o (b \o (c \o (d \o e)))

LEMMA FiveJoined ==
    ASSUME NEW S, NEW a \in Seq(S), NEW b \in Seq(S), NEW c \in Seq(S), NEW d \in Seq(S), NEW e \in Seq(S)
    PROVE  Five(a, b, c, d, e)
<1>1. c \o d \in Seq(S)
  OBVIOUS
<1>2. b \o (c \o d) \in Seq(S)
  <2> DEFINE cd == c \o d
  <2>1. cd \in Seq(S)
    BY <1>1
  <2> HIDE DEF cd
  <2>2. b \o cd \in Seq(S)
    BY <2>1
  <2> QED BY <2>2 DEF cd
<1>3. Three(a, b \o (c \o d), e) /\ Three(b, c \o d, e) /\ Three(c, d, e)
  BY ONLY <1>1, <1>2, a \in Seq(S), b \in Seq(S), c \in Seq(S), d \in Seq(S), e \in Seq(S), ThreeJoined, Zenon
<1> QED BY ONLY <1>3, Zenon DEF Three, Five

\* The rest of a code begins with a pair or with its end.
LEMMA RestOfCode ==
    ASSUME NEW left \in Seq(Pairs), NEW z \in Seq(Tokens)
    PROVE  /\ Each(PairPrinted, left) \o (<<"]">> \o z) \in Seq(Tokens)
           /\ Each(PairPrinted, left) \o (<<"]">> \o z) # <<>>
           /\ (Each(PairPrinted, left) \o (<<"]">> \o z))[1] \in Stops
           /\ left = <<>> => Each(PairPrinted, left) \o (<<"]">> \o z) = <<"]">> \o z
           /\ \A p \in Pairs : \A more \in Seq(Pairs) :
                 left = <<p>> \o more =>
                    Each(PairPrinted, left) \o (<<"]">> \o z)
                      = <<Comma>> \o (p[1] \o (<<"=">> \o (EscapeBy(p[2], Special)
                            \o (Each(PairPrinted, more) \o (<<"]">> \o z)))))
<1> DEFINE y == <<"]">> \o z
           all == Each(PairPrinted, left) \o y
<1>1. y \in Seq(Tokens) /\ y # <<>> /\ y[1] = "]"
  <2>1. "]" \in Tokens
    BY TokensThere, Zenon
  <2> QED BY <2>1, TailJoined
<1>2. "]" \in Stops /\ Comma \in Stops
  BY Zenon DEF Stops, Comma
<1> HIDE DEF y
<1>3. Each(PairPrinted, left) \in Seq(Tokens)
  BY PairPrintedTyped, EachTyped
<1>4. all \in Seq(Tokens)
  BY <1>1, <1>3, Joined
<1>5. Steps(PairPrinted, Pairs)
  BY PairPrintedTyped, EachSteps
<1>6. ASSUME NEW p \in Pairs, NEW more \in Seq(Pairs), left = <<p>> \o more
      PROVE  all = <<Comma>> \o (p[1] \o (<<"=">> \o (EscapeBy(p[2], Special)
                       \o (Each(PairPrinted, more) \o y))))
  <2> DEFINE v == EscapeBy(p[2], Special)
             m == Each(PairPrinted, more)
  <2>1. Each(PairPrinted, left) = PairPrinted[p] \o m
    BY ONLY <1>5, <1>6, p \in Pairs, more \in Seq(Pairs), Zenon DEF Steps
  <2>2. PairPrinted[p] = <<Comma>> \o (p[1] \o (<<"=">> \o v))
    BY ONLY p \in Pairs, Zenon DEF PairPrinted
  <2>3. v \in Seq(Tokens) /\ m \in Seq(Tokens) /\ p[1] \in Seq(Tokens)
    BY PairTyped, ValueUnstopped, PairPrintedTyped, EachTyped
  <2> HIDE DEF v, m
  <2>4. m \o y \in Seq(Tokens)
    BY ONLY <1>1, <2>3, Joined
  <2>5. PairPrinted[p] \in Seq(Tokens)
    BY PairPrintedTyped
  <2>6. Three(PairPrinted[p], m, y)
    BY ONLY <1>1, <2>3, <2>5, ThreeJoined, Zenon
  <2>7. Five(<<Comma>>, p[1], <<"=">>, v, m \o y)
    BY ONLY <2>3, <2>4, MarksTyped, FiveJoined, Zenon
  <2> QED BY ONLY <2>1, <2>2, <2>6, <2>7, Zenon DEF Three, Five, v, m
<1>7. CASE left = <<>>
  <2>1. Each(PairPrinted, left) = <<>> /\ <<>> \o y = y
    BY ONLY <1>1, <1>7, EachNone, NothingJoined, Zenon
  <2>2. all = y
    BY ONLY <2>1, Zenon
  <2>3. all # <<>> /\ all[1] \in Stops
    BY ONLY <1>1, <1>2, <2>2, Zenon
  <2> QED BY ONLY <1>4, <1>6, <2>2, <2>3, Zenon DEF y
<1>8. CASE left # <<>>
  <2>1. PICK p \in Pairs : \E t \in Seq(Pairs) : left = <<p>> \o t
    BY <1>8, SeqSplit
  <2>2. PICK more \in Seq(Pairs) : left = <<p>> \o more
    BY <2>1
  <2> DEFINE u == p[1] \o (<<"=">> \o (EscapeBy(p[2], Special) \o (Each(PairPrinted, more) \o y)))
  <2>3. all = <<Comma>> \o u
    BY ONLY <1>6, <2>2, Zenon
  <2>4. u \in Seq(Tokens)
    <3>1. EscapeBy(p[2], Special) \in Seq(Tokens) /\ p[1] \in Seq(Tokens)
      BY PairTyped, ValueUnstopped
    <3>2. Each(PairPrinted, more) \in Seq(Tokens)
      BY PairPrintedTyped, EachTyped
    <3>3. Each(PairPrinted, more) \o y \in Seq(Tokens)
      BY ONLY <1>1, <3>2, Joined
    <3>4. Four(p[1], <<"=">>, EscapeBy(p[2], Special), Each(PairPrinted, more) \o y)
      BY ONLY <3>1, <3>3, FourJoined, MarksTyped, Zenon
    <3> QED BY ONLY <3>4, Zenon DEF Four
  <2> HIDE DEF u
  <2>5. Comma \in Tokens
    BY TokensThere, Zenon DEF Comma
  <2>6. all # <<>> /\ all[1] = Comma
    BY ONLY <2>3, <2>4, <2>5, TailJoined, Zenon
  <2>7. all # <<>> /\ all[1] \in Stops
    BY ONLY <1>2, <2>6, Zenon
  <2> QED BY ONLY <1>4, <1>6, <1>8, <2>7, Zenon DEF y
<1> QED BY ONLY <1>7, <1>8, Zenon

LEMMA Nones == <<>> \in Seq(Pairs) /\ <<>> \in Seq(Printables) /\ <<>> \in Seq(Tokens)
OBVIOUS

LEMMA ReadBetween ==
    ASSUME NEW C \in CodeSets, NEW es \in Seq(Printables), NEW x, Between(x, es, C), x.raw # <<>>
    PROVE  Between(Round(x), es, C) \/ Within(Round(x), es, C)
<1>1. PICK done \in Seq(Printables), todo \in Seq(Printables) :
         /\ x = [raw |-> Each(Printed(C), todo), read |-> done, open |-> <<>>]
         /\ Each(Sight, done) \o Each(Sight, todo) = Each(Sight, es)
  BY Zenon DEF Between
<1>2. C \in SUBSET Special /\ "[" \in C /\ C \in {{"&", "["}, {"&", "[", "]"}}
  BY CodeSetsSpecial
<1>3. /\ Printed(C) \in [Printables -> Seq(Tokens)] /\ Sight \in [Printables -> Seq(Seeable)]
      /\ TextItem \in [Tokens -> Seq(Seeable)]
  BY <1>2, PrintedTyped, SightTyped, TextItemTyped
<1>4. Steps(Printed(C), Printables) /\ Steps(Sight, Printables)
  BY <1>3, EachSteps, Zenon
<1>5. PICK t, others : Run(todo, C, t, others)
  BY <1>2, TextsRun
<1>6. t \in Seq(Tokens) /\ others \in Seq(Printables)
  BY ONLY <1>5, Zenon DEF Run
<1> DEFINE s == EscapeBy(t, C)
           text == Text(t)
           read2 == Append(done, text)
<1>7. s \in Seq(Tokens) /\ s \in Seq(Tokens \ {"["}) /\ UnescapeText(s) = t
  <2>1. s \in Seq(Tokens) /\ s \in Seq(Tokens \ (C \ {"&"}))
    BY <1>2, <1>6, EscapeTyped
  <2>2. Tokens \ (C \ {"&"}) \subseteq Tokens \ {"["}
    BY <1>2
  <2>3. s \in Seq(Tokens \ {"["})
    <3> HIDE DEF s
    <3> QED BY <2>1, <2>2
  <2>4. UnescapeText(s) = t
    BY ONLY <1>2, <1>6, TextUnescaped, Zenon
  <2> QED BY <2>1, <2>3, <2>4
<1>8. read2 \in Seq(Printables) /\ Each(Sight, read2) = Each(Sight, done) \o Each(TextItem, t)
  <2>1. text \in Printables /\ Sight[text] = Each(TextItem, t)
    BY <1>6, TextMade
  <2> HIDE DEF text
  <2>2. read2 \in Seq(Printables)
    BY <2>1
  <2>3. Each(Sight, read2) = Each(Sight, done) \o Sight[text]
    BY ONLY <1>4, <2>1, done \in Seq(Printables), Zenon DEF Steps
  <2> QED BY ONLY <2>1, <2>2, <2>3, Zenon
<1>9. /\ Each(Sight, done) \in Seq(Seeable) /\ Each(TextItem, t) \in Seq(Seeable)
      /\ Each(Sight, others) \in Seq(Seeable) /\ Each(Sight, read2) \in Seq(Seeable)
  BY <1>3, <1>6, <1>8, EachTyped
<1> HIDE DEF s, text, read2
<1>10. Each(Sight, read2) \o Each(Sight, others) = Each(Sight, es)
  <2>1. Three(Each(Sight, done), Each(TextItem, t), Each(Sight, others))
    BY ONLY <1>9, ThreeJoined, Zenon
  <2>2. Each(Sight, todo) = Each(TextItem, t) \o Each(Sight, others)
    BY ONLY <1>5, Zenon DEF Run
  <2> QED BY ONLY <1>1, <1>8, <2>1, <2>2, Zenon DEF Three
<1>11. Each(Printed(C), todo) = s \o Each(Printed(C), others)
  BY ONLY <1>5, Zenon DEF Run, s
<1>12. CASE others = <<>>
  <2>1. Each(Printed(C), others) = <<>> /\ s \o <<>> = s
    BY ONLY <1>7, <1>12, EachNone, NothingJoined, Zenon
  <2>2. x = [raw |-> s, read |-> done, open |-> <<>>]
    BY ONLY <1>1, <1>11, <2>1, Zenon
  <2>3. x.raw = s
    BY ONLY <2>2
  <2>4. s # <<>>
    BY ONLY <2>3, x.raw # <<>>, Zenon
  <2>5. Round([raw |-> s, read |-> done, open |-> <<>>])
          = [raw |-> <<>>, read |-> Append(done, Text(UnescapeText(s))), open |-> <<>>]
    BY ONLY <1>7, <2>4, RoundTextOnly, Zenon
  <2>6. Round(x) = [raw |-> <<>>, read |-> read2, open |-> <<>>]
    BY ONLY <1>7, <2>2, <2>5, Zenon DEF read2, text
  <2>7. Between(Round(x), es, C)
    BY ONLY <1>8, <1>10, <1>12, <2>1, <2>6, Nones, Zenon DEF Between
  <2> QED BY <2>7
<1>13. CASE others # <<>>
  <2>1. PICK e \in Printables, more \in Seq(Printables) : others = <<e>> \o more /\ e = others[1]
    BY <1>6, <1>13, SeqSplit
  <2>2. e[1] # <<"text">>
    BY ONLY <1>5, <1>13, <2>1, Zenon DEF Run
  <2>3. e \in Sayable
    BY DEF Printables
  <2> DEFINE type == e[1]
             pairs == e[2]
             z == Each(Printed(C), more)
             mid == Each(PairPrinted, pairs)
             rest == mid \o (<<"]">> \o z)
             read3 == IF s = <<>> THEN done ELSE read2
  <2>4. type \in Seq(Tokens \ Stops) /\ type \in Seq(Tokens) /\ pairs \in Seq(Pairs) /\ e = <<type, pairs>>
    BY <2>3, ElementTyped
  <2>5. z \in Seq(Tokens) /\ mid \in Seq(Tokens)
    BY <1>3, <2>4, PairPrintedTyped, EachTyped
  <2>6. /\ Each(Printed(C), others) = Printed(C)[e] \o z
        /\ Each(Sight, others) = Sight[e] \o Each(Sight, more)
    BY ONLY <1>4, <2>1, Zenon DEF Steps
  <2>7. Printed(C)[e] = <<"[", "CQ:">> \o (type \o (mid \o <<"]">>))
    <3>1. CQCode(e) = <<"[", "CQ:">> \o (type \o (mid \o <<"]">>))
      BY ONLY <2>2, <2>3, CodePrinted, Zenon
    <3> QED BY ONLY <2>2, <3>1, e \in Printables, PrintedOne, Zenon
  <2>8. Each(Printed(C), others) = <<"[", "CQ:">> \o (type \o rest)
    <3>1. Five(<<"[", "CQ:">>, type, mid, <<"]">>, z)
      BY ONLY <2>4, <2>5, MarksTyped, FiveJoined, Zenon
    <3> QED BY ONLY <2>6, <2>7, <3>1, Zenon DEF Five
  <2>9. rest \in Seq(Tokens) /\ rest # <<>> /\ rest[1] \in Stops
    BY ONLY <2>4, <2>5, RestOfCode, Zenon
  <2>10. x = [raw |-> s \o (<<"[", "CQ:">> \o (type \o rest)), read |-> done, open |-> <<>>]
    BY ONLY <1>1, <1>11, <2>8, Zenon
  <2> HIDE DEF rest, type
  <2>11. Round([raw |-> s \o (<<"[", "CQ:">> \o (type \o rest)), read |-> done, open |-> <<>>])
           = [raw |-> rest, open |-> <<type, <<>>>>,
              read |-> IF s = <<>> THEN done ELSE Append(done, Text(UnescapeText(s)))]
    BY ONLY <1>7, <2>4, <2>9, RoundHeader, Zenon
  <2>12. Round(x) = [raw |-> rest, open |-> <<type, <<>>>>, read |-> read3]
    BY ONLY <1>7, <2>10, <2>11, Zenon DEF read2, text
  <2>13. [raw |-> rest, open |-> <<type, <<>>>>, read |-> read3]
           = [raw |-> rest, read |-> read3, open |-> <<type, <<>>>>]
    <3> HIDE DEF read3
    <3> QED OBVIOUS
  <2>14. read3 \in Seq(Printables) /\ Each(Sight, read3) \o Each(Sight, others) = Each(Sight, es)
    <3>1. CASE s = <<>>
      <4>1. EscapeBy(<<>>, C) = <<>> /\ UnescapeText(EscapeBy(<<>>, C)) = <<>>
        BY ONLY <1>2, Nones, EscapeNone, TextUnescaped, Zenon
      <4>2. t = <<>>
        BY ONLY <1>7, <3>1, <4>1, Zenon
      <4>3. Each(TextItem, t) = <<>> /\ Each(Sight, done) \o <<>> = Each(Sight, done)
        BY ONLY <1>9, <4>2, EachNone, NothingJoined, Zenon
      <4>4. Each(Sight, read2) = Each(Sight, done)
        BY ONLY <1>8, <4>3, Zenon
      <4> QED BY ONLY <1>10, <3>1, <4>4, done \in Seq(Printables), Zenon
    <3>2. CASE s # <<>>
      BY ONLY <1>8, <1>10, <3>2, Zenon
    <3> QED BY ONLY <3>1, <3>2, Zenon
  <2>15. <<>> \o pairs = pairs /\ Sight[<<type, <<>> \o pairs>>] = Sight[e]
    <3>1. <<>> \o pairs = pairs
      BY ONLY <2>4, NothingJoined, Zenon
    <3> QED BY ONLY <2>4, <3>1, Zenon
  <2> HIDE DEF read3
  <2>16. Within(Round(x), es, C)
    <3>1. Each(Sight, read3) \o (Sight[<<type, <<>> \o pairs>>] \o Each(Sight, more)) = Each(Sight, es)
      BY ONLY <2>6, <2>14, <2>15, Zenon
    <3>2. Round(x) = [raw |-> Each(PairPrinted, pairs) \o (<<"]">> \o Each(Printed(C), more)),
                        read |-> read3, open |-> <<type, <<>>>>]
      BY ONLY <2>12, <2>13, Zenon DEF rest
    <3>3. type # <<"text">>
      BY ONLY <2>2, Zenon DEF type
    <3> HIDE DEF pairs
    <3> QED BY ONLY <2>1, <2>4, <2>14, <3>1, <3>2, <3>3, Nones, Zenon DEF Within
  <2> QED BY <2>16
<1> QED BY <1>12, <1>13


LEMMA PairAgain ==
    ASSUME NEW p \in Pairs
    PROVE  <<p[1], UnescapeValue(EscapeBy(p[2], Special))>> = p
<1>1. p[2] \in Seq(Tokens)
  BY PairTyped
<1>2. UnescapeValue(EscapeBy(p[2], Special)) = p[2]
  BY ONLY <1>1, ValueEscaped, ValueUnescaped, Zenon
<1>3. <<p[1], p[2]>> = p
  BY DEF Pairs
<1> QED BY ONLY <1>2, <1>3, Zenon

LEMMA MovedOver ==
    ASSUME NEW S, NEW x \in Seq(S), NEW c \in S, NEW y \in Seq(S)
    PROVE  Append(x, c) \o y = x \o (<<c>> \o y) /\ Append(x, c) \in Seq(S)
<1>1. Append(x, c) = x \o <<c>> /\ <<c>> \in Seq(S) /\ Append(x, c) \in Seq(S)
  OBVIOUS
<1>2. Three(x, <<c>>, y)
  BY ONLY <1>1, x \in Seq(S), y \in Seq(S), ThreeJoined, Zenon
<1> QED BY ONLY <1>1, <1>2, Zenon DEF Three

LEMMA ReadWithin ==
    ASSUME NEW C \in CodeSets, NEW es \in Seq(Printables), NEW x, Within(x, es, C)
    PROVE  Between(Round(x), es, C) \/ Within(Round(x), es, C)
<1>1. PICK done \in Seq(Printables), todo \in Seq(Printables) :
         \E type \in Seq(Tokens \ Stops) : \E had, left \in Seq(Pairs) :
            /\ type # <<"text">>
            /\ x = [raw |-> Each(PairPrinted, left) \o (<<"]">> \o Each(Printed(C), todo)),
                    read |-> done, open |-> <<type, had>>]
            /\ Each(Sight, done) \o (Sight[<<type, had \o left>>] \o Each(Sight, todo)) = Each(Sight, es)
  BY Zenon DEF Within
<1>2. PICK type \in Seq(Tokens \ Stops) : \E had, left \in Seq(Pairs) :
         /\ type # <<"text">>
         /\ x = [raw |-> Each(PairPrinted, left) \o (<<"]">> \o Each(Printed(C), todo)),
                 read |-> done, open |-> <<type, had>>]
         /\ Each(Sight, done) \o (Sight[<<type, had \o left>>] \o Each(Sight, todo)) = Each(Sight, es)
  BY ONLY <1>1, Zenon
<1>3. PICK had \in Seq(Pairs), left \in Seq(Pairs) :
         /\ type # <<"text">>
         /\ x = [raw |-> Each(PairPrinted, left) \o (<<"]">> \o Each(Printed(C), todo)),
                 read |-> done, open |-> <<type, had>>]
         /\ Each(Sight, done) \o (Sight[<<type, had \o left>>] \o Each(Sight, todo)) = Each(Sight, es)
  BY ONLY <1>2, Zenon
<1>4. C \in SUBSET Special
  BY CodeSetsSpecial
<1>5. Printed(C) \in [Printables -> Seq(Tokens)] /\ Sight \in [Printables -> Seq(Seeable)]
  BY <1>4, PrintedTyped, SightTyped
<1> DEFINE z == Each(Printed(C), todo)
<1>6. z \in Seq(Tokens) /\ Each(Sight, todo) \in Seq(Seeable) /\ Each(Sight, done) \in Seq(Seeable)
  BY <1>5, EachTyped
<1> HIDE DEF z
<1>7. CASE left = <<>>
  <2> DEFINE e == <<type, had>>
  <2>1. e \in Sayable /\ e[1] = type
    BY ElementMade
  <2> HIDE DEF e
  <2>2. e \in Printables
    BY <1>3, <2>1 DEF Printables
  <2>3. had \o <<>> = had
    BY ONLY had \in Seq(Pairs), NothingJoined, Zenon
  <2>4. Each(PairPrinted, left) \o (<<"]">> \o z) = <<"]">> \o z
    BY ONLY <1>6, <1>7, left \in Seq(Pairs), RestOfCode, Zenon
  <2>5. x = [raw |-> <<"]">> \o z, read |-> done, open |-> <<type, had>>]
    BY ONLY <1>3, <2>4, Zenon DEF z
  <2>6. Round([raw |-> <<"]">> \o z, read |-> done, open |-> <<type, had>>])
          = [raw |-> z, read |-> Append(done, <<type, had>>), open |-> <<>>]
    BY ONLY <1>6, RoundClose, Zenon
  <2>7. Round(x) = [raw |-> z, read |-> Append(done, e), open |-> <<>>]
    BY ONLY <2>5, <2>6, Zenon DEF e
  <2>8. Append(done, e) \in Seq(Printables)
    BY <2>2
  <2>9. Each(Sight, Append(done, e)) = Each(Sight, done) \o Sight[e]
    <3>1. Steps(Sight, Printables)
      BY <1>5, EachSteps, Zenon
    <3> QED BY ONLY <2>2, <3>1, done \in Seq(Printables), Zenon DEF Steps
  <2>10. Sight[e] \in Seq(Seeable)
    BY <1>5, <2>2
  <2>11. Three(Each(Sight, done), Sight[e], Each(Sight, todo))
    BY ONLY <1>6, <2>10, ThreeJoined, Zenon
  <2>12. Each(Sight, Append(done, e)) \o Each(Sight, todo) = Each(Sight, es)
    BY ONLY <1>3, <1>7, <2>3, <2>9, <2>11, Zenon DEF Three, e
  <2>13. Between(Round(x), es, C)
    BY ONLY <2>7, <2>8, <2>12, todo \in Seq(Printables), Zenon DEF Between, z
  <2> QED BY <2>13
<1>8. CASE left # <<>>
  <2>1. PICK p \in Pairs : \E t \in Seq(Pairs) : left = <<p>> \o t
    BY <1>8, SeqSplit
  <2>2. PICK more \in Seq(Pairs) : left = <<p>> \o more
    BY <2>1
  <2> DEFINE value == EscapeBy(p[2], Special)
             rest == Each(PairPrinted, more) \o (<<"]">> \o z)
  <2>3. p[1] \in Seq(Tokens \ {"="}) /\ p[1] \in Seq(Tokens) /\ value \in Seq(Tokens \ Stops)
    BY PairTyped, ValueUnstopped
  <2>4. rest \in Seq(Tokens) /\ rest # <<>> /\ rest[1] \in Stops
    BY ONLY <1>6, more \in Seq(Pairs), RestOfCode, Zenon
  <2>5. Each(PairPrinted, left) \o (<<"]">> \o z) = <<Comma>> \o (p[1] \o (<<"=">> \o (value \o rest)))
    <3>1. \A q \in Pairs : \A others \in Seq(Pairs) :
             left = <<q>> \o others =>
               Each(PairPrinted, left) \o (<<"]">> \o z)
                 = <<Comma>> \o (q[1] \o (<<"=">> \o (EscapeBy(q[2], Special)
                     \o (Each(PairPrinted, others) \o (<<"]">> \o z)))))
      BY ONLY <1>6, left \in Seq(Pairs), RestOfCode, Zenon
    <3> HIDE DEF z
    <3> QED BY ONLY <2>2, <3>1, p \in Pairs, more \in Seq(Pairs), Zenon DEF value, rest
  <2>6. x = [raw |-> <<Comma>> \o (p[1] \o (<<"=">> \o (value \o rest))),
             read |-> done, open |-> <<type, had>>]
    BY ONLY <1>3, <2>5, Zenon DEF z
  <2>7. <<p[1], UnescapeValue(value)>> = p
    BY PairAgain
  <2> HIDE DEF value, rest
  <2>8. Round([raw |-> <<Comma>> \o (p[1] \o (<<"=">> \o (value \o rest))),
                 read |-> done, open |-> <<type, had>>])
          = [raw |-> rest, read |-> done,
             open |-> <<type, Append(had, <<p[1], UnescapeValue(value)>>)>>]
    <3>1. PairRead(type, had, done, p[1], value, rest)
      BY ONLY <2>3, <2>4, RoundPair, Zenon
    <3> QED BY ONLY <3>1, Zenon DEF PairRead
  <2>9. Round(x) = [raw |-> rest, read |-> done, open |-> <<type, Append(had, p)>>]
    BY ONLY <2>6, <2>7, <2>8, Zenon
  <2>10. Append(had, p) \o more = had \o left /\ Append(had, p) \in Seq(Pairs)
    <3>1. Append(had, p) \o more = had \o (<<p>> \o more) /\ Append(had, p) \in Seq(Pairs)
      BY MovedOver
    <3> QED BY ONLY <2>2, <3>1, Zenon
  <2>11. /\ Round(x) = [raw |-> Each(PairPrinted, more) \o (<<"]">> \o Each(Printed(C), todo)),
                          read |-> done, open |-> <<type, Append(had, p)>>]
         /\ Each(Sight, done) \o (Sight[<<type, Append(had, p) \o more>>] \o Each(Sight, todo))
              = Each(Sight, es)
    BY ONLY <1>3, <2>9, <2>10, Zenon DEF rest, z
  <2>12. Within(Round(x), es, C)
    BY ONLY <1>3, <2>10, <2>11, done \in Seq(Printables), todo \in Seq(Printables),
            type \in Seq(Tokens \ Stops), more \in Seq(Pairs), Zenon DEF Within
  <2> QED BY <2>12
<1> QED BY <1>7, <1>8

\* An element's printed form is never empty, nor a text's.
LEMMA NotNothing ==
    ASSUME NEW S, NEW a \in Seq(S), NEW b \in Seq(S), a \o b = <<>>
    PROVE  a = <<>> /\ b = <<>>
<1>1. Len(a \o b) = Len(a) + Len(b) /\ Len(a) \in Nat /\ Len(b) \in Nat
  OBVIOUS
<1> QED BY <1>1

LEMMA NothingPrinted ==
    ASSUME NEW C \in CodeSets, NEW todo \in Seq(Printables), Each(Printed(C), todo) = <<>>
    PROVE  Each(Sight, todo) = <<>>
<1>1. C \in SUBSET Special /\ C \in {{"&", "["}, {"&", "[", "]"}}
  BY CodeSetsSpecial
<1>2. Printed(C) \in [Printables -> Seq(Tokens)] /\ Sight \in [Printables -> Seq(Seeable)]
  BY <1>1, PrintedTyped, SightTyped
<1>3. PICK t, others : Run(todo, C, t, others)
  BY <1>1, TextsRun
<1>4. /\ t \in Seq(Tokens) /\ others \in Seq(Printables)
      /\ EscapeBy(t, C) \o Each(Printed(C), others) = <<>>
      /\ Each(Sight, todo) = Each(TextItem, t) \o Each(Sight, others)
      /\ others = <<>> \/ others[1][1] # <<"text">>
  BY ONLY <1>3, Each(Printed(C), todo) = <<>>, Zenon DEF Run
<1>5. EscapeBy(t, C) \in Seq(Tokens) /\ Each(Printed(C), others) \in Seq(Tokens)
  BY <1>1, <1>2, <1>4, EscapeTyped, EachTyped
<1>6. EscapeBy(t, C) = <<>> /\ Each(Printed(C), others) = <<>>
  BY ONLY <1>4, <1>5, NotNothing
<1>7. t = <<>>
  <2>1. EscapeBy(<<>>, C) = <<>> /\ UnescapeText(EscapeBy(<<>>, C)) = <<>>
    BY ONLY <1>1, Nones, EscapeNone, TextUnescaped, Zenon
  <2>2. UnescapeText(EscapeBy(t, C)) = t
    BY ONLY <1>1, <1>4, TextUnescaped, Zenon
  <2> QED BY ONLY <1>6, <2>1, <2>2, Zenon
<1>8. others = <<>>
  <2> SUFFICES ASSUME others # <<>> PROVE FALSE
    OBVIOUS
  <2>1. PICK e \in Printables, more \in Seq(Printables) : others = <<e>> \o more /\ e = others[1]
    BY <1>4, SeqSplit
  <2>2. e[1] # <<"text">>
    BY <1>4, <2>1
  <2> DEFINE z == Each(Printed(C), more)
  <2>3. z \in Seq(Tokens)
    BY <1>2, EachTyped
  <2>4. Each(Printed(C), others) = Printed(C)[e] \o z
    <3>1. Steps(Printed(C), Printables)
      BY <1>2, EachSteps, Zenon
    <3> QED BY ONLY <2>1, <3>1, Zenon DEF Steps
  <2>5. Printed(C)[e] \in Seq(Tokens)
    BY <1>2
  <2> HIDE DEF z
  <2>6. Printed(C)[e] = <<>>
    BY ONLY <1>6, <2>3, <2>4, <2>5, NotNothing
  <2>7. CQCode(e) = <<>>
    BY ONLY <2>2, <2>6, e \in Printables, PrintedOne, Zenon
  <2>8. e \in Sayable
    BY DEF Printables
  <2> DEFINE body == e[1] \o (Each(PairPrinted, e[2]) \o <<"]">>)
             front == <<"[", "CQ:">>
  <2>9. front \o body = <<>>
    BY ONLY <2>2, <2>7, <2>8, CodePrinted, Zenon
  <2>10. body \in Seq(Tokens)
    <3>1. e[1] \in Seq(Tokens) /\ Each(PairPrinted, e[2]) \in Seq(Tokens)
      BY <2>8, ElementTyped, PairPrintedTyped, EachTyped
    <3>2. Four(e[1], <<>>, Each(PairPrinted, e[2]), <<"]">>)
      BY ONLY <3>1, MarksTyped, Nones, FourJoined, Zenon
    <3>3. <<>> \o (Each(PairPrinted, e[2]) \o <<"]">>) = Each(PairPrinted, e[2]) \o <<"]">>
      <4>1. Each(PairPrinted, e[2]) \o <<"]">> \in Seq(Tokens)
        BY ONLY <3>1, MarksTyped, Joined, Zenon
      <4> QED BY ONLY <4>1, NothingJoined, Zenon
    <3> QED BY ONLY <3>2, <3>3, Zenon DEF Four
  <2>11. front \in Seq(Tokens)
    BY ONLY MarksTyped, Zenon
  <2> HIDE DEF body
  <2>12. front = <<>>
    <3> HIDE DEF front
    <3> QED BY ONLY <2>9, <2>10, <2>11, NotNothing
  <2> QED BY <2>12
<1> QED BY ONLY <1>4, <1>7, <1>8, EachNone, NothingJoined, Nones, Zenon

\* Nothing left to read: everything was read.
LEMMA ReadOut ==
    ASSUME NEW C \in CodeSets, NEW es \in Seq(Printables), NEW x, x.raw = <<>>,
           Between(x, es, C) \/ Within(x, es, C)
    PROVE  x.read \in Seq(Printables) /\ Each(Sight, x.read) = Each(Sight, es)
<1>1. C \in SUBSET Special
  BY CodeSetsSpecial
<1>2. Printed(C) \in [Printables -> Seq(Tokens)] /\ Sight \in [Printables -> Seq(Seeable)]
  BY <1>1, PrintedTyped, SightTyped
<1>3. CASE Between(x, es, C)
  <2>1. PICK done \in Seq(Printables), todo \in Seq(Printables) :
           /\ x = [raw |-> Each(Printed(C), todo), read |-> done, open |-> <<>>]
           /\ Each(Sight, done) \o Each(Sight, todo) = Each(Sight, es)
    BY <1>3, Zenon DEF Between
  <2>2. x.raw = Each(Printed(C), todo) /\ x.read = done
    BY ONLY <2>1
  <2>3. Each(Sight, todo) = <<>>
    BY ONLY <2>2, x.raw = <<>>, todo \in Seq(Printables), C \in CodeSets, NothingPrinted, Zenon
  <2>4. Each(Sight, done) \in Seq(Seeable)
    BY <1>2, EachTyped
  <2>5. Each(Sight, done) \o <<>> = Each(Sight, done)
    BY ONLY <2>4, NothingJoined, Zenon
  <2> QED BY ONLY <2>1, <2>2, <2>3, <2>5, Zenon
<1>4. CASE Within(x, es, C)
  <2>1. PICK left \in Seq(Pairs), z \in Seq(Tokens) : x.raw = Each(PairPrinted, left) \o (<<"]">> \o z)
    <3> DEFINE AsRead(done, todo, type, had, left) ==
                  x = [raw |-> Each(PairPrinted, left) \o (<<"]">> \o Each(Printed(C), todo)),
                       read |-> done, open |-> <<type, had>>]
    <3>4. \E done, todo \in Seq(Printables) : \E type \in Seq(Tokens \ Stops) :
             \E had, left \in Seq(Pairs) : AsRead(done, todo, type, had, left)
      BY ONLY <1>4, Zenon DEF Within
    <3>1. PICK todo \in Seq(Printables), left \in Seq(Pairs) :
             \E done, type, had : AsRead(done, todo, type, had, left)
      <4> HIDE DEF AsRead
      <4> QED BY ONLY <3>4, Zenon
    <3>2. Each(Printed(C), todo) \in Seq(Tokens)
      BY <1>2, EachTyped
    <3>3. x.raw = Each(PairPrinted, left) \o (<<"]">> \o Each(Printed(C), todo))
      BY ONLY <3>1
    <3> QED BY ONLY <3>2, <3>3, left \in Seq(Pairs), Zenon
  <2> QED BY ONLY <2>1, x.raw = <<>>, RestOfCode, Zenon
<1> QED BY <1>3, <1>4


\* A string being read, whatever it holds.
Readings == [raw : Seq(Tokens), read : Seq(Sayable), open : {<<>>} \cup Sayable]

LEMMA DropTyped ==
    ASSUME NEW S, NEW s \in Seq(S), NEW n \in Nat
    PROVE  /\ Drop(s, n) \in Seq(S)
           /\ n > 0 => Len(Drop(s, n)) < Len(s) \/ s = <<>>
           /\ Len(Drop(s, n)) <= Len(s)
BY DEF Drop

LEMMA UnescapeTyped ==
    ASSUME NEW s \in Seq(Tokens)
    PROVE  UnescapeText(s) \in Seq(Tokens) /\ UnescapeValue(s) \in Seq(Tokens)
<1>1. "&" \in Tokens /\ "[" \in Tokens /\ "]" \in Tokens /\ Comma \in Tokens
  BY TokensThere, Zenon DEF Comma
<1>2. \A u \in Seq(Tokens) : \A code : \A c \in Tokens : Replace(u, code, c) \in Seq(Tokens)
  BY ReplaceTyped
<1>3. \A u \in Seq(Tokens) : UnescapeText(u) \in Seq(Tokens)
  BY ONLY <1>1, <1>2, Zenon DEF UnescapeText
<1>4. Replace(s, "#44;", Comma) \in Seq(Tokens)
  BY ONLY <1>1, <1>2, s \in Seq(Tokens), Zenon
<1>5. UnescapeValue(s) = UnescapeText(Replace(s, "#44;", Comma))
  BY ONLY Zenon DEF UnescapeValue, Comma
<1> QED BY ONLY <1>3, <1>4, <1>5, s \in Seq(Tokens), Zenon

LEMMA TextSayable ==
    ASSUME NEW t \in Seq(Tokens)
    PROVE  Text(t) \in Sayable
BY TextMade DEF Printables

\* Each round reads at least one token.
Shorter(x, y) == y \in Readings /\ (Len(y.raw) < Len(x.raw))

LEMMA ReturnTyped ==
    ASSUME NEW x \in Readings, x.raw # <<>>, NEW done \in Seq(Sayable)
    PROVE  Shorter(x, Return(done))
<1> DEFINE y == [raw |-> <<>>, read |-> done, open |-> <<>>]
<1>1. y \in Readings /\ Len(y.raw) = 0
  BY DEF Readings
<1>2. x.raw \in Seq(Tokens)
  BY DEF Readings
<1>3. Len(x.raw) > 0
  BY <1>2
<1>4. Return(done) = y
  BY Zenon DEF Return
<1> HIDE DEF y
<1> QED BY <1>1, <1>3, <1>4 DEF Shorter

LEMMA CloseTyped ==
    ASSUME NEW x \in Readings, x.raw # <<>>, x.open # <<>>
    PROVE  Shorter(x, Close(x))
<1>1. x.raw \in Seq(Tokens) /\ x.read \in Seq(Sayable) /\ x.open \in Sayable
  BY DEF Readings
<1> DEFINE y == [raw |-> Tail(x.raw), read |-> Append(x.read, x.open), open |-> <<>>]
<1>2. Tail(x.raw) \in Seq(Tokens) /\ Len(Tail(x.raw)) < Len(x.raw)
  BY <1>1
<1>3. Append(x.read, x.open) \in Seq(Sayable)
  BY <1>1
<1>4. y \in Readings /\ y.raw = Tail(x.raw)
  BY <1>2, <1>3 DEF Readings
<1>5. Close(x) = y
  BY Zenon DEF Close
<1> HIDE DEF y
<1> QED BY <1>2, <1>4, <1>5 DEF Shorter

LEMMA FrontTyped ==
    ASSUME NEW K, NEW s \in Seq(K), NEW stops
    PROVE  /\ SubSeq(s, 1, Upto(s, stops)) \in Seq(K \ stops)
           /\ Upto(s, stops) \in Nat
<1> DEFINE n == Upto(s, stops)
<1>1. n \in 0..Len(s) /\ \A i \in 1..n : s[i] \notin stops
  BY UptoReads
<1> HIDE DEF n
<1>2. SubSeq(s, 1, n) \in Seq(K) /\ Len(SubSeq(s, 1, n)) = n
      /\ \A i \in 1..n : SubSeq(s, 1, n)[i] = s[i]
  BY <1>1
<1>3. SubSeq(s, 1, n) \in Seq(K \ stops)
  <2> DEFINE u == SubSeq(s, 1, n)
  <2>1. u \in Seq(K) /\ Len(u) = n /\ \A i \in 1..n : u[i] \notin stops
    BY <1>1, <1>2
  <2> HIDE DEF u
  <2>2. u \in Seq(K \ stops)
    BY <2>1
  <2> QED BY <2>2 DEF u
<1> QED BY <1>1, <1>3 DEF n

LEMMA KeyAndValueTyped ==
    ASSUME NEW x \in Readings, x.raw # <<>>, x.open # <<>>
    PROVE  Shorter(x, KeyAndValue(x))
<1>1. x.raw \in Seq(Tokens) /\ x.read \in Seq(Sayable) /\ x.open \in Sayable
  BY DEF Readings
<1> DEFINE t == Tail(x.raw)
           w == Upto(t, {"="})
           u == Drop(t, w + 1)
           n == Upto(u, Stops)
           key == SubSeq(t, 1, w)
           value == SubSeq(u, 1, n)
           p == <<key, UnescapeValue(value)>>
           pairs == Append(x.open[2], p)
           y == [raw |-> Drop(u, n), read |-> x.read, open |-> <<x.open[1], pairs>>]
<1>2. t \in Seq(Tokens) /\ Len(t) < Len(x.raw)
  BY <1>1
<1> HIDE DEF t
<1>3. key \in Seq(Tokens \ {"="}) /\ w \in Nat
  BY <1>2, FrontTyped
<1> HIDE DEF w
<1>4. u \in Seq(Tokens) /\ Len(u) <= Len(t)
  <2>1. w + 1 \in Nat
    BY <1>3
  <2> QED BY <1>2, <2>1, DropTyped
<1> HIDE DEF u, key
<1>5. value \in Seq(Tokens \ Stops) /\ n \in Nat
  BY <1>4, FrontTyped
<1> HIDE DEF n
<1>6. Drop(u, n) \in Seq(Tokens) /\ Len(Drop(u, n)) <= Len(u)
  BY <1>4, <1>5, DropTyped
<1>7. UnescapeValue(value) \in Seq(Tokens)
  <2>1. value \in Seq(Tokens)
    <3> HIDE DEF value
    <3> QED BY <1>5
  <2> HIDE DEF value
  <2> QED BY <2>1, UnescapeTyped
<1> HIDE DEF value
<1>8. p \in Pairs
  BY <1>3, <1>7 DEF Pairs
<1> HIDE DEF p
<1>9. x.open[1] \in Seq(Tokens \ Stops) /\ x.open[2] \in Seq(Pairs)
  BY <1>1, ElementTyped
<1>10. pairs \in Seq(Pairs)
  BY <1>8, <1>9
<1> HIDE DEF pairs
<1>11. <<x.open[1], pairs>> \in Sayable
  BY <1>9, <1>10, ElementMade
<1>12. y \in Readings /\ y.raw = Drop(u, n)
  BY <1>1, <1>6, <1>11 DEF Readings
<1>13. Len(t) \in Nat /\ Len(u) \in Nat /\ Len(Drop(u, n)) \in Nat /\ Len(x.raw) \in Nat
  BY <1>1, <1>2, <1>4, <1>6
<1>14. Shorter(x, y)
  <2> HIDE DEF y
  <2>1. Len(y.raw) < Len(x.raw)
    BY ONLY <1>2, <1>4, <1>6, <1>12, <1>13
  <2> QED BY ONLY <1>12, <2>1, Zenon DEF Shorter
<1>15. KeyAndValue(x) = IF w = Len(t) \/ n = Len(u) THEN Return(x.read) ELSE y
  BY ONLY Zenon DEF KeyAndValue, t, w, u, n, key, value, p, pairs, Stops
<1>16. Shorter(x, Return(x.read))
  BY <1>1, ReturnTyped
<1> HIDE DEF y
<1> QED BY ONLY <1>14, <1>15, <1>16, Zenon

LEMMA HeaderTyped ==
    ASSUME NEW x \in Readings, x.raw # <<>>, x.open = <<>>
    PROVE  Shorter(x, Header(x))
<1>1. x.raw \in Seq(Tokens) /\ x.read \in Seq(Sayable)
  BY DEF Readings
<1> DEFINE s == x.raw
           starts == {i \in 1..Len(s) : IsCode(s, i)}
           n == IF starts = {} THEN Len(s) ELSE Min(starts) - 1
           text == Text(UnescapeText(SubSeq(s, 1, n)))
           done == IF n = 0 THEN x.read ELSE Append(x.read, text)
           code == Drop(s, n + 2)
           w == Upto(code, Stops)
           type == SubSeq(code, 1, w)
           y == [raw |-> Drop(code, w), read |-> done, open |-> <<type, <<>>>>]
<1>2. s \in Seq(Tokens) /\ s # <<>>
  BY <1>1
<1> HIDE DEF s
<1>3. n \in 0..Len(s)
  <2>1. CASE starts = {}
    BY <1>2, <2>1
  <2>2. CASE starts # {}
    <3>1. starts \in SUBSET Nat
      OBVIOUS
    <3>2. Min(starts) \in starts
      <4> HIDE DEF starts
      <4> QED BY <2>2, <3>1, LeastThere
    <3>3. Min(starts) \in 1..Len(s)
      BY <3>2
    <3> QED BY <1>2, <2>2, <3>3
  <2> QED BY <2>1, <2>2
<1> HIDE DEF n, starts
<1>4. text \in Sayable
  <2>1. SubSeq(s, 1, n) \in Seq(Tokens)
    BY <1>2, <1>3
  <2>2. UnescapeText(SubSeq(s, 1, n)) \in Seq(Tokens)
    BY <2>1, UnescapeTyped
  <2> QED BY <2>2, TextSayable
<1> HIDE DEF text
<1>5. done \in Seq(Sayable)
  BY <1>1, <1>4
<1> HIDE DEF done
<1>6. code \in Seq(Tokens) /\ Len(code) < Len(s)
  <2>1. n + 2 \in Nat /\ n + 2 > 0
    BY <1>2, <1>3
  <2> QED BY <1>2, <2>1, DropTyped
<1> HIDE DEF code
<1>7. type \in Seq(Tokens \ Stops) /\ w \in Nat
  BY <1>6, FrontTyped
<1> HIDE DEF w, type
<1>8. Drop(code, w) \in Seq(Tokens) /\ Len(Drop(code, w)) <= Len(code)
  BY <1>6, <1>7, DropTyped
<1>9. <<type, <<>>>> \in Sayable
  BY <1>7, Nones, ElementMade
<1>10. y \in Readings /\ y.raw = Drop(code, w)
  BY <1>5, <1>8, <1>9 DEF Readings
<1>11. Len(s) \in Nat /\ Len(code) \in Nat /\ Len(Drop(code, w)) \in Nat
  BY <1>2, <1>6, <1>8
<1>12. Shorter(x, y)
  <2> HIDE DEF y
  <2>1. Len(y.raw) < Len(x.raw)
    BY ONLY <1>6, <1>8, <1>10, <1>11 DEF s
  <2> QED BY ONLY <1>10, <2>1, Zenon DEF Shorter
<1>13. Header(x) = IF starts = {} \/ w = Len(code) THEN Return(done) ELSE y
  BY ONLY Zenon DEF Header, s, starts, n, text, done, code, w, type, Stops
<1>14. Shorter(x, Return(done))
  BY <1>1, <1>5, ReturnTyped
<1> HIDE DEF y
<1> QED BY ONLY <1>12, <1>13, <1>14, Zenon

LEMMA RoundTyped ==
    ASSUME NEW x \in Readings, x.raw # <<>>
    PROVE  Shorter(x, Round(x))
<1>1. CASE x.open = <<>>
  <2>1. Round(x) = Header(x)
    BY ONLY <1>1, x.raw # <<>>, Zenon DEF Round
  <2> QED BY <1>1, <2>1, HeaderTyped
<1>2. CASE x.open # <<>> /\ x.raw[1] = "]"
  <2>1. Round(x) = Close(x)
    BY ONLY <1>2, x.raw # <<>>, Zenon DEF Round
  <2> QED BY <1>2, <2>1, CloseTyped
<1>3. CASE x.open # <<>> /\ x.raw[1] # "]"
  <2>1. Round(x) = KeyAndValue(x)
    BY ONLY <1>3, x.raw # <<>>, Zenon DEF Round
  <2> QED BY <1>3, <2>1, KeyAndValueTyped
<1> QED BY <1>1, <1>2, <1>3

LEMMA RoundRests ==
    ASSUME NEW x, x.raw = <<>>
    PROVE  Round(x) = x
BY Zenon DEF Round


\* The parser's loop, as a sequence of rounds.
Loop(f, s, n) == f = [w \in 0..n |-> IF w = 0 THEN Start(s) ELSE Round(f[w - 1])]

LEMMA LoopRuns ==
    ASSUME NEW s, NEW n \in Nat
    PROVE  \E f : Loop(f, s, n)
<1> DEFINE X == {m \in Nat : \E f : Loop(f, s, m)}
<1>1. 0 \in X
  <2> DEFINE f == [w \in 0..0 |-> Start(s)]
  <2>1. f = [w \in 0..0 |-> IF w = 0 THEN Start(s) ELSE Round(f[w - 1])]
    <3>1. \A w \in 0..0 : w = 0
      OBVIOUS
    <3>2. \A w \in 0..0 : Start(s) = IF w = 0 THEN Start(s) ELSE Round(f[w - 1])
      BY ONLY <3>1, Zenon
    <3> QED BY ONLY <3>2, Zenon
  <2>2. \E g : Loop(g, s, 0)
    BY ONLY <2>1, Zenon DEF Loop
  <2> HIDE DEF f
  <2> QED BY ONLY <2>2, 0 \in Nat
<1>2. \A m \in X : m \in Nat => m + 1 \in X
  <2> SUFFICES ASSUME NEW m \in Nat, NEW f, Loop(f, s, m) PROVE \E g : Loop(g, s, m + 1)
    OBVIOUS
  <2> DEFINE last == Round(f[m])
             g == [w \in 0..(m + 1) |-> IF w \in 0..m THEN f[w] ELSE last]
  <2>1. \A w \in 0..m : g[w] = f[w]
    OBVIOUS
  <2>2. g[m + 1] = last
    OBVIOUS
  <2>3. \A w \in 0..m : f[w] = IF w = 0 THEN Start(s) ELSE Round(f[w - 1])
    BY Zenon DEF Loop
  <2> HIDE DEF last
  <2>4. g = [w \in 0..(m + 1) |-> g[w]]
    OBVIOUS
  <2> HIDE DEF g
  <2>5. ASSUME NEW w \in 0..(m + 1)
        PROVE  g[w] = IF w = 0 THEN Start(s) ELSE Round(g[w - 1])
    <3>1. CASE w = 0
      <4>1. w \in 0..m
        BY <3>1
      <4> QED BY ONLY <2>1, <2>3, <3>1, <4>1, Zenon
    <3>2. CASE w \in 1..m
      <4>1. w \in 0..m /\ w - 1 \in 0..m /\ w # 0
        BY <3>2
      <4> QED BY ONLY <2>1, <2>3, <4>1, Zenon
    <3>3. CASE w = m + 1
      <4>1. w # 0 /\ w - 1 = m /\ m \in 0..m
        BY <3>3
      <4>2. g[m] = f[m]
        BY ONLY <2>1, <4>1, Zenon
      <4> QED BY ONLY <2>2, <3>3, <4>1, <4>2, Zenon DEF last
    <3> QED BY <3>1, <3>2, <3>3
  <2>6. g = [w \in 0..(m + 1) |-> IF w = 0 THEN Start(s) ELSE Round(g[w - 1])]
    BY ONLY <2>4, <2>5, Zenon
  <2> QED BY ONLY <2>6, Zenon DEF Loop
<1>3. n \in X
  <2> HIDE DEF X
  <2> QED BY <1>1, <1>2, EveryNat
<1> QED BY <1>3

LEMMA ParseRuns ==
    ASSUME NEW s \in Seq(Tokens)
    PROVE  \E f : /\ ParseString(s) = f[Len(s)].read
                  /\ f[0] = Start(s)
                  /\ \A w \in 1..Len(s) : f[w] = Round(f[w - 1])
<1> DEFINE f == CHOOSE f : Loop(f, s, Len(s))
<1>1. Loop(f, s, Len(s))
  <2>1. Len(s) \in Nat
    OBVIOUS
  <2>2. \E g : Loop(g, s, Len(s))
    BY ONLY <2>1, LoopRuns, Zenon
  <2> QED BY ONLY <2>2, Zenon
<1>2. ParseString(s) = f[Len(s)].read
  BY ONLY Zenon DEF ParseString, Loop
<1> HIDE DEF f
<1>3. \A w \in 0..Len(s) : f[w] = IF w = 0 THEN Start(s) ELSE Round(f[w - 1])
  BY ONLY <1>1, Zenon DEF Loop
<1>4. 0 \in 0..Len(s) /\ \A w \in 1..Len(s) : w \in 0..Len(s) /\ w # 0
  OBVIOUS
<1> QED BY ONLY <1>2, <1>3, <1>4, Zenon

\* What holds of the first reading and is kept by every round holds at the end,
\* where nothing is left to read.
LEMMA ParseKeeps ==
    ASSUME NEW s \in Seq(Tokens), NEW K,
           Start(s) \in K, \A x \in K : x \in Readings => Round(x) \in K
    PROVE  \E x \in K : x \in Readings /\ x.raw = <<>> /\ ParseString(s) = x.read
<1>1. PICK f : /\ ParseString(s) = f[Len(s)].read
               /\ f[0] = Start(s)
               /\ \A w \in 1..Len(s) : f[w] = Round(f[w - 1])
  BY ParseRuns
<1> DEFINE Good(w) == /\ f[w] \in K /\ f[w] \in Readings
                      /\ f[w].raw = <<>> \/ Len(f[w].raw) <= Len(s) - w
           X == {w \in Nat : w <= Len(s) => Good(w)}
<1>2. Good(0)
  <2> DEFINE x == [raw |-> s, read |-> <<>>, open |-> <<>>]
  <2>1. Start(s) = x
    BY ONLY Zenon DEF Start
  <2>2. x \in Readings /\ x.raw = s
    BY DEF Readings
  <2> HIDE DEF x
  <2>3. Len(s) <= Len(s) - 0
    OBVIOUS
  <2> QED BY ONLY <1>1, <2>1, <2>2, <2>3, Start(s) \in K, Zenon
<1>3. ASSUME NEW w \in Nat, w + 1 <= Len(s), Good(w)
      PROVE  Good(w + 1)
  <2> DEFINE x == f[w]
  <2>1. f[w + 1] = Round(x)
    <3>1. w + 1 \in 1..Len(s) /\ (w + 1) - 1 = w
      BY <1>3
    <3>2. f[w + 1] = Round(f[(w + 1) - 1])
      BY ONLY <1>1, <3>1, Zenon
    <3> QED BY ONLY <3>1, <3>2, Zenon
  <2>2. x \in K /\ x \in Readings /\ (x.raw = <<>> \/ Len(x.raw) <= Len(s) - w)
    BY ONLY <1>3, Zenon
  <2> HIDE DEF x
  <2> DEFINE y == Round(x)
  <2>3. y \in K
    BY ONLY <2>2, \A z \in K : z \in Readings => Round(z) \in K, Zenon
  <2>4. y \in Readings /\ (y.raw = <<>> \/ Len(y.raw) <= Len(s) - (w + 1))
    <3>1. CASE x.raw = <<>>
      <4>1. y = x
        BY ONLY <3>1, RoundRests, Zenon
      <4> HIDE DEF y
      <4> QED BY ONLY <2>2, <3>1, <4>1, Zenon
    <3>2. CASE x.raw # <<>>
      <4>1. Shorter(x, y)
        BY <2>2, <3>2, RoundTyped
      <4>2. y \in Readings /\ Len(y.raw) < Len(x.raw)
        BY ONLY <4>1, Zenon DEF Shorter
      <4> HIDE DEF y
      <4>3. Len(y.raw) \in Nat /\ Len(x.raw) \in Nat /\ Len(s) \in Nat
        <5>1. x.raw \in Seq(Tokens) /\ y.raw \in Seq(Tokens)
          BY ONLY <2>2, <4>2 DEF Readings
        <5> QED BY <5>1
      <4>4. Len(y.raw) <= Len(s) - (w + 1)
        BY ONLY <2>2, <3>2, <4>2, <4>3, w \in Nat
      <4> QED BY ONLY <4>2, <4>4, Zenon
    <3> QED BY <3>1, <3>2
  <2> HIDE DEF y
  <2> QED BY ONLY <2>1, <2>3, <2>4, Zenon DEF y
<1>4. Len(s) \in X
  <2> HIDE DEF Good
  <2>1. 0 \in X
    BY <1>2
  <2>2. \A w \in X : w \in Nat => w + 1 \in X
    <3> SUFFICES ASSUME NEW w \in Nat, w <= Len(s) => Good(w), w + 1 <= Len(s) PROVE Good(w + 1)
      OBVIOUS
    <3>1. w <= Len(s)
      OBVIOUS
    <3> QED BY <1>3, <3>1
  <2>3. Len(s) \in Nat
    OBVIOUS
  <2> HIDE DEF X
  <2> QED BY <2>1, <2>2, <2>3, EveryNat
<1>5. Good(Len(s))
  <2> HIDE DEF Good
  <2>1. Len(s) <= Len(s)
    OBVIOUS
  <2> QED BY ONLY <1>4, <2>1
<1> DEFINE x == f[Len(s)]
<1>6. x \in K /\ x \in Readings /\ (x.raw = <<>> \/ Len(x.raw) <= Len(s) - Len(s)) /\ ParseString(s) = x.read
  BY ONLY <1>1, <1>5, Zenon
<1> HIDE DEF x
<1>7. x.raw = <<>>
  <2>1. x.raw \in Seq(Tokens)
    BY ONLY <1>6 DEF Readings
  <2>2. Len(s) \in Nat /\ Len(x.raw) \in Nat
    BY <2>1
  <2>3. x.raw = <<>> \/ Len(x.raw) = 0
    BY ONLY <1>6, <2>2
  <2> QED BY <2>1, <2>3
<1> QED BY <1>6, <1>7

\* Whatever a string holds, what is read is elements whose types and keys can
\* be printed.
LEMMA ParsedTyped ==
    ASSUME NEW s \in Seq(Tokens)
    PROVE  ParseString(s) \in Seq(Sayable)
<1> DEFINE K == {x \in Readings : TRUE}
<1>1. Start(s) \in Readings
  <2>1. Start(s) = [raw |-> s, read |-> <<>>, open |-> <<>>]
    BY ONLY Zenon DEF Start
  <2> QED BY <2>1 DEF Readings
<1>2. ASSUME NEW x \in Readings PROVE Round(x) \in Readings
  <2>1. CASE x.raw = <<>>
    <3>1. Round(x) = x
      BY ONLY <2>1, RoundRests, Zenon
    <3> QED BY <3>1
  <2>2. CASE x.raw # <<>>
    <3>1. Shorter(x, Round(x))
      BY <2>2, RoundTyped
    <3> QED BY ONLY <3>1, Zenon DEF Shorter
  <2> QED BY <2>1, <2>2
<1>3. PICK x \in Readings : ParseString(s) = x.read
  <2>1. \E x \in Readings : x \in Readings /\ x.raw = <<>> /\ ParseString(s) = x.read
    BY ONLY <1>1, <1>2, s \in Seq(Tokens), ParseKeeps, Zenon
  <2> QED BY ONLY <2>1, Zenon
<1>4. x.read \in Seq(Sayable)
  BY DEF Readings
<1> QED BY <1>3, <1>4

\* And what was printed is read back.
LEMMA ParsedBack ==
    ASSUME NEW C \in CodeSets, NEW es \in Seq(Printables)
    PROVE  LET s == Each(Printed(C), es) IN
           /\ s \in Seq(Tokens)
           /\ ParseString(s) \in Seq(Printables)
           /\ Seen(ParseString(s)) = Seen(es)
<1> DEFINE s == Each(Printed(C), es)
           K == {x \in Readings : Between(x, es, C) \/ Within(x, es, C)}
<1>1. Printed(C) \in [Printables -> Seq(Tokens)] /\ Sight \in [Printables -> Seq(Seeable)]
  <2>1. C \in SUBSET Special
    BY CodeSetsSpecial
  <2> QED BY <2>1, PrintedTyped, SightTyped
<1>2. s \in Seq(Tokens) /\ Each(Sight, es) \in Seq(Seeable)
  BY <1>1, EachTyped
<1>3. Start(s) \in K
  <2>1. Start(s) = [raw |-> s, read |-> <<>>, open |-> <<>>]
    BY ONLY Zenon DEF Start
  <2>2. Each(Sight, <<>>) \o Each(Sight, es) = Each(Sight, es)
    BY ONLY <1>2, EachNone, NothingJoined, Zenon
  <2>3. Between(Start(s), es, C)
    BY ONLY <2>1, <2>2, Nones, es \in Seq(Printables), Zenon DEF Between
  <2>4. Start(s) \in Readings
    <3> HIDE DEF s
    <3> QED BY <1>2, <2>1 DEF Readings
  <2> QED BY ONLY <2>3, <2>4, Zenon
<1>4. ASSUME NEW x \in K PROVE Round(x) \in K
  <2>1. x \in Readings /\ (Between(x, es, C) \/ Within(x, es, C))
    BY ONLY <1>4, Zenon
  <2>2. CASE x.raw = <<>>
    <3>1. Round(x) = x
      BY ONLY <2>2, RoundRests, Zenon
    <3> QED BY ONLY <2>1, <3>1, Zenon
  <2>3. CASE x.raw # <<>>
    <3>1. Shorter(x, Round(x))
      BY <2>1, <2>3, RoundTyped
    <3>2. Round(x) \in Readings
      BY ONLY <3>1, Zenon DEF Shorter
    <3>3. Between(Round(x), es, C) \/ Within(Round(x), es, C)
      BY ONLY <2>1, <2>3, C \in CodeSets, es \in Seq(Printables), ReadBetween, ReadWithin, Zenon
    <3> QED BY ONLY <3>2, <3>3, Zenon
  <2> QED BY <2>2, <2>3
<1>5. PICK x \in K : x \in Readings /\ x.raw = <<>> /\ ParseString(s) = x.read
  <2> HIDE DEF K, s
  <2> QED BY ONLY <1>2, <1>3, <1>4, ParseKeeps, Zenon
<1>6. x.read \in Seq(Printables) /\ Each(Sight, x.read) = Each(Sight, es)
  <2>1. Between(x, es, C) \/ Within(x, es, C)
    BY ONLY <1>5, Zenon
  <2> QED BY ONLY <1>5, <2>1, C \in CodeSets, es \in Seq(Printables), ReadOut, Zenon
<1>7. Seen(x.read) = Each(Sight, x.read) /\ Seen(es) = Each(Sight, es)
  BY ONLY <1>6, es \in Seq(Printables), SeenIs, Zenon
<1> HIDE DEF s
<1>8. /\ s \in Seq(Tokens) /\ ParseString(s) \in Seq(Printables)
      /\ Seen(ParseString(s)) = Seen(es)
  BY ONLY <1>2, <1>5, <1>6, <1>7, Zenon
<1> QED BY ONLY <1>8, Zenon DEF s


-----------------------------------------------------------------------------
(* Segments: the lists that are printed.                                   *)

LEMMA Reversed ==
    ASSUME NEW S, NEW s \in Seq(S)
    PROVE  /\ Reverse(s) \in Seq(S) /\ Len(Reverse(s)) = Len(s) /\ Len(s) \in Nat
           /\ \A i \in 1..Len(s) : Reverse(s)[i] = s[(Len(s) - i) + 1] /\ (Len(s) - i) + 1 \in 1..Len(s)
BY DEF Reverse

LEMMA ReversedHolds ==
    ASSUME NEW S, NEW s \in Seq(S)
    PROVE  {Reverse(s)[j] : j \in 1..Len(Reverse(s))} = {s[j] : j \in 1..Len(s)}
<1> DEFINE r == Reverse(s)
           n == Len(s)
<1>1. /\ r \in Seq(S) /\ Len(r) = n /\ n \in Nat
      /\ \A i \in 1..n : r[i] = s[(n - i) + 1] /\ (n - i) + 1 \in 1..n
  BY Reversed
<1> HIDE DEF r, n
<1>2. \A j \in 1..n : s[j] = r[(n - j) + 1] /\ (n - j) + 1 \in 1..n
  <2> SUFFICES ASSUME NEW j \in 1..n PROVE s[j] = r[(n - j) + 1] /\ (n - j) + 1 \in 1..n
    OBVIOUS
  <2>1. (n - j) + 1 \in 1..n /\ (n - ((n - j) + 1)) + 1 = j
    BY <1>1
  <2> QED BY <1>1, <2>1
<1>3. \A i \in 1..n : \E j \in 1..n : r[i] = s[j]
  BY ONLY <1>1, Zenon
<1>4. \A i \in 1..n : \E j \in 1..n : s[i] = r[j]
  BY ONLY <1>2, Zenon
<1>5. {r[j] : j \in 1..n} = {s[j] : j \in 1..n}
  <2> DEFINE A == {r[j] : j \in 1..n}
             B == {s[j] : j \in 1..n}
  <2>1. ASSUME NEW x \in A PROVE x \in B
    <3>1. PICK i \in 1..n : x = r[i]
      BY ONLY <2>1, Zenon
    <3>2. PICK j \in 1..n : r[i] = s[j]
      BY ONLY <1>3, Zenon
    <3> QED BY ONLY <3>1, <3>2, Zenon
  <2>2. ASSUME NEW x \in B PROVE x \in A
    <3>1. PICK i \in 1..n : x = s[i]
      BY ONLY <2>2, Zenon
    <3>2. PICK j \in 1..n : s[i] = r[j]
      BY ONLY <1>4, Zenon
    <3> QED BY ONLY <3>1, <3>2, Zenon
  <2> HIDE DEF A, B
  <2>3. A = B
    BY ONLY <2>1, <2>2, Zenon
  <2> QED BY ONLY <2>3, Zenon DEF A, B
<1> QED BY ONLY <1>1, <1>5, Zenon DEF r, n

\* What a sequence holds.
Held(s) == {s[j] : j \in 1..Len(s)}

LEMMA ReversedHeld ==
    ASSUME NEW S, NEW s \in Seq(S)
    PROVE  Held(Reverse(s)) = Held(s)
BY ReversedHolds, Zenon DEF Held

\* Printing loses what a text has behind its first pair, and cannot print one
\* without a pair.
LEMMA PrintableOnes ==
    ASSUME NEW es \in Seq(Sayable), Printable(es)
    PROVE  es \in Seq(Printables)
<1>1. ASSUME NEW i \in 1..Len(es) PROVE es[i] \in Printables
  <2>1. es[i] \in Sayable
    OBVIOUS
  <2>2. es[i][1] = <<"text">> => es[i][2] # <<>>
    BY Zenon DEF Printable
  <2> QED BY <2>1, <2>2 DEF Printables
<1> QED BY <1>1

TextCodes == {"&", "[", "]"}
RawCodes == {"&", "["}

LEMMA AllPrinted ==
    ASSUME NEW es \in Seq(Printables)
    PROVE  /\ FlattenSeq([i \in 1..Len(es) |-> CQCode(es[i])]) = Each(Printed(TextCodes), es)
           /\ TextCodes \in CodeSets
<1>1. ASSUME NEW e \in Printables PROVE CQCode(e) = Printed(TextCodes)[e]
  <2>1. Printed(TextCodes)[e] = IF e[1] = <<"text">> THEN EscapeBy(e[2][1][2], TextCodes) ELSE CQCode(e)
    BY PrintedOne, Zenon
  <2>2. e[1] = <<"text">> => CQCode(e) = EscapeBy(e[2][1][2], TextCodes)
    BY ONLY Zenon DEF CQCode, EscapeText, TextCodes
  <2> QED BY ONLY <2>1, <2>2, Zenon
<1>2. \A i \in 1..Len(es) : es[i] \in Printables
  OBVIOUS
<1>3. [i \in 1..Len(es) |-> CQCode(es[i])] = [i \in 1..Len(es) |-> Printed(TextCodes)[es[i]]]
  BY ONLY <1>1, <1>2, Zenon
<1>4. TextCodes \in CodeSets
  BY DEF CodeSets, TextCodes
<1> QED BY ONLY <1>3, <1>4, Zenon DEF Each

LEMMA SentReadBack ==
    ASSUME NEW es \in Seq(Sayable), Printable(es)
    PROVE  Seen(ParseString(FlattenSeq([i \in 1..Len(es) |-> CQCode(es[i])]))) = Seen(es)
<1>1. es \in Seq(Printables)
  BY PrintableOnes
<1>2. /\ FlattenSeq([i \in 1..Len(es) |-> CQCode(es[i])]) = Each(Printed(TextCodes), es)
      /\ TextCodes \in CodeSets
  BY <1>1, AllPrinted
<1>3. Seen(ParseString(Each(Printed(TextCodes), es))) = Seen(es)
  BY ONLY <1>1, <1>2, ParsedBack, Zenon
<1> QED BY ONLY <1>2, <1>3, Zenon

\* An element as formatWeixinRawMessage prints it.
Turned(content, swap, i) ==
    IF content[i][1] # <<"text">> /\ i \in swap THEN <<content[i][1], Reverse(content[i][2])>>
    ELSE content[i]

LEMMA TurnedSame ==
    ASSUME NEW content \in Seq(Printables), NEW swap, NEW i \in 1..Len(content)
    PROVE  /\ Turned(content, swap, i) \in Printables
           /\ Turned(content, swap, i)[1] = content[i][1]
           /\ Sight[Turned(content, swap, i)] = Sight[content[i]]
<1> DEFINE e == content[i]
           g == <<e[1], Reverse(e[2])>>
<1>1. e \in Printables
  OBVIOUS
<1> HIDE DEF e
<1>2. CASE e[1] # <<"text">> /\ i \in swap
  <2>1. e[1] \in Seq(Tokens \ Stops) /\ e[2] \in Seq(Pairs)
    BY <1>1, ElementTyped DEF Printables
  <2>2. Reverse(e[2]) \in Seq(Pairs)
    BY <2>1, Reversed
  <2>3. g \in Sayable /\ g[1] = e[1] /\ g[2] = Reverse(e[2])
    BY <2>1, <2>2, ElementMade
  <2> HIDE DEF g
  <2>4. g \in Printables
    BY <1>2, <2>3 DEF Printables
  <2>5. {g[2][j] : j \in 1..Len(g[2])} = {e[2][j] : j \in 1..Len(e[2])}
    <3>1. Held(Reverse(e[2])) = Held(e[2])
      BY ONLY <2>1, ReversedHeld, Zenon
    <3>2. Held(g[2]) = Held(e[2])
      BY ONLY <2>3, <3>1, Zenon
    <3> QED BY ONLY <3>2, Zenon DEF Held
  <2>6. /\ Sight[e] = <<<<e[1], {e[2][j] : j \in 1..Len(e[2])}>>>>
        /\ Sight[g] = <<<<g[1], {g[2][j] : j \in 1..Len(g[2])}>>>>
    BY ONLY <1>1, <1>2, <2>3, <2>4, SightOne, Zenon
  <2>7. Sight[g] = Sight[e]
    BY ONLY <2>3, <2>5, <2>6, Zenon
  <2>8. Turned(content, swap, i) = g
    BY ONLY <1>2, Zenon DEF Turned, e, g
  <2> QED BY ONLY <2>3, <2>4, <2>7, <2>8, Zenon DEF e
<1>3. CASE ~(e[1] # <<"text">> /\ i \in swap)
  <2>1. Turned(content, swap, i) = e
    BY ONLY <1>3, Zenon DEF Turned, e
  <2> QED BY ONLY <1>1, <2>1, Zenon DEF e
<1> QED BY <1>2, <1>3

PlainTexts(content) ==
    \A i \in 1..Len(content) : content[i][1] = <<"text">> => Plain(content[i][2][1][2])

LEMMA RawPrinted ==
    ASSUME NEW content \in Seq(Printables), NEW swap, PlainTexts(content)
    PROVE  Raw(content, swap) = Each(Printed(RawCodes), [i \in 1..Len(content) |-> Turned(content, swap, i)])
<1> DEFINE given == [i \in 1..Len(content) |-> Turned(content, swap, i)]
           Shown1(i) == IF content[i][1] = <<"text">> THEN content[i][2][1][2]
                        ELSE IF i \in swap THEN CQCode(<<content[i][1], Reverse(content[i][2])>>)
                        ELSE CQCode(content[i])
<1>1. ASSUME NEW i \in 1..Len(content) PROVE Shown1(i) = Printed(RawCodes)[Turned(content, swap, i)]
  <2> DEFINE g == Turned(content, swap, i)
  <2>1. g \in Printables /\ g[1] = content[i][1]
    BY TurnedSame
  <2>2. Printed(RawCodes)[g] = IF g[1] = <<"text">> THEN EscapeBy(g[2][1][2], RawCodes) ELSE CQCode(g)
    BY ONLY <2>1, PrintedOne, Zenon
  <2>3. CASE content[i][1] = <<"text">>
    <3> DEFINE t == content[i][2][1][2]
    <3>1. g = content[i] /\ t \in Seq(Tokens)
      <4>1. content[i] \in Printables
        OBVIOUS
      <4>2. t \in Seq(Tokens)
        BY <2>3, <4>1, TextValue
      <4> QED BY ONLY <2>3, <4>2, Zenon DEF Turned
    <3>2. Plain(t)
      BY <2>3, Zenon DEF PlainTexts
    <3> HIDE DEF t
    <3>3. t \in Seq(Tokens \ RawCodes)
      <4>1. \A j \in 1..Len(t) : t[j] \notin RawCodes
        BY <3>2 DEF Plain, RawCodes
      <4> QED BY <3>1, <4>1
    <3>4. EscapeBy(t, RawCodes) = t
      BY <3>3, EscapeNothing
    <3>5. Shown1(i) = t
      BY ONLY <2>3, Zenon DEF t
    <3>6. g[1] = <<"text">> /\ g[2][1][2] = t
      BY ONLY <2>1, <2>3, <3>1, Zenon DEF t
    <3> HIDE DEF g, Shown1
    <3>7. Printed(RawCodes)[g] = EscapeBy(g[2][1][2], RawCodes)
      BY ONLY <2>2, <3>6, Zenon
    <3> QED BY ONLY <3>4, <3>5, <3>6, <3>7, Zenon DEF g
  <2>4. CASE content[i][1] # <<"text">>
    <3>1. Shown1(i) = CQCode(g)
      BY ONLY <2>4, Zenon DEF Turned
    <3> HIDE DEF g, Shown1
    <3> QED BY ONLY <2>1, <2>2, <2>4, <3>1, Zenon DEF g
  <2> QED BY <2>3, <2>4
<1>2. Len(given) = Len(content) /\ \A i \in 1..Len(content) : given[i] = Turned(content, swap, i)
  OBVIOUS
<1>3. Raw(content, swap) = FlattenSeq([i \in 1..Len(content) |-> Shown1(i)])
  BY ONLY Zenon DEF Raw
<1> HIDE DEF given, Shown1
<1>4. [i \in 1..Len(content) |-> Shown1(i)] = [i \in 1..Len(given) |-> Printed(RawCodes)[given[i]]]
  BY ONLY <1>1, <1>2, Zenon
<1>5. Raw(content, swap) = Each(Printed(RawCodes), given)
  BY ONLY <1>3, <1>4, Zenon DEF Each
<1> QED BY ONLY <1>5, Zenon DEF given

LEMMA RawReadBack ==
    ASSUME NEW content \in Seq(Printables), NEW swap, PlainTexts(content)
    PROVE  Seen(ParseString(Raw(content, swap))) = Seen(content)
<1> DEFINE given == [i \in 1..Len(content) |-> Turned(content, swap, i)]
<1>1. \A i \in 1..Len(content) : Turned(content, swap, i) \in Printables
  BY TurnedSame
<1>2. given \in Seq(Printables)
  BY <1>1
<1>3. RawCodes \in CodeSets
  BY DEF CodeSets, RawCodes
<1>4. Raw(content, swap) = Each(Printed(RawCodes), given)
  BY RawPrinted
<1>5. Len(given) = Len(content) /\ \A i \in 1..Len(content) : given[i] = Turned(content, swap, i)
  OBVIOUS
<1> HIDE DEF given
<1>6. Seen(ParseString(Each(Printed(RawCodes), given))) = Seen(given)
  BY ONLY <1>2, <1>3, ParsedBack, Zenon
<1>7. Each(Sight, given) = Each(Sight, content)
  <2>1. \A i \in 1..Len(content) : Sight[given[i]] = Sight[content[i]]
    <3> SUFFICES ASSUME NEW i \in 1..Len(content) PROVE Sight[given[i]] = Sight[content[i]]
      OBVIOUS
    <3>1. Sight[Turned(content, swap, i)] = Sight[content[i]]
      BY TurnedSame
    <3> QED BY ONLY <1>5, <3>1, i \in 1..Len(content), Zenon
  <2>2. [i \in 1..Len(given) |-> Sight[given[i]]] = [i \in 1..Len(content) |-> Sight[content[i]]]
    BY ONLY <1>5, <2>1, Zenon
  <2> QED BY ONLY <2>2, Zenon DEF Each
<1>8. Seen(given) = Each(Sight, given) /\ Seen(content) = Each(Sight, content)
  BY ONLY <1>2, content \in Seq(Printables), SeenIs, Zenon
<1> QED BY ONLY <1>4, <1>6, <1>7, <1>8, Zenon


-----------------------------------------------------------------------------
(* Segments: an array is sent as a string would be.                        *)

LEMMA MostThere ==
    ASSUME NEW n \in Nat, NEW S \in SUBSET (1..n), S # {}
    PROVE  Max(S) \in S
<1> DEFINE D == {n - y : y \in S}
<1>1. D \in SUBSET Nat /\ D # {}
  <2>1. \A y \in S : n - y \in Nat
    <3> SUFFICES ASSUME NEW y \in S PROVE n - y \in Nat
      OBVIOUS
    <3>1. y \in 1..n
      OBVIOUS
    <3> QED BY ONLY <3>1, n \in Nat
  <2>2. \A d \in D : d \in Nat
    BY ONLY <2>1, Zenon
  <2>3. PICK y : y \in S
    OBVIOUS
  <2>4. n - y \in D
    BY ONLY <2>3, Zenon
  <2> HIDE DEF D
  <2> QED BY ONLY <2>2, <2>4
<1>2. Min(D) \in D /\ \A d \in D : Min(D) <= d
  <2> HIDE DEF D
  <2> QED BY <1>1, LeastThere
<1>3. PICK x \in S : Min(D) = n - x
  BY <1>2
<1>4. \A y \in S : x >= y
  <2> SUFFICES ASSUME NEW y \in S PROVE x >= y
    OBVIOUS
  <2>1. n - y \in D
    OBVIOUS
  <2>2. n - x <= n - y
    BY <1>2, <1>3, <2>1
  <2>3. x \in Nat /\ y \in Nat
    OBVIOUS
  <2> QED BY ONLY <2>2, <2>3, n \in Nat
<1>5. \E z \in S : \A y \in S : z >= y
  BY <1>4
<1> QED BY ONLY <1>5, Zenon DEF Max

\* Keys differ.
Keyed(pairs) == \A i, j \in 1..Len(pairs) : pairs[i][1] = pairs[j][1] => i = j

LEMMA GetThere ==
    ASSUME NEW pairs \in Seq(Pairs), Keyed(pairs), NEW j \in 1..Len(pairs)
    PROVE  Get(pairs, pairs[j][1]) = pairs[j][2]
<1> DEFINE key == pairs[j][1]
           I == {i \in 1..Len(pairs) : pairs[i][1] = key}
           at == IF I # {} THEN Min(I) ELSE 0
<1>1. Get(pairs, key) = IF at = 0 THEN <<>> ELSE pairs[at][2]
  BY ONLY Zenon DEF Get, SelectInSeq
<1>2. j \in I
  OBVIOUS
<1>3. \A i \in I : i = j
  BY DEF Keyed
<1>4. Min(I) = j
  <2>1. I \in SUBSET Nat /\ \A m \in I : j <= m
    BY <1>3
  <2> HIDE DEF I
  <2> QED BY <1>2, <2>1, LeastIs
<1>5. at = j /\ at # 0
  BY <1>2, <1>4
<1> HIDE DEF at
<1> QED BY ONLY <1>1, <1>5, Zenon

LEMMA GetNone ==
    ASSUME NEW pairs, NEW key, \A j \in 1..Len(pairs) : pairs[j][1] # key
    PROVE  Get(pairs, key) = <<>>
<1> DEFINE I == {i \in 1..Len(pairs) : pairs[i][1] = key}
           at == IF I # {} THEN Min(I) ELSE 0
<1>1. Get(pairs, key) = IF at = 0 THEN <<>> ELSE pairs[at][2]
  BY ONLY Zenon DEF Get, SelectInSeq
<1>2. I = {}
  OBVIOUS
<1>3. at = 0
  BY <1>2
<1> HIDE DEF at
<1> QED BY ONLY <1>1, <1>3, Zenon

\* Where pairs come in is all the same to Get.
LEMMA GetReversed ==
    ASSUME NEW pairs \in Seq(Pairs), Keyed(pairs), NEW key
    PROVE  Get(Reverse(pairs), key) = Get(pairs, key)
<1> DEFINE r == Reverse(pairs)
           n == Len(pairs)
<1>1. /\ r \in Seq(Pairs) /\ Len(r) = n /\ n \in Nat
      /\ \A i \in 1..n : r[i] = pairs[(n - i) + 1] /\ (n - i) + 1 \in 1..n
  BY Reversed
<1> HIDE DEF r
<1>2. Keyed(r)
  <2> SUFFICES ASSUME NEW i \in 1..n, NEW j \in 1..n, r[i][1] = r[j][1] PROVE i = j
    BY <1>1 DEF Keyed
  <2>1. pairs[(n - i) + 1][1] = pairs[(n - j) + 1][1]
    BY <1>1
  <2>2. (n - i) + 1 = (n - j) + 1
    BY <1>1, <2>1 DEF Keyed
  <2> QED BY <1>1, <2>2
<1>3. CASE \E j \in 1..n : pairs[j][1] = key
  <2>1. PICK j \in 1..n : pairs[j][1] = key
    BY <1>3
  <2> DEFINE i == (n - j) + 1
  <2>2. i \in 1..n /\ r[i] = pairs[j]
    <3>1. i \in 1..n /\ (n - i) + 1 = j
      BY <1>1
    <3> QED BY <1>1, <3>1
  <2> HIDE DEF i
  <2>3. Get(r, r[i][1]) = r[i][2]
    BY <1>1, <1>2, <2>2, GetThere
  <2>4. Get(pairs, pairs[j][1]) = pairs[j][2]
    BY GetThere
  <2> QED BY ONLY <2>1, <2>2, <2>3, <2>4, Zenon DEF r
<1>4. CASE \A j \in 1..n : pairs[j][1] # key
  <2>1. \A j \in 1..Len(r) : r[j][1] # key
    BY <1>1, <1>4
  <2>2. Get(r, key) = <<>>
    BY ONLY <2>1, GetNone, Zenon
  <2>3. Get(pairs, key) = <<>>
    BY ONLY <1>4, GetNone, Zenon
  <2> QED BY ONLY <2>2, <2>3, Zenon DEF r
<1> QED BY <1>3, <1>4

\* Elements of one type that answer Get alike are sent alike.
Alike(e, g) == g[1] = e[1] /\ \A key : Get(g[2], key) = Get(e[2], key)

LEMMA AlikeSent ==
    ASSUME NEW e, NEW g, Alike(e, g)
    PROVE  (Wrong(g) <=> Wrong(e)) /\ Segment(g) = Segment(e)
<1>1. g[1] = e[1] /\ \A key : Get(g[2], key) = Get(e[2], key)
  BY ONLY Alike(e, g), Zenon DEF Alike
<1>2. File(g[2]) = File(e[2])
  BY ONLY <1>1, Zenon DEF File
<1>3. Get(g[2], <<"id">>) = Get(e[2], <<"id">>) /\ Get(g[2], <<"text">>) = Get(e[2], <<"text">>)
      /\ Get(g[2], <<"name">>) = Get(e[2], <<"name">>)
  BY ONLY <1>1, Zenon
<1>4. Wrong(g) <=> Wrong(e)
  BY ONLY <1>1, <1>2, <1>3, Zenon DEF Wrong
<1>5. Segment(g) = Segment(e)
  BY ONLY <1>1, <1>2, <1>3, Zenon DEF Segment
<1> QED BY ONLY <1>4, <1>5, Zenon

LEMMA AlikeBuilt ==
    ASSUME NEW n \in Nat, NEW es, NEW gs, Len(es) = n, Len(gs) = n,
           \A i \in 1..n : Alike(es[i], gs[i])
    PROVE  Build(gs) = Build(es)
<1> DEFINE I == {i \in 1..Len(es) : es[i][1] = <<"reply">>}
           J == {i \in 1..Len(gs) : gs[i][1] = <<"reply">>}
           last(K) == IF K # {} THEN Max(K) ELSE 0
           prefix(xs, at) == IF at = 0 THEN <<>> ELSE ReplyPrefix(Get(xs[at][2], <<"id">>))
           all(xs) == FlattenSeq([i \in 1..Len(xs) |-> Segment(xs[i])])
           built(xs, at) ==
               IF \E i \in 1..Len(xs) : Wrong(xs[i]) THEN <<"error">>
               ELSE (IF prefix(xs, at) = <<>> THEN <<>>
                     ELSE <<[type |-> "text", text |-> prefix(xs, at)]>>) \o all(xs)
<1>1. Build(es) = built(es, last(I)) /\ Build(gs) = built(gs, last(J))
  BY ONLY Zenon DEF Build, SelectLastInSeq
<1>2. \A i \in 1..n : /\ gs[i][1] = es[i][1] /\ (Wrong(gs[i]) <=> Wrong(es[i]))
                      /\ Segment(gs[i]) = Segment(es[i])
                      /\ Get(gs[i][2], <<"id">>) = Get(es[i][2], <<"id">>)
  <2> SUFFICES ASSUME NEW i \in 1..n
               PROVE  /\ gs[i][1] = es[i][1] /\ (Wrong(gs[i]) <=> Wrong(es[i]))
                      /\ Segment(gs[i]) = Segment(es[i])
                      /\ Get(gs[i][2], <<"id">>) = Get(es[i][2], <<"id">>)
    OBVIOUS
  <2>1. Alike(es[i], gs[i])
    OBVIOUS
  <2>2. /\ gs[i][1] = es[i][1] /\ Get(gs[i][2], <<"id">>) = Get(es[i][2], <<"id">>)
    BY ONLY <2>1, Zenon DEF Alike
  <2>3. (Wrong(gs[i]) <=> Wrong(es[i])) /\ Segment(gs[i]) = Segment(es[i])
    BY ONLY <2>1, AlikeSent, Zenon
  <2> QED BY ONLY <2>2, <2>3, Zenon
<1>3. J = I
  <2>1. J = {i \in 1..n : gs[i][1] = <<"reply">>} /\ I = {i \in 1..n : es[i][1] = <<"reply">>}
    BY ONLY Len(es) = n, Len(gs) = n, Zenon
  <2>2. \A i \in 1..n : gs[i][1] = <<"reply">> <=> es[i][1] = <<"reply">>
    BY ONLY <1>2, Zenon
  <2>3. {i \in 1..n : gs[i][1] = <<"reply">>} = {i \in 1..n : es[i][1] = <<"reply">>}
    BY ONLY <2>2, Zenon
  <2> QED BY ONLY <2>1, <2>3, Zenon
<1> DEFINE at == last(I)
<1>4. at = 0 \/ at \in 1..n
  <2>1. CASE I = {}
    BY <2>1
  <2>2. CASE I # {}
    <3>1. I \in SUBSET (1..n)
      OBVIOUS
    <3>2. Max(I) \in I
      <4> HIDE DEF I
      <4> QED BY <2>2, <3>1, MostThere
    <3> QED BY <2>2, <3>1, <3>2
  <2> QED BY <2>1, <2>2
<1>5. Build(es) = built(es, at) /\ Build(gs) = built(gs, at)
  <2> HIDE DEF I, J, built, last
  <2> QED BY ONLY <1>1, <1>3, Zenon
<1> HIDE DEF at
<1>6. prefix(gs, at) = prefix(es, at)
  BY ONLY <1>2, <1>4, Zenon
<1>7. all(gs) = all(es)
  <2>1. [i \in 1..Len(gs) |-> Segment(gs[i])] = [i \in 1..Len(es) |-> Segment(es[i])]
    BY ONLY <1>2, Len(es) = n, Len(gs) = n, Zenon
  <2> QED BY ONLY <2>1, Zenon
<1>8. (\E i \in 1..Len(gs) : Wrong(gs[i])) <=> (\E i \in 1..Len(es) : Wrong(es[i]))
  BY ONLY <1>2, Len(es) = n, Len(gs) = n, Zenon
<1>9. built(gs, at) = built(es, at)
  <2> HIDE DEF prefix, all
  <2> QED BY ONLY <1>6, <1>7, <1>8, Zenon
<1> HIDE DEF built
<1> QED BY ONLY <1>5, <1>9, Zenon


-----------------------------------------------------------------------------
(* Segments: its states.                                                   *)

\* What the assumption says of the arrays sent.
LEMMA ArraysTyped ==
    ASSUME NEW es \in Payloads
    PROVE  es \in Seq(Sayable) /\ \A i \in 1..Len(es) : es[i][2] \in Seq(Pairs) /\ Keyed(es[i][2])
<1> DEFINE Txt == Seq(Tokens)
           Two == Txt \X Txt
<1>1. es \in Seq(Txt \X Seq(Two))
  <2>1. Payloads \subseteq Seq(Txt \X Seq(Two))
    BY SegmentsAssumption, Zenon DEF Elements, Texts
  <2> HIDE DEF Two, Txt
  <2> QED BY <2>1
<1>2. \A i \in 1..Len(es) :
         /\ \A j \in 1..Len(es[i][1]) : es[i][1][j] \notin Stops
         /\ \A j \in 1..Len(es[i][2]) :
               /\ \A h \in 1..Len(es[i][2][j][1]) : es[i][2][j][1][h] # "="
               /\ \A h \in 1..Len(es[i][2]) : es[i][2][h][1] = es[i][2][j][1] => h = j
  BY SegmentsAssumption, Zenon DEF Stops
<1>3. ASSUME NEW i \in 1..Len(es)
      PROVE  es[i] \in Sayable /\ es[i][2] \in Seq(Pairs) /\ Keyed(es[i][2])
  <2> DEFINE e == es[i]
             pairs == e[2]
  <2>1. e[1] \in Txt /\ pairs \in Seq(Two) /\ e = <<e[1], pairs>>
    <3>1. e \in Txt \X Seq(Two)
      <4> HIDE DEF Two, Txt
      <4> QED BY <1>1
    <3> HIDE DEF Two, Txt
    <3> QED BY <3>1
  <2>2. /\ \A j \in 1..Len(e[1]) : e[1][j] \notin Stops
        /\ \A j \in 1..Len(pairs) :
              /\ \A h \in 1..Len(pairs[j][1]) : pairs[j][1][h] # "="
              /\ \A h \in 1..Len(pairs) : pairs[h][1] = pairs[j][1] => h = j
    BY ONLY <1>2, i \in 1..Len(es), Zenon
  <2> HIDE DEF pairs, e
  <2>3. e[1] \in Seq(Tokens \ Stops)
    <3> DEFINE type == e[1]
    <3>1. type \in Seq(Tokens) /\ \A j \in 1..Len(type) : type[j] \notin Stops
      BY <2>1, <2>2
    <3> HIDE DEF type
    <3>2. type \in Seq(Tokens \ Stops)
      BY ONLY <3>1
    <3> QED BY <3>2 DEF type
  <2>4. ASSUME NEW j \in 1..Len(pairs) PROVE pairs[j] \in Pairs
    <3> DEFINE p == pairs[j]
               key == p[1]
    <3>1. p \in Two
      BY <2>1
    <3> HIDE DEF p
    <3>2. key \in Seq(Tokens) /\ p[2] \in Seq(Tokens) /\ p = <<key, p[2]>>
      BY ONLY <3>1
    <3>3. \A h \in 1..Len(key) : key[h] # "="
      BY ONLY <2>2, j \in 1..Len(pairs), Zenon DEF p
    <3> HIDE DEF key
    <3>4. key \in Seq(Tokens \ {"="})
      BY ONLY <3>2, <3>3
    <3>5. <<key, p[2]>> \in Pairs
      BY ONLY <3>2, <3>4 DEF Pairs
    <3> QED BY ONLY <3>2, <3>5, Zenon DEF p
  <2>5. pairs \in Seq(Pairs)
    <3> HIDE DEF Two
    <3> QED BY <2>1, <2>4
  <2>6. Keyed(pairs)
    BY ONLY <2>2, Zenon DEF Keyed
  <2>7. e \in Sayable
    <3>1. <<e[1], pairs>> \in Sayable
      BY <2>3, <2>5, ElementMade
    <3> QED BY ONLY <2>1, <3>1, Zenon
  <2> QED BY ONLY <2>5, <2>6, <2>7, Zenon DEF e, pairs
<1>4. es \in Seq(Sayable)
  <2> HIDE DEF Two, Txt
  <2> QED BY <1>1, <1>3
<1> QED BY <1>3, <1>4

\* What it says of the segments received.
LEMMA ContentTyped ==
    ASSUME NEW list \in Inbound
    PROVE  Normalized(list) \in Seq(Printables)
<1>1. Len(list) \in Nat
  BY SegmentsAssumption, Zenon
<1> DEFINE One(g) ==
            CASE g.type = "text" -> Text(g.text)
              [] g.type = "file" ->
                   Text(IF g.name = <<>> THEN <<"[", "file", "]">>
                          ELSE <<"[", "file", "]">> \o g.name)
              [] OTHER -> <<<<g.type>>, <<<<<<"file">>, g.file>>, <<<<"url">>, <<>>>>>>>>
<1>2. Normalized(list) = [i \in 1..Len(list) |-> One(list[i])]
  BY ONLY Zenon DEF Normalized
<1>3. ASSUME NEW i \in 1..Len(list) PROVE One(list[i]) \in Printables
  <2> DEFINE g == list[i]
  <2>1. /\ g.type \in {"text", "file", "image", "record", "video"}
        /\ g.type = "text" => g.text \in Seq(Tokens)
        /\ g.type = "file" => g.name \in Seq(Tokens)
        /\ g.type # "text" => g.file \in Seq(Tokens)
    BY SegmentsAssumption, Zenon DEF Texts
  <2> HIDE DEF g
  <2>2. CASE g.type = "text"
    <3>1. Text(g.text) \in Printables
      BY <2>1, <2>2, TextMade
    <3>2. One(g) = Text(g.text)
      BY ONLY <2>2, Zenon
    <3> QED BY ONLY <3>1, <3>2, Zenon DEF g
  <2>3. CASE g.type = "file"
    <3> DEFINE front == <<"[", "file", "]">>
               t == IF g.name = <<>> THEN front ELSE front \o g.name
    <3>1. front \in Seq(Tokens)
      <4>1. "[" \in Tokens /\ "file" \in Tokens /\ "]" \in Tokens
        BY TokensThere, Zenon
      <4>2. \A a, b, c \in Tokens : <<a, b, c>> \in Seq(Tokens)
        OBVIOUS
      <4> QED BY ONLY <4>1, <4>2, Zenon
    <3> HIDE DEF front
    <3>2. t \in Seq(Tokens)
      BY <2>1, <2>3, <3>1
    <3>3. Text(t) \in Printables
      BY <3>2, TextMade
    <3>4. One(g) = Text(t)
      BY ONLY <2>3, g.type # "text", Zenon DEF front
    <3> QED BY ONLY <3>3, <3>4, Zenon DEF g
  <2>4. CASE g.type \notin {"text", "file"}
    <3> DEFINE type == <<g.type>>
               k1 == <<"file">>
               k2 == <<"url">>
               none == <<>>
               p1 == <<k1, g.file>>
               p2 == <<k2, none>>
               pairs == <<p1, p2>>
               e == <<type, pairs>>
    <3>1. g.type \in Tokens /\ g.type \notin Stops /\ g.type # "text" /\ g.file \in Seq(Tokens)
      <4>1. g.type \in {"image", "record", "video"}
        BY <2>1, <2>4
      <4>2. "image" \notin Stops /\ "record" \notin Stops /\ "video" \notin Stops
        BY Zenon DEF Stops
      <4>3. "image" \in Tokens /\ "record" \in Tokens /\ "video" \in Tokens
        BY TokensThere, Zenon
      <4>4. g.type = "image" \/ g.type = "record" \/ g.type = "video"
        BY ONLY <4>1
      <4>5. g.type \in Tokens /\ g.type \notin Stops
        BY ONLY <4>2, <4>3, <4>4, Zenon
      <4> QED BY <2>1, <2>4, <4>5
    <3>2. type \in Seq(Tokens \ Stops)
      BY <3>1
    <3>3. type # <<"text">>
      BY <3>1
    <3>4. k1 \in Seq(Tokens \ {"="}) /\ k2 \in Seq(Tokens \ {"="}) /\ none \in Seq(Tokens)
      <4>1. "file" \in Tokens /\ "url" \in Tokens
        BY TokensThere, Zenon
      <4>2. "file" # "=" /\ "url" # "="
        BY Zenon
      <4> QED BY <4>1, <4>2
    <3> HIDE DEF k1, k2, none, type
    <3>5. p1 \in Pairs /\ p2 \in Pairs
      BY ONLY <3>1, <3>4 DEF Pairs
    <3> HIDE DEF p1, p2
    <3>6. pairs \in Seq(Pairs)
      BY ONLY <3>5
    <3> HIDE DEF pairs
    <3>7. e \in Sayable /\ e[1] = type
      BY ONLY <3>2, <3>6, ElementMade
    <3> HIDE DEF e
    <3>8. e \in Printables
      BY ONLY <3>3, <3>7 DEF Printables
    <3>9. One(g) = e
      BY ONLY <2>4, g.type # "text", g.type # "file", Zenon DEF e, type, pairs, p1, p2, k1, k2, none
    <3> QED BY ONLY <3>8, <3>9, Zenon DEF g
  <2> QED BY <2>2, <2>3, <2>4
<1> HIDE DEF One
<1>4. [i \in 1..Len(list) |-> One(list[i])] \in Seq(Printables)
  BY ONLY <1>1, <1>3
<1> QED BY ONLY <1>2, <1>4, Zenon

\* A raw_message is the printed content, and an array was sent as it is.
ReadInv ==
    /\ reported.content \in Seq(Printables)
    /\ \E swap : reported.raw = Raw(reported.content, swap)
    /\ sent.elements \in Seq(Sayable)
    /\ sent.segments = Build(sent.elements)

LEMMA ReadInvReadBack ==
    ASSUME ReadInv
    PROVE  ReadBack
<1>1. PICK swap : reported.raw = Raw(reported.content, swap)
  BY Zenon DEF ReadInv
<1>2. reported.content \in Seq(Printables) /\ sent.elements \in Seq(Sayable)
      /\ sent.segments = Build(sent.elements)
  BY Zenon DEF ReadInv
<1>3. Printable(sent.elements) =>
        Seen(ParseString(FlattenSeq([i \in 1..Len(sent.elements) |-> CQCode(sent.elements[i])])))
          = Seen(sent.elements)
  BY ONLY <1>2, SentReadBack, Zenon
<1>4. PlainTexts(reported.content) => Seen(ParseString(reported.raw)) = Seen(reported.content)
  BY ONLY <1>1, <1>2, RawReadBack, Zenon
<1> QED BY ONLY <1>2, <1>3, <1>4, Zenon DEF ReadBack, PlainTexts

LEMMA NothingSentInv ==
    ASSUME NEW x, x = NothingSent
    PROVE  x.elements \in Seq(Sayable) /\ x.segments = Build(x.elements)
<1>1. x.elements = <<>> /\ x.segments = <<>>
  BY DEF NothingSent
<1> DEFINE none == <<>>
           I == {i \in 1..Len(none) : none[i][1] = <<"reply">>}
           at == IF I # {} THEN Max(I) ELSE 0
           prefix == IF at = 0 THEN <<>> ELSE ReplyPrefix(Get(none[at][2], <<"id">>))
           list == [i \in 1..Len(none) |-> Segment(none[i])]
<1>2. 1..Len(none) = {}
  OBVIOUS
<1>3. I = {}
  BY <1>2
<1>4. prefix = <<>>
  BY ONLY <1>3, Zenon
<1>5. list = <<>>
  BY ONLY <1>2
<1>6. Build(none) = IF \E i \in 1..Len(none) : Wrong(none[i]) THEN <<"error">>
        ELSE (IF prefix = <<>> THEN <<>> ELSE <<[type |-> "text", text |-> prefix]>>) \o FlattenSeq(list)
  BY ONLY Zenon DEF Build, SelectLastInSeq
<1>7. ~ \E i \in 1..Len(none) : Wrong(none[i])
  BY ONLY <1>2
<1> HIDE DEF prefix, list
<1>8. Build(none) = <<>> \o FlattenSeq(<<>>)
  BY ONLY <1>4, <1>5, <1>6, <1>7, Zenon
<1>9. FlattenSeq(<<>>) = <<>> /\ <<>> \o <<>> = <<>>
  <2>1. <<>> \o <<>> = <<>>
    OBVIOUS
  <2> QED BY ONLY <2>1, FlattenedNone, Zenon
<1>10. none \in Seq(Sayable)
  OBVIOUS
<1> QED BY ONLY <1>1, <1>8, <1>9, <1>10, Zenon

LEMMA NothingToldInv ==
    ASSUME NEW x, x = NothingReported
    PROVE  x.content \in Seq(Printables) /\ \E swap : x.raw = Raw(x.content, swap)
<1>1. x.content = <<>> /\ x.raw = <<>>
  BY DEF NothingReported
<1> DEFINE none == <<>>
           Shown1(i) == IF none[i][1] = <<"text">> THEN none[i][2][1][2]
                        ELSE IF i \in {} THEN CQCode(<<none[i][1], Reverse(none[i][2])>>)
                        ELSE CQCode(none[i])
<1>2. Raw(none, {}) = FlattenSeq([i \in 1..Len(none) |-> Shown1(i)])
  BY ONLY Zenon DEF Raw
<1>3. [i \in 1..Len(none) |-> Shown1(i)] = <<>>
  <2> HIDE DEF Shown1
  <2> QED OBVIOUS
<1>4. Raw(none, {}) = <<>>
  <2> HIDE DEF Shown1
  <2> QED BY ONLY <1>2, <1>3, FlattenedNone, Zenon
<1> QED BY ONLY <1>1, <1>4, Nones, Zenon

LEMMA InitReadInv ==
    ASSUME SegmentsInit
    PROVE  ReadInv
<1>1. reported = NothingReported /\ sent = NothingSent
  BY Zenon DEF SegmentsInit
<1> QED BY ONLY <1>1, NothingSentInv, NothingToldInv, Zenon DEF ReadInv

LEMMA StringParsed ==
    ASSUME NEW s \in Strings
    PROVE  ParseString(s) \in Seq(Sayable)
<1>1. s \in Seq(Tokens)
  <2>1. Strings \subseteq Seq(Tokens)
    BY SegmentsAssumption, Zenon DEF Texts
  <2> QED BY <2>1
<1> QED BY <1>1, ParsedTyped

LEMMA ArrayAlike ==
    ASSUME NEW es \in Payloads, NEW swap, NEW i \in 1..Len(es)
    PROVE  Alike(es[i], IF i \in swap THEN <<es[i][1], Reverse(es[i][2])>> ELSE es[i])
<1> DEFINE g == IF i \in swap THEN <<es[i][1], Reverse(es[i][2])>> ELSE es[i]
<1>1. es[i][2] \in Seq(Pairs) /\ Keyed(es[i][2])
  BY ArraysTyped
<1>2. CASE i \in swap
  <2>1. g[1] = es[i][1] /\ g[2] = Reverse(es[i][2])
    BY <1>2
  <2> HIDE DEF g
  <2>2. \A key : Get(Reverse(es[i][2]), key) = Get(es[i][2], key)
    BY ONLY <1>1, GetReversed, Zenon
  <2>3. Alike(es[i], g)
    BY ONLY <2>1, <2>2, Zenon DEF Alike
  <2> QED BY ONLY <2>3, Zenon DEF g
<1>3. CASE i \notin swap
  <2>1. g = es[i]
    BY <1>3
  <2> HIDE DEF g
  <2>2. Alike(es[i], g)
    BY ONLY <2>1, Zenon DEF Alike
  <2> QED BY ONLY <2>2, Zenon DEF g
<1> QED BY ONLY <1>2, <1>3, Zenon

LEMMA ReadStep ==
    ASSUME SegmentsNext
    PROVE  ReadInv'
<1>1. ASSUME NEW list \in Inbound, ReportSegments(list) PROVE ReadInv'
  <2> DEFINE c == Normalized(list)
  <2>1. PICK swap : reported' = [content |-> c, raw |-> Raw(c, swap), path |-> FilePath(list)]
    BY <1>1, Zenon DEF ReportSegments
  <2>2. sent' = NothingSent
    BY <1>1, Zenon DEF ReportSegments
  <2>3. c \in Seq(Printables)
    BY ContentTyped
  <2> HIDE DEF c
  <2>4. reported'.content = c /\ reported'.raw = Raw(c, swap)
    BY ONLY <2>1
  <2>5. sent'.elements \in Seq(Sayable) /\ sent'.segments = Build(sent'.elements)
    BY ONLY <2>2, NothingSentInv, Zenon
  <2> QED BY ONLY <2>3, <2>4, <2>5, Zenon DEF ReadInv
<1>2. ASSUME NEW s \in Strings, SendString(s) PROVE ReadInv'
  <2> DEFINE es == ParseString(s)
  <2>1. sent' = [elements |-> es, segments |-> Build(es)] /\ reported' = NothingReported
    BY <1>2, Zenon DEF SendString
  <2>2. es \in Seq(Sayable)
    BY StringParsed
  <2> HIDE DEF es
  <2>3. sent'.elements = es /\ sent'.segments = Build(es)
    BY ONLY <2>1
  <2>4. reported'.content \in Seq(Printables) /\ \E swap : reported'.raw = Raw(reported'.content, swap)
    BY ONLY <2>1, NothingToldInv, Zenon
  <2> QED BY ONLY <2>2, <2>3, <2>4, Zenon DEF ReadInv
<1>3. ASSUME NEW es \in Payloads, SendArray(es) PROVE ReadInv'
  <2>1. PICK swap : sent' = [elements |-> es,
           segments |-> Build([i \in 1..Len(es) |->
               IF i \in swap THEN <<es[i][1], Reverse(es[i][2])>> ELSE es[i]])]
    BY <1>3, Zenon DEF SendArray
  <2>2. reported' = NothingReported
    BY <1>3, Zenon DEF SendArray
  <2> DEFINE gs == [i \in 1..Len(es) |->
               IF i \in swap THEN <<es[i][1], Reverse(es[i][2])>> ELSE es[i]]
             n == Len(es)
  <2>3. es \in Seq(Sayable)
    BY ArraysTyped
  <2>4. n \in Nat
    BY <2>3
  <2>5. Len(gs) = n /\ \A i \in 1..n : gs[i] = IF i \in swap THEN <<es[i][1], Reverse(es[i][2])>> ELSE es[i]
    BY <2>4
  <2>6. sent'.elements = es /\ sent'.segments = Build(gs)
    <3> HIDE DEF gs
    <3>1. sent' = [elements |-> es, segments |-> Build(gs)]
      BY ONLY <2>1, Zenon DEF gs
    <3> QED BY ONLY <3>1
  <2> HIDE DEF gs
  <2>7. \A i \in 1..n : Alike(es[i], gs[i])
    <3> SUFFICES ASSUME NEW i \in 1..n PROVE Alike(es[i], gs[i])
      OBVIOUS
    <3>1. Alike(es[i], IF i \in swap THEN <<es[i][1], Reverse(es[i][2])>> ELSE es[i])
      BY ArrayAlike
    <3> QED BY ONLY <2>5, <3>1, i \in 1..n, Zenon
  <2>8. Build(gs) = Build(es)
    BY ONLY <2>4, <2>5, <2>7, AlikeBuilt, Zenon
  <2>9. reported'.content \in Seq(Printables) /\ \E swaps : reported'.raw = Raw(reported'.content, swaps)
    BY ONLY <2>2, NothingToldInv, Zenon
  <2> QED BY ONLY <2>3, <2>6, <2>8, <2>9, Zenon DEF ReadInv
<1> QED BY <1>1, <1>2, <1>3, Zenon DEF SegmentsNext

LEMMA NextReadInv == ReadInv /\ [SegmentsNext]_segmentVars => ReadInv'
<1>1. CASE SegmentsNext
  BY <1>1, ReadStep
<1>2. ASSUME ReadInv, UNCHANGED segmentVars PROVE ReadInv'
  BY <1>2 DEF segmentVars, ReadInv
<1> QED BY <1>1, <1>2

\* What is printed as CQ codes is read back as the same elements, whatever
\* special characters their values hold, a raw_message too when its texts hold
\* no character that starts a code or an escape; and an array is sent as the
\* same elements in a string are (internal/msg, coolq/weixin.go).
THEOREM WhatIsPrintedIsReadBack == SegmentsSpec => []ReadBack
<1>1. SegmentsSpec => []ReadInv
  BY InitReadInv, NextReadInv, PTL DEF SegmentsSpec
<1>2. ReadInv => ReadBack
  BY ReadInvReadBack
<1> QED
  BY <1>1, <1>2, PTL
=============================================================================
