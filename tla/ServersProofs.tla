--------------------------- MODULE ServersProofs ---------------------------
(***************************************************************************)
(* Proofs about the parts of Servers and the composition, for any values   *)
(* of the constants: a section for each part, and at the end the theorems  *)
(* of ServersSpec, which runs one of them.                                 *)
(***************************************************************************)
EXTENDS Servers, SequenceTheorems, FiniteSetTheorems, TLAPS

-----------------------------------------------------------------------------
(* LongPolling: events are handed out once and in order, none but those    *)
(* the limit of the queue cost disappears, and a collector sleeps beside   *)
(* events only if excused.                                                 *)

\* The queue is the newest events, in order, and every answer older.
QueueIsTail ==
    /\ Len(queue) <= pushed
    /\ \A i \in 1..Len(queue) : queue[i] = (pushed - Len(queue)) + i
    /\ \A i \in 1..Len(answers) : answers[i] <= pushed - Len(queue)

QueueInv ==
    /\ TypeOK /\ QueueIsTail /\ HandedOutOnceInOrder /\ NothingDisappears
    /\ SleepsBesideEventsOnlyIfExcused

-----------------------------------------------------------------------------
\* A sequence s over S is its first n elements and the rest.
SplitAt(S, s, n) ==
    /\ First(s, n) \in Seq(S) /\ Len(First(s, n)) = n
    /\ \A i \in 1..n : First(s, n)[i] = s[i]
    /\ Rest(s, n) \in Seq(S) /\ Len(Rest(s, n)) = Len(s) - n
    /\ \A i \in 1..(Len(s) - n) : Rest(s, n)[i] = s[n + i]
    /\ Elements(s) = Elements(First(s, n)) \cup Elements(Rest(s, n))

\* Every sequence splits so.
LEMMA Split ==
    ASSUME NEW S, NEW s \in Seq(S), NEW n \in 0..Len(s)
    PROVE  SplitAt(S, s, n)
<1>1. Len(s) \in Nat /\ \A i \in 1..Len(s) : s[i] \in S
  BY ElementOfSeq, LenProperties
<1>2. /\ First(s, n) \in Seq(S) /\ Len(First(s, n)) = n
      /\ \A i \in 1..n : First(s, n)[i] = s[i]
  <2>1. \A i \in 1..n : s[i] \in S
    BY <1>1
  <2> QED
    BY <1>1, <2>1, SubSeqProperties DEF First
<1>3. /\ Rest(s, n) \in Seq(S) /\ Len(Rest(s, n)) = Len(s) - n
      /\ \A i \in 1..(Len(s) - n) : Rest(s, n)[i] = s[n + i]
  <2>1. \A i \in (n + 1)..Len(s) : s[i] \in S
    BY <1>1
  <2>2. /\ Rest(s, n) \in Seq(S)
        /\ Len(Rest(s, n)) = IF n + 1 <= Len(s) THEN Len(s) - (n + 1) + 1 ELSE 0
        /\ \A i \in 1..(Len(s) - (n + 1) + 1) : Rest(s, n)[i] = s[(n + 1) + i - 1]
    BY <1>1, <2>1, SubSeqProperties DEF Rest
  <2>3. Len(s) - (n + 1) + 1 = Len(s) - n /\ n \in Nat
    BY <1>1
  <2>4. IF n + 1 <= Len(s) THEN TRUE ELSE Len(s) - n = 0
    BY <1>1
  <2>5. \A i \in 1..(Len(s) - n) : (n + 1) + i - 1 = n + i
    BY <1>1
  <2> QED
    BY <2>2, <2>3, <2>4, <2>5
<1>4. Elements(s) = Elements(First(s, n)) \cup Elements(Rest(s, n))
  <2>1. \A i \in 1..Len(s) : IF i <= n THEN i \in 1..n ELSE i - n \in 1..(Len(s) - n)
    BY <1>1
  <2>2. \A i \in 1..(Len(s) - n) : n + i \in 1..Len(s)
    BY <1>1
  <2>3. \A i \in 1..Len(s) : s[i] = IF i <= n THEN First(s, n)[i] ELSE Rest(s, n)[i - n]
    BY <1>1, <1>2, <1>3, <2>1
  <2>4. 1..n \subseteq 1..Len(s)
    BY <1>1
  <2>5. Elements(First(s, n)) \cup Elements(Rest(s, n)) \subseteq Elements(s)
    BY <1>2, <1>3, <2>2, <2>4 DEF Elements
  <2>6. Elements(s) \subseteq Elements(First(s, n)) \cup Elements(Rest(s, n))
    <3> SUFFICES ASSUME NEW i \in 1..Len(s)
                 PROVE  s[i] \in Elements(First(s, n)) \cup Elements(Rest(s, n))
      BY DEF Elements
    <3>1. CASE i <= n
      BY <1>2, <2>1, <2>3, <3>1 DEF Elements
    <3>2. CASE ~(i <= n)
      BY <1>3, <2>1, <2>3, <3>2 DEF Elements
    <3> QED
      BY <3>1, <3>2
  <2> QED
    BY <2>5, <2>6
<1> QED
  BY <1>2, <1>3, <1>4 DEF SplitAt

\* The elements of a concatenation are those of both sequences.
LEMMA ElementsConcat ==
    ASSUME NEW S, NEW s \in Seq(S), NEW t \in Seq(S)
    PROVE  Elements(s \o t) = Elements(s) \cup Elements(t)
<1>1. /\ Len(s) \in Nat /\ Len(t) \in Nat /\ Len(s \o t) = Len(s) + Len(t)
      /\ \A i \in 1..(Len(s) + Len(t)) :
             (s \o t)[i] = IF i <= Len(s) THEN s[i] ELSE t[i - Len(s)]
  BY ConcatProperties, LenProperties
<1>2. \A i \in 1..Len(s) : i \in 1..(Len(s) + Len(t)) /\ (s \o t)[i] = s[i]
  BY <1>1
<1>3. \A i \in 1..Len(t) :
          Len(s) + i \in 1..(Len(s) + Len(t)) /\ (s \o t)[Len(s) + i] = t[i]
  BY <1>1
<1>4. \A i \in 1..(Len(s) + Len(t)) :
          (s \o t)[i] \in {s[j] : j \in 1..Len(s)} \cup {t[j] : j \in 1..Len(t)}
  <2> SUFFICES ASSUME NEW i \in 1..(Len(s) + Len(t))
               PROVE  (s \o t)[i] \in {s[j] : j \in 1..Len(s)} \cup {t[j] : j \in 1..Len(t)}
    OBVIOUS
  <2>1. CASE i <= Len(s)
    BY <1>1, <2>1
  <2>2. CASE ~(i <= Len(s))
    <3>1. i - Len(s) \in 1..Len(t)
      BY <1>1, <2>2
    <3> QED
      BY <1>1, <2>2, <3>1
  <2> QED
    BY <2>1, <2>2
<1>5. Elements(s \o t) = {(s \o t)[i] : i \in 1..(Len(s) + Len(t))}
  BY <1>1 DEF Elements
<1>6. Elements(s \o t) \subseteq Elements(s) \cup Elements(t)
  BY <1>4, <1>5 DEF Elements
<1>7. Elements(s) \subseteq Elements(s \o t)
  BY <1>2, <1>5 DEF Elements
<1>8. Elements(t) \subseteq Elements(s \o t)
  BY <1>3, <1>5 DEF Elements
<1> QED
  BY <1>6, <1>7, <1>8

\* The invariant holds at the start.
LEMMA InitQueueInv == Init => QueueInv
<1> SUFFICES ASSUME Init PROVE QueueInv
  OBVIOUS
<1>1. <<>> \in Seq(1..MaxEvents) /\ Len(<<>>) = 0
  BY EmptySeq
<1>2. TypeOK
  <2>1. /\ queue \in Seq(1..MaxEvents) /\ answers \in Seq(1..MaxEvents)
        /\ MaxSize # 0 => Len(queue) <= MaxSize
    BY <1>1, PollingAssumption DEF Init
  <2>2. pushed \in 0..MaxEvents
    BY PollingAssumption DEF Init
  <2> QED
    BY <2>1, <2>2 DEF Init, TypeOK
<1>3. QueueIsTail /\ HandedOutOnceInOrder /\ SleepsBesideEventsOnlyIfExcused
  BY <1>1 DEF Init, QueueIsTail, HandedOutOnceInOrder, SleepsBesideEventsOnlyIfExcused
<1>4. NothingDisappears
  BY <1>1 DEF Init, NothingDisappears, Elements
<1> QED
  BY <1>2, <1>3, <1>4 DEF QueueInv

-----------------------------------------------------------------------------
\* An event is appended; the queue loses its oldest event if it is full.
LEMMA PushQueueInv ==
    ASSUME QueueInv, Push
    PROVE  QueueInv'
<1> DEFINE longer == Append(queue, pushed + 1)
<1>1. /\ queue \in Seq(1..MaxEvents) /\ Len(queue) \in Nat /\ pushed \in Nat
      /\ pushed < MaxEvents /\ MaxEvents \in Nat /\ MaxSize \in Nat
  BY PollingAssumption, LenProperties DEF QueueInv, TypeOK, Push
<1>2. /\ longer \in Seq(1..MaxEvents) /\ Len(longer) = Len(queue) + 1
      /\ \A i \in 1..Len(queue) : longer[i] = queue[i]
      /\ longer[Len(queue) + 1] = pushed + 1
  BY <1>1
<1>3. /\ Excess \in 0..1 /\ (Excess = 1 => Len(queue) = MaxSize /\ MaxSize # 0)
      /\ (Excess = 0 => MaxSize = 0 \/ Len(queue) < MaxSize)
      /\ Excess \in 0..Len(queue)
  BY <1>1 DEF Excess, QueueInv, TypeOK
<1>4. /\ queue' = Rest(longer, Excess) /\ pushed' = pushed + 1 /\ answers' = answers
      /\ trimmed' = trimmed \cup Elements(First(queue, Excess))
      /\ UNCHANGED <<handler, timed, limit, excused>>
  BY DEF Push
<1> HIDE DEF longer
<1>0. SplitAt(1..MaxEvents, longer, Excess) /\ SplitAt(1..MaxEvents, queue, Excess)
  <2>1. Excess \in 0..Len(longer)
    BY <1>1, <1>2, <1>3
  <2> QED
    BY <1>1, <1>2, <1>3, <2>1, Split
<1>5. /\ queue' \in Seq(1..MaxEvents) /\ Len(queue') = (Len(queue) + 1) - Excess
      /\ \A i \in 1..Len(queue') : queue'[i] = longer[Excess + i]
  BY <1>0, <1>2, <1>4 DEF SplitAt
<1>6. /\ Elements(First(queue, Excess)) \cup Elements(queue')
             = Elements(queue) \cup {pushed + 1}
      /\ Elements(First(queue, Excess)) \subseteq 1..MaxEvents
  <2>1. First(longer, Excess) = First(queue, Excess)
    <3>1. \A i \in 1..Excess : First(longer, Excess)[i] = First(queue, Excess)[i]
      BY <1>0, <1>1, <1>2, <1>3 DEF SplitAt
    <3>2. /\ First(longer, Excess) \in Seq(1..MaxEvents) /\ Len(First(longer, Excess)) = Excess
          /\ First(queue, Excess) \in Seq(1..MaxEvents) /\ Len(First(queue, Excess)) = Excess
      BY <1>0 DEF SplitAt
    <3> QED
      BY <3>1, <3>2, SeqEqual
  <2>2. Elements(longer) = Elements(First(longer, Excess)) \cup Elements(queue')
    BY <1>0, <1>4 DEF SplitAt
  <2>3. Elements(longer) = Elements(queue) \cup {pushed + 1}
    <3>1. 1..Len(longer) = 1..Len(queue) \cup {Len(queue) + 1}
      BY <1>1, <1>2
    <3> QED
      BY <1>2, <3>1 DEF Elements
  <2>4. Elements(queue) \subseteq 1..MaxEvents
    BY <1>1, ElementOfSeq DEF Elements
  <2>5. Elements(First(queue, Excess)) \subseteq Elements(queue)
    BY <1>0 DEF SplitAt
  <2> QED
    BY <2>1, <2>2, <2>3, <2>4, <2>5
<1>7. collector' \in [Requests -> {"off", "lock", "wait"}]
  BY DEF Push, Waiting, QueueInv, TypeOK
<1>8. TypeOK'
  <2>1. pushed' \in 0..MaxEvents
    BY <1>1, <1>4
  <2>2. MaxSize # 0 => Len(queue') <= MaxSize
    BY <1>1, <1>3, <1>5 DEF QueueInv, TypeOK
  <2>3. trimmed' \in SUBSET (1..MaxEvents)
    BY <1>4, <1>6 DEF QueueInv, TypeOK
  <2> QED
    BY <1>4, <1>5, <1>7, <2>1, <2>2, <2>3 DEF QueueInv, TypeOK
<1>9. QueueIsTail'
  <2>1. \A i \in 1..Len(queue') : queue'[i] = (pushed' - Len(queue')) + i
    <3> SUFFICES ASSUME NEW i \in 1..Len(queue') PROVE queue'[i] = (pushed' - Len(queue')) + i
      OBVIOUS
    <3>1. Excess + i \in 1..(Len(queue) + 1)
      BY <1>1, <1>3, <1>5
    <3>2. longer[Excess + i] = (pushed - Len(queue)) + (Excess + i)
      <4>1. CASE Excess + i = Len(queue) + 1
        BY <1>1, <1>2, <4>1
      <4>2. CASE Excess + i \in 1..Len(queue)
        BY <1>2, <4>2 DEF QueueInv, QueueIsTail
      <4> QED
        BY <1>1, <3>1, <4>1, <4>2
    <3> QED
      BY <1>1, <1>3, <1>4, <1>5, <3>2
  <2>2. /\ Len(queue') <= pushed' /\ pushed - Len(queue) <= pushed' - Len(queue')
        /\ pushed - Len(queue) \in Int /\ pushed' - Len(queue') \in Int
    BY <1>1, <1>3, <1>4, <1>5 DEF QueueInv, QueueIsTail
  <2>3. \A i \in 1..Len(answers) : answers[i] \in Nat
    <3>1. answers \in Seq(1..MaxEvents)
      BY DEF QueueInv, TypeOK
    <3> QED
      BY <1>1, <3>1, ElementOfSeq
  <2> QED
    BY <1>4, <2>1, <2>2, <2>3 DEF QueueInv, QueueIsTail
<1>10. HandedOutOnceInOrder'
  BY <1>4 DEF QueueInv, HandedOutOnceInOrder
<1>11. NothingDisappears'
  <2>1. 1..(pushed + 1) = 1..pushed \cup {pushed + 1}
    BY <1>1
  <2> QED
    BY <1>4, <1>6, <2>1 DEF QueueInv, NothingDisappears
<1>12. SleepsBesideEventsOnlyIfExcused'
  BY DEF Push, Waiting, QueueInv, TypeOK, SleepsBesideEventsOnlyIfExcused
<1> QED
  BY <1>8, <1>9, <1>10, <1>11, <1>12 DEF QueueInv

\* The events that an answer takes are the oldest of the queue.
LEMMA HandOutQueueInv ==
    ASSUME QueueInv, NEW r \in Requests, HandOut(r)
    PROVE  QueueInv'
<1> DEFINE n == Taken(r)
<1>1. /\ queue \in Seq(1..MaxEvents) /\ answers \in Seq(1..MaxEvents)
      /\ Len(queue) \in Nat /\ Len(answers) \in Nat /\ pushed \in Nat
      /\ \A i \in 1..Len(answers) : answers[i] \in Nat
      /\ \A i \in 1..Len(queue) : queue[i] \in Nat
  <2>1. /\ queue \in Seq(1..MaxEvents) /\ answers \in Seq(1..MaxEvents)
        /\ pushed \in Nat /\ MaxEvents \in Nat
    BY PollingAssumption DEF QueueInv, TypeOK
  <2> QED
    BY <2>1, LenProperties, ElementOfSeq
<1>2. n \in 0..Len(queue)
  <2>1. limit[r] \in Nat
    <3>1. limit[r] \in Limits \cup {0}
      BY DEF QueueInv, TypeOK
    <3>2. Limits \cup {0} \subseteq Nat
      BY PollingAssumption
    <3> QED
      BY <3>1, <3>2, Zenon
  <2> QED
    BY <1>1, <2>1 DEF Taken, Smaller
<1>3. /\ queue' = Rest(queue, n) /\ answers' = answers \o First(queue, n)
      /\ UNCHANGED <<pushed, timed, limit, trimmed>>
      /\ handler' = [handler EXCEPT ![r] = "off"]
      /\ collector' = [collector EXCEPT ![r] = "off"]
      /\ excused' = (excused \/ queue' # <<>>)
  BY DEF HandOut
<1> HIDE DEF n
<1>4. /\ First(queue, n) \in Seq(1..MaxEvents) /\ Len(First(queue, n)) = n
      /\ \A i \in 1..n : First(queue, n)[i] = queue[i]
      /\ queue' \in Seq(1..MaxEvents) /\ Len(queue') = Len(queue) - n
      /\ \A i \in 1..(Len(queue) - n) : queue'[i] = queue[n + i]
      /\ Elements(queue) = Elements(First(queue, n)) \cup Elements(queue')
  <2>1. SplitAt(1..MaxEvents, queue, n)
    BY <1>1, <1>2, Split
  <2> QED
    BY <1>3, <2>1 DEF SplitAt
<1>5. /\ answers' \in Seq(1..MaxEvents) /\ Len(answers') = Len(answers) + n
      /\ \A i \in 1..(Len(answers) + n) :
             answers'[i] = IF i <= Len(answers) THEN answers[i] ELSE queue[i - Len(answers)]
  <2>1. \A i \in 1..(Len(answers) + n) : ~(i <= Len(answers)) => i - Len(answers) \in 1..n
    BY <1>1, <1>2
  <2> QED
    BY <1>1, <1>3, <1>4, <2>1, ConcatProperties
<1>6. Elements(answers') = Elements(answers) \cup Elements(First(queue, n))
  BY <1>1, <1>3, <1>4, ElementsConcat
<1>7. TypeOK'
  <2>1. MaxSize # 0 => Len(queue') <= MaxSize
    BY <1>1, <1>2, <1>4, PollingAssumption DEF QueueInv, TypeOK
  <2>2. /\ handler' \in [Requests -> {"off", "started", "receiving"}]
        /\ collector' \in [Requests -> {"off", "lock", "wait"}]
        /\ excused' \in BOOLEAN
    BY <1>3 DEF QueueInv, TypeOK
  <2> QED
    BY <1>3, <1>4, <1>5, <2>1, <2>2 DEF QueueInv, TypeOK
<1>8. \A i \in 1..Len(answers') :
          IF i <= Len(answers)
          THEN answers'[i] = answers[i] /\ answers'[i] <= pushed - Len(queue)
          ELSE answers'[i] = (pushed - Len(queue)) + (i - Len(answers))
  <2> SUFFICES ASSUME NEW i \in 1..Len(answers')
               PROVE  IF i <= Len(answers)
                      THEN answers'[i] = answers[i] /\ answers'[i] <= pushed - Len(queue)
                      ELSE answers'[i] = (pushed - Len(queue)) + (i - Len(answers))
    OBVIOUS
  <2>1. i \in 1..(Len(answers) + n)
    BY <1>5
  <2>2. CASE i <= Len(answers)
    BY <1>1, <1>5, <2>1, <2>2 DEF QueueInv, QueueIsTail
  <2>3. CASE ~(i <= Len(answers))
    <3>1. i - Len(answers) \in 1..Len(queue)
      BY <1>1, <1>2, <2>1, <2>3
    <3> QED
      BY <1>5, <2>1, <2>3, <3>1 DEF QueueInv, QueueIsTail
  <2> QED
    BY <2>2, <2>3
<1>9. QueueIsTail'
  <2>1. \A i \in 1..Len(queue') : queue'[i] = (pushed' - Len(queue')) + i
    <3> SUFFICES ASSUME NEW i \in 1..Len(queue') PROVE queue'[i] = (pushed' - Len(queue')) + i
      OBVIOUS
    <3>1. n + i \in 1..Len(queue) /\ i \in 1..(Len(queue) - n)
      BY <1>1, <1>2, <1>4
    <3> QED
      BY <1>1, <1>2, <1>3, <1>4, <3>1 DEF QueueInv, QueueIsTail
  <2>2. \A i \in 1..Len(answers') : answers'[i] <= pushed' - Len(queue')
    BY <1>1, <1>2, <1>3, <1>4, <1>5, <1>8
  <2>3. Len(queue') <= pushed'
    BY <1>1, <1>2, <1>3, <1>4 DEF QueueInv, QueueIsTail
  <2> QED
    BY <2>1, <2>2, <2>3 DEF QueueIsTail
<1>10. HandedOutOnceInOrder'
  <2> SUFFICES ASSUME NEW i \in 1..Len(answers'), NEW j \in 1..Len(answers'), i < j
               PROVE  answers'[i] < answers'[j]
    BY DEF HandedOutOnceInOrder
  <2>1. CASE j <= Len(answers)
    <3>1. i \in 1..Len(answers) /\ j \in 1..Len(answers) /\ i <= Len(answers)
      BY <1>1, <1>5, <2>1
    <3> QED
      BY <1>8, <2>1, <3>1 DEF QueueInv, HandedOutOnceInOrder
  <2>2. CASE ~(j <= Len(answers))
    <3>1. answers'[j] = (pushed - Len(queue)) + (j - Len(answers))
      BY <1>8, <2>2
    <3>2. CASE i <= Len(answers)
      <4>1. answers'[i] <= pushed - Len(queue) /\ answers'[i] \in Nat
        <5>1. i \in 1..Len(answers)
          BY <1>1, <1>5, <3>2
        <5> QED
          BY <1>1, <1>8, <3>2, <5>1
      <4> QED
        BY <1>1, <1>5, <2>2, <3>1, <4>1
    <3>3. CASE ~(i <= Len(answers))
      BY <1>1, <1>5, <1>8, <3>1, <3>3
    <3> QED
      BY <3>2, <3>3
  <2> QED
    BY <2>1, <2>2
<1>11. NothingDisappears'
  BY <1>3, <1>4, <1>6 DEF QueueInv, NothingDisappears
<1>12. SleepsBesideEventsOnlyIfExcused'
  BY <1>3 DEF SleepsBesideEventsOnlyIfExcused
<1> QED
  BY <1>7, <1>9, <1>10, <1>11, <1>12 DEF QueueInv

\* Steps that leave the events alone.
LEMMA IdleStepQueueInv ==
    ASSUME QueueInv, NEW r \in Requests,
           Call(r) \/ Receive(r) \/ TimeOut(r) \/ Wait(r) \/ GiveUp(r)
    PROVE  QueueInv'
<1>1. UNCHANGED <<queue, pushed, answers, trimmed>>
  BY DEF Call, Receive, TimeOut, Wait, GiveUp
<1>2. (QueueIsTail /\ HandedOutOnceInOrder /\ NothingDisappears)'
  BY <1>1 DEF QueueInv, QueueIsTail, HandedOutOnceInOrder, NothingDisappears
<1>3. TypeOK'
  <2>1. /\ handler' \in [Requests -> {"off", "started", "receiving"}]
        /\ collector' \in [Requests -> {"off", "lock", "wait"}]
        /\ timed' \in [Requests -> BOOLEAN] /\ limit' \in [Requests -> Limits \cup {0}]
        /\ excused' \in BOOLEAN
    <3>1. CASE Call(r)
      BY <3>1 DEF Call, QueueInv, TypeOK
    <3>2. CASE Receive(r) \/ TimeOut(r) \/ Wait(r) \/ GiveUp(r)
      BY <3>2 DEF Receive, TimeOut, Wait, GiveUp, QueueInv, TypeOK
    <3> QED
      BY <3>1, <3>2
  <2> QED
    BY <1>1, <2>1 DEF QueueInv, TypeOK
<1>4. SleepsBesideEventsOnlyIfExcused'
  BY <1>1 DEF Call, Receive, TimeOut, Wait, GiveUp, QueueInv, TypeOK, Waiting,
              SleepsBesideEventsOnlyIfExcused
<1> QED
  BY <1>2, <1>3, <1>4 DEF QueueInv

-----------------------------------------------------------------------------
\* Every step keeps the invariant.
LEMMA NextQueueInv == QueueInv /\ [Next]_vars => QueueInv'
<1> SUFFICES ASSUME QueueInv, [Next]_vars PROVE QueueInv'
  OBVIOUS
<1>1. CASE Push
  BY <1>1, PushQueueInv
<1>2. ASSUME NEW r \in Requests, HandOut(r) PROVE QueueInv'
  BY <1>2, HandOutQueueInv
<1>3. ASSUME NEW r \in Requests,
             Call(r) \/ Receive(r) \/ TimeOut(r) \/ Wait(r) \/ GiveUp(r)
      PROVE  QueueInv'
  BY <1>3, IdleStepQueueInv
<1>4. CASE UNCHANGED vars
  BY <1>4 DEF vars, reqVars, QueueInv, TypeOK, QueueIsTail, HandedOutOnceInOrder,
              NothingDisappears, SleepsBesideEventsOnlyIfExcused, Waiting
<1> QED
  BY <1>1, <1>2, <1>3, <1>4 DEF Next

LEMMA QueueInvariance == Spec => []QueueInv
BY InitQueueInv, NextQueueInv, PTL DEF Spec

\* Types; the queue keeps its limit (server/middlewares.go).
THEOREM TypeCorrect == Spec => []TypeOK
<1>1. QueueInv => TypeOK
  BY DEF QueueInv
<1> QED
  BY <1>1, QueueInvariance, PTL

\* Concurrent get_updates requests share the events, once and in order, and
\* only the limit of the queue costs any.
THEOREM HandsOutOnce == Spec => []EachEventOnce
<1>1. QueueInv => EachEventOnce
  BY DEF QueueInv, EachEventOnce
<1> QED
  BY <1>1, QueueInvariance, PTL

\* Wake-ups are lost in two ways only.
THEOREM SleepsIfExcused == Spec => []SleepsBesideEventsOnlyIfExcused
<1>1. QueueInv => SleepsBesideEventsOnlyIfExcused
  BY DEF QueueInv
<1> QED
  BY <1>1, QueueInvariance, PTL

-----------------------------------------------------------------------------
(* ForwardWS: the list that is squeezed while it is walked loses and       *)
(* repeats no client, and every subscriber gets the events since it        *)
(* joined, in order.                                                       *)

\* The places of the list that count: those kept so far and those to come.
Places == 1..walk.j \cup walk.i..Len(eventConn)

WSTypes ==
    /\ endpoint \in [Clients -> {"none", "/event", "/api", "/"}]
    /\ open \in SUBSET Clients
    /\ eventConn \in Seq(Clients)
    /\ walk \in [on : BOOLEAN, i : Nat, j : Nat]
    /\ got \in [Clients -> Seq(Nat)]
    /\ wsPushed \in Nat
    /\ since \in [Clients -> Nat \cup {-1}]

\* The walk has kept fewer than it has passed; outside a walk all places count.
WalkOK ==
    /\ walk.i \in 1..(Len(eventConn) + 1) /\ walk.j \in 0..(walk.i - 1)
    /\ ~walk.on => walk.i = 1 /\ walk.j = 0

\* The places that count hold distinct clients, all of which have joined.
ListSound ==
    /\ \A k, l \in Places : k # l => eventConn[k] # eventConn[l]
    /\ \A k \in 1..Len(eventConn) : since[eventConn[k]] # -1
    /\ \A c \in Clients : since[c] # -1 => endpoint[c] # "none"

\* Nobody who is open is forgotten.
AllListed == \A c \in Clients : c \in open /\ since[c] # -1 => \E k \in Places : eventConn[k] = c

\* What clients have received: the handshake first, and after it consecutive
\* events, up to the last one for those in the list.
WSReceived ==
    /\ \A c \in Clients :
          endpoint[c] \in {"/event", "/"} =>
              /\ Len(got[c]) >= 1 /\ got[c][1] = 0
              /\ since[c] = -1 => Len(got[c]) = 1
    /\ \A c \in Clients : since[c] # -1 =>
          /\ endpoint[c] \in {"/event", "/"}
          /\ \A k \in 1..(Len(got[c]) - 1) : got[c][k + 1] = since[c] + k
    /\ \A k \in 1..walk.j : since[eventConn[k]] + Len(got[eventConn[k]]) - 1 = wsPushed
    /\ \A k \in walk.i..Len(eventConn) :
          since[eventConn[k]] + Len(got[eventConn[k]]) - 1 =
              (IF walk.on THEN wsPushed - 1 ELSE wsPushed)

WSInv == WSTypes /\ WalkOK /\ ListSound /\ AllListed /\ WSReceived

-----------------------------------------------------------------------------
\* The invariant holds at the start.
LEMMA InitWSInv == W!Init => WSInv
<1> SUFFICES ASSUME W!Init PROVE WSInv
  OBVIOUS
<1>1. <<>> \in Seq(Clients) /\ <<>> \in Seq(Nat) /\ Len(<<>>) = 0
  BY EmptySeq
<1>2. WSTypes
  BY <1>1 DEF W!Init, WSTypes, W!Idle
<1>3. WalkOK /\ Places = {}
  BY <1>1 DEF W!Init, WalkOK, W!Idle, Places
<1>4. ListSound /\ AllListed /\ WSReceived
  BY <1>1, <1>3 DEF W!Init, ListSound, AllListed, WSReceived, W!Idle
<1> QED
  BY <1>2, <1>3, <1>4 DEF WSInv

\* The numbers and entries an invariant state is made of.
LEMMA WSPieces ==
    ASSUME WSInv
    PROVE  /\ Len(eventConn) \in Nat /\ walk.i \in Nat /\ walk.j \in Nat /\ wsPushed \in Nat
           /\ walk.on \in BOOLEAN
           /\ \A k \in 1..Len(eventConn) : eventConn[k] \in Clients
           /\ \A c \in Clients : got[c] \in Seq(Nat) /\ Len(got[c]) \in Nat
           /\ \A c \in Clients : since[c] \in Int
           /\ Places \subseteq 1..Len(eventConn)
           /\ \A c \in Clients : since[c] # -1 => Len(got[c]) >= 1
<1>1. /\ Len(eventConn) \in Nat /\ walk.i \in Nat /\ walk.j \in Nat /\ wsPushed \in Nat
      /\ walk.on \in BOOLEAN
  BY LenProperties DEF WSInv, WSTypes
<1>2. \A k \in 1..Len(eventConn) : eventConn[k] \in Clients
  BY ElementOfSeq DEF WSInv, WSTypes
<1>3. \A c \in Clients : got[c] \in Seq(Nat) /\ Len(got[c]) \in Nat
  <2>1. \A c \in Clients : got[c] \in Seq(Nat)
    BY DEF WSInv, WSTypes
  <2> QED
    BY <2>1, LenProperties
<1>4. \A c \in Clients : since[c] \in Int
  BY DEF WSInv, WSTypes
<1>5. Places \subseteq 1..Len(eventConn)
  BY <1>1 DEF WSInv, WalkOK, Places
<1>6. \A c \in Clients : since[c] # -1 => Len(got[c]) >= 1
  BY DEF WSInv, WSReceived
<1> QED
  BY <1>1, <1>2, <1>3, <1>4, <1>5, <1>6

-----------------------------------------------------------------------------
\* Requests, and connections that are closed, leave the list alone.
LEMMA RequestWSInv ==
    ASSUME WSInv, NEW c \in Clients,
           W!Request(c) \/ W!ReadFails(c) \/ W!LockAnswer(c) \/ W!Answer(c) \/ W!AnswerPanics(c)
    PROVE  WSInv'
<1>1. UNCHANGED <<endpoint, eventConn, walk, got, wsPushed, since>> /\ open' \subseteq open
  BY DEF W!Request, W!ReadFails, W!LockAnswer, W!Answer, W!AnswerPanics, W!connVars
<1>2. Places' = Places
  BY <1>1 DEF Places
<1> QED
  BY <1>1, <1>2 DEF WSInv, WSTypes, WalkOK, ListSound, AllListed, WSReceived

\* A client connects: it has not joined yet.
LEMMA ConnectWSInv ==
    ASSUME WSInv, NEW c \in Clients, NEW p \in {"/event", "/api", "/"}, W!Connect(c, p)
    PROVE  WSInv'
<1>1. /\ endpoint[c] = "none" /\ endpoint' = [endpoint EXCEPT ![c] = p]
      /\ open' = open \cup {c}
      /\ got' = [got EXCEPT ![c] = IF p = "/api" THEN <<>> ELSE <<0>>]
      /\ UNCHANGED <<eventConn, walk, wsPushed, since>>
  BY DEF W!Connect
<1>2. Places' = Places
  BY <1>1 DEF Places
<1>3. since[c] = -1 /\ \A k \in 1..Len(eventConn) : eventConn[k] # c
  BY <1>1 DEF WSInv, ListSound
<1>4. <<>> \in Seq(Nat) /\ <<0>> \in Seq(Nat) /\ Len(<<0>>) = 1 /\ <<0>>[1] = 0
  BY EmptySeq
<1>5. got' \in [Clients -> Seq(Nat)] /\ \A d \in Clients : d # c => got'[d] = got[d]
  BY <1>1, <1>4 DEF WSInv, WSTypes
<1>6. WSTypes'
  BY <1>1, <1>5 DEF WSInv, WSTypes
<1>7. WalkOK' /\ ListSound' /\ AllListed'
  BY <1>1, <1>2, <1>3 DEF WSInv, WSTypes, WalkOK, ListSound, AllListed
<1>8. WSReceived'
  <2>1. \A d \in Clients :
            endpoint'[d] \in {"/event", "/"} =>
                /\ Len(got'[d]) >= 1 /\ got'[d][1] = 0
                /\ since'[d] = -1 => Len(got'[d]) = 1
    <3> SUFFICES ASSUME NEW d \in Clients, endpoint'[d] \in {"/event", "/"}
                 PROVE  /\ Len(got'[d]) >= 1 /\ got'[d][1] = 0
                        /\ since'[d] = -1 => Len(got'[d]) = 1
      OBVIOUS
    <3>1. CASE d = c
      <4>1. got'[d] = <<0>>
        BY <1>1, <3>1 DEF WSInv, WSTypes
      <4> QED
        BY <1>4, <4>1
    <3>2. CASE d # c
      BY <1>1, <1>5, <3>2 DEF WSInv, WSTypes, WSReceived
    <3> QED
      BY <3>1, <3>2
  <2>2. \A d \in Clients : since'[d] # -1 =>
            /\ endpoint'[d] \in {"/event", "/"}
            /\ \A k \in 1..(Len(got'[d]) - 1) : got'[d][k + 1] = since'[d] + k
    BY <1>1, <1>3, <1>5 DEF WSInv, WSTypes, WSReceived
  <2>3. \A k \in 1..Len(eventConn) : got'[eventConn[k]] = got[eventConn[k]]
    BY <1>3, <1>5, WSPieces
  <2>4. 1..walk.j \subseteq 1..Len(eventConn) /\ walk.i..Len(eventConn) \subseteq 1..Len(eventConn)
    BY WSPieces DEF Places
  <2>5. /\ \A k \in 1..walk'.j :
               since'[eventConn'[k]] + Len(got'[eventConn'[k]]) - 1 = wsPushed'
        /\ \A k \in walk'.i..Len(eventConn') :
               since'[eventConn'[k]] + Len(got'[eventConn'[k]]) - 1
                   = (IF walk'.on THEN wsPushed' - 1 ELSE wsPushed')
    <3>1. \A k \in 1..walk.j : since[eventConn[k]] + Len(got'[eventConn[k]]) - 1 = wsPushed
      BY <2>3, <2>4 DEF WSInv, WSReceived
    <3>2. \A k \in walk.i..Len(eventConn) :
              since[eventConn[k]] + Len(got'[eventConn[k]]) - 1
                  = 
              (IF walk.on THEN wsPushed - 1 ELSE wsPushed)
      <4> SUFFICES ASSUME NEW k \in walk.i..Len(eventConn)
                   PROVE  since[eventConn[k]] + Len(got'[eventConn[k]]) - 1
                              = 
              (IF walk.on THEN wsPushed - 1 ELSE wsPushed)
        OBVIOUS
      <4>1. got'[eventConn[k]] = got[eventConn[k]]
        BY <2>3, <2>4
      <4> QED
        BY <4>1 DEF WSInv, WSReceived
    <3> QED
      BY <1>1, <3>1, <3>2
  <2> QED
    BY <2>1, <2>2, <2>5 DEF WSReceived
<1> QED
  BY <1>6, <1>7, <1>8 DEF WSInv

\* A client joins, between two walks, at the end of the list.
LEMMA JoinWSInv ==
    ASSUME WSInv, NEW c \in Clients, W!Join(c)
    PROVE  WSInv'
<1>1. /\ endpoint[c] \in {"/event", "/"} /\ since[c] = -1 /\ ~walk.on
      /\ eventConn' = Append(eventConn, c) /\ since' = [since EXCEPT ![c] = wsPushed]
      /\ UNCHANGED <<endpoint, open, walk, got, wsPushed>>
  BY DEF W!Join, W!connVars
<1>2. walk.i = 1 /\ walk.j = 0
  BY <1>1 DEF WSInv, WalkOK
<1>3. /\ eventConn' \in Seq(Clients) /\ Len(eventConn') = Len(eventConn) + 1
      /\ \A k \in 1..Len(eventConn) : eventConn'[k] = eventConn[k]
      /\ eventConn'[Len(eventConn) + 1] = c
  BY <1>1 DEF WSInv, WSTypes
<1>4. Places = 1..Len(eventConn) /\ Places' = 1..(Len(eventConn) + 1)
  BY <1>1, <1>2, <1>3, WSPieces DEF Places
<1>5. \A k \in 1..Len(eventConn) : eventConn[k] # c /\ eventConn[k] \in Clients
  BY <1>1, WSPieces DEF WSInv, ListSound
<1>6. \A k \in 1..(Len(eventConn) + 1) : k \in 1..Len(eventConn) \/ k = Len(eventConn) + 1
  BY WSPieces
<1>7. since'[c] = wsPushed /\ \A d \in Clients : d # c => since'[d] = since[d]
  BY <1>1 DEF WSInv, WSTypes
<1>8. WSTypes' /\ WalkOK'
  BY <1>1, <1>2, <1>3, WSPieces DEF WSInv, WSTypes, WalkOK
<1>9. ListSound'
  <2>1. \A k, l \in Places' : k # l => eventConn'[k] # eventConn'[l]
    BY <1>3, <1>4, <1>5, <1>6 DEF WSInv, ListSound
  <2>2. \A k \in 1..Len(eventConn') : since'[eventConn'[k]] # -1
    BY <1>3, <1>5, <1>6, <1>7, WSPieces DEF WSInv, ListSound
  <2>3. \A d \in Clients : since'[d] # -1 => endpoint'[d] # "none"
    BY <1>1, <1>7 DEF WSInv, ListSound
  <2> QED
    BY <2>1, <2>2, <2>3 DEF ListSound
<1>10. AllListed'
  <2> SUFFICES ASSUME NEW d \in Clients, d \in open, since'[d] # -1
               PROVE  \E k \in 1..(Len(eventConn) + 1) : eventConn'[k] = d
    BY <1>1, <1>4 DEF AllListed
  <2>1. CASE d = c
    BY <1>3, <2>1, WSPieces
  <2>2. CASE d # c
    <3>1. PICK k \in 1..Len(eventConn) : eventConn[k] = d
      BY <1>4, <1>7, <2>2 DEF WSInv, AllListed
    <3> QED
      BY <1>3, <3>1, WSPieces
  <2> QED
    BY <2>1, <2>2
<1>11. WSReceived'
  <2>1. Len(got[c]) = 1
    BY <1>1 DEF WSInv, WSReceived
  <2>2. \A d \in Clients : since'[d] # -1 =>
            /\ endpoint'[d] \in {"/event", "/"}
            /\ \A k \in 1..(Len(got'[d]) - 1) : got'[d][k + 1] = since'[d] + k
    BY <1>1, <1>7, <2>1 DEF WSInv, WSReceived
  <2>3. \A d \in Clients :
            endpoint'[d] \in {"/event", "/"} =>
                /\ Len(got'[d]) >= 1 /\ got'[d][1] = 0
                /\ since'[d] = -1 => Len(got'[d]) = 1
    BY <1>1, <1>7, <2>1 DEF WSInv, WSReceived
  <2>4. \A k \in 1..Len(eventConn') : since'[eventConn'[k]] + Len(got[eventConn'[k]]) - 1 = wsPushed
    <3> SUFFICES ASSUME NEW k \in 1..(Len(eventConn) + 1)
                 PROVE  since'[eventConn'[k]] + Len(got[eventConn'[k]]) - 1 = wsPushed
      BY <1>3
    <3>1. CASE k = Len(eventConn) + 1
      <4>1. eventConn'[k] = c /\ since'[c] = wsPushed
        BY <1>3, <1>7, <3>1
      <4>2. wsPushed \in Nat
        BY WSPieces
      <4>3. since'[c] + Len(got[c]) - 1 = wsPushed
        BY <2>1, <4>1, <4>2
      <4> QED
        BY <4>1, <4>3
    <3>2. CASE k \in 1..Len(eventConn)
      BY <1>1, <1>2, <1>3, <1>5, <1>7, <3>2 DEF WSInv, WSReceived
    <3> QED
      BY <1>6, <3>1, <3>2
  <2>5. walk'.i = 1 /\ walk'.j = 0 /\ ~walk'.on /\ got' = got /\ wsPushed' = wsPushed
    BY <1>1, <1>2
  <2>6. /\ \A k \in 1..walk'.j :
               since'[eventConn'[k]] + Len(got'[eventConn'[k]]) - 1 = wsPushed'
        /\ \A k \in walk'.i..Len(eventConn') :
               since'[eventConn'[k]] + Len(got'[eventConn'[k]]) - 1
                   = (IF walk'.on THEN wsPushed' - 1 ELSE wsPushed')
    <3>1. \A k \in 1..walk'.j : FALSE
      BY <2>5
    <3>2. \A k \in walk'.i..Len(eventConn') :
               since'[eventConn'[k]] + Len(got'[eventConn'[k]]) - 1 = wsPushed'
      BY <2>4, <2>5
    <3> QED
      BY <2>5, <3>1, <3>2
  <2> QED
    BY <2>2, <2>3, <2>6 DEF WSReceived
<1> QED
  BY <1>8, <1>9, <1>10, <1>11 DEF WSInv

-----------------------------------------------------------------------------
\* An event begins a walk: everybody in the list is due for it.
LEMMA PushWSInv ==
    ASSUME WSInv, W!Push
    PROVE  WSInv'
<1>1. /\ ~walk.on /\ walk'.on /\ walk'.i = 1 /\ walk'.j = 0 /\ wsPushed' = wsPushed + 1
      /\ walk' \in [on : BOOLEAN, i : Nat, j : Nat]
      /\ UNCHANGED <<endpoint, open, eventConn, got, since>>
  BY DEF W!Push, W!Idle, W!connVars
<1>2. walk.i = 1 /\ walk.j = 0
  BY <1>1 DEF WSInv, WalkOK
<1>3. Places' = Places
  BY <1>1, <1>2 DEF Places
<1>4. WSTypes' /\ WalkOK' /\ ListSound' /\ AllListed'
  BY <1>1, <1>2, <1>3, WSPieces DEF WSInv, WSTypes, WalkOK, ListSound, AllListed
<1>5. WSReceived'
  <2>1. \A k \in 1..Len(eventConn) : since[eventConn[k]] + Len(got[eventConn[k]]) - 1 = wsPushed
    BY <1>1, <1>2 DEF WSInv, WSReceived
  <2>2. wsPushed' - 1 = wsPushed
    BY <1>1, WSPieces
  <2>3. UNCHANGED <<endpoint, eventConn, got, since>> /\ walk'.on /\ walk'.i = 1 /\ walk'.j = 0
    BY <1>1
  <2> QED
    BY <1>2, <2>1, <2>2, <2>3 DEF WSInv, WSReceived
<1> QED
  BY <1>4, <1>5 DEF WSInv

\* The client at hand gets the event and moves down to the kept ones.
LEMMA WriteOkWSInv ==
    ASSUME WSInv, W!WriteOk
    PROVE  WSInv'
<1>0. PICK c \in Clients : c = eventConn[walk.i]
  <2>1. walk.i \in 1..Len(eventConn)
    BY WSPieces DEF W!WriteOk, W!AtClient, WSInv, WalkOK
  <2> QED
    BY <2>1, WSPieces
<1>1. /\ walk.on /\ walk.i <= Len(eventConn) /\ c \in open
      /\ got' = [got EXCEPT ![c] = Append(@, wsPushed)]
      /\ eventConn' = [eventConn EXCEPT ![walk.j + 1] = c]
      /\ walk' = [walk EXCEPT !.i = @ + 1, !.j = @ + 1]
      /\ UNCHANGED <<endpoint, open, wsPushed, since>>
  BY <1>0 DEF W!WriteOk, W!AtClient, W!Current, W!connVars
<1>2. /\ walk.i \in 1..Len(eventConn) /\ walk.j + 1 \in 1..Len(eventConn)
      /\ walk.j + 1 <= walk.i /\ walk.i \in Places
  BY <1>1, WSPieces DEF WSInv, WalkOK, Places
<1>3. /\ c \in Clients /\ since[c] # -1 /\ endpoint[c] \in {"/event", "/"}
      /\ since[c] + Len(got[c]) - 1 = wsPushed - 1
      /\ Len(got[c]) >= 1 /\ got[c][1] = 0
  <2>1. c \in Clients /\ since[c] # -1
    BY <1>0, <1>2, WSPieces DEF WSInv, ListSound
  <2>2. walk.i \in walk.i..Len(eventConn)
    BY <1>2, WSPieces
  <2> QED
    BY <1>0, <1>1, <2>1, <2>2 DEF WSInv, WSReceived
<1>4. /\ eventConn' \in Seq(Clients) /\ Len(eventConn') = Len(eventConn)
      /\ \A k \in 1..Len(eventConn) :
             eventConn'[k] = IF k = walk.j + 1 THEN c ELSE eventConn[k]
  <2>1. eventConn \in Seq(Clients)
    BY DEF WSInv, WSTypes
  <2> QED
    BY <1>1, <1>2, <1>3, <2>1, ExceptSeq
<1>5. /\ walk' \in [on : BOOLEAN, i : Nat, j : Nat] /\ walk'.on
      /\ walk'.i = walk.i + 1 /\ walk'.j = walk.j + 1
  <2>1. walk \in [on : BOOLEAN, i : Nat, j : Nat]
    BY DEF WSInv, WSTypes
  <2>2. walk' = [walk EXCEPT !.i = @ + 1, !.j = @ + 1] /\ walk.on
    BY <1>1
  <2>3. walk' = [on |-> walk.on, i |-> walk.i + 1, j |-> walk.j + 1]
    BY <2>1, <2>2
  <2>4. walk'.on = walk.on /\ walk'.i = walk.i + 1 /\ walk'.j = walk.j + 1
    BY <2>3
  <2>5. walk.on \in BOOLEAN /\ walk.i + 1 \in Nat /\ walk.j + 1 \in Nat
    BY <2>1
  <2>6. walk' \in [on : BOOLEAN, i : Nat, j : Nat]
    BY <2>3, <2>5
  <2> QED
    BY <2>2, <2>4, <2>6
<1>6. /\ got' \in [Clients -> Seq(Nat)] /\ Len(got'[c]) = Len(got[c]) + 1
      /\ \A k \in 1..Len(got[c]) : got'[c][k] = got[c][k]
      /\ got'[c][Len(got[c]) + 1] = wsPushed
      /\ \A d \in Clients : d # c => got'[d] = got[d]
  <2>1. /\ Append(got[c], wsPushed) \in Seq(Nat) /\ Len(Append(got[c], wsPushed)) = Len(got[c]) + 1
        /\ \A k \in 1..Len(got[c]) : Append(got[c], wsPushed)[k] = got[c][k]
        /\ Append(got[c], wsPushed)[Len(got[c]) + 1] = wsPushed
    BY <1>3, WSPieces
  <2>2. got \in [Clients -> Seq(Nat)]
    BY DEF WSInv, WSTypes
  <2>3. got'[c] = Append(got[c], wsPushed) /\ got' \in [Clients -> Seq(Nat)]
    BY <1>1, <1>3, <2>1, <2>2
  <2> QED
    BY <1>1, <2>1, <2>2, <2>3
<1>15. /\ Len(got[c]) \in Nat /\ since[c] \in Int /\ wsPushed \in Nat
       /\ Len(got'[c]) = Len(got[c]) + 1 /\ Len(got[c]) >= 1
       /\ since[c] + Len(got[c]) = wsPushed
  <2>1. Len(got[c]) \in Nat /\ since[c] \in Int /\ wsPushed \in Nat
    BY WSPieces
  <2>2. since[c] + Len(got[c]) - 1 = wsPushed - 1 /\ Len(got[c]) >= 1
    BY <1>3
  <2>3. since[c] + Len(got[c]) = wsPushed
    BY <2>1, <2>2
  <2>4. Len(got'[c]) = Len(got[c]) + 1
    BY <1>6
  <2> QED
    BY <2>1, <2>2, <2>3, <2>4
<1>7. /\ Places' = 1..(walk.j + 1) \cup (walk.i + 1)..Len(eventConn)
      /\ \A k \in Places' : k = walk.j + 1 \/ (k \in Places /\ k # walk.i)
      /\ \A k \in Places : k = walk.i \/ (k \in Places' /\ k # walk.j + 1)
  BY <1>2, <1>4, <1>5, WSPieces DEF Places
<1>8. \A k \in Places' : eventConn'[k] = IF k = walk.j + 1 THEN c ELSE eventConn[k]
  BY <1>2, <1>4, <1>7, WSPieces
<1>9. WSTypes'
  BY <1>1, <1>4, <1>5, <1>6 DEF WSInv, WSTypes
<1>10. WalkOK'
  BY <1>2, <1>4, <1>5, WSPieces DEF WSInv, WalkOK
<1>11. \A k \in Places : k # walk.i => eventConn[k] # c
  BY <1>0, <1>2 DEF WSInv, ListSound
<1>12. ListSound'
  <2>1. \A k, l \in Places' : k # l => eventConn'[k] # eventConn'[l]
    BY <1>7, <1>8, <1>11 DEF WSInv, ListSound
  <2>2. \A k \in 1..Len(eventConn') : since'[eventConn'[k]] # -1
    BY <1>1, <1>3, <1>4 DEF WSInv, ListSound
  <2> QED
    BY <1>1, <2>1, <2>2 DEF WSInv, ListSound
<1>13. AllListed'
  <2> SUFFICES ASSUME NEW d \in Clients, d \in open, since[d] # -1
               PROVE  \E k \in Places' : eventConn'[k] = d
    BY <1>1 DEF AllListed
  <2>1. PICK k \in Places : eventConn[k] = d
    BY DEF WSInv, AllListed
  <2>2. CASE k = walk.i
    <3>1. walk.j + 1 \in Places' /\ eventConn'[walk.j + 1] = c
      BY <1>2, <1>4, <1>7, WSPieces
    <3> QED
      BY <1>0, <2>1, <2>2, <3>1
  <2>3. CASE k # walk.i
    BY <1>7, <1>8, <2>1, <2>3
  <2> QED
    BY <2>2, <2>3
<1>14. WSReceived'
  <2>1. \A d \in Clients :
            endpoint'[d] \in {"/event", "/"} =>
                /\ Len(got'[d]) >= 1 /\ got'[d][1] = 0
                /\ since'[d] = -1 => Len(got'[d]) = 1
    <3>1. Len(got'[c]) >= 1 /\ got'[c][1] = 0
      <4>1. 1 \in 1..Len(got[c]) /\ Len(got'[c]) >= 1
        BY <1>15
      <4>2. got'[c][1] = got[c][1]
        BY <1>6, <4>1
      <4> QED
        BY <1>3, <4>1, <4>2
    <3>2. UNCHANGED <<endpoint, since>> /\ \A d \in Clients : d # c => got'[d] = got[d]
      BY <1>1, <1>6
    <3>3. since[c] # -1 /\ endpoint[c] \in {"/event", "/"}
      BY <1>3
    <3>4. \A d \in Clients : endpoint[d] \in {"/event", "/"} =>
              /\ Len(got[d]) >= 1 /\ got[d][1] = 0
              /\ since[d] = -1 => Len(got[d]) = 1
      BY DEF WSInv, WSReceived
    <3> QED
      BY <3>1, <3>2, <3>3, <3>4
  <2>2. \A d \in Clients : since'[d] # -1 =>
            /\ endpoint'[d] \in {"/event", "/"}
            /\ \A k \in 1..(Len(got'[d]) - 1) : got'[d][k + 1] = since'[d] + k
    <3> SUFFICES ASSUME NEW d \in Clients, since[d] # -1, NEW k \in 1..(Len(got'[d]) - 1)
                 PROVE  got'[d][k + 1] = since[d] + k
      BY <1>1 DEF WSInv, WSReceived
    <3>1. CASE d # c
      <4>1. got'[d] = got[d]
        BY <1>6, <3>1
      <4> QED
        BY <4>1 DEF WSInv, WSReceived
    <3>2. CASE d = c /\ k = Len(got[c])
      BY <1>3, <1>6, <1>15, <3>2
    <3>3. CASE d = c /\ k # Len(got[c])
      <4>1. k \in 1..(Len(got[c]) - 1) /\ k + 1 \in 1..Len(got[c])
        BY <1>15, <3>3
      <4> QED
        BY <1>6, <3>3, <4>1 DEF WSInv, WSReceived
    <3> QED
      BY <3>1, <3>2, <3>3
  <2>3. since[c] + Len(got'[c]) - 1 = wsPushed
    BY <1>15
  <2>4. \A k \in 1..walk'.j : since'[eventConn'[k]] + Len(got'[eventConn'[k]]) - 1 = wsPushed'
    <3> SUFFICES ASSUME NEW k \in 1..walk'.j
                 PROVE  since[eventConn'[k]] + Len(got'[eventConn'[k]]) - 1 = wsPushed
      BY <1>1
    <3>1. k \in Places' /\ (k = walk.j + 1 \/ k \in 1..walk.j)
      BY <1>5, <1>7, WSPieces
    <3>2. CASE k = walk.j + 1
      BY <1>8, <2>3, <3>1, <3>2
    <3>3. CASE k \in 1..walk.j
      <4>1. k # walk.j + 1 /\ k # walk.i /\ k \in Places
        BY <1>2, <3>3, WSPieces DEF Places
      <4>2. eventConn'[k] = eventConn[k] /\ eventConn[k] # c /\ eventConn[k] \in Clients
        BY <1>8, <1>11, <3>1, <4>1, WSPieces
      <4> QED
        BY <1>6, <3>3, <4>2 DEF WSInv, WSReceived
    <3> QED
      BY <3>1, <3>2, <3>3
  <2>5. \A k \in walk'.i..Len(eventConn') :
            since'[eventConn'[k]] + Len(got'[eventConn'[k]]) - 1 = wsPushed' - 1
    <3> SUFFICES ASSUME NEW k \in (walk.i + 1)..Len(eventConn)
                 PROVE  since[eventConn'[k]] + Len(got'[eventConn'[k]]) - 1 = wsPushed - 1
      BY <1>1, <1>4, <1>5
    <3>1. /\ k \in Places /\ k \in Places' /\ k # walk.i /\ k # walk.j + 1
          /\ k \in walk.i..Len(eventConn)
      BY <1>2, <1>7, WSPieces DEF Places
    <3>2. eventConn'[k] = eventConn[k] /\ eventConn[k] # c /\ eventConn[k] \in Clients
      BY <1>8, <1>11, <3>1, WSPieces
    <3> QED
      BY <1>1, <1>6, <3>1, <3>2 DEF WSInv, WSReceived
  <2> QED
    BY <1>5, <2>1, <2>2, <2>4, <2>5 DEF WSReceived
<1> QED
  BY <1>9, <1>10, <1>12, <1>13, <1>14 DEF WSInv

\* The client at hand is closed and its place no longer counts.
LEMMA WriteFailsWSInv ==
    ASSUME WSInv, W!WriteFails
    PROVE  WSInv'
<1>1. /\ walk.i <= Len(eventConn) /\ open' = open \ {eventConn[walk.i]}
      /\ walk' = [walk EXCEPT !.i = @ + 1] /\ walk.on
      /\ UNCHANGED <<endpoint, eventConn, got, wsPushed, since>>
  BY DEF W!WriteFails, W!AtClient, W!Current
<1>2. /\ walk' \in [on : BOOLEAN, i : Nat, j : Nat] /\ walk'.on
      /\ walk'.i = walk.i + 1 /\ walk'.j = walk.j
  <2>1. walk \in [on : BOOLEAN, i : Nat, j : Nat]
    BY DEF WSInv, WSTypes
  <2> QED
    BY <1>1, <2>1
<1>3. Places' \subseteq Places /\ \A k \in Places : k # walk.i => k \in Places'
  BY <1>1, <1>2, WSPieces DEF Places
<1>4. WSTypes' /\ WalkOK' /\ ListSound'
  <2>1. WSTypes'
    BY <1>1, <1>2 DEF WSInv, WSTypes
  <2>2. WalkOK'
    BY <1>1, <1>2, WSPieces DEF WSInv, WalkOK
  <2>3. ListSound'
    BY <1>1, <1>3 DEF WSInv, ListSound
  <2> QED
    BY <2>1, <2>2, <2>3
<1>5. AllListed'
  BY <1>1, <1>3 DEF WSInv, AllListed
<1>6. WSReceived'
  <2>1. (walk.i + 1)..Len(eventConn) \subseteq walk.i..Len(eventConn)
    BY WSPieces
  <2> QED
    BY <1>1, <1>2, <2>1 DEF WSInv, WSReceived
<1> QED
  BY <1>4, <1>5, <1>6 DEF WSInv

\* The list is cut after the kept clients.
LEMMA EndWalkWSInv ==
    ASSUME WSInv, W!EndWalk
    PROVE  WSInv'
<1>1. /\ walk.on /\ walk.i > Len(eventConn) /\ eventConn' = SubSeq(eventConn, 1, walk.j)
      /\ ~walk'.on /\ walk'.i = 1 /\ walk'.j = 0
      /\ walk' \in [on : BOOLEAN, i : Nat, j : Nat]
      /\ UNCHANGED <<endpoint, open, got, wsPushed, since>>
  BY DEF W!EndWalk, W!Idle, W!connVars
<1>2. walk.j \in 0..Len(eventConn)
  BY <1>1, WSPieces DEF WSInv, WalkOK
<1>3. /\ eventConn' \in Seq(Clients) /\ Len(eventConn') = walk.j
      /\ \A k \in 1..walk.j : eventConn'[k] = eventConn[k]
  <2>1. \A k \in 1..walk.j : eventConn[k] \in Clients
    BY <1>2, WSPieces
  <2>2. /\ SubSeq(eventConn, 1, walk.j) \in Seq(Clients)
        /\ Len(SubSeq(eventConn, 1, walk.j)) = IF 1 <= walk.j THEN walk.j - 1 + 1 ELSE 0
        /\ \A k \in 1..(walk.j - 1 + 1) : SubSeq(eventConn, 1, walk.j)[k] = eventConn[1 + k - 1]
    BY <2>1, WSPieces, SubSeqProperties
  <2>3. walk.j - 1 + 1 = walk.j /\ \A k \in 1..walk.j : 1 + k - 1 = k
    BY WSPieces
  <2> QED
    BY <1>1, <1>2, <2>2, <2>3
<1>4. Places = 1..walk.j /\ Places' = 1..walk.j
  BY <1>1, <1>2, <1>3, WSPieces DEF Places
<1>5. WSTypes' /\ WalkOK'
  BY <1>1, <1>3, WSPieces DEF WSInv, WSTypes, WalkOK
<1>6. ListSound' /\ AllListed'
  <2>1. 1..walk.j \subseteq 1..Len(eventConn)
    BY <1>2
  <2>2. UNCHANGED <<endpoint, open, since>>
    BY <1>1
  <2>3. ListSound'
    BY <1>3, <1>4, <2>1, <2>2 DEF WSInv, ListSound
  <2>4. AllListed'
    BY <1>3, <1>4, <2>2 DEF WSInv, AllListed
  <2> QED
    BY <2>3, <2>4
<1>7. WSReceived'
  <2>1. /\ UNCHANGED <<endpoint, got, wsPushed, since>>
        /\ ~walk'.on /\ walk'.i = 1 /\ walk'.j = 0
    BY <1>1
  <2>2. \A k \in 1..walk.j : since[eventConn'[k]] + Len(got[eventConn'[k]]) - 1 = wsPushed
    BY <1>3 DEF WSInv, WSReceived
  <2>3. Len(eventConn') = walk.j
    BY <1>3
  <2> QED
    BY <2>1, <2>2, <2>3 DEF WSInv, WSReceived
<1> QED
  BY <1>5, <1>6, <1>7 DEF WSInv

-----------------------------------------------------------------------------
\* Every step keeps the invariant.
LEMMA NextWSInv == WSInv /\ [W!Next]_(W!vars) => WSInv'
<1> SUFFICES ASSUME WSInv, [W!Next]_(W!vars) PROVE WSInv'
  OBVIOUS
<1>1. ASSUME NEW c \in Clients, NEW p \in {"/event", "/api", "/"}, W!Connect(c, p) PROVE WSInv'
  BY <1>1, ConnectWSInv
<1>2. ASSUME NEW c \in Clients, W!Join(c) PROVE WSInv'
  BY <1>2, JoinWSInv
<1>3. ASSUME NEW c \in Clients,
             W!Request(c) \/ W!ReadFails(c) \/ W!LockAnswer(c) \/ W!Answer(c) \/ W!AnswerPanics(c)
      PROVE  WSInv'
  BY <1>3, RequestWSInv
<1>4. CASE W!Push \/ W!WriteOk \/ W!WriteFails \/ W!EndWalk
  BY <1>4, PushWSInv, WriteOkWSInv, WriteFailsWSInv, EndWalkWSInv
<1>5. CASE UNCHANGED W!vars
  BY <1>5 DEF W!vars, W!connVars, WSInv, WSTypes, WalkOK, ListSound, AllListed, WSReceived, Places
<1> QED
  BY <1>1, <1>2, <1>3, <1>4, <1>5 DEF W!Next

LEMMA WSInvariance == W!Spec => []WSInv
BY InitWSInv, NextWSInv, PTL DEF W!Spec

\* What a client received is the sequence the property names.
LEMMA ReceivedInOrder ==
    ASSUME WSInv
    PROVE  W!EachEventOnceInOrder
<1> SUFFICES ASSUME NEW c \in Clients, since[c] # -1
             PROVE  LET n == Len(got[c]) - 1 IN
                    /\ got[c] = <<0>> \o [k \in 1..n |-> since[c] + k]
                    /\ c \in open => since[c] + n = W!Due(c)
  BY DEF W!EachEventOnceInOrder
<1> DEFINE n == Len(got[c]) - 1
           events == [k \in 1..n |-> since[c] + k]
<1>1. /\ n \in Nat /\ got[c] \in Seq(Nat) /\ Len(got[c]) = n + 1 /\ got[c][1] = 0
      /\ since[c] \in Nat
      /\ \A k \in 1..n : got[c][k + 1] = since[c] + k
  BY WSPieces DEF WSInv, WSTypes, WSReceived
<1>2. events \in Seq(Nat) /\ Len(events) = n /\ \A k \in 1..n : events[k] = since[c] + k
  <2>1. events \in [1..n -> Nat] /\ DOMAIN events = 1..n
    BY <1>1
  <2>2. events \in Seq(Nat)
    BY <1>1, <2>1, SeqDef
  <2>3. Len(events) = n
    BY <1>1, <2>1, <2>2, LenProperties
  <2> QED
    BY <2>2, <2>3
<1>3. got[c] = <<0>> \o events
  <2>1. <<0>> \in Seq(Nat) /\ Len(<<0>>) = 1 /\ <<0>>[1] = 0
    OBVIOUS
  <2> HIDE DEF events, n
  <2>2. /\ <<0>> \o events \in Seq(Nat) /\ Len(<<0>> \o events) = 1 + n
        /\ \A k \in 1..(1 + n) :
               (<<0>> \o events)[k] = IF k <= 1 THEN <<0>>[k] ELSE events[k - 1]
    BY <1>2, <2>1, ConcatProperties
  <2>3. \A k \in 1..Len(got[c]) : got[c][k] = (<<0>> \o events)[k]
    <3> SUFFICES ASSUME NEW k \in 1..(n + 1) PROVE got[c][k] = (<<0>> \o events)[k]
      BY <1>1
    <3>1. CASE k = 1
      BY <1>1, <2>1, <2>2, <3>1
    <3>2. CASE k # 1
      <4>1. k - 1 \in 1..n /\ (k - 1) + 1 = k /\ ~(k <= 1) /\ k \in 1..(1 + n)
        BY <1>1, <3>2
      <4> QED
        BY <1>1, <1>2, <2>2, <4>1
    <3> QED
      BY <3>1, <3>2
  <2> QED
    <3>1. Len(got[c]) = Len(<<0>> \o events)
      BY <1>1, <2>2
    <3> QED
      BY <1>1, <2>2, <2>3, <3>1, SeqEqual
<1>4. c \in open => since[c] + n = W!Due(c)
  <2> SUFFICES ASSUME c \in open PROVE since[c] + n = W!Due(c)
    OBVIOUS
  <2>1. PICK k \in Places : eventConn[k] = c
    BY DEF WSInv, AllListed
  <2>2. since[c] + Len(got[c]) - 1 = since[c] + n
    BY <1>1
  <2>3. CASE k \in walk.i..Len(eventConn)
    BY <2>1, <2>2, <2>3 DEF WSInv, WSReceived, W!Due
  <2>4. CASE k \notin walk.i..Len(eventConn)
    <3>1. k \in 1..walk.j
      BY <2>1, <2>4 DEF Places
    <3>2. \A l \in walk.i..Len(eventConn) : eventConn[l] # c
      BY <2>1, <2>4 DEF WSInv, ListSound, Places
    <3> QED
      BY <2>1, <2>2, <3>1, <3>2 DEF WSInv, WSReceived, W!Due
  <2> QED
    BY <2>3, <2>4
<1> QED
  BY <1>3, <1>4

\* Every client of the WebSocket server (server/websocket.go) gets, after the
\* handshake, the events since it joined, once and in order.
THEOREM InOrder == W!Spec => []W!EachEventOnceInOrder
BY WSInvariance, ReceivedInOrder, PTL

\* Between events the list is the subscribers.
LEMMA SubscribersInList == WSInv => W!SubscribersListed
<1> SUFFICES ASSUME WSInv, ~walk.on PROVE W!SubscribersListed
  BY DEF W!SubscribersListed
<1>1. walk.i = 1 /\ walk.j = 0 /\ Places = 1..Len(eventConn)
  BY WSPieces DEF WSInv, WalkOK, Places
<1>2. \A c \in W!Listed : since[c] # -1 /\ since[c] + Len(got[c]) - 1 = wsPushed
  <2> SUFFICES ASSUME NEW k \in 1..Len(eventConn)
               PROVE  /\ since[eventConn[k]] # -1
                      /\ since[eventConn[k]] + Len(got[eventConn[k]]) - 1 = wsPushed
    BY DEF W!Listed
  <2>1. since[eventConn[k]] # -1
    BY DEF WSInv, ListSound
  <2> QED
    BY <1>1, <2>1 DEF WSInv, WSReceived
<1>3. \A c \in Clients : c \in open /\ since[c] # -1 => c \in W!Listed
  BY <1>1 DEF WSInv, AllListed, W!Listed
<1> QED
  BY <1>1, <1>2, <1>3 DEF WSInv, ListSound, W!SubscribersListed

\* The list that onBotPushEvent edits in place holds, between events, every
\* open subscriber once and nobody else.
THEOREM Listing == W!Spec => []W!SubscribersListed
BY SubscribersInList, WSInvariance, PTL

-----------------------------------------------------------------------------
(* HttpApi: an action runs only for an admitted request, and the token     *)
(* bucket limits all of them together.                                     *)

Stages == {"off", "received", "waiting", "calling", "replied"}

\* The credentials that count, and a request that the server s lets through.
Auth(m) == IF m.header = "" THEN m.query ELSE m.header
NoAuth(m) == Auth(m) = ""
Credentials(m) ==
    \/ m.header = "right"
    \/ m.header = "" /\ m.query = "right"
Admitted(s, m) == (s.secret => Credentials(m)) /\ m.method \in {"POST", "GET"}

HttpTypes ==
    /\ server \in H!Settings \cup {None}
    /\ stage \in [HttpRequests -> Stages]
    /\ message \in [HttpRequests -> HttpMessages \cup {None}]
    /\ ran \in [HttpRequests -> H!Executed \cup {None}]
    /\ status \in [HttpRequests -> Nat]
    /\ tokens \in Nat /\ refills \in Nat

\* Nothing arrives before the server runs, and what waits, is called or has run
\* was admitted; an action ran with a spec and was answered with 200, or the
\* status that a malformed form has written before it.
Handled ==
    /\ server = None => \A r \in HttpRequests : stage[r] = "off"
    /\ \A r \in HttpRequests : ran[r] # None => stage[r] = "replied" /\ server.spec # None
    /\ \A r \in HttpRequests :
          stage[r] \in {"waiting", "calling"} => H!Admitted(message[r])
    /\ \A r \in HttpRequests :
          stage[r] \in {"waiting", "calling"} \/ ran[r] # None => Admitted(server, message[r])
    /\ \A r \in HttpRequests : ran[r] # None => status[r] = 200 \/ H!MalformedForm(message[r])

\* The limiter of a server in QQ mode; without a server nobody takes a token.
Limiting == server # None => server.limited /\ ~server.weixin

Metered ==
    Limiting => Cardinality(H!Through) + tokens = Bucket + refills

HttpInv == HttpTypes /\ Handled /\ Metered

\* The token that counts decides.
LEMMA CheckAuthByAuth ==
    \A m : H!CheckAuth(m) = IF ~server.secret \/ Auth(m) = "right" THEN 200
                            ELSE IF NoAuth(m) THEN 401 ELSE 403
BY Zenon DEF H!CheckAuth, Auth, NoAuth

\* A request that is not refused has the credentials and a method.
LEMMA Admission ==
    ASSUME NEW m, H!Refusal(m) = 200
    PROVE  Admitted(server, m)
<1>1. m.method \in {"POST", "GET"} /\ H!CheckAuth(m) = 200
  BY DEF H!Refusal
<1>3. server.secret => Auth(m) = "right"
  <2>1. CASE ~server.secret \/ Auth(m) = "right"
    BY <2>1
  <2>2. CASE ~(~server.secret \/ Auth(m) = "right")
    <3>1. H!CheckAuth(m) \in {401, 403}
      BY <2>2, CheckAuthByAuth
    <3> QED
      BY <1>1, <3>1
  <2> QED
    BY <2>1, <2>2
<1>4. Auth(m) = "right" => Credentials(m)
  <2>1. "right" # ""
    OBVIOUS
  <2> QED
    BY <2>1, Zenon DEF Auth, Credentials
<1> QED
  BY <1>1, <1>3, <1>4 DEF Admitted

\* A refusal is a status.
LEMMA StatusIsNat == \A m : H!Refusal(m) \in Nat
<1> TAKE m
<1>1. H!CheckAuth(m) \in {200, 401, 403}
  BY CheckAuthByAuth
<1>2. H!CheckAuth(m) \in Nat
  BY <1>1
<1> QED
  BY <1>2 DEF H!Refusal

\* Whether a request is admitted changes only with the server.
LEMMA AdmittedAsBefore ==
    ASSUME server' = server, NEW r \in HttpRequests, message'[r] = message[r]
    PROVE  H!Admitted(message[r])' <=> H!Admitted(message[r])
BY DEF H!Admitted, H!PanicsAtOnce, H!Refusal, H!CheckAuth, H!IsPost

LEMMA InitHttpInv == H!Init => HttpInv
<1> SUFFICES ASSUME H!Init PROVE HttpInv
  OBVIOUS
<1>1. H!Through = {}
  BY DEF H!Init, H!Through
<1>2. Bucket \in Nat
  BY ServersAssumption DEF H!HttpAssumption
<1>3. HttpTypes /\ Handled
  BY <1>2 DEF H!Init, HttpTypes, Handled, Stages
<1>4. Cardinality(H!Through) + tokens = Bucket + refills
  BY <1>1, <1>2, FS_EmptySet DEF H!Init
<1>5. Metered
  BY <1>4 DEF H!Init, Metered
<1> QED
  BY <1>3, <1>5 DEF HttpInv

\* What an action is given is one of the parameter's sources, or nothing.
LEMMA ExecutedIsNotNone ==
    ASSUME NEW m
    PROVE  [parameter |-> H!Parameter(m)] \in H!Executed \ {None}
<1>1. H!Parameter(m) \in ({"json", "form", "query"} \X {"a", "b"}) \cup {None}
  <2>1. \A key \in {"a", "b"} : H!Get(m, key) \in ({"form", "query"} \X {"a", "b"}) \cup {None}
    BY Zenon DEF H!Get
  <2> QED
    BY <2>1, Zenon DEF H!Parameter
<1> QED
  BY <1>1, ServersAssumption DEF H!HttpAssumption, H!Executed

\* The operators that the instance takes from FiniteSets are those of FiniteSets.
LEMMA HttpCardinality == \A S : H!Cardinality(S) = Cardinality(S)
BY Zenon DEF H!Cardinality, Cardinality

LEMMA ThroughIsFinite == IsFiniteSet(H!Through)
<1>1. H!Through \subseteq HttpRequests
  BY DEF H!Through
<1>2. IsFiniteSet(HttpRequests)
  BY ServersAssumption, Zenon DEF H!HttpAssumption, H!IsFiniteSet, IsFiniteSet
<1> QED
  BY <1>1, <1>2, FS_Subset

\* A server starts: nobody has asked it yet.
LEMMA RunHttpInv ==
    ASSUME HttpInv, H!RunHTTP \/ H!RunLambda
    PROVE  HttpInv'
<1>1. /\ server = None /\ server' \in H!Settings
      /\ UNCHANGED <<message, stage, status, ran, tokens, refills>>
  BY DEF H!RunHTTP, H!RunLambda, H!callVars, H!Settings, H!Spec12
<1>2. HttpTypes'
  BY <1>1 DEF HttpInv, HttpTypes
<1>3. \A r \in HttpRequests : stage[r] = "off" /\ ran[r] = None
  BY <1>1 DEF HttpInv, Handled
<1>6. H!Through' = H!Through
  BY <1>1, <1>3 DEF H!Through
<1>4. Handled'
  BY <1>1, <1>3 DEF Handled
<1>5. Metered'
  BY <1>1, <1>3, <1>6 DEF HttpInv, Metered, Limiting
<1> QED
  BY <1>2, <1>4, <1>5 DEF HttpInv

\* A request arrives, is refused or panics.
LEMMA ReplyHttpInv ==
    ASSUME HttpInv, NEW r \in HttpRequests, H!Receive(r) \/ H!Panic(r) \/ H!Refuse(r)
    PROVE  HttpInv'
<1> DEFINE Passed(q) ==
               stage[q] = "calling" \/ (stage[q] = "replied" /\ H!Admitted(message[q]))
<1>1. /\ UNCHANGED <<server, ran, tokens, refills>> /\ server # None
      /\ stage[r] \in {"off", "received", "calling"} /\ stage'[r] \in {"received", "replied"}
      /\ stage' \in [HttpRequests -> Stages] /\ message' \in [HttpRequests -> HttpMessages \cup {None}]
      /\ status' \in [HttpRequests -> Nat]
      /\ \A q \in HttpRequests : q # r =>
            stage'[q] = stage[q] /\ message'[q] = message[q] /\ status'[q] = status[q]
      /\ Passed(r)' <=> Passed(r)
  <2>1. CASE H!Receive(r)
    <3>1. stage[r] = "off" /\ stage'[r] = "received"
      BY <2>1 DEF H!Receive, HttpInv, HttpTypes
    <3> QED
      BY <2>1, <3>1 DEF H!Receive, HttpInv, HttpTypes, Stages
  <2>2. CASE H!Panic(r)
    <3>1. /\ stage'[r] = "replied" /\ UNCHANGED <<server, message, ran, tokens, refills>>
          /\ \/ stage[r] = "received" /\ H!PanicsAtOnce(message[r])
             \/ stage[r] = "calling"
      BY <2>2 DEF H!Panic, H!Reply, HttpInv, HttpTypes
    <3>2. Passed(r) <=> H!Admitted(message[r])
      BY <3>1 DEF HttpInv, Handled, H!Admitted
    <3>3. Passed(r)' <=> H!Admitted(message[r])
      BY <3>1, AdmittedAsBefore
    <3> HIDE DEF Passed
    <3> QED
      BY <2>2, <3>1, <3>2, <3>3 DEF H!Panic, H!Reply, HttpInv, HttpTypes, Stages, Handled
  <2>3. CASE H!Refuse(r)
    <3>1. H!Written(message[r], H!Refusal(message[r])) \in Nat
      BY StatusIsNat DEF H!Written
    <3>2. /\ stage[r] = "received" /\ stage'[r] = "replied" /\ ~H!Admitted(message[r])
          /\ UNCHANGED <<server, message, ran, tokens, refills>>
      BY <2>3 DEF H!Refuse, H!Reply, HttpInv, HttpTypes, H!Admitted
    <3>3. ~Passed(r) /\ ~Passed(r)'
      BY <3>2, AdmittedAsBefore
    <3> HIDE DEF Passed
    <3> QED
      BY <2>3, <3>1, <3>2, <3>3 DEF H!Refuse, H!Reply, HttpInv, HttpTypes, Stages, Handled
  <2> QED
    BY <2>1, <2>2, <2>3
<1>2. ran[r] = None
  BY <1>1 DEF HttpInv, Handled
<1>3. H!Through' = H!Through
  <2>1. \A q \in HttpRequests : q # r => (Passed(q)' <=> Passed(q))
    BY <1>1, AdmittedAsBefore
  <2>2. \A q \in HttpRequests : Passed(q)' <=> Passed(q)
    BY <1>1, <2>1
  <2>3. H!Through = {q \in HttpRequests : Passed(q)}
    BY DEF H!Through
  <2>4. H!Through' = {q \in HttpRequests : Passed(q)'}
    BY DEF H!Through
  <2> HIDE DEF Passed
  <2> QED
    BY <2>2, <2>3, <2>4
<1>4. HttpTypes'
  BY <1>1 DEF HttpInv, HttpTypes
<1>7. \A q \in HttpRequests : q # r => (H!Admitted(message[q])' <=> H!Admitted(message[q]))
  BY <1>1, AdmittedAsBefore
<1>5. Handled'
  BY <1>1, <1>2, <1>7 DEF HttpInv, Handled
<1>6. Metered'
  BY <1>1, <1>2, <1>3 DEF HttpInv, Metered, Limiting
<1> QED
  BY <1>4, <1>5, <1>6 DEF HttpInv

\* A request is admitted; in QQ mode with a limit it waits for a token.
LEMMA AdmitHttpInv ==
    ASSUME HttpInv, NEW r \in HttpRequests, H!Admit(r)
    PROVE  HttpInv'
<1>1. /\ UNCHANGED <<server, message, status, ran, tokens, refills>>
      /\ stage[r] = "received" /\ server # None /\ ran[r] = None
      /\ stage' \in [HttpRequests -> Stages]
      /\ stage'[r] = IF server.limited /\ ~server.weixin THEN "waiting" ELSE "calling"
      /\ \A q \in HttpRequests : q # r => stage'[q] = stage[q]
  BY DEF H!Admit, HttpInv, HttpTypes, Handled, Stages
<1>2. HttpTypes'
  BY <1>1 DEF HttpInv, HttpTypes
<1>3. Admitted(server, message[r]) /\ H!Admitted(message[r])
  BY Admission DEF H!Admit, H!Admitted
<1>6. \A q \in HttpRequests : H!Admitted(message[q])' <=> H!Admitted(message[q])
  BY <1>1, AdmittedAsBefore
<1>4. Handled'
  BY <1>1, <1>3, <1>6 DEF HttpInv, Handled
<1>5. Metered'
  <2> SUFFICES ASSUME Limiting PROVE Cardinality(H!Through') + tokens' = Bucket + refills'
    BY <1>1 DEF Metered, Limiting
  <2>1. stage'[r] = "waiting"
    BY <1>1 DEF Limiting
  <2>2. H!Through' = H!Through
    BY <1>1, <1>6, <2>1 DEF H!Through
  <2> QED
    BY <1>1, <2>2 DEF HttpInv, Metered
<1> QED
  BY <1>2, <1>4, <1>5 DEF HttpInv

\* The limiter lets one more through, for a token.
LEMMA TakeTokenHttpInv ==
    ASSUME HttpInv, NEW r \in HttpRequests, H!TakeToken(r)
    PROVE  HttpInv'
<1>1. /\ UNCHANGED <<server, message, status, ran, refills>>
      /\ stage[r] = "waiting" /\ stage'[r] = "calling" /\ ran[r] = None
      /\ tokens > 0 /\ tokens' = tokens - 1
      /\ stage' \in [HttpRequests -> Stages]
      /\ \A q \in HttpRequests : q # r => stage'[q] = stage[q]
  BY DEF H!TakeToken, HttpInv, HttpTypes, Handled, Stages
<1>2. HttpTypes'
  BY <1>1 DEF HttpInv, HttpTypes
<1>7. \A q \in HttpRequests : H!Admitted(message[q])' <=> H!Admitted(message[q])
  BY <1>1, AdmittedAsBefore
<1>3. Handled'
  BY <1>1, <1>7 DEF HttpInv, Handled
<1>4. H!Through' = H!Through \cup {r} /\ r \notin H!Through /\ IsFiniteSet(H!Through)
  <2>1. H!Through' = H!Through \cup {r} /\ r \notin H!Through
    BY <1>1, <1>7 DEF H!Through
  <2> QED
    BY <2>1, ThroughIsFinite
<1>5. Cardinality(H!Through') = Cardinality(H!Through) + 1 /\ Cardinality(H!Through) \in Nat
  BY <1>4, FS_AddElement, FS_CardinalityType
<1>6. Metered'
  <2>1. tokens \in Nat /\ refills \in Nat /\ Bucket \in Nat
    BY ServersAssumption DEF HttpInv, HttpTypes, H!HttpAssumption
  <2> SUFFICES ASSUME Limiting PROVE Cardinality(H!Through') + tokens' = Bucket + refills
    BY <1>1 DEF Metered, Limiting
  <2>2. Cardinality(H!Through) + tokens = Bucket + refills
    BY DEF HttpInv, Metered
  <2> QED
    BY <1>1, <1>5, <2>1, <2>2
<1> QED
  BY <1>2, <1>3, <1>6 DEF HttpInv

\* A token is added.
LEMMA RefillHttpInv ==
    ASSUME HttpInv, H!Refill
    PROVE  HttpInv'
<1>1. /\ UNCHANGED <<server, message, stage, status, ran>>
      /\ tokens' = tokens + 1 /\ refills' = refills + 1
  BY DEF H!Refill, H!callVars
<1>4. \A q \in HttpRequests : H!Admitted(message[q])' <=> H!Admitted(message[q])
  BY <1>1, AdmittedAsBefore
<1>2. HttpTypes' /\ Handled'
  BY <1>1, <1>4 DEF HttpInv, HttpTypes, Handled
<1>3. Metered'
  <2>1. H!Through' = H!Through
    BY <1>1, <1>4 DEF H!Through
  <2>2. tokens \in Nat /\ refills \in Nat /\ Bucket \in Nat
    BY ServersAssumption DEF HttpInv, HttpTypes, H!HttpAssumption
  <2>3. Cardinality(H!Through) \in Nat
    BY ThroughIsFinite, FS_CardinalityType
  <2> SUFFICES ASSUME Limiting PROVE Cardinality(H!Through') + tokens' = Bucket + refills'
    BY <1>1 DEF Metered, Limiting
  <2>4. Cardinality(H!Through) + tokens = Bucket + refills
    BY DEF HttpInv, Metered
  <2> QED
    BY <1>1, <2>1, <2>2, <2>3, <2>4
<1> QED
  BY <1>2, <1>3 DEF HttpInv

\* The action runs.
LEMMA RunHttpRequestInv ==
    ASSUME HttpInv, NEW r \in HttpRequests, H!Run(r)
    PROVE  HttpInv'
<1>1. /\ UNCHANGED <<server, message, tokens, refills>>
      /\ stage[r] = "calling" /\ stage'[r] = "replied" /\ stage' \in [HttpRequests -> Stages]
      /\ status' \in [HttpRequests -> Nat] /\ status'[r] = H!Written(message[r], 200)
      /\ ran' = [ran EXCEPT ![r] = [parameter |-> H!Parameter(message[r])]]
      /\ \A q \in HttpRequests : q # r => stage'[q] = stage[q] /\ status'[q] = status[q]
  <2>1. H!Written(message[r], 200) \in Nat
    BY DEF H!Written
  <2> QED
    BY <2>1 DEF H!Run, H!Reply, HttpInv, HttpTypes, Stages
<1>2. /\ ran' \in [HttpRequests -> H!Executed \cup {None}] /\ ran'[r] # None
      /\ \A q \in HttpRequests : q # r => ran'[q] = ran[q]
  BY <1>1, ExecutedIsNotNone DEF HttpInv, HttpTypes
<1>3. HttpTypes'
  BY <1>1, <1>2 DEF HttpInv, HttpTypes
<1>4. status'[r] = 200 \/ H!MalformedForm(message[r])
  BY <1>1 DEF H!Written
<1>7. \A q \in HttpRequests : H!Admitted(message[q])' <=> H!Admitted(message[q])
  BY <1>1, AdmittedAsBefore
<1>8. server.spec # None /\ H!Admitted(message[r])
  BY <1>1 DEF H!Run, HttpInv, Handled
<1>5. Handled'
  BY <1>1, <1>2, <1>4, <1>7, <1>8 DEF HttpInv, Handled
<1>6. Metered'
  <2>1. H!Through' = H!Through
    BY <1>1, <1>7, <1>8 DEF H!Through
  <2> QED
    BY <1>1, <2>1 DEF HttpInv, Metered, Limiting
<1> QED
  BY <1>3, <1>5, <1>6 DEF HttpInv

\* Every step keeps the invariant.
LEMMA NextHttpInv == HttpInv /\ [H!Next]_(H!vars) => HttpInv'
<1> SUFFICES ASSUME HttpInv, [H!Next]_(H!vars) PROVE HttpInv'
  OBVIOUS
<1>1. CASE H!RunHTTP \/ H!RunLambda
  BY <1>1, RunHttpInv
<1>2. CASE H!Refill
  BY <1>2, RefillHttpInv
<1>3. ASSUME NEW r \in HttpRequests, H!Receive(r) \/ H!Panic(r) \/ H!Refuse(r) PROVE HttpInv'
  BY <1>3, ReplyHttpInv
<1>4. ASSUME NEW r \in HttpRequests, H!Admit(r) \/ H!TakeToken(r) \/ H!Run(r) PROVE HttpInv'
  BY <1>4, AdmitHttpInv, TakeTokenHttpInv, RunHttpRequestInv
<1>5. CASE UNCHANGED H!vars
  <2>1. UNCHANGED <<server, message, stage, status, ran, tokens, refills>>
    BY <1>5 DEF H!vars, H!callVars
  <2> QED
    BY <2>1, AdmittedAsBefore DEF HttpInv, HttpTypes, Handled, Metered, Limiting, H!Through
<1> QED
  BY <1>1, <1>2, <1>3, <1>4, <1>5 DEF H!Next

\* What the property says follows.
LEMMA HttpInvSuffices == HttpInv => H!OnlyAdmittedCallsRun
<1> SUFFICES ASSUME HttpInv PROVE H!OnlyAdmittedCallsRun
  OBVIOUS
<1>1. \A r \in H!Ran : Admitted(server, message[r])
  BY DEF HttpInv, Handled, H!Ran
<1>2. \A r \in H!Ran : status[r] = 200 \/ H!MalformedForm(message[r])
  BY DEF HttpInv, Handled, H!Ran
<1>3. server # None /\ server.limited /\ ~server.weixin =>
          Cardinality(H!Through) + tokens = Bucket + refills
  BY DEF HttpInv, Metered, Limiting
<1>4. \A r \in H!Ran :
          /\ server.secret =>
                \/ message[r].header = "right"
                \/ message[r].header = "" /\ message[r].query = "right"
          /\ message[r].method \in {"POST", "GET"}
  BY <1>1, Zenon DEF Admitted, Credentials
<1>5. \A r \in H!Ran : server.spec # None
  BY DEF HttpInv, Handled, H!Ran
<1> QED
  BY <1>2, <1>3, <1>4, <1>5, HttpCardinality, Zenon DEF H!OnlyAdmittedCallsRun

-----------------------------------------------------------------------------
(* WeixinApi: what is stored, told or posted is of one account, unless the *)
(* account changed during the call.                                        *)

CallStages == {"idle", "build", "send", "post", "sent", "upsert", "name", "insert", "report", "info"}

ApiTypes ==
    /\ session \in Accounts \cup {None}
    /\ self \in [raw : Accounts \cup {None}, mapped : Accounts \cup {None}]
    /\ poller \in [at : {"poll", "dispatch", "confirm", "adopt", "mapped"},
                   user : Users \cup {None}, account : Accounts \cup {None}]
    /\ contacts \in SUBSET Users
    /\ token \in [Users -> Accounts \cup {None}]
    /\ apiCall \in [ApiCalls -> [at : CallStages, user : Users \cup {None},
                                 token : Accounts \cup {None}, fresh : BOOLEAN,
                                 account : Accounts \cup {None}, seen : Accounts \cup {None}]]
    /\ \A c \in ApiCalls :
          apiCall[c].at \in {"build", "send", "post", "sent", "upsert"} => apiCall[c].user \in Users

\* How far the identity has followed the session.
PollerKnows ==
    /\ poller.at # "mapped" => self.raw = self.mapped
    /\ poller.at \in {"poll", "dispatch", "mapped"} => session \in {None, self.raw}
    /\ poller.at \in {"dispatch", "mapped"} => poller.account = self.raw
    /\ poller.at = "adopt" => session \in {None, poller.account}
    /\ poller.at = "dispatch" => poller.user \in Users

\* What a call that no change of account overlaps has read is of one account.
CallSettled(c) ==
    /\ X!Settled
    /\ apiCall[c].at \in {"post", "sent", "upsert", "name", "insert", "report"} =>
           apiCall[c].account = self.raw
    /\ apiCall[c].at \in {"insert", "info"} => apiCall[c].seen = self.raw
    /\ apiCall[c].at \in {"send", "post"} /\ apiCall[c].fresh => apiCall[c].token = self.raw

CallsSettled ==
    \A c \in ApiCalls : apiCall[c].at # "idle" /\ c \notin switched => CallSettled(c)

\* A token brought since the identity was set is of the identity's account.
TokensFresh == \A u \in Users : u \in wrote \ reverted => token[u] = self.mapped

Told == X!NamesItsAccount /\ X!OwnContextToken

ApiInv == ApiTypes /\ PollerKnows /\ CallsSettled /\ TokensFresh /\ Told

LEMMA InitApiInv == X!Init => ApiInv
<1> SUFFICES ASSUME X!Init PROVE ApiInv
  OBVIOUS
<1>1. ApiTypes
  BY DEF X!Init, X!AtPoll, X!Idle, ApiTypes, CallStages
<1>2. PollerKnows
  BY DEF X!Init, X!AtPoll, PollerKnows
<1>3. CallsSettled
  BY DEF X!Init, X!Idle, CallsSettled
<1>4. TokensFresh /\ Told
  BY DEF X!Init, TokensFresh, Told, X!NamesItsAccount, X!OwnContextToken
<1> QED
  BY <1>1, <1>2, <1>3, <1>4 DEF ApiInv

\* What is stored under one name, or while the account changed, is told right.
LEMMA NamesTold ==
    ASSUME NEW names, NEW account, NEW overlap, overlap \/ names = {account},
           last' = X!Names(names, account, overlap)
    PROVE  Told'
<1>1. /\ last'.what = "names" /\ last'.names = names /\ last'.account = account
      /\ last'.switched = overlap
  BY DEF X!Names
<1>2. X!NamesItsAccount'
  BY <1>1 DEF X!NamesItsAccount
<1>3. X!OwnContextToken'
  BY <1>1 DEF X!OwnContextToken
<1> QED
  BY <1>2, <1>3 DEF Told

LEMMA NothingTold ==
    ASSUME Told, UNCHANGED last
    PROVE  Told'
BY DEF Told, X!NamesItsAccount, X!OwnContextToken

-----------------------------------------------------------------------------
\* The poller gets and dispatches a message of the account that is logged in.
LEMMA PollApiInv ==
    ASSUME ApiInv, NEW u \in Users, X!Poll(u)
    PROVE  ApiInv'
<1>1. /\ poller.at = "poll" /\ session # None
      /\ poller' = [at |-> "dispatch", user |-> u, account |-> session]
      /\ UNCHANGED <<session, self, contacts, token, apiCall, last, switched, wrote, reverted>>
  BY DEF X!Poll, X!dataVars, X!histVars
<1>2. ApiTypes'
  BY <1>1 DEF ApiInv, ApiTypes
<1>3. PollerKnows'
  BY <1>1 DEF ApiInv, PollerKnows
<1>4. CallsSettled' /\ TokensFresh'
  BY <1>1 DEF ApiInv, CallsSettled, CallSettled, X!Settled, TokensFresh
<1> QED
  BY <1>1, <1>2, <1>3, <1>4, NothingTold DEF ApiInv

LEMMA DispatchApiInv ==
    ASSUME ApiInv, X!DispatchWeixinPrivateMessage
    PROVE  ApiInv'
<1>1. /\ poller.at = "dispatch" /\ poller' = [at |-> "poll", user |-> None, account |-> None]
      /\ contacts' = contacts \cup {poller.user}
      /\ UNCHANGED <<session, self, apiCall, switched>>
      /\ \/ last' = X!Names({self.raw, self.mapped}, poller.account, FALSE)
         \/ last' = last
      /\ \/ /\ token' = [token EXCEPT ![poller.user] = self.raw]
            /\ wrote' = wrote \cup {poller.user} /\ reverted' = reverted \ {poller.user}
         \/ UNCHANGED <<token, wrote, reverted>>
  BY DEF X!DispatchWeixinPrivateMessage, X!AtPoll, X!Stored, X!UpsertContact
<1>2. /\ self.raw = self.mapped /\ poller.account = self.raw /\ session \in {None, self.raw}
      /\ poller.user \in Users
  BY <1>1 DEF ApiInv, PollerKnows
<1>3. ApiTypes'
  <2>1. self.raw \in Accounts \cup {None} /\ token \in [Users -> Accounts \cup {None}]
    BY DEF ApiInv, ApiTypes
  <2>2. token' \in [Users -> Accounts \cup {None}]
    BY <1>1, <2>1
  <2>3. /\ poller' \in [at : {"poll", "dispatch", "confirm", "adopt", "mapped"},
                        user : Users \cup {None}, account : Accounts \cup {None}]
        /\ contacts' \in SUBSET Users
    BY <1>1, <1>2 DEF ApiInv, ApiTypes
  <2> QED
    BY <1>1, <2>2, <2>3 DEF ApiInv, ApiTypes
<1>4. PollerKnows'
  BY <1>1, <1>2 DEF PollerKnows
<1>5. CallsSettled'
  BY <1>1 DEF ApiInv, CallsSettled, CallSettled, X!Settled
<1>6. TokensFresh'
  <2>1. token \in [Users -> Accounts \cup {None}]
    BY DEF ApiInv, ApiTypes
  <2> QED
    BY <1>1, <1>2, <2>1 DEF ApiInv, TokensFresh
<1>7. Told'
  <2>1. {self.raw, self.mapped} = {poller.account}
    BY <1>2
  <2> QED
    BY <1>1, <2>1, NamesTold, NothingTold DEF ApiInv
<1> QED
  BY <1>3, <1>4, <1>5, <1>6, <1>7 DEF ApiInv

\* The session ends, and the poller logs in again.
LEMMA LoginApiInv ==
    ASSUME ApiInv,
           X!Invalidate \/ X!Confirm \/ \E a \in Accounts : X!WaitQRLogin(a)
    PROVE  ApiInv'
<1>1. CASE X!Invalidate
  <2>1. /\ session' = None
        /\ UNCHANGED <<self, poller, contacts, token, apiCall, last, switched, wrote, reverted>>
    BY <1>1 DEF X!Invalidate, X!dataVars, X!histVars
  <2>2. ApiTypes' /\ PollerKnows' /\ TokensFresh' /\ Told'
    BY <2>1, NothingTold DEF ApiInv, ApiTypes, PollerKnows, TokensFresh
  <2>3. CallsSettled'
    BY <2>1 DEF ApiInv, CallsSettled, CallSettled, X!Settled
  <2> QED
    BY <2>2, <2>3 DEF ApiInv
<1>2. ASSUME NEW a \in Accounts, X!WaitQRLogin(a) PROVE ApiInv'
  <2>1. /\ poller.at = "poll" /\ session' = a
        /\ poller' = [at |-> "confirm", user |-> None, account |-> None]
        /\ switched' = IF a = self.raw THEN switched ELSE switched \cup X!Active
        /\ UNCHANGED <<self, contacts, token, apiCall, last, wrote, reverted>>
    BY <1>2 DEF X!WaitQRLogin, X!AtPoll, X!dataVars
  <2>2. ApiTypes' /\ PollerKnows' /\ TokensFresh' /\ Told'
    BY <2>1, NothingTold DEF ApiInv, ApiTypes, PollerKnows, TokensFresh
  <2>3. CallsSettled'
    BY <2>1 DEF ApiInv, CallsSettled, CallSettled, X!Settled, X!Active
  <2> QED
    BY <2>2, <2>3 DEF ApiInv
<1>3. CASE X!Confirm
  <2>1. /\ poller.at = "confirm"
        /\ \/ session = None /\ poller' = [at |-> "poll", user |-> None, account |-> None]
           \/ poller' = [at |-> "adopt", user |-> None, account |-> session]
        /\ UNCHANGED <<session, self, contacts, token, apiCall, last, switched, wrote, reverted>>
    BY <1>3 DEF X!Confirm, X!AtPoll, X!dataVars, X!histVars
  <2>2. ApiTypes' /\ PollerKnows' /\ TokensFresh' /\ Told'
    BY <2>1, NothingTold DEF ApiInv, ApiTypes, PollerKnows, TokensFresh
  <2>3. CallsSettled'
    BY <2>1 DEF ApiInv, CallsSettled, CallSettled, X!Settled
  <2> QED
    BY <2>2, <2>3 DEF ApiInv
<1> QED
  BY <1>1, <1>2, <1>3

\* The identity follows: every call under way is overlapped when it changes.
LEMMA AdoptApiInv ==
    ASSUME ApiInv, X!UpdateSelfRaw \/ X!UpdateSelfMapped
    PROVE  ApiInv'
<1>0. /\ poller \in [at : {"poll", "dispatch", "confirm", "adopt", "mapped"},
                     user : Users \cup {None}, account : Accounts \cup {None}]
      /\ self \in [raw : Accounts \cup {None}, mapped : Accounts \cup {None}]
  BY DEF ApiInv, ApiTypes
<1>1. CASE X!UpdateSelfRaw
  <2>1. /\ poller.at = "adopt" /\ poller' = [poller EXCEPT !.at = "mapped"]
        /\ self' = [self EXCEPT !.raw = poller.account]
        /\ switched' = IF poller.account = self.raw THEN switched ELSE switched \cup X!Active
        /\ UNCHANGED <<session, contacts, token, apiCall, last, wrote, reverted>>
    BY <1>1 DEF X!UpdateSelfRaw, X!dataVars
  <2>2. /\ self'.raw = poller.account /\ self'.mapped = self.mapped
        /\ poller'.at = "mapped" /\ poller'.account = poller.account
        /\ self' \in [raw : Accounts \cup {None}, mapped : Accounts \cup {None}]
        /\ poller' \in [at : {"poll", "dispatch", "confirm", "adopt", "mapped"},
                        user : Users \cup {None}, account : Accounts \cup {None}]
    BY <1>0, <2>1
  <2>3. ApiTypes' /\ PollerKnows' /\ TokensFresh' /\ Told'
    BY <2>1, <2>2, NothingTold DEF ApiInv, ApiTypes, PollerKnows, TokensFresh
  <2>4. CallsSettled'
    <3> SUFFICES ASSUME NEW c \in ApiCalls, apiCall[c].at # "idle", c \notin switched'
                 PROVE  CallSettled(c)'
      BY <2>1 DEF CallsSettled
    <3>1. poller.account = self.raw /\ c \notin switched
      BY <2>1 DEF X!Active
    <3>2. self'.raw = self.raw /\ CallSettled(c)
      BY <2>2, <3>1 DEF ApiInv, CallsSettled
    <3> QED
      BY <2>1, <2>2, <3>2 DEF CallSettled, X!Settled
  <2> QED
    BY <2>3, <2>4 DEF ApiInv
<1>2. CASE X!UpdateSelfMapped
  <2>1. /\ poller.at = "mapped" /\ poller' = [at |-> "poll", user |-> None, account |-> None]
        /\ self' = [self EXCEPT !.mapped = poller.account]
        /\ wrote' = IF self.mapped = poller.account THEN wrote ELSE {}
        /\ UNCHANGED <<session, contacts, token, apiCall, last, switched, reverted>>
    BY <1>2 DEF X!UpdateSelfMapped, X!dataVars, X!AtPoll
  <2>2. /\ self'.raw = self.raw /\ self'.mapped = poller.account
        /\ self' \in [raw : Accounts \cup {None}, mapped : Accounts \cup {None}]
        /\ poller' \in [at : {"poll", "dispatch", "confirm", "adopt", "mapped"},
                        user : Users \cup {None}, account : Accounts \cup {None}]
    BY <1>0, <2>1
  <2>3. poller.account = self.raw /\ session \in {None, self.raw}
    BY <2>1 DEF ApiInv, PollerKnows
  <2>4. ApiTypes' /\ PollerKnows' /\ TokensFresh' /\ Told'
    BY <2>1, <2>2, <2>3, NothingTold DEF ApiInv, ApiTypes, PollerKnows, TokensFresh
  <2>5. CallsSettled'
    <3> SUFFICES ASSUME NEW c \in ApiCalls, apiCall[c].at # "idle", c \notin switched
                 PROVE  CallSettled(c)'
      BY <2>1 DEF CallsSettled
    <3>1. CallSettled(c)
      BY DEF ApiInv, CallsSettled
    <3> QED
      BY <2>1, <2>2, <2>3, <3>1 DEF CallSettled, X!Settled
  <2> QED
    BY <2>4, <2>5 DEF ApiInv
<1> QED
  BY <1>1, <1>2

-----------------------------------------------------------------------------
(* A step of the call c.                                                   *)

CallType == [at : CallStages, user : Users \cup {None}, token : Accounts \cup {None},
             fresh : BOOLEAN, account : Accounts \cup {None}, seen : Accounts \cup {None}]

\* The call c goes on with what it has read, and is overlapped as before, or
\* begins; the poller and the identity are as they were.
LEMMA CallStep ==
    ASSUME ApiInv, NEW c \in ApiCalls,
           apiCall' \in [ApiCalls -> CallType],
           \A d \in ApiCalls \ {c} : apiCall'[d] = apiCall[d],
           apiCall'[c].at \in {"build", "send", "post", "sent", "upsert"} =>
               apiCall'[c].user \in Users,
           UNCHANGED <<session, self, poller, contacts, wrote>>,
           \A d \in ApiCalls \ {c} : d \in switched' <=> d \in switched,
           apiCall'[c].at # "idle" /\ c \notin switched' => CallSettled(c)',
           token' \in [Users -> Accounts \cup {None}], TokensFresh', Told'
    PROVE  ApiInv'
<1>1. ApiTypes'
  BY DEF ApiInv, ApiTypes, CallType
<1>2. PollerKnows'
  BY DEF ApiInv, PollerKnows
<1>4. CallsSettled'
  <2> SUFFICES ASSUME NEW d \in ApiCalls, apiCall'[d].at # "idle", d \notin switched'
               PROVE  CallSettled(d)'
    BY DEF CallsSettled
  <2>1. CASE d = c
    BY <2>1
  <2>2. CASE d # c
    <3>1. apiCall'[d] = apiCall[d] /\ d \notin switched
      BY <2>2
    <3>2. CallSettled(d)
      BY <3>1 DEF ApiInv, CallsSettled
    <3> QED
      BY <3>1, <3>2 DEF CallSettled, X!Settled
  <2> QED
    BY <2>1, <2>2
<1> QED
  BY <1>1, <1>2, <1>4 DEF ApiInv

\* What the invariant says of the call c and its user.
LEMMA CallFacts ==
    ASSUME ApiInv, NEW c \in ApiCalls
    PROVE  /\ apiCall[c] \in CallType
           /\ apiCall[c].at # "idle" /\ c \notin switched => CallSettled(c)
           /\ token \in [Users -> Accounts \cup {None}]
           /\ session \in Accounts \cup {None}
           /\ self.raw \in Accounts \cup {None} /\ self.mapped \in Accounts \cup {None}
           /\ apiCall \in [ApiCalls -> CallType]
           /\ apiCall[c].at \in {"build", "send", "post", "sent", "upsert"} =>
                  apiCall[c].user \in Users
BY DEF ApiInv, ApiTypes, CallsSettled, CallType

\* A call begins when the account is settled, or is taken for overlapped.
LEMMA BeginApiInv ==
    ASSUME ApiInv, NEW c \in ApiCalls,
           X!GetLoginInfo(c) \/ \E r \in ApiRequests : X!Begin(c, r)
    PROVE  ApiInv'
<1>1. /\ switched' = IF X!Settled THEN switched \ {c} ELSE switched \cup {c}
      /\ UNCHANGED <<session, self, poller, contacts, token, last, wrote, reverted>>
  BY DEF X!Begin, X!GetLoginInfo, X!clientVars, X!dataVars
<1>2. /\ apiCall' \in [ApiCalls -> CallType]
      /\ \A d \in ApiCalls \ {c} : apiCall'[d] = apiCall[d]
      /\ \/ apiCall'[c].at = "build" /\ apiCall'[c].user \in Users
         \/ apiCall'[c].at = "info" /\ apiCall'[c].seen = self.mapped
  <2>0. apiCall \in [ApiCalls -> CallType] /\ self.mapped \in Accounts \cup {None}
    BY CallFacts
  <2>3. /\ X!Idle \in CallType
        /\ DOMAIN X!Idle = {"at", "user", "token", "fresh", "account", "seen"}
    BY DEF X!Idle, CallType, CallStages
  <2>1. CASE X!GetLoginInfo(c)
    <3>1. apiCall' = [apiCall EXCEPT ![c] = [X!Idle EXCEPT !.at = "info", !.seen = self.mapped]]
      BY <2>1, Zenon DEF X!GetLoginInfo
    <3> QED
      BY <2>0, <2>3, <3>1 DEF CallType, CallStages
  <2>2. ASSUME NEW r \in ApiRequests, X!Begin(c, r)
        PROVE  /\ apiCall' \in [ApiCalls -> CallType]
               /\ \A d \in ApiCalls \ {c} : apiCall'[d] = apiCall[d]
               /\ apiCall'[c].at = "build" /\ apiCall'[c].user \in Users
    <3>1. apiCall' = [apiCall EXCEPT ![c] = [X!Idle EXCEPT !.at = "build", !.user = r.user]]
      BY <2>2, Zenon DEF X!Begin
    <3>2. r.user \in Users
      BY ServersAssumption DEF X!WeixinApiAssumption
    <3> QED
      BY <2>0, <2>3, <3>1, <3>2 DEF CallType, CallStages
  <2> QED
    BY <2>1, <2>2
<1>3. TokensFresh' /\ Told' /\ token' \in [Users -> Accounts \cup {None}]
  BY <1>1, CallFacts, NothingTold DEF ApiInv, TokensFresh
<1>4. c \notin switched' => CallSettled(c)'
  BY <1>1, <1>2 DEF X!Settled, CallSettled
<1> QED
  BY <1>1, <1>2, <1>3, <1>4, CallStep

\* The token or the identity is read.
LEMMA ReadApiInv ==
    ASSUME ApiInv, NEW c \in ApiCalls, X!ReadToken(c) \/ X!ReadTokenAgain(c) \/ X!NameMessage(c)
    PROVE  ApiInv'
<1>1. UNCHANGED <<session, self, poller, contacts, token, last, switched, wrote, reverted>>
  BY DEF X!ReadToken, X!ReadTokenAgain, X!NameMessage, X!clientVars, X!dataVars, X!histVars
<1>2. TokensFresh' /\ Told' /\ token' \in [Users -> Accounts \cup {None}]
  BY <1>1, CallFacts, NothingTold DEF ApiInv, TokensFresh
<1>3. /\ apiCall[c] \in CallType /\ apiCall \in [ApiCalls -> CallType]
      /\ token \in [Users -> Accounts \cup {None}]
      /\ self.raw \in Accounts \cup {None}
      /\ apiCall[c].at \in {"build", "send", "post", "sent", "upsert"} => apiCall[c].user \in Users
      /\ apiCall[c].at # "idle" /\ c \notin switched => CallSettled(c)
  BY CallFacts
<1>4. CASE X!ReadToken(c)
  <2> DEFINE u == apiCall[c].user
  <2>1. apiCall[c].at = "build" /\ u \in Users
    BY <1>3, <1>4 DEF X!ReadToken
  <2>2. /\ apiCall' \in [ApiCalls -> CallType]
        /\ \A d \in ApiCalls \ {c} : apiCall'[d] = apiCall[d]
        /\ apiCall'[c].at = "send" /\ apiCall'[c].user = u
        /\ apiCall'[c].token = token[u] /\ apiCall'[c].fresh = (u \in wrote \ reverted)
    <3> DEFINE fresh == u \in wrote \ reverted
    <3>1. apiCall' = [apiCall EXCEPT ![c].at = "send", ![c].token = token[u], ![c].fresh = fresh]
      BY <1>4, Zenon DEF X!ReadToken
    <3>2. fresh \in BOOLEAN
      OBVIOUS
    <3>3. token[u] \in Accounts \cup {None}
      BY <1>3, <2>1
    <3> HIDE DEF fresh
    <3>4. /\ apiCall' \in [ApiCalls -> CallType]
          /\ \A d \in ApiCalls \ {c} : apiCall'[d] = apiCall[d]
          /\ apiCall'[c].at = "send" /\ apiCall'[c].user = u
          /\ apiCall'[c].token = token[u] /\ apiCall'[c].fresh = fresh
      BY <1>3, <2>1, <3>1, <3>2, <3>3 DEF CallType, CallStages
    <3> QED
      BY <3>4, Zenon DEF fresh
  <2>3. c \notin switched => CallSettled(c)'
    <3> SUFFICES ASSUME c \notin switched PROVE CallSettled(c)'
      OBVIOUS
    <3>1. X!Settled
      BY <1>3, <2>1 DEF CallSettled
    <3>2. u \in wrote \ reverted => token[u] = self.raw
      BY <2>1, <3>1 DEF ApiInv, TokensFresh, X!Settled
    <3> QED
      BY <1>1, <2>2, <3>1, <3>2 DEF CallSettled, X!Settled
  <2> QED
    BY <1>1, <1>2, <2>1, <2>2, <2>3, CallStep
<1>5. CASE X!ReadTokenAgain(c)
  <2>1. apiCall[c].at = "sent" /\ apiCall[c].user \in Users
    BY <1>3, <1>5 DEF X!ReadTokenAgain
  <2>2. /\ apiCall' \in [ApiCalls -> CallType]
        /\ \A d \in ApiCalls \ {c} : apiCall'[d] = apiCall[d]
        /\ apiCall'[c].at = "upsert" /\ apiCall'[c].user = apiCall[c].user
        /\ apiCall'[c].account = apiCall[c].account
    BY <1>3, <1>5, <2>1 DEF X!ReadTokenAgain, CallType, CallStages
  <2>3. c \notin switched => CallSettled(c)'
    BY <1>1, <1>3, <2>1, <2>2 DEF CallSettled, X!Settled
  <2> QED
    BY <1>1, <1>2, <2>1, <2>2, <2>3, CallStep
<1>6. CASE X!NameMessage(c)
  <2>1. apiCall[c].at = "name"
    BY <1>6 DEF X!NameMessage
  <2>2. /\ apiCall' \in [ApiCalls -> CallType]
        /\ \A d \in ApiCalls \ {c} : apiCall'[d] = apiCall[d]
        /\ apiCall'[c].at = "insert" /\ apiCall'[c].seen = self.raw
        /\ apiCall'[c].account = apiCall[c].account
    BY <1>3, <1>6, <2>1 DEF X!NameMessage, CallType, CallStages
  <2>3. c \notin switched => CallSettled(c)'
    BY <1>1, <1>3, <2>1, <2>2 DEF CallSettled, X!Settled
  <2> QED
    BY <1>1, <1>2, <2>1, <2>2, <2>3, CallStep
<1> QED
  BY <1>4, <1>5, <1>6

\* The request is posted, or there is no session or no answer.
LEMMA PostApiInv ==
    ASSUME ApiInv, NEW c \in ApiCalls, X!SendPrivate(c) \/ X!PostFails(c) \/ X!Posted(c)
    PROVE  ApiInv'
<1>1. UNCHANGED <<session, self, poller, contacts, token, switched, wrote, reverted>>
  BY DEF X!SendPrivate, X!PostFails, X!Posted, X!clientVars, X!dataVars, X!histVars
<1>2. TokensFresh' /\ token' \in [Users -> Accounts \cup {None}]
  BY <1>1, CallFacts DEF ApiInv, TokensFresh
<1>3. /\ apiCall[c] \in CallType /\ apiCall \in [ApiCalls -> CallType]
      /\ session \in Accounts \cup {None}
      /\ apiCall[c].at \in {"build", "send", "post", "sent", "upsert"} => apiCall[c].user \in Users
      /\ apiCall[c].at # "idle" /\ c \notin switched => CallSettled(c)
  BY CallFacts
<1>4. X!Idle \in CallType /\ X!Idle.at = "idle"
  BY DEF X!Idle, CallType, CallStages
<1>5. CASE X!SendPrivate(c)
  <2>1. apiCall[c].at = "send" /\ UNCHANGED last
    BY <1>5 DEF X!SendPrivate, X!histVars
  <2>2. CASE session = None
    <3>1. apiCall' = [apiCall EXCEPT ![c] = X!Idle]
      BY <1>5, <2>2, Zenon DEF X!SendPrivate
    <3>2. /\ apiCall' \in [ApiCalls -> CallType] /\ apiCall'[c].at = "idle"
          /\ \A d \in ApiCalls \ {c} : apiCall'[d] = apiCall[d]
      BY <1>3, <1>4, <3>1
    <3> QED
      BY <1>1, <1>2, <2>1, <3>2, CallStep, NothingTold DEF ApiInv
  <2>3. CASE session # None
    <3>1. apiCall' = [apiCall EXCEPT ![c] = [apiCall[c] EXCEPT !.at = "post", !.account = session]]
      BY <1>5, <2>3, Zenon DEF X!SendPrivate
    <3>2. /\ apiCall' \in [ApiCalls -> CallType]
          /\ apiCall'[c].at = "post" /\ apiCall'[c].user = apiCall[c].user
          /\ apiCall'[c].token = apiCall[c].token /\ apiCall'[c].fresh = apiCall[c].fresh
          /\ apiCall'[c].account = session
          /\ \A d \in ApiCalls \ {c} : apiCall'[d] = apiCall[d]
      BY <1>3, <3>1 DEF CallType, CallStages
    <3>3. c \notin switched => CallSettled(c)'
      BY <1>1, <1>3, <2>1, <2>3, <3>2 DEF CallSettled, X!Settled
    <3> QED
      BY <1>1, <1>2, <1>3, <2>1, <3>2, <3>3, CallStep, NothingTold DEF ApiInv
  <2> QED
    BY <2>2, <2>3
<1>6. CASE X!PostFails(c)
  <2>1. apiCall' = [apiCall EXCEPT ![c] = X!Idle] /\ UNCHANGED last
    BY <1>6 DEF X!PostFails, X!histVars
  <2>2. /\ apiCall' \in [ApiCalls -> CallType] /\ apiCall'[c].at = "idle"
        /\ \A d \in ApiCalls \ {c} : apiCall'[d] = apiCall[d]
    BY <1>3, <1>4, <2>1
  <2> QED
    BY <1>1, <1>2, <2>1, <2>2, CallStep, NothingTold DEF ApiInv
<1>7. CASE X!Posted(c)
  <2>1. apiCall[c].at = "post"
    BY <1>7 DEF X!Posted
  <2>2. /\ apiCall' \in [ApiCalls -> CallType]
        /\ apiCall'[c].at = "sent" /\ apiCall'[c].user = apiCall[c].user
        /\ apiCall'[c].account = apiCall[c].account
        /\ \A d \in ApiCalls \ {c} : apiCall'[d] = apiCall[d]
    BY <1>3, <1>7, <2>1 DEF X!Posted, CallType, CallStages
  <2>3. c \notin switched => CallSettled(c)'
    BY <1>1, <1>3, <2>1, <2>2 DEF CallSettled, X!Settled
  <2>4. Told'
    <3>1. /\ last'.what = "posted" /\ last'.account = apiCall[c].account
          /\ last'.token = apiCall[c].token /\ last'.fresh = apiCall[c].fresh
          /\ last'.switched = (c \in switched)
      BY <1>7 DEF X!Posted
    <3>2. X!NamesItsAccount'
      BY <3>1 DEF X!NamesItsAccount
    <3>3. X!OwnContextToken'
      <4>1. CASE c \in switched
        BY <3>1, <4>1 DEF X!OwnContextToken
      <4>2. CASE c \notin switched
        <5>1. apiCall[c].account = self.raw /\ (apiCall[c].fresh => apiCall[c].token = self.raw)
          BY <1>3, <2>1, <4>2 DEF CallSettled
        <5> QED
          BY <3>1, <5>1 DEF X!OwnContextToken
      <4> QED
        BY <4>1, <4>2
    <3> QED
      BY <3>2, <3>3 DEF Told
  <2> QED
    BY <1>1, <1>2, <1>3, <2>1, <2>2, <2>3, <2>4, CallStep
<1> QED
  BY <1>5, <1>6, <1>7

\* The contact gets the token that was read last.
LEMMA SelfMessageApiInv ==
    ASSUME ApiInv, NEW c \in ApiCalls, X!DispatchWeixinSelfMessage(c)
    PROVE  ApiInv'
<1>1. /\ apiCall[c].at = "upsert"
      /\ token' = [token EXCEPT ![apiCall[c].user] = apiCall[c].token]
      /\ reverted' = IF apiCall[c].token = token[apiCall[c].user] THEN reverted
                     ELSE reverted \cup {apiCall[c].user}
      /\ UNCHANGED <<session, self, poller, contacts, last, switched, wrote>>
  BY DEF X!DispatchWeixinSelfMessage, X!UpsertContact, X!clientVars
<1>2. /\ apiCall[c] \in CallType /\ apiCall \in [ApiCalls -> CallType]
      /\ apiCall[c].user \in Users /\ token \in [Users -> Accounts \cup {None}]
      /\ c \notin switched => CallSettled(c)
  BY <1>1, CallFacts
<1>3. /\ apiCall' \in [ApiCalls -> CallType]
      /\ apiCall'[c].at = "name" /\ apiCall'[c].account = apiCall[c].account
      /\ \A d \in ApiCalls \ {c} : apiCall'[d] = apiCall[d]
  BY <1>2 DEF X!DispatchWeixinSelfMessage, CallType, CallStages
<1>4. token' \in [Users -> Accounts \cup {None}]
  BY <1>1, <1>2 DEF CallType
<1>5. TokensFresh'
  <2> SUFFICES ASSUME NEW u \in Users, u \in wrote, u \notin reverted' PROVE token'[u] = self.mapped
    BY <1>1 DEF TokensFresh
  <2>1. u \notin reverted /\ token'[u] = token[u]
    BY <1>1, <1>2
  <2> QED
    BY <2>1 DEF ApiInv, TokensFresh
<1>6. c \notin switched => CallSettled(c)'
  BY <1>1, <1>2, <1>3 DEF CallSettled, X!Settled
<1>7. Told'
  BY <1>1, NothingTold DEF ApiInv
<1> QED
  BY <1>1, <1>3, <1>4, <1>5, <1>6, <1>7, CallStep

\* The message is stored and told, or the login is.
LEMMA TellApiInv ==
    ASSUME ApiInv, NEW c \in ApiCalls, X!InsertMessage(c) \/ X!ReportSelf(c) \/ X!LoginInfo(c)
    PROVE  ApiInv'
<1>1. UNCHANGED <<session, self, poller, contacts, token, switched, wrote, reverted>>
  BY DEF X!InsertMessage, X!ReportSelf, X!LoginInfo, X!clientVars, X!dataVars
<1>2. TokensFresh' /\ token' \in [Users -> Accounts \cup {None}]
  BY <1>1, CallFacts DEF ApiInv, TokensFresh
<1>3. /\ apiCall[c] \in CallType /\ apiCall \in [ApiCalls -> CallType]
      /\ apiCall[c].at # "idle" /\ c \notin switched => CallSettled(c)
  BY CallFacts
<1>4. X!Idle \in CallType /\ X!Idle.at = "idle"
  BY DEF X!Idle, CallType, CallStages
<1>5. CASE X!InsertMessage(c)
  <2>1. /\ apiCall[c].at = "insert"
        /\ \/ last' = X!Names({apiCall[c].seen, self.raw, self.mapped}, apiCall[c].account,
                              c \in switched)
           \/ last' = last
    BY <1>5 DEF X!InsertMessage, X!Stored
  <2>2. /\ apiCall' \in [ApiCalls -> CallType]
        /\ apiCall'[c].at = "report" /\ apiCall'[c].account = apiCall[c].account
        /\ \A d \in ApiCalls \ {c} : apiCall'[d] = apiCall[d]
    BY <1>3, <1>5 DEF X!InsertMessage, CallType, CallStages
  <2>3. c \notin switched => CallSettled(c)'
    BY <1>1, <1>3, <2>1, <2>2 DEF CallSettled, X!Settled
  <2>4. c \in switched \/ {apiCall[c].seen, self.raw, self.mapped} = {apiCall[c].account}
    BY <1>3, <2>1 DEF CallSettled, X!Settled
  <2>5. Told'
    BY <2>1, <2>4, NamesTold, NothingTold DEF ApiInv
  <2> QED
    BY <1>1, <1>2, <2>2, <2>3, <2>5, CallStep
<1>6. CASE X!ReportSelf(c)
  <2>1. /\ apiCall[c].at = "report" /\ apiCall' = [apiCall EXCEPT ![c] = X!Idle]
        /\ last' = X!Names({self.raw, self.mapped}, apiCall[c].account, c \in switched)
    BY <1>6 DEF X!ReportSelf
  <2>2. /\ apiCall' \in [ApiCalls -> CallType] /\ apiCall'[c].at = "idle"
        /\ \A d \in ApiCalls \ {c} : apiCall'[d] = apiCall[d]
    BY <1>3, <1>4, <2>1
  <2>3. c \in switched \/ {self.raw, self.mapped} = {apiCall[c].account}
    BY <1>3, <2>1 DEF CallSettled, X!Settled
  <2>4. Told'
    BY <2>1, <2>3, NamesTold
  <2> QED
    BY <1>1, <1>2, <2>2, <2>4, CallStep
<1>7. CASE X!LoginInfo(c)
  <2>1. /\ apiCall[c].at = "info" /\ apiCall' = [apiCall EXCEPT ![c] = X!Idle]
        /\ last' = X!Names({apiCall[c].seen, self.raw}, self.raw, c \in switched)
    BY <1>7 DEF X!LoginInfo
  <2>2. /\ apiCall' \in [ApiCalls -> CallType] /\ apiCall'[c].at = "idle"
        /\ \A d \in ApiCalls \ {c} : apiCall'[d] = apiCall[d]
    BY <1>3, <1>4, <2>1
  <2>3. c \in switched \/ {apiCall[c].seen, self.raw} = {self.raw}
    BY <1>3, <2>1 DEF CallSettled
  <2>4. Told'
    BY <2>1, <2>3, NamesTold
  <2> QED
    BY <1>1, <1>2, <2>2, <2>4, CallStep
<1> QED
  BY <1>5, <1>6, <1>7

\* Every step keeps the invariant.
LEMMA NextApiInv == ApiInv /\ [X!Next]_(X!vars) => ApiInv'
<1> SUFFICES ASSUME ApiInv, [X!Next]_(X!vars) PROVE ApiInv'
  OBVIOUS
<1>1. ASSUME NEW u \in Users, X!Poll(u) PROVE ApiInv'
  BY <1>1, PollApiInv
<1>2. CASE X!DispatchWeixinPrivateMessage
  BY <1>2, DispatchApiInv
<1>3. CASE X!Invalidate \/ X!Confirm
  BY <1>3, LoginApiInv
<1>4. ASSUME NEW a \in Accounts, X!WaitQRLogin(a) PROVE ApiInv'
  BY <1>4, LoginApiInv
<1>5. CASE X!UpdateSelfRaw \/ X!UpdateSelfMapped
  BY <1>5, AdoptApiInv
<1>6. ASSUME NEW c \in ApiCalls,
             X!GetLoginInfo(c) \/ \E r \in ApiRequests : X!Begin(c, r)
      PROVE  ApiInv'
  BY <1>6, BeginApiInv
<1>7. ASSUME NEW c \in ApiCalls,
             \/ X!ReadToken(c) \/ X!SendPrivate(c) \/ X!PostFails(c) \/ X!Posted(c)
             \/ X!ReadTokenAgain(c) \/ X!DispatchWeixinSelfMessage(c)
             \/ X!NameMessage(c) \/ X!InsertMessage(c) \/ X!ReportSelf(c) \/ X!LoginInfo(c)
      PROVE  ApiInv'
  BY <1>7, ReadApiInv, PostApiInv, SelfMessageApiInv, TellApiInv
<1>8. CASE UNCHANGED X!vars
  <2>1. UNCHANGED <<session, self, poller, contacts, token, apiCall, last, switched, wrote,
                    reverted>>
    BY <1>8 DEF X!vars, X!clientVars, X!dataVars, X!histVars
  <2> QED
    BY <2>1, NothingTold DEF ApiInv, ApiTypes, PollerKnows, CallsSettled, CallSettled,
                             X!Settled, TokensFresh
<1> QED
  BY <1>1, <1>2, <1>3, <1>4, <1>5, <1>6, <1>7, <1>8 DEF X!Next

-----------------------------------------------------------------------------
(* Download: a file that is fetched undisturbed is whole, and so is a      *)
(* cached one that nothing has soiled.                                     *)

\* Contents of files: the version of each byte, 0 where it is not the resource's.
Bytes == D!Versions \cup {0}
HasLength(f, n) == n \in Nat /\ f \in [0..(n - 1) -> Bytes]
Contents == UNION {[0..(n - 1) -> Bytes] : n \in Nat}
Block == {b \in Nat \X Nat : b[1] <= b[2]}

FetchType == [phase : {"off", "request", "body", "blocks", "hangs", "returned"},
              kind : {"find", "download"}, thread : Nat, handle : Nat,
              todo : SUBSET Block, opened : SUBSET (Block \X Nat), lastErr : BOOLEAN,
              misled : BOOLEAN, faults : Nat]
ResultType == [outcome : {"none", "ok", "error", "cached"}, whole : BOOLEAN, soiled : BOOLEAN]

FilesSound == \E n \in Nat : content \in [1..n -> Contents]
FileTypes ==
    /\ resource \in D!Versions
    /\ FilesSound
    /\ path \in {0} \cup D!Files
    /\ call \in [Ops -> FetchType]
    /\ disturbed \in SUBSET Ops
    /\ soiled \in BOOLEAN
    /\ result \in [Ops -> ResultType]

\* What a call holds in each phase.
CallSound(o) ==
    /\ call[o].phase = "off" => call[o].kind = "find" /\ o \notin disturbed
    /\ call[o].phase \in {"off", "request"} => ~call[o].misled
    /\ call[o].phase # "returned" => result[o].outcome = "none"
    /\ call[o].phase = "body" => call[o].handle \in D!Files
    /\ call[o].phase # "blocks" => call[o].todo = {} /\ call[o].opened = {}
    /\ \A w \in call[o].opened : w[2] \in D!Files
CallsSound == \A o \in Ops : CallSound(o)

\* An undisturbed call is the only one; where nothing is soiled none is
\* disturbed, and the file is whole between calls.
Alone ==
    \A o \in Ops : D!Active(o) /\ o \notin disturbed =>
        \A p \in Ops : D!Active(p) => p = o
Marked == soiled \/ \A o \in Ops : D!Active(o) => o \notin disturbed
Quiet ==
    ~soiled /\ path # 0 /\ (\A o \in Ops : ~D!Active(o)) => content[path] = D!Fresh

\* Blocks of a call that are not yet written.
Left(o) == call[o].todo \cup {w[1] : w \in call[o].opened}
Fits == path # 0 => DOMAIN content[path] \subseteq 0..(D!Length - 1)
Holds(k) == path # 0 /\ k \in DOMAIN content[path] /\ content[path][k] = resource
Covered(blocks, k) == \E b \in blocks : k \in b[1]..b[2]

\* Nothing is in the file but the resource, and all of it that is not left.
OnItsWay(o) ==
    /\ call[o].phase = "request" => path = 0 \/ content[path] = D!Fresh
    /\ call[o].phase = "body" => path # 0 /\ call[o].handle = path /\ Fits
    /\ call[o].phase = "blocks" /\ ~call[o].lastErr =>
           /\ Fits
           /\ \A w \in call[o].opened : w[2] = path /\ path # 0
           /\ \A b \in Left(o) : b[2] <= D!Length - 1
           /\ \A k \in 0..(D!Length - 1) : Holds(k) \/ Covered(Left(o), k)

Trusted(o) ==
    o \notin disturbed /\ ~call[o].misled /\ (call[o].kind = "download" \/ ~soiled)
Progress == \A o \in Ops : D!Active(o) /\ Trusted(o) => OnItsWay(o)

FileInv ==
    /\ FileTypes /\ CallsSound /\ Alone /\ Marked /\ Quiet /\ Progress /\ D!FetchedIsWhole

\* A resource has a length, and its version is one that a byte can have.
LEMMA ResourceLength ==
    ASSUME resource \in D!Versions
    PROVE  D!Length \in Nat /\ D!Length > 0 /\ resource \in Bytes
BY ServersAssumption DEF D!DownloadAssumption, D!Versions, D!Length, Bytes

\* Cardinality in the instance is that of the library.
LEMMA DownloadCardinality == \A S : D!Cardinality(S) = Cardinality(S)
BY Zenon DEF D!Cardinality, Cardinality

\* A content has one length, which is the cardinality of its domain.
LEMMA ContentLength ==
    ASSUME NEW f \in Contents
    PROVE  \E n \in Nat : HasLength(f, n) /\ DOMAIN f = 0..(n - 1) /\ D!Cardinality(DOMAIN f) = n
<1>1. PICK n \in Nat : f \in [0..(n - 1) -> Bytes]
  BY DEF Contents
<1>2. DOMAIN f = 0..(n - 1)
  BY <1>1
<1>3. Cardinality(0..(n - 1)) = n
  <2>1. Cardinality(0..(n - 1)) = IF 0 > n - 1 THEN 0 ELSE (n - 1) - 0 + 1
    BY FS_Interval
  <2> QED
    BY <2>1
<1> QED
  BY <1>1, <1>2, <1>3, DownloadCardinality DEF HasLength

\* A content is a function on an initial segment.
LEMMA LengthContent ==
    ASSUME NEW n \in Nat, NEW f \in [0..(n - 1) -> Bytes]
    PROVE  f \in Contents
BY DEF Contents

\* g is f with n times v written from an offset, and filled up to there.
IsWritten(g, f, at, n, v) ==
    /\ DOMAIN f \subseteq DOMAIN g
    /\ DOMAIN g = DOMAIN f \/ DOMAIN g \subseteq 0..(at + n - 1)
    /\ \A k \in at..(at + n - 1) : k \in DOMAIN g /\ g[k] = v
    /\ \A k \in DOMAIN f : k \notin at..(at + n - 1) => g[k] = f[k]

\* So is what a write leaves.
LEMMA WrittenContent ==
    ASSUME NEW f \in Contents, NEW at \in Nat, NEW n \in Nat, NEW v \in Bytes
    PROVE  /\ D!Written(f, at, n, v) \in Contents
           /\ IsWritten(D!Written(f, at, n, v), f, at, n, v)
<1>1. PICK l \in Nat : HasLength(f, l) /\ DOMAIN f = 0..(l - 1) /\ D!Cardinality(DOMAIN f) = l
  BY ContentLength
<1> DEFINE m == IF n > 0 /\ at + n > l THEN at + n ELSE l
           g == [k \in 0..(m - 1) |->
                    IF k \in at..(at + n - 1) THEN v ELSE IF k < l THEN f[k] ELSE 0]
<1>2. /\ m \in Nat /\ 0..(l - 1) \subseteq 0..(m - 1) /\ at..(at + n - 1) \subseteq 0..(m - 1)
      /\ m = l \/ m = at + n
  BY <1>1
<1>3. D!Written(f, at, n, v) = g
  BY <1>1 DEF D!Written
<1>4. g \in [0..(m - 1) -> Bytes]
  <2>1. \A k \in 0..(l - 1) : f[k] \in Bytes
    BY <1>1 DEF HasLength
  <2>2. 0 \in Bytes
    BY DEF Bytes
  <2> QED
    BY <1>2, <2>1, <2>2
<1>5. g \in Contents
  <2> HIDE DEF g, m
  <2> QED
    BY <1>2, <1>4, LengthContent
<1>6. IsWritten(g, f, at, n, v)
  <2> HIDE DEF m
  <2>1. DOMAIN g = 0..(m - 1)
    OBVIOUS
  <2>2. DOMAIN f \subseteq DOMAIN g
    BY <1>1, <1>2, <2>1
  <2>3. DOMAIN g = DOMAIN f \/ DOMAIN g \subseteq 0..(at + n - 1)
    BY <1>1, <1>2, <2>1
  <2>4. \A k \in at..(at + n - 1) : k \in DOMAIN g /\ g[k] = v
    BY <1>2
  <2>5. \A k \in DOMAIN f : k \notin at..(at + n - 1) => g[k] = f[k]
    BY <1>1, <1>2
  <2> QED
    BY <2>2, <2>3, <2>4, <2>5 DEF IsWritten
<1> QED
  BY <1>3, <1>5, <1>6

\* Where a file goes that is opened: it exists, and keeps what it had.
LEMMA FileOpened ==
    ASSUME FilesSound, path \in {0} \cup D!Files, D!OpenFile
    PROVE  /\ FilesSound'
           /\ path' = D!Opened /\ path' \in D!Files' /\ path' \in Nat /\ path' # 0
           /\ D!Files \subseteq D!Files' /\ \A f \in D!Files : content'[f] = content[f]
           /\ path # 0 => path' = path
           /\ path = 0 => DOMAIN content'[path'] = {}
<1>1. PICK n \in Nat : content \in [1..n -> Contents]
  BY DEF FilesSound
<1>2. D!Files = 1..n
  BY <1>1 DEF D!Files
<1>3. D!Cardinality(D!Files) = n
  <2>1. Cardinality(1..n) = IF 1 > n THEN 0 ELSE n - 1 + 1
    BY FS_Interval
  <2> QED
    BY <1>2, <2>1, DownloadCardinality
<1> DEFINE empty == [k \in {} |-> 0]
<1>4. empty \in Contents /\ DOMAIN empty = {}
  <2>1. empty \in [0..(0 - 1) -> Bytes]
    OBVIOUS
  <2> QED
    BY <2>1, LengthContent
<1>5. /\ path' = D!Opened
      /\ content' = [f \in D!Files \cup {D!Opened} |-> IF f \in D!Files THEN content[f] ELSE empty]
  BY DEF D!OpenFile
<1> HIDE DEF empty
<1>6. CASE path = 0
  <2>1. D!Opened = n + 1
    BY <1>3, <1>6 DEF D!Opened
  <2>2. /\ content' \in [1..(n + 1) -> Contents] /\ content'[n + 1] = empty
        /\ \A f \in 1..n : content'[f] = content[f]
    BY <1>1, <1>2, <1>4, <1>5, <2>1
  <2>3. FilesSound' /\ D!Files' = 1..(n + 1)
    BY <2>2 DEF FilesSound, D!Files
  <2> QED
    BY <1>2, <1>4, <1>5, <1>6, <2>1, <2>2, <2>3
<1>7. CASE path # 0
  <2>1. D!Opened = path /\ path \in 1..n
    BY <1>2, <1>7 DEF D!Opened
  <2>2. /\ content' \in [1..n -> Contents]
        /\ \A f \in 1..n : content'[f] = content[f]
    BY <1>1, <1>2, <1>5, <2>1
  <2>3. FilesSound' /\ D!Files' = 1..n
    BY <2>2 DEF FilesSound, D!Files
  <2> QED
    BY <1>2, <1>5, <1>7, <2>1, <2>2, <2>3
<1> QED
  BY <1>6, <1>7

\* The blocks of a resource lie in it and cover it.
LEMMA BlocksCover ==
    ASSUME NEW length \in Nat, length > 0, NEW size \in Nat, size > 0
    PROVE  /\ D!Blocks(length, size) \in SUBSET Block
           /\ \A b \in D!Blocks(length, size) : b[2] <= length - 1
           /\ \A k \in 0..(length - 1) : Covered(D!Blocks(length, size), k)
<1> DEFINE final == (length - 1) \div size
           end(b) == IF (b + 1) * size < length THEN (b + 1) * size - 1 ELSE length - 1
<1>1. D!Blocks(length, size) = {<<b * size, end(b)>> : b \in 0..final}
  BY DEF D!Blocks
<1>2. \A b \in Nat : b * size \in Nat /\ (b + 1) * size \in Nat /\ (b + 1) * size = b * size + size
  OBVIOUS
<1>3. \A b \in Nat : end(b) \in Nat /\ end(b) <= length - 1
  BY <1>2
<1>4. final \in Nat
  OBVIOUS
<1>5. ASSUME NEW k \in 0..(length - 1)
      PROVE  \E b \in 0..final : k \in (b * size)..end(b)
  <2> DEFINE b == k \div size
  <2>1. b \in Nat /\ b * size <= k /\ k < b * size + size
    OBVIOUS
  <2>2. b <= final
    <3>1. final * size + size > length - 1
      OBVIOUS
    <3>2. b * size < (final + 1) * size
      BY <1>4, <2>1, <3>1
    <3> HIDE DEF b, final
    <3> QED
      BY <1>4, <2>1, <3>2
  <2> HIDE DEF b, final
  <2>3. k \in (b * size)..end(b)
    BY <1>2, <2>1
  <2> QED
    BY <1>4, <2>1, <2>2, <2>3
<1>10. ASSUME NEW b \in 0..final PROVE b * size <= end(b)
  <2>1. final * size <= length - 1
    OBVIOUS
  <2>2. b * size <= final * size
    <3>1. b \in Nat /\ b <= final
      BY <1>4
    <3> HIDE DEF final
    <3> QED
      BY <1>4, <3>1
  <2> QED
    BY <1>2, <1>4, <2>1, <2>2
<1> HIDE DEF final, end
<1>6. \A b \in 0..final : b \in Nat /\ <<b * size, end(b)>> \in Block
  BY <1>2, <1>3, <1>4, <1>10 DEF Block
<1>7. D!Blocks(length, size) \in SUBSET Block
  BY <1>1, <1>6
<1>8. \A b \in D!Blocks(length, size) : b[2] <= length - 1
  BY <1>1, <1>3, <1>6
<1>9. ASSUME NEW k \in 0..(length - 1) PROVE Covered(D!Blocks(length, size), k)
  <2>1. PICK b \in 0..final : k \in (b * size)..end(b)
    BY <1>5
  <2> DEFINE block == <<b * size, end(b)>>
  <2>2. block \in D!Blocks(length, size) /\ k \in block[1]..block[2]
    BY <1>1, <2>1
  <2> QED
    BY <2>2 DEF Covered
<1> QED
  BY <1>7, <1>8, <1>9

\* A step of one call that is neither begun nor ended by it.
LEMMA StepOfCall ==
    ASSUME FileInv, NEW o \in Ops, NEW c \in FetchType, D!Active(o),
           call' = [call EXCEPT ![o] = c], c.phase \notin {"off", "returned"},
           c.kind = call[o].kind, call[o].misled => c.misled,
           UNCHANGED <<resource, disturbed, soiled, result>>,
           FilesSound', D!Files \subseteq D!Files', path' \in {0} \cup D!Files',
           CallSound(o)', Trusted(o) /\ ~c.misled => OnItsWay(o)'
    PROVE  FileInv'
<1>1. FileTypes /\ CallsSound /\ Alone /\ Marked /\ Progress /\ D!FetchedIsWhole
  BY DEF FileInv
<1>2. /\ call' \in [Ops -> FetchType] /\ call'[o] = c
      /\ \A p \in Ops \ {o} : call'[p] = call[p]
  BY <1>1 DEF FileTypes
<1>3. D!Active(o)' /\ \A p \in Ops : D!Active(p)' <=> D!Active(p)
  BY <1>2 DEF D!Active
<1>4. FileTypes'
  BY <1>1, <1>2 DEF FileTypes, D!Files
<1>5. CallsSound'
  BY <1>1, <1>2 DEF CallsSound, CallSound
<1>6. Alone' /\ Marked' /\ Quiet'
  BY <1>1, <1>3 DEF Alone, Marked, Quiet
<1>7. Progress'
  <2> SUFFICES ASSUME NEW p \in Ops, D!Active(p)', Trusted(p)' PROVE OnItsWay(p)'
    BY DEF Progress
  <2>1. p \notin disturbed /\ D!Active(p)
    BY <1>3 DEF Trusted
  <2>2. p = o
    BY <1>1, <2>1 DEF Alone
  <2>3. Trusted(o) /\ ~c.misled
    BY <1>2, <2>2 DEF Trusted
  <2> QED
    BY <2>2, <2>3
<1>8. D!FetchedIsWhole'
  BY <1>1, <1>2 DEF D!FetchedIsWhole
<1> QED
  BY <1>4, <1>5, <1>6, <1>7, <1>8 DEF FileInv

\* A call that returns: success of an undisturbed download that is not misled
\* is whole, and so is what it leaves unless that is soiled.
LEMMA ReturnOfCall ==
    ASSUME FileInv, NEW o \in Ops, NEW outcome \in {"ok", "error"}, NEW whole \in BOOLEAN,
           NEW misled \in BOOLEAN, call[o].misled => misled,
           D!Active(o), D!Return(o, outcome, whole, misled),
           UNCHANGED <<resource, disturbed, path>>,
           call[o].todo = {}, call[o].opened = {},
           FilesSound', D!Files' = D!Files, soiled' \in BOOLEAN,
           ~soiled' => o \notin disturbed /\ (path = 0 \/ content'[path] = D!Fresh'),
           outcome = "ok" /\ Trusted(o) /\ ~misled => whole
    PROVE  FileInv'
<1>1. FileTypes /\ CallsSound /\ Alone /\ Marked /\ Progress /\ D!FetchedIsWhole
  BY DEF FileInv
<1> DEFINE beside == soiled \/ misled \/ \E p \in Ops \ {o} : D!Active(p)
<1>2. /\ call' = [call EXCEPT ![o].phase = "returned", ![o].misled = misled]
      /\ result' = [result EXCEPT ![o] = [outcome |-> outcome, whole |-> whole,
                                          soiled |-> beside]]
  BY Zenon DEF D!Return
<1>3. beside \in BOOLEAN
  OBVIOUS
<1>4. beside \/ (~soiled /\ ~misled /\ o \notin disturbed)
  BY <1>1 DEF Marked
<1> HIDE DEF beside
<1>5. /\ call' \in [Ops -> FetchType] /\ call'[o].phase = "returned"
      /\ call'[o].kind = call[o].kind /\ call'[o].opened = call[o].opened
      /\ call'[o].todo = call[o].todo /\ call'[o].misled = misled
      /\ \A p \in Ops \ {o} : call'[p] = call[p]
  <2> DEFINE c == [call[o] EXCEPT !.phase = "returned", !.misled = misled]
  <2>1. call[o] \in FetchType
    BY <1>1 DEF FileTypes
  <2>2. /\ c \in FetchType /\ c.phase = "returned" /\ c.kind = call[o].kind
        /\ c.opened = call[o].opened /\ c.todo = call[o].todo /\ c.misled = misled
    BY <2>1 DEF FetchType
  <2>3. call' = [call EXCEPT ![o] = c]
    BY <1>2
  <2> HIDE DEF c
  <2>4. call'[o] = c /\ call' \in [Ops -> FetchType] /\ \A p \in Ops \ {o} : call'[p] = call[p]
    BY <1>1, <2>2, <2>3 DEF FileTypes
  <2> QED
    BY <2>2, <2>4
<1>6. /\ result' \in [Ops -> ResultType]
      /\ result'[o].outcome = outcome /\ result'[o].whole = whole /\ result'[o].soiled = beside
      /\ \A p \in Ops \ {o} : result'[p] = result[p]
  BY <1>1, <1>2, <1>3 DEF FileTypes, ResultType
<1>7. ~D!Active(o)' /\ \A p \in Ops \ {o} : D!Active(p)' <=> D!Active(p)
  BY <1>5 DEF D!Active
<1>9. o \notin disturbed => \A p \in Ops : D!Active(p) => p = o
  BY <1>1 DEF Alone
<1>10. FileTypes'
  BY <1>1, <1>5, <1>6 DEF FileTypes
<1>11. CallsSound'
  BY <1>1, <1>5, <1>6 DEF CallsSound, CallSound
<1>12. Alone' /\ Marked'
  BY <1>1, <1>7, <1>9 DEF Alone, Marked
<1>13. Quiet'
  BY DEF Quiet
<1>14. Progress'
  BY <1>1, <1>7 DEF Progress, Alone, Trusted
<1>15. D!FetchedIsWhole'
  <2>1. outcome = "ok" /\ call[o].kind = "download" /\ o \notin disturbed /\ ~misled => whole
    BY DEF Trusted
  <2>2. outcome = "ok" => whole \/ beside
    BY <1>4 DEF Trusted
  <2> QED
    BY <1>1, <1>5, <1>6, <2>1, <2>2 DEF D!FetchedIsWhole
<1> QED
  BY <1>10, <1>11, <1>12, <1>13, <1>14, <1>15 DEF FileInv

\* Success leaves a whole file, if nothing came between.
LEMMA SucceedFileInv ==
    ASSUME FileInv, NEW o \in Ops, NEW misled \in BOOLEAN, call[o].misled => misled,
           D!Active(o), D!Succeed(o, misled), call[o].todo = {}, call[o].opened = {},
           FilesSound', D!Files' = D!Files,
           Trusted(o) /\ ~misled => path # 0 /\ content'[path] = D!Fresh
    PROVE  FileInv'
<1> DEFINE whole == path # 0 /\ content'[path] = D!Fresh
<1>1. /\ D!Return(o, "ok", whole, misled)
      /\ soiled' = ((soiled \/ misled) /\ ~(o \notin disturbed /\ whole))
      /\ UNCHANGED <<resource, path, disturbed>>
  BY DEF D!Succeed
<1>2. D!Fresh' = D!Fresh
  BY <1>1 DEF D!Fresh, D!Length
<1>3. whole \in BOOLEAN /\ soiled' \in BOOLEAN
  BY <1>1
<1>4. ~soiled' => o \notin disturbed /\ (path = 0 \/ content'[path] = D!Fresh')
  <2>1. ~soiled /\ ~misled => o \notin disturbed /\ whole
    BY DEF FileInv, Marked, Trusted
  <2> QED
    BY <1>1, <1>2, <2>1
<1>5. Trusted(o) /\ ~misled => whole
  OBVIOUS
<1> HIDE DEF whole
<1> QED
  BY <1>1, <1>3, <1>4, <1>5, ReturnOfCall

\* A call that breaks off leaves the file soiled.
LEMMA BreakFileInv ==
    ASSUME FileInv, NEW o \in Ops, D!Active(o), D!Break(o),
           call[o].todo = {}, call[o].opened = {}, FilesSound', D!Files' = D!Files
    PROVE  FileInv'
<1>1. /\ D!Return(o, "error", FALSE, call[o].misled) /\ soiled' = TRUE
      /\ UNCHANGED <<resource, path, disturbed>>
  BY DEF D!Break
<1>2. call[o].misled \in BOOLEAN
  BY DEF FileInv, FileTypes, FetchType
<1> QED
  BY <1>1, <1>2, ReturnOfCall

\* A new version disturbs whatever runs.
LEMMA PublishFileInv ==
    ASSUME FileInv, D!Publish
    PROVE  FileInv'
<1>1. FileTypes /\ CallsSound /\ D!FetchedIsWhole
  BY DEF FileInv
<1>2. /\ resource' \in D!Versions /\ soiled' = TRUE
      /\ disturbed' = disturbed \cup {o \in Ops : D!Active(o)}
      /\ UNCHANGED <<path, content, call, result>>
  BY DEF D!Publish
<1>3. FileTypes'
  BY <1>1, <1>2 DEF FileTypes, FilesSound, D!Files
<1>4. CallsSound'
  BY <1>1, <1>2 DEF CallsSound, CallSound, D!Files, D!Active
<1>5. Alone' /\ Marked' /\ Quiet' /\ Progress'
  BY <1>2 DEF Alone, Marked, Quiet, Progress, Trusted, D!Active
<1>6. D!FetchedIsWhole'
  BY <1>1, <1>2 DEF D!FetchedIsWhole
<1> QED
  BY <1>3, <1>4, <1>5, <1>6 DEF FileInv

\* A call that starts does so over no file or a whole one.
LEMMA StartFileInv ==
    ASSUME FileInv, NEW o \in Ops,
           D!FindFresh(o) \/ \E t \in Threads : D!DownloadFile(o, t)
    PROVE  FileInv'
<1>1. FileTypes /\ CallsSound /\ Alone /\ Marked /\ Quiet /\ Progress /\ D!FetchedIsWhole
  BY DEF FileInv
<1> DEFINE others == {p \in Ops \ {o} : D!Active(p)}
<1>2. /\ call[o].phase = "off" /\ D!Starting(o)
      /\ UNCHANGED <<resource, content, result>>
      /\ \/ path' = path /\ call' = [call EXCEPT ![o] = [@ EXCEPT !.phase = "request"]]
         \/ /\ path' = 0
            /\ \E t \in Threads :
                   call' = [call EXCEPT ![o] = [@ EXCEPT !.phase = "request",
                                !.kind = "download", !.thread = t]]
  BY DEF D!FindFresh, D!DownloadFile
<1>3. /\ disturbed' = IF others = {} THEN disturbed ELSE disturbed \cup others \cup {o}
      /\ soiled' = (soiled \/ others # {})
  BY <1>2 DEF D!Starting
<1>4. \A t \in Threads : t \in Nat
  BY ServersAssumption DEF D!DownloadAssumption
<1>5. call[o] \in FetchType
  BY <1>1 DEF FileTypes
<1>6. PICK c \in FetchType :
        /\ call' = [call EXCEPT ![o] = c] /\ c.phase = "request"
        /\ c.todo = call[o].todo /\ c.opened = call[o].opened /\ c.misled = call[o].misled
        /\ c.kind \in {call[o].kind, "download"} /\ (path' = 0 \/ c.kind = call[o].kind)
        /\ (path' = path \/ path' = 0)
  <2>1. CASE path' = path /\ call' = [call EXCEPT ![o] = [@ EXCEPT !.phase = "request"]]
    <3> DEFINE c == [call[o] EXCEPT !.phase = "request"]
    <3>1. call' = [call EXCEPT ![o] = c]
      BY <2>1
    <3>2. c \in FetchType /\ c.phase = "request" /\ c.todo = call[o].todo
          /\ c.opened = call[o].opened /\ c.kind = call[o].kind /\ c.misled = call[o].misled
      BY <1>5 DEF FetchType
    <3> HIDE DEF c
    <3> QED
      BY <2>1, <3>1, <3>2
  <2>2. ASSUME path' = 0, NEW t \in Threads,
               call' = [call EXCEPT ![o] = [@ EXCEPT !.phase = "request",
                            !.kind = "download", !.thread = t]]
        PROVE  \E c \in FetchType :
                 /\ call' = [call EXCEPT ![o] = c] /\ c.phase = "request"
                 /\ c.todo = call[o].todo /\ c.opened = call[o].opened /\ c.misled = call[o].misled
                 /\ c.kind \in {call[o].kind, "download"} /\ (path' = 0 \/ c.kind = call[o].kind)
                 /\ (path' = path \/ path' = 0)
    <3> DEFINE c == [call[o] EXCEPT !.phase = "request", !.kind = "download", !.thread = t]
    <3>1. call' = [call EXCEPT ![o] = c]
      BY <2>2
    <3>2. c \in FetchType /\ c.phase = "request" /\ c.todo = call[o].todo
          /\ c.opened = call[o].opened /\ c.kind = "download" /\ c.misled = call[o].misled
      BY <1>4, <1>5 DEF FetchType
    <3> HIDE DEF c
    <3> QED
      BY <2>2, <3>1, <3>2
  <2> QED
    BY <1>2, <2>1, <2>2
<1>7. /\ call' \in [Ops -> FetchType] /\ call'[o] = c
      /\ \A p \in Ops \ {o} : call'[p] = call[p]
  BY <1>1, <1>6 DEF FileTypes
<1>8. D!Active(o)' /\ ~D!Active(o) /\ \A p \in Ops \ {o} : D!Active(p)' <=> p \in others
  BY <1>2, <1>6, <1>7 DEF D!Active
<1>9. others = {} => \A p \in Ops : ~D!Active(p)
  BY <1>8
<1>10. \A p \in Ops : D!Active(p)' => p = o \/ p \in others
  BY <1>8
<1>11. others \subseteq Ops /\ o \notin others
  OBVIOUS
<1>12. /\ call[o].kind = "find" /\ o \notin disturbed /\ result[o].outcome = "none"
       /\ call[o].todo = {} /\ call[o].opened = {} /\ ~call[o].misled
  BY <1>1, <1>2 DEF CallsSound, CallSound
<1>13. \A p \in others : call[p].phase # "off"
  BY DEF D!Active
<1> HIDE DEF others
<1>14. FileTypes'
  BY <1>1, <1>2, <1>3, <1>6, <1>7, <1>11 DEF FileTypes, FilesSound, D!Files
<1>15. CallsSound'
  BY <1>1, <1>2, <1>3, <1>6, <1>7, <1>11, <1>12, <1>13 DEF CallsSound, CallSound, D!Files
<1>16. others # {} => Alone' /\ Marked' /\ Quiet' /\ Progress'
  BY <1>3, <1>8, <1>10 DEF Alone, Marked, Quiet, Progress, Trusted
<1>17. ASSUME others = {} PROVE Alone' /\ Marked' /\ Quiet' /\ Progress'
  <2>1. Alone' /\ Marked' /\ Quiet'
    BY <1>3, <1>8, <1>10, <1>12, <1>17 DEF Alone, Marked, Quiet
  <2>2. Trusted(o)' => OnItsWay(o)'
    <3>1. Trusted(o)' => path' = 0 \/ ~soiled
      BY <1>3, <1>6, <1>7, <1>12, <1>17 DEF Trusted
    <3>2. ~soiled /\ path # 0 => content[path] = D!Fresh
      BY <1>1, <1>9, <1>17 DEF Quiet
    <3>3. Trusted(o)' => path' = 0 \/ content'[path'] = D!Fresh'
      BY <1>2, <1>6, <3>1, <3>2 DEF D!Fresh, D!Length
    <3> QED
      BY <1>6, <1>7, <3>3 DEF OnItsWay
  <2>3. Progress'
    BY <1>10, <1>17, <2>2 DEF Progress
  <2> QED
    BY <2>1, <2>3
<1>18. D!FetchedIsWhole'
  BY <1>1, <1>2, <1>3, <1>7, <1>12 DEF D!FetchedIsWhole
<1> QED
  BY <1>14, <1>15, <1>16, <1>17, <1>18 DEF FileInv

\* A cached file is whole unless something is soiled or a call runs.
LEMMA FindCachedFileInv ==
    ASSUME FileInv, NEW o \in Ops, D!FindCached(o)
    PROVE  FileInv'
<1>1. FileTypes /\ CallsSound /\ Alone /\ Marked /\ Quiet /\ Progress /\ D!FetchedIsWhole
  BY DEF FileInv
<1> DEFINE beside == soiled \/ FALSE \/ \E p \in Ops \ {o} : D!Active(p)
           whole == content[path] = D!Fresh
<1>2. /\ call[o].phase = "off" /\ path # 0
      /\ call' = [call EXCEPT ![o].phase = "returned", ![o].misled = FALSE]
      /\ result' = [result EXCEPT ![o] = [outcome |-> "cached", whole |-> whole,
                                          soiled |-> beside]]
      /\ UNCHANGED <<resource, path, content, disturbed, soiled>>
  BY Zenon DEF D!FindCached, D!Return
<1>3. whole \in BOOLEAN /\ beside \in BOOLEAN
  OBVIOUS
<1>4. ~D!Active(o)
  BY <1>2 DEF D!Active
<1>5. whole \/ beside
  BY <1>1, <1>2, <1>4 DEF Quiet
<1>6. call[o].kind = "find" /\ o \notin disturbed /\ call[o].todo = {} /\ call[o].opened = {}
  BY <1>1, <1>2 DEF CallsSound, CallSound
<1> HIDE DEF beside, whole
<1>7. /\ call' \in [Ops -> FetchType] /\ call'[o].phase = "returned"
      /\ call'[o].kind = call[o].kind /\ call'[o].opened = call[o].opened
      /\ call'[o].todo = call[o].todo
      /\ \A p \in Ops \ {o} : call'[p] = call[p]
  <2> DEFINE c == [call[o] EXCEPT !.phase = "returned", !.misled = FALSE]
  <2>1. call[o] \in FetchType
    BY <1>1 DEF FileTypes
  <2>2. /\ c \in FetchType /\ c.phase = "returned" /\ c.kind = call[o].kind
        /\ c.opened = call[o].opened /\ c.todo = call[o].todo
    BY <2>1 DEF FetchType
  <2>3. call' = [call EXCEPT ![o] = c]
    BY <1>2
  <2> HIDE DEF c
  <2>4. call'[o] = c /\ call' \in [Ops -> FetchType] /\ \A p \in Ops \ {o} : call'[p] = call[p]
    BY <1>1, <2>2, <2>3 DEF FileTypes
  <2> QED
    BY <2>2, <2>4
<1>8. /\ result' \in [Ops -> ResultType]
      /\ result'[o].outcome = "cached" /\ result'[o].whole = whole /\ result'[o].soiled = beside
      /\ \A p \in Ops \ {o} : result'[p] = result[p]
  BY <1>1, <1>2, <1>3 DEF FileTypes, ResultType
<1>9. \A p \in Ops : D!Active(p)' <=> D!Active(p)
  BY <1>4, <1>7 DEF D!Active
<1>10. FileTypes'
  BY <1>1, <1>2, <1>7, <1>8 DEF FileTypes, FilesSound, D!Files
<1>11. CallsSound'
  BY <1>1, <1>2, <1>6, <1>7, <1>8 DEF CallsSound, CallSound, D!Files
<1>12. Alone' /\ Marked' /\ Quiet'
  BY <1>1, <1>2, <1>9 DEF Alone, Marked, Quiet, D!Fresh, D!Length
<1>13. Progress'
  BY <1>1, <1>2, <1>4, <1>7, <1>9
     DEF Progress, Trusted, OnItsWay, Fits, Left, Holds, Covered, D!Fresh, D!Length
<1>14. D!FetchedIsWhole'
  BY <1>1, <1>2, <1>5, <1>6, <1>7, <1>8 DEF D!FetchedIsWhole
<1> QED
  BY <1>10, <1>11, <1>12, <1>13, <1>14 DEF FileInv

\* A request that fails leaves the file as it was.
LEMMA RequestFailsFileInv ==
    ASSUME FileInv, NEW o \in Ops, D!RequestFails(o)
    PROVE  FileInv'
<1>1. /\ call[o].phase = "request" /\ D!Return(o, "error", FALSE, FALSE)
      /\ UNCHANGED <<resource, path, content, disturbed, soiled>>
  BY DEF D!RequestFails
<1>2. D!Active(o) /\ call[o].todo = {} /\ call[o].opened = {} /\ ~call[o].misled
  BY <1>1 DEF FileInv, CallsSound, CallSound, D!Active
<1>3. FilesSound' /\ D!Files' = D!Files /\ soiled' \in BOOLEAN
  BY <1>1 DEF FileInv, FileTypes, FilesSound, D!Files
<1>4. ~soiled => o \notin disturbed /\ (path = 0 \/ content[path] = D!Fresh)
  <2>1. ~soiled => o \notin disturbed
    BY <1>2 DEF FileInv, Marked
  <2>2. ~soiled => Trusted(o)
    BY <1>2, <2>1 DEF Trusted
  <2> QED
    BY <1>1, <1>2, <2>1, <2>2 DEF FileInv, Progress, OnItsWay
<1>5. ~soiled' => o \notin disturbed /\ (path = 0 \/ content'[path] = D!Fresh')
  BY <1>1, <1>4 DEF D!Fresh, D!Length
<1> QED
  BY <1>1, <1>2, <1>3, <1>5, ReturnOfCall

\* An answer in whole opens the file.
LEMMA AnsweredWholeFileInv ==
    ASSUME FileInv, NEW o \in Ops, D!AnsweredWhole(o)
    PROVE  FileInv'
<1>1. FileTypes /\ CallSound(o) /\ Progress
  BY DEF FileInv, CallsSound
<1>10. PICK page \in BOOLEAN :
          call' = [call EXCEPT ![o] =
              [@ EXCEPT !.phase = "body", !.handle = D!Opened, !.misled = page]]
  BY DEF D!AnsweredWhole
<1> DEFINE c == [call[o] EXCEPT !.phase = "body", !.handle = D!Opened, !.misled = page]
<1>2. /\ call[o].phase = "request" /\ D!OpenFile
      /\ call' = [call EXCEPT ![o] = c]
      /\ UNCHANGED <<resource, disturbed, soiled, result>>
  BY <1>10 DEF D!AnsweredWhole
<1>3. /\ FilesSound'
      /\ path' = D!Opened /\ path' \in D!Files' /\ path' \in Nat /\ path' # 0
      /\ D!Files \subseteq D!Files' /\ \A f \in D!Files : content'[f] = content[f]
      /\ path # 0 => path' = path
      /\ path = 0 => DOMAIN content'[path'] = {}
  BY <1>1, <1>2, FileOpened DEF FileTypes
<1>4. call[o] \in FetchType
  BY <1>1 DEF FileTypes
<1>5. /\ c \in FetchType /\ c.phase = "body" /\ c.kind = call[o].kind /\ c.handle = path'
      /\ c.todo = call[o].todo /\ c.opened = call[o].opened
  BY <1>3, <1>4 DEF FetchType
<1> HIDE DEF c
<1>6. call'[o] = c
  BY <1>1, <1>2 DEF FileTypes
<1>7. D!Active(o) /\ ~call[o].misled
  BY <1>1, <1>2 DEF D!Active, CallSound
<1>8. CallSound(o)'
  BY <1>1, <1>2, <1>3, <1>5, <1>6 DEF CallSound
<1>9. Trusted(o) => OnItsWay(o)'
  <2>1. Trusted(o) => path = 0 \/ content[path] = D!Fresh
    BY <1>1, <1>2, <1>7 DEF Progress, OnItsWay
  <2>2. Trusted(o) => Fits'
    BY <1>1, <1>2, <1>3, <2>1 DEF Fits, D!Fresh, D!Length, FileTypes
  <2> QED
    BY <1>3, <1>5, <1>6, <2>2 DEF OnItsWay
<1> QED
  BY <1>2, <1>3, <1>5, <1>7, <1>8, <1>9, StepOfCall

\* A partial answer plans blocks that cover the resource.
LEMMA AnsweredPartialFileInv ==
    ASSUME FileInv, NEW o \in Ops, D!AnsweredPartial(o)
    PROVE  FileInv'
<1>1. FileTypes /\ CallSound(o) /\ Progress
  BY DEF FileInv, CallsSound
<1> DEFINE size == D!BlockSize(D!Length, call[o].thread)
           c == IF size <= 0 THEN [call[o] EXCEPT !.phase = "hangs"]
                ELSE [call[o] EXCEPT !.phase = "blocks", !.todo = D!Blocks(D!Length, size)]
<1>2. /\ call[o].phase = "request" /\ call[o].thread >= 2
      /\ call' = [call EXCEPT ![o] = c]
      /\ UNCHANGED <<resource, path, content, disturbed, soiled, result>>
  BY DEF D!AnsweredPartial
<1>3. call[o] \in FetchType
  BY <1>1 DEF FileTypes
<1>4. D!Length \in Nat /\ D!Length > 0
  BY <1>1, ResourceLength DEF FileTypes
<1>5. size \in Int
  <2>1. call[o].thread \in Nat /\ MinSplit \in Nat /\ Margin \in Nat
    BY <1>3, ServersAssumption DEF FetchType, D!DownloadAssumption
  <2> QED
    BY <1>2, <1>4, <2>1 DEF D!BlockSize
<1> HIDE DEF size
<1> DEFINE blocks == D!Blocks(D!Length, size)
<1>6. size > 0 => /\ blocks \in SUBSET Block
                  /\ \A b \in blocks : b[2] <= D!Length - 1
                  /\ \A k \in 0..(D!Length - 1) : Covered(blocks, k)
  BY <1>4, <1>5, BlocksCover
<1>7. call[o].todo = {} /\ call[o].opened = {}
  BY <1>1, <1>2 DEF CallSound
<1> HIDE DEF blocks
<1>8. /\ c \in FetchType /\ c.kind = call[o].kind /\ c.opened = {}
      /\ c.misled = call[o].misled
      /\ \/ c.phase = "hangs" /\ c.todo = {}
         \/ c.phase = "blocks" /\ size > 0 /\ c.todo = blocks
  <2>1. CASE size <= 0
    <3>1. c = [call[o] EXCEPT !.phase = "hangs"]
      BY <2>1
    <3> QED
      BY <1>3, <1>7, <3>1 DEF FetchType
  <2>2. CASE ~(size <= 0)
    <3>1. c = [call[o] EXCEPT !.phase = "blocks", !.todo = blocks]
      BY <2>2 DEF blocks
    <3> HIDE DEF c
    <3>2. size > 0
      BY <1>5, <2>2
    <3>3. blocks \in SUBSET Block
      BY <1>6, <3>2
    <3>4. c \in FetchType /\ c.phase = "blocks" /\ c.todo = blocks /\ c.kind = call[o].kind
          /\ c.opened = call[o].opened /\ c.misled = call[o].misled
      BY <1>3, <3>1, <3>3 DEF FetchType
    <3> QED
      BY <1>7, <3>2, <3>4
  <2> QED
    BY <2>1, <2>2
<1> HIDE DEF c
<1>9. call'[o] = c
  BY <1>1, <1>2 DEF FileTypes
<1>10. D!Active(o)
  BY <1>2 DEF D!Active
<1>11. CallSound(o)'
  BY <1>1, <1>2, <1>8, <1>9 DEF CallSound
<1>12. Trusted(o) => OnItsWay(o)'
  <2>1. D!Length' = D!Length
    BY <1>2 DEF D!Length
  <2>2. c.phase = "blocks" => Left(o)' = blocks
    BY <1>8, <1>9 DEF Left
  <2>3. Trusted(o) => path = 0 \/ content[path] = D!Fresh
    BY <1>1, <1>2, <1>10 DEF Progress, OnItsWay
  <2>4. Trusted(o) => Fits'
    BY <1>2, <2>1, <2>3 DEF Fits, D!Fresh
  <2> QED
    BY <1>6, <1>8, <1>9, <2>1, <2>2, <2>4 DEF OnItsWay
<1>13. FilesSound' /\ D!Files \subseteq D!Files' /\ path' \in {0} \cup D!Files'
  BY <1>1, <1>2 DEF FileTypes, FilesSound, D!Files
<1> QED
  BY <1>2, <1>8, <1>10, <1>11, <1>12, <1>13, StepOfCall

\* Files after one of them is written.
LEMMA FileWritten ==
    ASSUME FilesSound, NEW f \in D!Files, NEW at \in Nat, NEW n \in Nat, NEW v \in Bytes,
           content' = [content EXCEPT ![f] = D!Written(@, at, n, v)]
    PROVE  /\ FilesSound' /\ D!Files' = D!Files
           /\ content'[f] \in Contents
           /\ IsWritten(content'[f], content[f], at, n, v)
           /\ \A g \in D!Files \ {f} : content'[g] = content[g]
<1>1. PICK m \in Nat : content \in [1..m -> Contents]
  BY DEF FilesSound
<1>2. f \in 1..m /\ content[f] \in Contents
  BY <1>1 DEF D!Files
<1> DEFINE g == D!Written(content[f], at, n, v)
<1>3. g \in Contents /\ IsWritten(g, content[f], at, n, v)
  BY <1>2, WrittenContent
<1>4. content' = [content EXCEPT ![f] = g]
  OBVIOUS
<1> HIDE DEF g
<1>5. /\ content' \in [1..m -> Contents] /\ content'[f] = g
      /\ \A h \in 1..m : h # f => content'[h] = content[h]
  BY <1>1, <1>2, <1>3, <1>4
<1> QED
  BY <1>1, <1>3, <1>5 DEF FilesSound, D!Files

\* What a body writes.
LEMMA BodyWritten ==
    ASSUME FileTypes, NEW o \in Ops, call[o].handle \in D!Files, NEW n \in Nat, D!Body(o, n)
    PROVE  /\ FilesSound' /\ D!Files' = D!Files
           /\ content'[call[o].handle] \in Contents
           /\ ~call[o].misled =>
                 IsWritten(content'[call[o].handle], content[call[o].handle], 0, n, resource)
<1>1. resource \in Bytes /\ 0 \in Bytes
  BY ResourceLength DEF FileTypes, Bytes
<1> DEFINE v == IF call[o].misled THEN 0 ELSE resource
<1>2. v \in Bytes /\ (~call[o].misled => v = resource)
  BY <1>1
<1>3. content' = [content EXCEPT ![call[o].handle] = D!Written(@, 0, n, v)]
  BY DEF D!Body
<1> HIDE DEF v
<1>4. /\ FilesSound' /\ D!Files' = D!Files
      /\ content'[call[o].handle] \in Contents
      /\ IsWritten(content'[call[o].handle], content[call[o].handle], 0, n, v)
  BY <1>2, <1>3, FileWritten DEF FileTypes
<1> QED
  BY <1>2, <1>4

\* A body that ends has written all of the resource, if it is the resource; one
\* that ends early has misled the call, one that breaks soils.
LEMMA BodyFileInv ==
    ASSUME FileInv, NEW o \in Ops, D!BodyEnds(o) \/ D!BodyEndsEarly(o) \/ D!BodyBreaks(o)
    PROVE  FileInv'
<1>1. FileTypes /\ CallSound(o) /\ Progress
  BY DEF FileInv, CallsSound
<1>2. call[o].phase = "body"
  BY DEF D!BodyEnds, D!BodyEndsEarly, D!BodyBreaks
<1>3. /\ D!Active(o) /\ call[o].handle \in D!Files /\ call[o].todo = {} /\ call[o].opened = {}
      /\ call[o].misled \in BOOLEAN
  BY <1>1, <1>2 DEF CallSound, D!Active, FileTypes, FetchType
<1>4. D!Length \in Nat /\ D!Length > 0 /\ Cuts \subseteq Nat
  BY <1>1, ResourceLength, ServersAssumption DEF FileTypes, D!DownloadAssumption
<1>5. CASE D!BodyEnds(o)
  <2>1. D!Body(o, D!Length) /\ D!Succeed(o, call[o].misled)
    BY <1>5 DEF D!BodyEnds
  <2>2. /\ FilesSound' /\ D!Files' = D!Files
        /\ content'[call[o].handle] \in Contents
        /\ ~call[o].misled => IsWritten(content'[call[o].handle], content[call[o].handle],
                                        0, D!Length, resource)
    BY <1>1, <1>3, <1>4, <2>1, BodyWritten
  <2>3. Trusted(o) /\ ~call[o].misled => path # 0 /\ content'[path] = D!Fresh
    <3> SUFFICES ASSUME Trusted(o), ~call[o].misled PROVE path # 0 /\ content'[path] = D!Fresh
      OBVIOUS
    <3>1. path # 0 /\ call[o].handle = path /\ DOMAIN content[path] \subseteq 0..(D!Length - 1)
      BY <1>1, <1>2, <1>3 DEF Progress, OnItsWay, Fits
    <3>2. content'[path] \in Contents
      BY <2>2, <3>1
    <3>3. PICK n \in Nat : content'[path] \in [0..(n - 1) -> Bytes]
      BY <3>2 DEF Contents
    <3>4. /\ DOMAIN content'[path] = 0..(D!Length - 1)
          /\ \A k \in 0..(D!Length - 1) : content'[path][k] = resource
      <4>1. 0 + D!Length - 1 = D!Length - 1
        BY <1>4
      <4>2. IsWritten(content'[path], content[path], 0, D!Length, resource)
        BY <2>2, <3>1
      <4> QED
        BY <3>1, <4>1, <4>2 DEF IsWritten
    <3>5. content'[path] = D!Fresh
      BY <3>3, <3>4 DEF D!Fresh
    <3> QED
      BY <3>1, <3>5
  <2> QED
    BY <1>3, <2>1, <2>2, <2>3, SucceedFileInv
<1>6. CASE D!BodyEndsEarly(o)
  <2>1. PICK n \in Cuts : D!Body(o, n)
    BY <1>6 DEF D!BodyEndsEarly
  <2>2. FilesSound' /\ D!Files' = D!Files
    BY <1>1, <1>3, <1>4, <2>1, BodyWritten
  <2> QED
    BY <1>3, <1>6, <2>2, SucceedFileInv DEF D!BodyEndsEarly
<1>7. CASE D!BodyBreaks(o)
  <2>1. PICK n \in Cuts : D!Body(o, n)
    BY <1>7 DEF D!BodyBreaks
  <2>2. FilesSound' /\ D!Files' = D!Files
    BY <1>1, <1>3, <1>4, <2>1, BodyWritten
  <2> QED
    BY <1>3, <1>7, <2>2, BreakFileInv DEF D!BodyBreaks
<1> QED
  BY <1>5, <1>6, <1>7

\* A worker opens the file that its call wrote so far, or a new one.
LEMMA OpenBlockFileInv ==
    ASSUME FileInv, NEW o \in Ops, NEW b \in call[o].todo, D!OpenBlock(o, b)
    PROVE  FileInv'
<1>1. FileTypes /\ CallSound(o) /\ Progress
  BY DEF FileInv, CallsSound
<1> DEFINE todo == call[o].todo \ {b}
           opened == call[o].opened \cup {<<b, D!Opened>>}
           c == [call[o] EXCEPT !.todo = todo, !.opened = opened]
<1>2. /\ D!OpenFile /\ call' = [call EXCEPT ![o] = c]
      /\ UNCHANGED <<resource, disturbed, soiled, result>>
  BY Zenon DEF D!OpenBlock
<1>3. /\ FilesSound'
      /\ path' = D!Opened /\ path' \in D!Files' /\ path' \in Nat /\ path' # 0
      /\ D!Files \subseteq D!Files' /\ \A f \in D!Files : content'[f] = content[f]
      /\ path # 0 => path' = path
      /\ path = 0 => DOMAIN content'[path'] = {}
  BY <1>1, <1>2, FileOpened DEF FileTypes
<1>4. call[o] \in FetchType /\ b \in Block
  BY <1>1 DEF FileTypes, FetchType
<1>5. /\ c \in FetchType /\ c.phase = call[o].phase /\ c.kind = call[o].kind
      /\ c.lastErr = call[o].lastErr /\ c.misled = call[o].misled
      /\ c.todo = call[o].todo \ {b} /\ c.opened = call[o].opened \cup {<<b, path'>>}
  <2>1. todo \in SUBSET Block /\ opened \in SUBSET (Block \X Nat)
    BY <1>3, <1>4 DEF FetchType
  <2>2. todo = call[o].todo \ {b} /\ opened = call[o].opened \cup {<<b, path'>>}
    BY <1>3
  <2> HIDE DEF todo, opened
  <2>3. /\ c \in FetchType /\ c.phase = call[o].phase /\ c.kind = call[o].kind
        /\ c.lastErr = call[o].lastErr /\ c.misled = call[o].misled
        /\ c.todo = todo /\ c.opened = opened
    BY <1>4, <2>1 DEF FetchType
  <2> QED
    BY <2>2, <2>3
<1> HIDE DEF c, todo, opened
<1>6. call'[o] = c
  BY <1>1, <1>2 DEF FileTypes
<1>7. call[o].phase = "blocks" /\ D!Active(o)
  BY <1>1, <1>4 DEF CallSound, FetchType, D!Active
<1>8. CallSound(o)'
  <2>1. \A w \in call'[o].opened : w[2] \in D!Files'
    <3> DEFINE pair == <<b, path'>>
    <3>1. pair[2] = path' /\ call'[o].opened = call[o].opened \cup {pair}
      BY <1>5, <1>6
    <3> HIDE DEF pair
    <3> QED
      BY <1>1, <1>3, <3>1 DEF CallSound
  <2>2. call'[o].phase = "blocks" /\ result'[o].outcome = "none"
    BY <1>1, <1>2, <1>5, <1>6, <1>7 DEF CallSound
  <2> QED
    BY <2>1, <2>2 DEF CallSound
<1>9. Trusted(o) => OnItsWay(o)'
  <2> SUFFICES ASSUME Trusted(o), ~c.lastErr PROVE OnItsWay(o)'
    BY <1>5, <1>6, <1>7 DEF OnItsWay
  <2>1. /\ Fits
        /\ \A w \in call[o].opened : w[2] = path /\ path # 0
        /\ \A d \in Left(o) : d[2] <= D!Length - 1
        /\ \A k \in 0..(D!Length - 1) : Holds(k) \/ Covered(Left(o), k)
    BY <1>1, <1>5, <1>7 DEF Progress, OnItsWay
  <2>2. D!Length' = D!Length /\ resource' = resource
    BY <1>2 DEF D!Length
  <2>3. Left(o)' = Left(o)
    <3> DEFINE firsts(ws) == {w[1] : w \in ws}
    <3>1. firsts(call[o].opened \cup {<<b, path'>>}) = firsts(call[o].opened) \cup {b}
      <4> DEFINE pair == <<b, path'>>
      <4>1. pair[1] = b
        OBVIOUS
      <4> HIDE DEF pair
      <4>2. firsts(call[o].opened \cup {pair}) = firsts(call[o].opened) \cup {b}
        BY <4>1
      <4> QED
        BY <4>2 DEF pair
    <3>2. Left(o) = call[o].todo \cup firsts(call[o].opened)
      BY DEF Left
    <3>3. Left(o)' = c.todo \cup firsts(c.opened)
      BY <1>6 DEF Left
    <3> HIDE DEF firsts
    <3> QED
      BY <1>5, <3>1, <3>2, <3>3
  <2>4. path # 0 => path' = path /\ path \in D!Files /\ content'[path] = content[path]
    BY <1>1, <1>3 DEF FileTypes
  <2>5. Fits'
    BY <1>3, <2>1, <2>2, <2>4 DEF Fits
  <2>6. \A k : Holds(k) => Holds(k)'
    BY <2>2, <2>4 DEF Holds
  <2>7. \A w \in call'[o].opened : w[2] = path' /\ path' # 0
    BY <1>3, <1>5, <1>6, <2>1
  <2>8. \A d \in Left(o)' : d[2] <= D!Length' - 1
    BY <2>1, <2>2, <2>3
  <2>9. \A k \in 0..(D!Length' - 1) : Holds(k)' \/ Covered(Left(o)', k)
    BY <2>1, <2>2, <2>3, <2>6
  <2> QED
    BY <1>5, <1>6, <1>7, <2>5, <2>7, <2>8, <2>9 DEF OnItsWay
<1> QED
  BY <1>2, <1>3, <1>5, <1>7, <1>8, <1>9, StepOfCall

\* What a worker leaves when it is done.
LEMMA WorkerDone ==
    ASSUME FileTypes, NEW o \in Ops, CallSound(o), NEW w \in call[o].opened, NEW at \in Nat,
           NEW n \in Nat, NEW v \in {0, resource}, D!Worked(o, w, at, n, v)
    PROVE  /\ UNCHANGED <<resource, path, disturbed, soiled, result>>
           /\ FilesSound' /\ D!Files' = D!Files
           /\ IsWritten(content'[w[2]], content[w[2]], at, n, v)
<1>1. v \in Bytes
  BY ResourceLength DEF FileTypes, Bytes
<1>2. w[2] \in D!Files
  BY DEF CallSound
<1>3. /\ content' = [content EXCEPT ![w[2]] = D!Written(@, at, n, v)]
      /\ UNCHANGED <<resource, path, disturbed, soiled, result>>
  BY DEF D!Worked
<1> QED
  BY <1>1, <1>2, <1>3, FileWritten DEF FileTypes

\* A worker that fails is noted, and one that goes wrong has misled the call.
LEMMA BlockWrongFileInv ==
    ASSUME FileInv, NEW o \in Ops, NEW w \in call[o].opened,
           D!BlockFails(o, w) \/ D!BlockEndsEarly(o, w) \/ D!BlockMisplaced(o, w)
    PROVE  FileInv'
<1>1. FileTypes /\ CallSound(o) /\ Progress
  BY DEF FileInv, CallsSound
<1>3. /\ call[o] \in FetchType /\ w \in Block \X Nat
      /\ w[1][1] \in Nat /\ w[1][2] \in Nat /\ w[1][1] <= w[1][2]
  BY <1>1 DEF FileTypes, FetchType, Block
<1>4. call[o].phase = "blocks" /\ D!Active(o)
  BY <1>1, <1>3 DEF CallSound, FetchType, D!Active
<1>5. /\ UNCHANGED <<resource, path, disturbed, soiled, result>>
      /\ FilesSound' /\ D!Files' = D!Files
  <2>1. CASE D!BlockFails(o, w) \/ D!BlockEndsEarly(o, w)
    <3>1. PICK n \in Cuts : D!Worked(o, w, w[1][1], n, resource)
      BY <2>1 DEF D!BlockFails, D!BlockEndsEarly
    <3>2. n \in Nat
      BY ServersAssumption DEF D!DownloadAssumption
    <3> QED
      BY <1>1, <1>3, <3>1, <3>2, WorkerDone
  <2>2. CASE D!BlockMisplaced(o, w)
    <3>1. PICK at \in {0, w[1][1]} : D!Worked(o, w, at, D!BlockLength(w), 0)
      BY <2>2 DEF D!BlockMisplaced
    <3>2. D!BlockLength(w) \in Nat
      BY <1>3 DEF D!BlockLength
    <3> QED
      BY <1>1, <1>3, <3>1, <3>2, WorkerDone
  <2> QED
    BY <2>1, <2>2
<1>6. PICK c \in FetchType :
        /\ call' = [call EXCEPT ![o] = c] /\ c.phase = "blocks" /\ c.kind = call[o].kind
        /\ c.todo = call[o].todo /\ c.opened = call[o].opened \ {w}
        /\ call[o].misled => c.misled
        /\ c.lastErr \/ c.misled
  <2> DEFINE opened == call[o].opened \ {w}
             d == [call[o] EXCEPT !.opened = opened, !.lastErr = TRUE, !.faults = call[o].faults + 1]
             e == [call[o] EXCEPT !.opened = opened, !.misled = TRUE, !.faults = call[o].faults + 1]
  <2>1. opened \in SUBSET (Block \X Nat) /\ call[o].faults + 1 \in Nat
    BY <1>3 DEF FetchType
  <2>2. CASE D!BlockFails(o, w)
    <3>1. call' = [call EXCEPT ![o] = d]
      BY <2>2, Zenon DEF D!BlockFails
    <3> HIDE DEF opened
    <3>2. /\ d \in FetchType /\ d.phase = "blocks" /\ d.kind = call[o].kind
          /\ d.todo = call[o].todo /\ d.opened = opened /\ d.misled = call[o].misled
          /\ d.lastErr = TRUE
      BY <1>3, <1>4, <2>1 DEF FetchType
    <3> HIDE DEF d
    <3> QED
      BY <3>1, <3>2 DEF opened
  <2>3. CASE D!BlockEndsEarly(o, w) \/ D!BlockMisplaced(o, w)
    <3>1. call' = [call EXCEPT ![o] = e]
      BY <2>3, Zenon DEF D!BlockEndsEarly, D!BlockMisplaced
    <3> HIDE DEF opened
    <3>2. /\ e \in FetchType /\ e.phase = "blocks" /\ e.kind = call[o].kind
          /\ e.todo = call[o].todo /\ e.opened = opened /\ e.misled = TRUE
      BY <1>3, <1>4, <2>1 DEF FetchType
    <3> HIDE DEF e
    <3> QED
      BY <3>1, <3>2 DEF opened
  <2> QED
    BY <2>2, <2>3
<1>7. call'[o] = c
  BY <1>1, <1>6 DEF FileTypes
<1>8. path' \in {0} \cup D!Files'
  BY <1>1, <1>5 DEF FileTypes
<1>9. CallSound(o)'
  BY <1>1, <1>4, <1>5, <1>6, <1>7 DEF CallSound
<1>10. Trusted(o) /\ ~c.misled => OnItsWay(o)'
  BY <1>6, <1>7 DEF OnItsWay
<1> QED
  BY <1>4, <1>5, <1>6, <1>8, <1>9, <1>10, StepOfCall

\* A block that is written is in the file.
LEMMA BlockFileInv ==
    ASSUME FileInv, NEW o \in Ops, NEW w \in call[o].opened, D!WriteBlock(o, w)
    PROVE  FileInv'
<1>1. FileTypes /\ CallSound(o) /\ Progress
  BY DEF FileInv, CallsSound
<1>3. /\ call[o] \in FetchType /\ w \in Block \X Nat
      /\ w[1][1] \in Nat /\ w[1][2] \in Nat /\ w[1][1] <= w[1][2]
  BY <1>1 DEF FileTypes, FetchType, Block
<1>4. call[o].phase = "blocks" /\ D!Active(o)
  BY <1>1, <1>3 DEF CallSound, FetchType, D!Active
<1> DEFINE c == [call[o] EXCEPT !.opened = @ \ {w}]
           n == D!BlockLength(w)
<1>5. call' = [call EXCEPT ![o] = c] /\ D!Worked(o, w, w[1][1], n, resource)
  BY DEF D!WriteBlock
<1>6. /\ UNCHANGED <<resource, path, disturbed, soiled, result>>
      /\ FilesSound' /\ D!Files' = D!Files
      /\ IsWritten(content'[w[2]], content[w[2]], w[1][1], n, resource)
  <2>1. n \in Nat
    BY <1>3 DEF D!BlockLength
  <2> HIDE DEF n
  <2> QED
    BY <1>1, <1>3, <1>5, <2>1, WorkerDone
<1>7. w[1][1] + n - 1 = w[1][2]
  BY <1>3 DEF D!BlockLength
<1> HIDE DEF n
<1>8. /\ c \in FetchType /\ c.phase = "blocks" /\ c.kind = call[o].kind
      /\ c.lastErr = call[o].lastErr /\ c.misled = call[o].misled
      /\ c.todo = call[o].todo /\ c.opened = call[o].opened \ {w}
  BY <1>3, <1>4 DEF FetchType
<1> HIDE DEF c
<1>9. call'[o] = c
  BY <1>1, <1>5 DEF FileTypes
<1>10. path' \in {0} \cup D!Files'
  BY <1>1, <1>6 DEF FileTypes
<1>11. CallSound(o)'
  BY <1>1, <1>4, <1>6, <1>8, <1>9 DEF CallSound
<1>12. Trusted(o) => OnItsWay(o)'
  <2> SUFFICES ASSUME Trusted(o), ~c.lastErr PROVE OnItsWay(o)'
    BY <1>8, <1>9 DEF OnItsWay
  <2>1. /\ Fits
        /\ \A v \in call[o].opened : v[2] = path /\ path # 0
        /\ \A d \in Left(o) : d[2] <= D!Length - 1
        /\ \A k \in 0..(D!Length - 1) : Holds(k) \/ Covered(Left(o), k)
    BY <1>1, <1>4, <1>8 DEF Progress, OnItsWay
  <2>2. D!Length' = D!Length /\ resource' = resource /\ path' = path /\ path # 0 /\ w[2] = path
    BY <1>6, <2>1 DEF D!Length
  <2>3. w[1] \in Left(o) /\ w[1][2] <= D!Length - 1
    BY <2>1 DEF Left
  <2>4. Left(o)' \subseteq Left(o) /\ Left(o) \subseteq Left(o)' \cup {w[1]}
    BY <1>8, <1>9 DEF Left
  <2>5. D!Length \in Nat
    BY <1>1, ResourceLength DEF FileTypes
  <2>6. /\ DOMAIN content[path] \subseteq DOMAIN content'[path]
        /\ \/ DOMAIN content'[path] = DOMAIN content[path]
           \/ DOMAIN content'[path] \subseteq 0..w[1][2]
        /\ \A k \in w[1][1]..w[1][2] :
               k \in DOMAIN content'[path] /\ content'[path][k] = resource
        /\ \A k \in DOMAIN content[path] :
               k \notin w[1][1]..w[1][2] => content'[path][k] = content[path][k]
    BY <1>6, <1>7, <2>2 DEF IsWritten
  <2>7. 0..w[1][2] \subseteq 0..(D!Length - 1)
    BY <1>3, <2>3, <2>5
  <2>8. Fits'
    BY <2>1, <2>2, <2>6, <2>7 DEF Fits
  <2>9. \A k : Holds(k) => Holds(k)'
    BY <2>2, <2>6 DEF Holds
  <2>10. \A k \in w[1][1]..w[1][2] : Holds(k)'
    BY <2>2, <2>6 DEF Holds
  <2>11. \A k \in 0..(D!Length' - 1) : Holds(k)' \/ Covered(Left(o)', k)
    BY <2>1, <2>2, <2>4, <2>9, <2>10 DEF Covered
  <2>12. \A v \in call'[o].opened : v[2] = path' /\ path' # 0
    BY <1>8, <1>9, <2>1, <2>2
  <2>13. \A d \in Left(o)' : d[2] <= D!Length' - 1
    BY <2>1, <2>2, <2>4
  <2> QED
    BY <1>8, <1>9, <2>8, <2>11, <2>12, <2>13 DEF OnItsWay
<1> QED
  BY <1>4, <1>5, <1>6, <1>8, <1>10, <1>11, <1>12, StepOfCall

\* Blocks that are all written make the file whole.
LEMMA JoinFileInv ==
    ASSUME FileInv, NEW o \in Ops, D!Join(o)
    PROVE  FileInv'
<1>1. FileTypes /\ CallSound(o) /\ Progress
  BY DEF FileInv, CallsSound
<1>2. call[o].phase = "blocks" /\ call[o].todo = {} /\ call[o].opened = {}
  BY DEF D!Join
<1>3. D!Active(o)
  BY <1>2 DEF D!Active
<1>6. FilesSound' /\ D!Files' = D!Files /\ content' = content
  BY <1>1 DEF D!Join, FileTypes, FilesSound, D!Files
<1>4. CASE call[o].lastErr
  <2>1. D!Break(o)
    BY <1>4 DEF D!Join
  <2> QED
    BY <1>2, <1>3, <1>6, <2>1, BreakFileInv
<1>5. CASE ~call[o].lastErr
  <2>1. D!Succeed(o, call[o].misled)
    BY <1>5 DEF D!Join
  <2>2. call[o].misled \in BOOLEAN
    BY <1>1 DEF FileTypes, FetchType
  <2>3. Trusted(o) => path # 0 /\ content'[path] = D!Fresh
    <3> SUFFICES ASSUME Trusted(o) PROVE path # 0 /\ content[path] = D!Fresh
      BY <1>6
    <3>1. Left(o) = {}
      BY <1>2 DEF Left
    <3>2. Fits /\ \A k \in 0..(D!Length - 1) : Holds(k)
      BY <1>1, <1>2, <1>3, <1>5, <3>1 DEF Progress, OnItsWay, Covered
    <3>3. 0 \in 0..(D!Length - 1)
      BY <1>1, ResourceLength DEF FileTypes
    <3>4. path # 0 /\ path \in D!Files
      BY <1>1, <3>2, <3>3 DEF Holds, FileTypes
    <3>5. content[path] \in Contents
      BY <1>1, <3>4 DEF FileTypes, FilesSound, D!Files
    <3>6. PICK n \in Nat : content[path] \in [0..(n - 1) -> Bytes]
      BY <3>5 DEF Contents
    <3>7. /\ DOMAIN content[path] = 0..(D!Length - 1)
          /\ \A k \in 0..(D!Length - 1) : content[path][k] = resource
      BY <3>2, <3>4 DEF Fits, Holds
    <3>8. content[path] = D!Fresh
      BY <3>6, <3>7 DEF D!Fresh
    <3> QED
      BY <3>4, <3>8
  <2> QED
    BY <1>2, <1>3, <1>6, <2>1, <2>2, <2>3, SucceedFileInv
<1> QED
  BY <1>4, <1>5

LEMMA InitFileInv == D!Init => FileInv
<1> SUFFICES ASSUME D!Init PROVE FileInv
  OBVIOUS
<1>1. /\ resource = 1 /\ path = 0 /\ content = [f \in {} |-> 0]
      /\ call = [o \in Ops |-> [phase |-> "off", kind |-> "find", thread |-> 1, handle |-> 0,
                                todo |-> {}, opened |-> {}, lastErr |-> FALSE,
                                misled |-> FALSE, faults |-> 0]]
      /\ disturbed = {} /\ soiled = FALSE
      /\ result = [o \in Ops |-> [outcome |-> "none", whole |-> FALSE, soiled |-> FALSE]]
  BY DEF D!Init
<1>2. FileTypes
  <2>1. content \in [1..0 -> Contents]
    BY <1>1
  <2>2. FilesSound
    BY <2>1 DEF FilesSound
  <2>3. 1 \in D!Versions
    BY ServersAssumption DEF D!DownloadAssumption, D!Versions
  <2>4. call \in [Ops -> FetchType] /\ result \in [Ops -> ResultType]
    BY <1>1 DEF FetchType, ResultType
  <2> QED
    BY <1>1, <2>2, <2>3, <2>4 DEF FileTypes
<1>3. \A o \in Ops : ~D!Active(o)
  BY <1>1 DEF D!Active
<1>4. CallsSound
  BY <1>1 DEF CallsSound, CallSound
<1>5. Alone /\ Marked /\ Quiet /\ Progress
  BY <1>1, <1>3 DEF Alone, Marked, Quiet, Progress
<1>6. D!FetchedIsWhole
  BY <1>1 DEF D!FetchedIsWhole
<1> QED
  BY <1>2, <1>4, <1>5, <1>6 DEF FileInv

\* Every step keeps the invariant.
LEMMA NextFileInv == FileInv /\ [D!Next]_(D!vars) => FileInv'
<1> SUFFICES ASSUME FileInv, [D!Next]_(D!vars) PROVE FileInv'
  OBVIOUS
<1>1. CASE D!Publish
  BY <1>1, PublishFileInv
<1>2. ASSUME NEW o \in Ops, D!FindFresh(o) \/ \E t \in Threads : D!DownloadFile(o, t)
      PROVE  FileInv'
  BY <1>2, StartFileInv
<1>3. ASSUME NEW o \in Ops,
             \/ D!FindCached(o) \/ D!RequestFails(o) \/ D!AnsweredWhole(o)
             \/ D!AnsweredPartial(o) \/ D!Join(o)
             \/ D!BodyEnds(o) \/ D!BodyEndsEarly(o) \/ D!BodyBreaks(o)
      PROVE  FileInv'
  BY <1>3, FindCachedFileInv, RequestFailsFileInv, AnsweredWholeFileInv,
     AnsweredPartialFileInv, BodyFileInv, JoinFileInv
<1>4. ASSUME NEW o \in Ops, NEW b \in call[o].todo, D!OpenBlock(o, b) PROVE FileInv'
  BY <1>4, OpenBlockFileInv
<1>5. ASSUME NEW o \in Ops, NEW w \in call[o].opened,
             \/ D!WriteBlock(o, w) \/ D!BlockFails(o, w)
             \/ D!BlockEndsEarly(o, w) \/ D!BlockMisplaced(o, w)
      PROVE  FileInv'
  BY <1>5, BlockFileInv, BlockWrongFileInv
<1>6. CASE UNCHANGED D!vars
  <2>1. UNCHANGED <<resource, path, content, call, disturbed, soiled, result>>
    BY <1>6 DEF D!vars
  <2>2. FileTypes' /\ CallsSound'
    BY <2>1 DEF FileInv, FileTypes, FilesSound, CallsSound, CallSound, D!Files
  <2>3. Alone' /\ Marked' /\ Quiet' /\ D!FetchedIsWhole'
    BY <2>1 DEF FileInv, Alone, Marked, Quiet, D!Active, D!Fresh, D!Length, D!FetchedIsWhole
  <2>4. Progress'
    BY <2>1 DEF FileInv, Progress, Trusted, OnItsWay, D!Active, Fits, Left, Holds, Covered,
                D!Fresh, D!Length
  <2> QED
    BY <2>2, <2>3, <2>4 DEF FileInv
<1> QED
  BY <1>1, <1>2, <1>3, <1>4, <1>5, <1>6 DEF D!Next

-----------------------------------------------------------------------------
(* The composition: its steps are those of the part that runs.             *)

PartsInv ==
    /\ QueueInv
    /\ part = "websocket" => WSInv
    /\ part = "http" => HttpInv
    /\ part = "download" => FileInv
    /\ part = "api" => ApiInv

LEMMA InitPartsInv == ServersInit => PartsInv
BY InitQueueInv, InitWSInv, InitHttpInv, InitFileInv, InitApiInv DEF ServersInit, PartsInv

\* A step of one part is a step or a stutter of every part that runs.
LEMMA StepOfPart ==
    ASSUME [ServersNext]_serversVars
    PROVE  /\ part' = part
           /\ [Next]_vars
           /\ part = "websocket" => [W!Next]_(W!vars)
           /\ part = "http" => [H!Next]_(H!vars)
           /\ part = "download" => [D!Next]_(D!vars)
           /\ part = "api" => [X!Next]_(X!vars)
<1>1. CASE UNCHANGED serversVars
  <2>1. UNCHANGED <<part, vars, wsVars, httpVars, downloadVars, apiVars>>
    BY <1>1 DEF serversVars
  <2>2. UNCHANGED W!vars
    BY <2>1 DEF wsVars, W!vars, W!connVars
  <2>3. UNCHANGED H!vars
    BY <2>1 DEF httpVars, H!vars, H!callVars
  <2>4. UNCHANGED D!vars
    BY <2>1 DEF downloadVars, D!vars
  <2>5. UNCHANGED X!vars
    BY <2>1 DEF apiVars, X!vars, X!clientVars, X!dataVars, X!histVars
  <2> QED
    BY <2>1, <2>2, <2>3, <2>4, <2>5
<1>2. CASE Only("get_updates") /\ Next
  BY <1>2 DEF Only
<1>3. CASE Only("websocket") /\ W!Next
  BY <1>3 DEF Only
<1>4. CASE Only("http") /\ H!Next
  BY <1>4 DEF Only
<1>5. CASE Only("download") /\ D!Next
  BY <1>5 DEF Only
<1>6. CASE Only("api") /\ X!Next
  BY <1>6 DEF Only
<1> QED
  BY <1>1, <1>2, <1>3, <1>4, <1>5, <1>6 DEF ServersNext

LEMMA NextPartsInv == PartsInv /\ [ServersNext]_serversVars => PartsInv'
<1> SUFFICES ASSUME PartsInv, [ServersNext]_serversVars PROVE PartsInv'
  OBVIOUS
<1>1. /\ part' = part
      /\ [Next]_vars
      /\ part = "websocket" => [W!Next]_(W!vars)
      /\ part = "http" => [H!Next]_(H!vars)
      /\ part = "download" => [D!Next]_(D!vars)
      /\ part = "api" => [X!Next]_(X!vars)
  BY StepOfPart
<1>2. QueueInv'
  BY <1>1, NextQueueInv DEF PartsInv
<1>3. part = "websocket" => WSInv'
  BY <1>1, NextWSInv DEF PartsInv
<1>4. part = "http" => HttpInv'
  BY <1>1, NextHttpInv DEF PartsInv
<1>5. part = "download" => FileInv'
  BY <1>1, NextFileInv DEF PartsInv
<1>6. part = "api" => ApiInv'
  BY <1>1, NextApiInv DEF PartsInv
<1> QED
  BY <1>1, <1>2, <1>3, <1>4, <1>5, <1>6 DEF PartsInv

LEMMA PartsInvariance == ServersSpec => []PartsInv
BY InitPartsInv, NextPartsInv, PTL DEF ServersSpec

\* get_updates (server/middlewares.go): concurrent requests share the events,
\* once and in order, and only the limit of the queue costs any.
THEOREM EventsHandedOutOnce == ServersSpec => []EachEventOnce
<1>1. PartsInv => EachEventOnce
  BY DEF PartsInv, QueueInv, EachEventOnce
<1> QED
  BY <1>1, PartsInvariance, PTL

\* A request that sleeps beside events lost its wake-up in one of two ways
\* (server/middlewares.go).
THEOREM CollectorsSleepIfExcused == ServersSpec => []SleepsBesideEventsOnlyIfExcused
<1>1. PartsInv => SleepsBesideEventsOnlyIfExcused
  BY DEF PartsInv, QueueInv
<1> QED
  BY <1>1, PartsInvariance, PTL

\* Every client of the WebSocket server gets the events since it joined and
\* stays in the list (server/websocket.go).
THEOREM ClientsReported == ServersSpec => []ReportedToEach
<1>1. PartsInv => ReportedToEach
  BY ReceivedInOrder, SubscribersInList DEF PartsInv, ReportedToEach
<1> QED
  BY <1>1, PartsInvariance, PTL

\* Only requests with the right credentials run an action, and in QQ mode no
\* faster than the token bucket lets them (server/http.go, middlewares.go).
THEOREM AdmittedCallsRun == ServersSpec => []OnlyAdmittedCallsRun
<1>1. PartsInv => OnlyAdmittedCallsRun
  BY HttpInvSuffices DEF PartsInv, OnlyAdmittedCallsRun
<1> QED
  BY <1>1, PartsInvariance, PTL

\* A download that succeeds undisturbed is the whole file, and a cached file
\* is whole unless it was soiled (coolq/api.go, internal/download, global/fs.go).
THEOREM DownloadsWhole == ServersSpec => []Downloaded
<1>1. PartsInv => Downloaded
  BY DEF PartsInv, FileInv, Downloaded
<1> QED
  BY <1>1, PartsInvariance, PTL

\* What a call sends, stores and tells names one account, and its context
\* tokens are that account's (coolq/weixin_api.go, weixin.go).
THEOREM AccountsApart == ServersSpec => []AccountsKeptApart
<1>1. PartsInv => AccountsKeptApart
  BY DEF PartsInv, ApiInv, Told, AccountsKeptApart
<1> QED
  BY <1>1, PartsInvariance, PTL
=============================================================================
