--------------------------- MODULE InboundProofs ---------------------------
(***************************************************************************)
(* Proofs about Inbound, for any number of messages and faults: it         *)
(* implements MessageFlow.                                                 *)
(***************************************************************************)
EXTENDS Inbound, SequenceTheorems, TLAPS

\* What is in hand where.
Shape ==
    /\ pc \in {"poll", "await"} => todo = <<>>
    /\ pc \in {"poll", "await", "save", "write"} => events = <<>>
    /\ pc = "dispatch" => todo = <<>> /\ events # <<>>
    /\ pc \in {"save", "write", "normalize", "dispatch"} => buf \in Nat

\* The batch ends at the cursor received, and the normalised events precede
\* the rest of it.
BatchOrder ==
    /\ \A i \in 1..Len(todo) : todo[i] = (buf - Len(todo)) + i
    /\ \A i \in 1..Len(events) : events[i] <= buf - Len(todo)
    /\ \A i, j \in 1..Len(events) : i < j => events[i] < events[j]

\* As long as the cursor was never lost, what has been reported is covered by
\* the cursor on disk, and what is in hand comes after it.
Covered ==
    "cursorLost" \notin causes =>
        /\ pc \in {"poll", "await", "save"} => syncFile # Torn
        /\ pc \in {"poll", "await", "save"} =>
               \A i \in 1..Len(log) : syncFile \in Nat /\ log[i] <= syncFile
        /\ pc = "await" => buf = syncFile
        /\ pc = "save" => buf = (IF syncFile = None THEN 0 ELSE syncFile) + Len(todo)
        /\ pc = "write" => syncFile = Torn
        /\ pc \in {"normalize", "dispatch"} => syncFile = buf
        /\ pc \in {"write", "normalize", "dispatch"} =>
               \A i \in 1..Len(log) : log[i] <= buf - Len(todo)
        /\ \A i \in 1..Len(log), j \in 1..Len(events) : log[i] < events[j]

\* As long as nothing went wrong, what is in hand starts right after what has
\* been reported.
Exact ==
    causes = {} =>
        /\ pc \in {"poll", "await", "save"} /\ syncFile \in Nat => syncFile = Due - 1
        /\ pc \in {"poll", "await", "save"} /\ syncFile = None => Due = 1
        /\ pc \in {"write", "normalize", "dispatch"} =>
               buf = (Due - 1) + Len(events) + Len(todo)
        /\ \A i \in 1..Len(events) : events[i] = ((buf - Len(todo)) - Len(events)) + i

IInv == TypeOK /\ Shape /\ BatchOrder /\ AtMostOnce /\ Covered /\ Exact

-----------------------------------------------------------------------------
\* A batch is a sequence of consecutive messages.
LEMMA BatchIsSeq ==
    ASSUME NEW n \in Nat, NEW i \in 0..n, NEW j \in i..n
    PROVE  /\ Batch(i, j) \in Seq(1..n)
           /\ Len(Batch(i, j)) = j - i
           /\ \A k \in 1..(j - i) : Batch(i, j)[k] = i + k
<1>1. j - i \in Nat /\ Batch(i, j) \in [1..(j - i) -> 1..n]
  BY DEF Batch
<1>2. Batch(i, j) \in Seq(1..n)
  BY <1>1, SeqDef
<1>3. DOMAIN Batch(i, j) = 1..(j - i)
  BY DEF Batch
<1>4. Len(Batch(i, j)) = j - i
  BY <1>1, <1>2, <1>3, LenProperties
<1> QED
  BY <1>2, <1>4 DEF Batch

\* The next message due is a number.
LEMMA DueIsNat ==
    ASSUME log \in Seq(1..sent), sent \in Nat
    PROVE  Due \in Nat \ {0}
BY DEF Due, Last

\* The invariant holds at the start.
LEMMA InitIInv == Init => IInv
BY InboundAssumption DEF Init, IInv, TypeOK, Shape, BatchOrder, AtMostOnce, Covered, Exact, Due
-----------------------------------------------------------------------------
\* One more message leaves everything as it is.
LEMMA SendMessageIInv ==
    ASSUME IInv, SendMessage
    PROVE  IInv'
<1> USE DEF IInv, SendMessage, pollVars, histVars
<1>1. sent \in Nat /\ sent' \in Nat /\ 1..sent \subseteq 1..sent'
  BY InboundAssumption DEF TypeOK
<1>2. /\ todo' \in Seq(1..sent')
      /\ events' \in Seq(1..sent')
      /\ log' \in Seq(1..sent')
  BY <1>1, SeqMonotonic DEF TypeOK
<1>3. TypeOK'
  BY <1>1, <1>2, InboundAssumption DEF TypeOK
<1>4. (Shape /\ BatchOrder /\ AtMostOnce /\ Covered /\ Exact)'
  BY DEF Shape, BatchOrder, AtMostOnce, Covered, Exact, Due
<1> QED
  BY <1>3, <1>4

\* Steps of the poller, and faults, that move no message.
LEMMA CursorStepIInv ==
    ASSUME IInv,
           \/ StartPoll \/ NoUpdates \/ PollFails \/ TruncateCursor \/ WriteCursor
           \/ SaveFails \/ PollReturns \/ LoggedOut
    PROVE  IInv'
<1> USE InboundAssumption DEF IInv, pollVars, histVars
<1>1. sent' = sent /\ todo' = todo /\ events' = events /\ log' = log
  BY DEF StartPoll, NoUpdates, PollFails, TruncateCursor, WriteCursor, SaveFails,
         PollReturns, LoggedOut
<1>2. Due' = Due
  BY <1>1 DEF Due
<1>3. /\ Len(todo) \in Nat /\ Len(events) \in Nat /\ Len(log) \in Nat
      /\ Due \in Nat /\ sent \in Nat
      /\ todo = <<>> => Len(todo) = 0
      /\ events = <<>> => Len(events) = 0
  BY DueIsNat, EmptySeq DEF TypeOK
<1>4. CASE StartPoll
  BY <1>1, <1>2, <1>3, <1>4
     DEF StartPoll, TypeOK, Shape, BatchOrder, AtMostOnce, Covered, Exact
<1>5. CASE NoUpdates
  BY <1>1, <1>2, <1>3, <1>5
     DEF NoUpdates, TypeOK, Shape, BatchOrder, AtMostOnce, Covered, Exact
<1>6. CASE PollFails
  BY <1>1, <1>2, <1>3, <1>6
     DEF PollFails, TypeOK, Shape, BatchOrder, AtMostOnce, Covered, Exact
<1>7. CASE TruncateCursor
  BY <1>1, <1>2, <1>3, <1>7
     DEF TruncateCursor, TypeOK, Shape, BatchOrder, AtMostOnce, Covered, Exact
<1>8. CASE WriteCursor
  BY <1>1, <1>2, <1>3, <1>8
     DEF WriteCursor, TypeOK, Shape, BatchOrder, AtMostOnce, Covered, Exact
<1>9. CASE SaveFails
  BY <1>1, <1>2, <1>3, <1>9
     DEF SaveFails, Fault, Blame, TypeOK, Shape, BatchOrder, AtMostOnce, Covered, Exact
<1>10. CASE PollReturns
  BY <1>1, <1>2, <1>3, <1>10
     DEF PollReturns, TypeOK, Shape, BatchOrder, AtMostOnce, Covered, Exact
<1>11. CASE LoggedOut
  BY <1>1, <1>2, <1>3, <1>11
     DEF LoggedOut, Fault, Blame, TypeOK, Shape, BatchOrder, AtMostOnce, Covered, Exact
<1> QED
  BY <1>4, <1>5, <1>6, <1>7, <1>8, <1>9, <1>10, <1>11

\* The server's answer: a batch that follows the cursor sent.
LEMMA UpdatesIInv ==
    ASSUME IInv, Updates
    PROVE  IInv'
<1> USE InboundAssumption DEF IInv, histVars
<1>1. PICK i \in Starts :
          \E j \in i + 1..sent : todo' = Batch(i, j) /\ buf' = j
  BY DEF Updates
<1>2. PICK j \in i + 1..sent : todo' = Batch(i, j) /\ buf' = j
  BY <1>1
<1>3. sent \in Nat /\ i \in 0..sent /\ j \in i..sent /\ j \in 1..sent
  BY <1>2 DEF Starts, TypeOK, Updates
<1>4. /\ todo' \in Seq(1..sent)
      /\ Len(todo') = j - i
      /\ \A k \in 1..(j - i) : todo'[k] = i + k
  BY <1>2, <1>3, BatchIsSeq
<1>5. "cursorLost" \notin causes => i = (IF syncFile = None THEN 0 ELSE syncFile)
  BY <1>2 DEF Starts, Covered, Updates
<1>6. /\ events = <<>> /\ events' = events /\ log' = log /\ causes' = causes
      /\ sent' = sent /\ syncFile' = syncFile /\ pc = "await" /\ pc' = "save"
      /\ faults' = faults
  BY DEF Updates, Shape
<1>7. Due' = Due /\ Len(events) = 0
  BY <1>6 DEF Due
<1>8. TypeOK'
  BY <1>2, <1>3, <1>4, <1>6 DEF TypeOK
<1>9. Shape'
  BY <1>2, <1>3, <1>6 DEF Shape
<1>10. BatchOrder'
  BY <1>2, <1>3, <1>4, <1>6, <1>7 DEF BatchOrder
<1>11. AtMostOnce'
  BY <1>6 DEF AtMostOnce
<1>12. Covered'
  BY <1>2, <1>3, <1>4, <1>5, <1>6, <1>7 DEF Covered, TypeOK
<1>13. Exact'
  BY <1>6, <1>7 DEF Exact
<1> QED
  BY <1>8, <1>9, <1>10, <1>11, <1>12, <1>13

\* The first message of the batch moves to the events, or is skipped.
LEMMA NormalizeIInv ==
    ASSUME IInv, Normalize \/ NormalizeFails
    PROVE  IInv'
<1> USE InboundAssumption DEF IInv, histVars
<1>1. /\ todo # <<>> /\ todo' = Tail(todo) /\ pc = "normalize"
      /\ sent' = sent /\ syncFile' = syncFile /\ pc' = pc /\ buf' = buf /\ log' = log
  BY DEF Normalize, NormalizeFails
<1>2. /\ Head(todo) \in 1..sent
      /\ Tail(todo) \in Seq(1..sent)
      /\ Len(todo) \in Nat \ {0}
      /\ Len(Tail(todo)) = Len(todo) - 1
      /\ \A i \in 1..Len(Tail(todo)) : Tail(todo)[i] = todo[i + 1]
      /\ Head(todo) = todo[1]
  BY <1>1, HeadTailProperties, LenProperties, EmptySeq DEF TypeOK
<1>3. Head(todo) = (buf - Len(todo)) + 1
  BY <1>2 DEF BatchOrder
<1>4. buf \in Nat /\ sent \in Nat /\ Due \in Nat /\ Due' = Due
  BY <1>1, DueIsNat DEF Shape, TypeOK, Due
<1>5. /\ Len(events) \in Nat
      /\ \A i \in 1..Len(events) : events[i] \in Nat
      /\ \A i \in 1..Len(log) : log[i] \in Nat
      /\ Len(log) \in Nat
  BY LenProperties, ElementOfSeq DEF TypeOK
<1>6. CASE Normalize
  <2>1. events' = Append(events, Head(todo)) /\ causes' = causes /\ faults' = faults
    BY <1>6 DEF Normalize
  <2>2. /\ events' \in Seq(1..sent)
        /\ Len(events') = Len(events) + 1
        /\ \A i \in 1..Len(events) : events'[i] = events[i]
        /\ events'[Len(events) + 1] = Head(todo)
    BY <1>2, <2>1, AppendProperties DEF TypeOK
  <2>3. TypeOK'
    BY <1>1, <1>2, <2>1, <2>2 DEF TypeOK
  <2>4. Shape'
    BY <1>1, <1>4 DEF Shape
  <2>5. \A i \in 1..Len(events') :
            \/ i \in 1..Len(events) /\ events'[i] = events[i]
            \/ i = Len(events) + 1 /\ events'[i] = Head(todo)
    BY <1>5, <2>2
  <2>6. (buf - Len(todo))' = (buf - Len(todo)) + 1
    BY <1>1, <1>2, <1>4
  <2>7. BatchOrder'
    <3>1. (\A i \in 1..Len(todo) : todo[i] = (buf - Len(todo)) + i)'
      BY <1>1, <1>2, <1>4, <2>6 DEF BatchOrder
    <3>2. \A i \in 1..Len(events') : events'[i] <= (buf - Len(todo)) + 1
      <4> SUFFICES ASSUME NEW i \in 1..Len(events')
                   PROVE  events'[i] <= (buf - Len(todo)) + 1
        OBVIOUS
      <4>1. CASE i \in 1..Len(events) /\ events'[i] = events[i]
        BY <1>2, <1>4, <1>5, <4>1 DEF BatchOrder
      <4>2. CASE events'[i] = Head(todo)
        BY <1>2, <1>3, <1>4, <4>2
      <4> QED
        BY <2>5, <4>1, <4>2
    <3>3. \A i, j \in 1..Len(events') : i < j => events'[i] < events'[j]
      <4> SUFFICES ASSUME NEW i \in 1..Len(events'), NEW j \in 1..Len(events'), i < j
                   PROVE  events'[i] < events'[j]
        OBVIOUS
      <4>1. i \in 1..Len(events) /\ events'[i] = events[i]
        BY <1>5, <2>2
      <4>2. CASE j \in 1..Len(events) /\ events'[j] = events[j]
        BY <4>1, <4>2 DEF BatchOrder
      <4>3. CASE events'[j] = Head(todo)
        <5>1. events[i] <= buf - Len(todo) /\ events[i] \in Nat
          BY <1>5, <4>1 DEF BatchOrder
        <5> QED
          BY <1>2, <1>3, <1>4, <4>1, <4>3, <5>1
      <4> QED
        BY <2>5, <4>2, <4>3
    <3> QED
      BY <2>6, <3>1, <3>2, <3>3 DEF BatchOrder
  <2>8. AtMostOnce'
    BY <1>1, <2>1 DEF AtMostOnce
  <2>9. Covered'
    <3> SUFFICES ASSUME "cursorLost" \notin causes
                 PROVE  Covered'
      BY <2>1 DEF Covered
    <3>1. \A i \in 1..Len(log) : log[i] <= buf - Len(todo)
      BY <1>1 DEF Covered
    <3>2. \A i \in 1..Len(log) : log[i] <= (buf - Len(todo)) + 1
      BY <1>2, <1>4, <1>5, <3>1
    <3>3. ASSUME NEW i \in 1..Len(log), NEW j \in 1..Len(events')
          PROVE  log[i] < events'[j]
      <4>1. CASE j \in 1..Len(events) /\ events'[j] = events[j]
        BY <4>1 DEF Covered
      <4>2. CASE events'[j] = Head(todo)
        <5>1. log[i] <= buf - Len(todo) /\ log[i] \in Nat
          BY <1>5, <3>1
        <5> QED
          BY <1>2, <1>3, <1>4, <4>2, <5>1
      <4> QED
        BY <2>5, <4>1, <4>2
    <3> QED
      BY <1>1, <2>1, <2>6, <3>2, <3>3 DEF Covered
  <2>10. Exact'
    <3> SUFFICES ASSUME causes = {}
                 PROVE  Exact'
      BY <2>1 DEF Exact
    <3>1. \A i \in 1..Len(events') :
              events'[i] = ((buf - Len(todo')) - Len(events')) + i
      <4> SUFFICES ASSUME NEW i \in 1..Len(events')
                   PROVE  events'[i] = ((buf - Len(todo')) - Len(events')) + i
        OBVIOUS
      <4>1. (buf - Len(todo')) - Len(events') = (buf - Len(todo)) - Len(events)
        BY <1>1, <1>2, <1>4, <1>5, <2>2
      <4>2. CASE i \in 1..Len(events) /\ events'[i] = events[i]
        BY <4>1, <4>2 DEF Exact
      <4>3. CASE i = Len(events) + 1 /\ events'[i] = Head(todo)
        BY <1>2, <1>3, <1>4, <1>5, <4>1, <4>3
      <4> QED
        BY <2>5, <4>2, <4>3
    <3>2. buf = (Due - 1) + Len(events') + Len(todo')
      <4>1. buf = (Due - 1) + Len(events) + Len(todo)
        BY <1>1 DEF Exact
      <4>2. Len(events') = Len(events) + 1 /\ Len(todo') = Len(todo) - 1
        BY <1>1, <1>2, <2>2
      <4> HIDE DEF IInv
      <4> QED
        BY <1>2, <1>4, <1>5, <4>1, <4>2
    <3> QED
      BY <1>1, <1>4, <3>1, <3>2 DEF Exact
  <2> QED
    BY <2>3, <2>4, <2>7, <2>8, <2>9, <2>10
<1>7. CASE NormalizeFails
  <2>1. /\ events' = events /\ causes' = causes \cup {"badMessage"}
        /\ faults' \in 0..MaxFaults
    BY <1>7 DEF NormalizeFails, Fault, Blame, TypeOK
  <2>2. TypeOK'
    BY <1>1, <1>2, <2>1 DEF TypeOK
  <2>3. Shape'
    BY <1>1, <1>4 DEF Shape
  <2>4. BatchOrder'
    BY <1>1, <1>2, <1>3, <1>4, <1>5, <2>1 DEF BatchOrder
  <2>5. AtMostOnce'
    BY <1>1, <2>1 DEF AtMostOnce
  <2>6. Covered'
    BY <1>1, <1>2, <1>3, <1>4, <1>5, <2>1 DEF Covered
  <2>7. Exact'
    BY <2>1 DEF Exact
  <2> QED
    BY <2>2, <2>3, <2>4, <2>5, <2>6, <2>7
<1> QED
  BY <1>6, <1>7

\* The next event is reported.
LEMMA DispatchIInv ==
    ASSUME IInv, Dispatch
    PROVE  IInv'
<1> USE InboundAssumption DEF IInv
<1>1. /\ todo = <<>> /\ todo' = <<>> /\ events # <<>> /\ events' = Tail(events)
      /\ log' = Append(log, Head(events)) /\ pc = "dispatch"
      /\ pc' = IF events' = <<>> THEN "poll" ELSE pc
      /\ sent' = sent /\ syncFile' = syncFile /\ buf' = buf
      /\ causes' = causes /\ faults' = faults
  BY DEF Dispatch, Shape
<1>2. /\ Head(events) \in 1..sent
      /\ Tail(events) \in Seq(1..sent)
      /\ Len(events) \in Nat \ {0}
      /\ Len(Tail(events)) = Len(events) - 1
      /\ \A i \in 1..Len(Tail(events)) : Tail(events)[i] = events[i + 1]
      /\ Head(events) = events[1]
  BY <1>1, HeadTailProperties, LenProperties, EmptySeq DEF TypeOK
<1>3. /\ Len(log) \in Nat
      /\ log' \in Seq(1..sent)
      /\ Len(log') = Len(log) + 1
      /\ \A i \in 1..Len(log) : log'[i] = log[i]
      /\ log'[Len(log) + 1] = Head(events)
  BY <1>1, <1>2, AppendProperties, LenProperties DEF TypeOK
<1>4. buf \in Nat /\ sent \in Nat /\ Due \in Nat /\ Len(todo) = 0
  BY <1>1, DueIsNat DEF Shape, TypeOK
<1>5. Due' = Head(events) + 1
  <2>1. log' # <<>>
    BY <1>3
  <2> QED
    BY <1>3, <2>1 DEF Due, Last
<1>6. /\ \A i \in 1..Len(events) : events[i] \in Nat
      /\ \A i \in 1..Len(log) : log[i] \in Nat
  BY ElementOfSeq DEF TypeOK
<1>7. TypeOK'
  BY <1>1, <1>2, <1>3 DEF TypeOK
<1>8. Shape'
  BY <1>1, <1>4 DEF Shape
<1>9. BatchOrder'
  BY <1>1, <1>2, <1>4, <1>6 DEF BatchOrder
<1>10. \A i \in 1..Len(log') :
           \/ i \in 1..Len(log) /\ log'[i] = log[i]
           \/ i = Len(log) + 1 /\ log'[i] = Head(events)
  BY <1>3
<1>11. AtMostOnce'
  <2> SUFFICES ASSUME "cursorLost" \notin causes,
                      NEW i \in 1..Len(log'), NEW j \in 1..Len(log'), i < j
               PROVE  log'[i] < log'[j]
    BY <1>1 DEF AtMostOnce
  <2>1. i \in 1..Len(log) /\ log'[i] = log[i]
    BY <1>3
  <2>2. CASE j \in 1..Len(log) /\ log'[j] = log[j]
    BY <2>1, <2>2 DEF AtMostOnce
  <2>3. CASE log'[j] = Head(events)
    <3>1. 1 \in 1..Len(events)
      BY <1>2
    <3> QED
      BY <1>2, <2>1, <2>3, <3>1 DEF Covered
  <2> QED
    BY <1>10, <2>2, <2>3
<1>12. Covered'
  <2> SUFFICES ASSUME "cursorLost" \notin causes
               PROVE  Covered'
    BY <1>1 DEF Covered
  <2>1. \A i \in 1..Len(events) : events[i] <= buf
    BY <1>1, <1>4 DEF BatchOrder
  <2>2. \A i \in 1..Len(log') : log'[i] <= buf
    <3> SUFFICES ASSUME NEW i \in 1..Len(log') PROVE log'[i] <= buf
      OBVIOUS
    <3>1. CASE i \in 1..Len(log) /\ log'[i] = log[i]
      BY <1>1, <1>4, <3>1 DEF Covered
    <3>2. CASE log'[i] = Head(events)
      BY <1>2, <2>1, <3>2
    <3> QED
      BY <1>10, <3>1, <3>2
  <2>3. ASSUME NEW i \in 1..Len(log'), NEW j \in 1..Len(events')
        PROVE  log'[i] < events'[j]
    <3>1. /\ j + 1 \in 1..Len(events) /\ 1 \in 1..Len(events) /\ 1 < j + 1
          /\ events'[j] = events[j + 1]
      BY <1>1, <1>2
    <3>2. CASE i \in 1..Len(log) /\ log'[i] = log[i]
      BY <3>1, <3>2 DEF Covered
    <3>3. CASE log'[i] = Head(events)
      BY <1>2, <3>1, <3>3 DEF BatchOrder
    <3> QED
      BY <1>10, <3>2, <3>3
  <2>4. syncFile = buf /\ pc' \in {"poll", "dispatch"} /\ Len(todo') = 0
    BY <1>1, <1>4 DEF Covered
  <2> QED
    BY <1>1, <1>4, <2>2, <2>3, <2>4 DEF Covered
<1>13. Exact'
  <2> SUFFICES ASSUME causes = {}
               PROVE  Exact'
    BY <1>1 DEF Exact
  <2>1. Head(events) = (buf - Len(events)) + 1
    BY <1>1, <1>2, <1>4 DEF Exact
  <2>2. syncFile = buf
    BY <1>1 DEF Covered
  <2>3. (events' = <<>>) <=> (Len(events') = 0)
    BY <1>1, <1>2, EmptySeq
  <2>4. ASSUME NEW i \in 1..Len(events')
        PROVE  events'[i] = ((buf - Len(todo')) - Len(events')) + i
    <3>1. i + 1 \in 1..Len(events) /\ events'[i] = events[i + 1]
      BY <1>1, <1>2
    <3>2. events[i + 1] = ((buf - Len(todo)) - Len(events)) + (i + 1)
      BY <3>1 DEF Exact
    <3> QED
      BY <1>1, <1>2, <1>4, <3>1, <3>2
  <2>5. buf = (Due' - 1) + Len(events') + Len(todo')
    BY <1>1, <1>2, <1>4, <1>5, <2>1
  <2>6. pc' = "poll" => syncFile = Due' - 1
    BY <1>1, <1>2, <1>4, <1>5, <2>2, <2>3, <2>5
  <2>7. syncFile # None /\ pc' \in {"poll", "dispatch"}
    BY <1>1, <1>4, <2>2
  <2> QED
    BY <1>1, <2>4, <2>5, <2>6, <2>7 DEF Exact
<1> QED
  BY <1>7, <1>8, <1>9, <1>11, <1>12, <1>13

\* A crash loses what is in hand.
LEMMA CrashIInv ==
    ASSUME IInv, Crash
    PROVE  IInv'
<1> USE InboundAssumption DEF IInv, Crash, Fault, Blame
<1>1. /\ Len(todo) \in Nat /\ Len(events) \in Nat /\ Len(log) \in Nat
      /\ Due \in Nat /\ sent \in Nat /\ Due' = Due
      /\ \A i \in 1..Len(log) : log[i] \in Nat
      /\ todo = <<>> => Len(todo) = 0
      /\ events = <<>> => Len(events) = 0
      /\ todo \o events = <<>> => todo = <<>> /\ events = <<>>
  BY DueIsNat, EmptySeq, LenProperties, ElementOfSeq DEF TypeOK, Due
<1>2. /\ <<>> \in Seq(1..sent) /\ Len(<<>>) = 0
  OBVIOUS
<1>3. TypeOK'
  BY <1>1, <1>2 DEF TypeOK
<1>4. Shape' /\ BatchOrder'
  BY <1>2 DEF Shape, BatchOrder
<1>5. AtMostOnce'
  BY DEF AtMostOnce
<1>6. Covered'
  BY <1>1, <1>2 DEF Covered, Shape, TypeOK
<1>7. Exact'
  BY <1>1, <1>2 DEF Exact, Covered, Shape, TypeOK
<1> QED
  BY <1>3, <1>4, <1>5, <1>6, <1>7

\* Every step preserves the invariant.
LEMMA NextIInv == IInv /\ [Next]_vars => IInv'
<1> SUFFICES ASSUME IInv, [Next]_vars PROVE IInv'
  OBVIOUS
<1>1. CASE UNCHANGED vars
  BY <1>1 DEF IInv, TypeOK, Shape, BatchOrder, AtMostOnce, Covered, Exact, Due,
              vars, pollVars, histVars
<1>2. CASE Next
  BY <1>2, SendMessageIInv, CursorStepIInv, UpdatesIInv, NormalizeIInv, DispatchIInv,
     CrashIInv DEF Next, Progress
<1> QED
  BY <1>1, <1>2

\* The invariant holds for ever.
THEOREM Invariance == Spec => []IInv
BY InitIInv, NextIInv, PTL DEF Spec

\* Types are kept.
THEOREM TypeCorrect == Spec => []TypeOK
<1>1. IInv => TypeOK
  BY DEF IInv
<1> QED
  BY <1>1, Invariance, PTL

\* No message is reported twice while the cursor was never lost.
THEOREM ReportedAtMostOnce == Spec => []AtMostOnce
<1>1. IInv => AtMostOnce
  BY DEF IInv
<1> QED
  BY <1>1, Invariance, PTL

\* The cursor on disk covers nothing that was neither reported nor is in hand.
THEOREM CursorIsNotAhead == Spec => []CursorNotAhead
<1>1. IInv => CursorNotAhead
  <2> SUFFICES ASSUME IInv, causes = {}, syncFile \in Nat
               PROVE  syncFile < Due + Len(events) + Len(todo)
    BY DEF CursorNotAhead
  <2>1. Due \in Nat /\ Len(events) \in Nat /\ Len(todo) \in Nat
    BY DueIsNat, LenProperties DEF IInv, TypeOK
  <2>2. pc # "write"
    BY InboundAssumption DEF IInv, Covered
  <2> QED
    BY <2>1, <2>2 DEF IInv, Exact, Covered, TypeOK
<1> QED
  BY <1>1, Invariance, PTL

\* Every step of Inbound is a step of MessageFlow or changes nothing there.
LEMMA StepKeepsPromise ==
    ASSUME IInv, [Next]_vars
    PROVE  [Flow!FlowNext]_(Flow!flowVars)
<1> USE DEF Flow!FlowNext, Flow!flowVars
<1>1. CASE SendMessage
  BY <1>1 DEF SendMessage, Flow!SendMessage, FlowExcuses, histVars
<1>2. CASE Dispatch
  <2>1. /\ events # <<>> /\ todo = <<>> /\ pc = "dispatch" /\ buf \in Nat
        /\ log \in Seq(1..sent) /\ events \in Seq(1..sent) /\ sent \in Nat
    BY <1>2 DEF Dispatch, IInv, Shape, TypeOK
  <2>2. /\ Len(events) \in Nat \ {0} /\ Head(events) = events[1]
        /\ Head(events) \in 1..sent
    BY <2>1, HeadTailProperties, EmptySeq
  <2>3. Flow!Due = Due /\ Due \in Nat
    BY <2>1, DueIsNat DEF Flow!Due, Due, Last
  <2>4. Head(events) > Due => causes # {}
    <3> SUFFICES ASSUME causes = {} PROVE Head(events) = Due
      BY <2>2, <2>3
    <3> QED
      BY <2>1, <2>2, <2>3 DEF IInv, Exact
  <2>5. Head(events) < Due => "cursorLost" \in causes
    <3> SUFFICES ASSUME "cursorLost" \notin causes, Head(events) < Due PROVE FALSE
      OBVIOUS
    <3>1. log # <<>>
      BY <2>2 DEF Due
    <3>2. Len(log) \in 1..Len(log) /\ log[Len(log)] \in Nat /\ Due = log[Len(log)] + 1
      BY <2>1, <3>1, EmptySeq, ElementOfSeq DEF Due, Last
    <3>3. log[Len(log)] < events[1]
      BY <2>2, <3>2 DEF IInv, Covered
    <3> QED
      BY <2>2, <3>2, <3>3
  <2>6. Flow!Report(Head(events))
    BY <1>2, <2>2, <2>3, <2>4, <2>5 DEF Flow!Report, Dispatch, FlowExcuses
  <2> QED
    BY <2>2, <2>6
<1>3. CASE SaveFails \/ NormalizeFails \/ LoggedOut \/ Crash
  <2>1. sent' = sent /\ log' = log /\ causes \subseteq causes'
    BY <1>3 DEF SaveFails, NormalizeFails, LoggedOut, Crash, Blame
  <2>2. \E x \in SUBSET Flow!Excuses : FlowExcuses' = FlowExcuses \cup x
    <3>1. FlowExcuses' = FlowExcuses \cup FlowExcuses'
      BY <2>1 DEF FlowExcuses
    <3>2. FlowExcuses' \in SUBSET Flow!Excuses
      BY DEF FlowExcuses, Flow!Excuses
    <3> QED
      BY <3>1, <3>2
  <2> QED
    BY <2>1, <2>2 DEF Flow!Excuse
<1>4. CASE UNCHANGED <<sent, log, causes>>
  BY <1>4 DEF FlowExcuses
<1> QED
  BY <1>1, <1>2, <1>3, <1>4
     DEF Next, Progress, StartPoll, Updates, NoUpdates, PollFails, TruncateCursor,
         WriteCursor, Normalize, PollReturns, vars, histVars

\* Inbound implements MessageFlow: messages are reported in order and once,
\* unless a crash, a bad message or a lost cursor excuses it.
THEOREM PromiseKept == Spec => KeepsPromise
<1>1. Init => Flow!FlowInit
  BY DEF Init, Flow!FlowInit, FlowExcuses
<1> QED
  BY <1>1, StepKeepsPromise, Invariance, PTL DEF Spec, KeepsPromise, Flow!FlowSpec
=============================================================================
