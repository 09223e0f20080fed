-------------------------- MODULE ReverseWSProofs --------------------------
(***************************************************************************)
(* Proofs about ReverseWS, for any connections, listeners and requests: a  *)
(* connection has one writer, none leaks, and no answer strays while its   *)
(* connection is open.                                                     *)
(***************************************************************************)
EXTENDS ReverseWS, TLAPS

\* Only the holder of wsConn.mu writes, and the pusher holds it while it does.
WriterHoldsMu ==
    /\ \A w \in Writers : target[w] # None => wmu = w
    /\ pc = "write" => wmu = Pusher

\* A connection is dialled only when the old one has been closed.
OldIsClosed ==
    /\ pc \in {"dial", "install"} => conn \notin open
    /\ pc = "install" <=> dialled # None
    /\ dialled # None => conn # dialled

\* Nobody has heard of the connection that is being installed.
DialledIsFresh ==
    dialled # None =>
        /\ \A l \in Listeners : reads[l] # dialled
        /\ \A r \in Requests : asked[r] # dialled

\* Requests came over some connection.
AskedHasConn == \A r \in Requests : asked[r] # None => conn # None

\* Only a request is answered.
AskedIdle == \A r \in Requests : asked[r] = None => target[r] = None

IInv ==
    /\ TypeOK /\ WriterHoldsMu /\ OldIsClosed /\ DialledIsFresh /\ AskedHasConn
    /\ AskedIdle /\ NothingLeaks /\ AnswerToAsker

-----------------------------------------------------------------------------
\* The invariant holds at the start.
LEMMA InitIInv == Init => IInv
BY ReverseAssumption
   DEF Init, IInv, TypeOK, WriterHoldsMu, OldIsClosed, DialledIsFresh, AskedHasConn,
       AskedIdle, NothingLeaks, AnswerToAsker, Writers

\* A connection is lost.
LEMMA DropIInv ==
    ASSUME IInv, NEW c \in Conns, Drop(c)
    PROVE  IInv'
BY DEF Drop, IInv, TypeOK, WriterHoldsMu, OldIsClosed, DialledIsFresh, AskedHasConn,
       AskedIdle, NothingLeaks, AnswerToAsker, listVars

\* A new connection is dialled, and installed.
LEMMA ConnectIInv ==
    ASSUME IInv, Dial \/ Install
    PROVE  IInv'
<1> USE ReverseAssumption DEF IInv, netVars, listVars
<1>1. CASE Dial
  <2>1. PICK c \in Conns : /\ Forgotten(c) /\ dialled' = c
                           /\ open' = open \cup {c} /\ alive' = alive \cup {c}
    BY <1>1 DEF Dial
  <2>2. pc = "dial" /\ pc' = "install" /\ c # None
    BY <1>1 DEF Dial
  <2>3. UNCHANGED <<conn, listen, reads, asked, wmu, target>>
    BY <1>1 DEF Dial
  <2>4. TypeOK'
    BY <2>1, <2>2, <2>3 DEF TypeOK
  <2>5. WriterHoldsMu' /\ AskedHasConn' /\ AskedIdle'
    BY <2>2, <2>3 DEF WriterHoldsMu, AskedHasConn, AskedIdle
  <2>6. OldIsClosed'
    BY <2>1, <2>2, <2>3 DEF OldIsClosed, Forgotten
  <2>7. DialledIsFresh'
    BY <2>1, <2>3 DEF DialledIsFresh, Forgotten
  <2>8. NothingLeaks'
    BY <2>1, <2>2, <2>3 DEF NothingLeaks, OldIsClosed, TypeOK
  <2>9. AnswerToAsker'
    BY <2>1, <2>3 DEF AnswerToAsker, Forgotten
  <2> QED
    BY <2>4, <2>5, <2>6, <2>7, <2>8, <2>9
<1>2. CASE Install
  <2>1. PICK l \in Listeners : listen' = [listen EXCEPT ![l] = "loop"]
    BY <1>2 DEF Install
  <2>2. /\ pc = "install" /\ pc' = "idle" /\ conn' = dialled /\ dialled' = None
        /\ dialled \in Conns /\ dialled # None
    BY <1>2 DEF Install, OldIsClosed, TypeOK
  <2>3. UNCHANGED <<open, alive, reads, asked, wmu, target>>
    BY <1>2 DEF Install
  <2>4. TypeOK'
    BY <2>1, <2>2, <2>3 DEF TypeOK
  <2>5. WriterHoldsMu' /\ AskedHasConn' /\ AskedIdle' /\ OldIsClosed' /\ DialledIsFresh'
    BY <2>2, <2>3 DEF WriterHoldsMu, AskedHasConn, AskedIdle, OldIsClosed, DialledIsFresh
  <2>6. NothingLeaks'
    BY <2>2, <2>3 DEF NothingLeaks, OldIsClosed
  <2>7. AnswerToAsker'
    BY <2>3 DEF AnswerToAsker
  <2> QED
    BY <2>4, <2>5, <2>6, <2>7
<1> QED
  BY <1>1, <1>2

\* The event handler writes.
LEMMA PushIInv ==
    ASSUME IInv, Push \/ LockWrite \/ WriteOk \/ WriteFails
    PROVE  IInv'
<1> USE ReverseAssumption DEF IInv, netVars, listVars
<1>1. UNCHANGED <<conn, dialled, listen, reads, asked>>
  BY DEF Push, LockWrite, WriteOk, WriteFails
<1>2. pc # "install" /\ dialled = None /\ conn # None /\ pc' # "install"
  BY DEF Push, LockWrite, WriteOk, WriteFails, OldIsClosed, TypeOK
<1>3. open' \subseteq open /\ alive' \subseteq alive
  BY DEF Push, LockWrite, WriteOk, WriteFails
<1>4. DialledIsFresh' /\ AskedHasConn' /\ NothingLeaks'
  BY <1>1, <1>3 DEF DialledIsFresh, AskedHasConn, NothingLeaks
<1>5. Pusher \in Writers /\ \A r \in Requests : r \in Writers /\ r # Pusher
  BY DEF Writers
<1>6. \A r \in Requests : target'[r] = target[r]
  BY <1>5 DEF Push, LockWrite, WriteOk, WriteFails, TypeOK
<1>7. AnswerToAsker' /\ AskedIdle'
  BY <1>1, <1>3, <1>6 DEF AnswerToAsker, AskedIdle
<1>8. CASE Push
  BY <1>1, <1>2, <1>4, <1>7, <1>8 DEF Push, TypeOK, WriterHoldsMu, OldIsClosed
<1>9. CASE LockWrite
  <2>1. TypeOK'
    BY <1>1, <1>2, <1>3, <1>5, <1>9 DEF LockWrite, TypeOK
  <2>2. /\ \A w \in Writers : target[w] = None
        /\ target' = [target EXCEPT ![Pusher] = conn] /\ wmu' = Pusher
    BY <1>9 DEF LockWrite, WriterHoldsMu, Writers
  <2>3. WriterHoldsMu' /\ OldIsClosed'
    BY <1>1, <1>2, <1>5, <1>9, <2>2 DEF LockWrite, TypeOK, WriterHoldsMu, OldIsClosed
  <2> QED
    BY <1>4, <1>7, <2>1, <2>3
<1>10. CASE WriteOk
  BY <1>1, <1>2, <1>4, <1>5, <1>7, <1>10 DEF WriteOk, TypeOK, WriterHoldsMu, OldIsClosed
<1>11. CASE WriteFails
  <2>1. TypeOK'
    BY <1>1, <1>2, <1>3, <1>5, <1>11 DEF WriteFails, TypeOK
  <2>2. WriterHoldsMu' /\ OldIsClosed'
    BY <1>1, <1>2, <1>5, <1>11 DEF WriteFails, TypeOK, WriterHoldsMu, OldIsClosed
  <2> QED
    BY <1>4, <1>7, <2>1, <2>2
<1> QED
  BY <1>8, <1>9, <1>10, <1>11

\* A listener reads whatever connection there is, and closes it when it ends.
LEMMA ListenIInv ==
    ASSUME IInv, NEW l \in Listeners,
           \/ Listen(l) \/ ReadFails(l) \/ ListenerEnds(l)
           \/ \E r \in Requests : Request(l, r)
    PROVE  IInv'
<1> USE ReverseAssumption DEF IInv, netVars, listVars
<1>1. UNCHANGED <<conn, alive, pc, dialled, wmu, target>>
  BY DEF Listen, ReadFails, ListenerEnds, Request
<1>2. open' \subseteq open
  BY DEF Listen, ReadFails, ListenerEnds, Request
<1>3. listen[l] # "off" /\ conn # None /\ conn \in Conns
  BY DEF Listen, ReadFails, ListenerEnds, Request, TypeOK
<1>4. /\ reads' \in [Listeners -> Conns \cup {None}]
      /\ listen' \in [Listeners -> {"off", "loop", "read", "pause"}]
  BY <1>3 DEF Listen, ReadFails, ListenerEnds, Request, TypeOK
<1>5. \A k \in Listeners : reads'[k] = reads[k] \/ reads'[k] \in {conn, None}
  BY DEF Listen, ReadFails, ListenerEnds, Request, TypeOK
<1>6. \/ asked' = asked
      \/ \E r \in Requests : /\ asked' = [asked EXCEPT ![r] = reads[l]]
                             /\ asked[r] = None /\ reads[l] \in open
  BY DEF Listen, ReadFails, ListenerEnds, Request
<1>7. TypeOK'
  BY <1>1, <1>2, <1>3, <1>4, <1>6 DEF TypeOK
<1>8. WriterHoldsMu' /\ OldIsClosed' /\ AskedHasConn' /\ NothingLeaks'
  BY <1>1, <1>2, <1>3 DEF WriterHoldsMu, OldIsClosed, AskedHasConn, NothingLeaks
<1>11. AskedIdle'
  BY <1>1, <1>6 DEF AskedIdle, TypeOK
<1>9. DialledIsFresh'
  BY <1>1, <1>5, <1>6 DEF DialledIsFresh, OldIsClosed, TypeOK
<1>10. AnswerToAsker'
  <2>1. CASE asked' = asked
    BY <1>1, <1>2, <2>1 DEF AnswerToAsker
  <2>2. ASSUME NEW r \in Requests,
               asked' = [asked EXCEPT ![r] = reads[l]], asked[r] = None
        PROVE  AnswerToAsker'
    <3>1. target[r] = None
      BY <2>2 DEF AskedIdle
    <3> QED
      BY <1>1, <1>2, <2>2, <3>1 DEF AnswerToAsker, TypeOK
  <2> QED
    BY <1>6, <2>1, <2>2
<1> QED
  BY <1>7, <1>8, <1>9, <1>10, <1>11

\* A request is answered over whatever connection there is.
LEMMA AnswerIInv ==
    ASSUME IInv, NEW r \in Requests, LockAnswer(r) \/ Answer(r) \/ AnswerPanics(r)
    PROVE  IInv'
<1> USE ReverseAssumption DEF IInv, netVars, listVars
<1>1. UNCHANGED <<conn, alive, pc, dialled, listen, reads>> /\ open' \subseteq open
  BY DEF LockAnswer, Answer, AnswerPanics
<1>2. r \in Writers /\ r # Pusher /\ r # None
  BY DEF Writers
<1>3. asked' = asked \/ asked' = [asked EXCEPT ![r] = None]
  BY DEF LockAnswer, Answer, AnswerPanics
<1>4. DialledIsFresh' /\ AskedHasConn' /\ NothingLeaks' /\ OldIsClosed'
  BY <1>1, <1>3 DEF DialledIsFresh, AskedHasConn, NothingLeaks, OldIsClosed, TypeOK
<1>5. CASE LockAnswer(r)
  <2>1. conn # None /\ conn \in Conns /\ asked[r] # None /\ wmu = None
    BY <1>5 DEF LockAnswer, AskedHasConn, TypeOK
  <2>2. TypeOK' /\ WriterHoldsMu' /\ AskedIdle'
    <3>1. TypeOK'
      BY <1>1, <1>2, <1>5, <2>1 DEF LockAnswer, TypeOK
    <3>2. pc # "write" /\ \A w \in Writers : target[w] = None
      BY <2>1 DEF WriterHoldsMu, Writers
    <3>3. target' = [target EXCEPT ![r] = conn] /\ wmu' = r /\ asked' = asked
      BY <1>5 DEF LockAnswer
    <3>4. WriterHoldsMu'
      BY <1>1, <1>2, <3>2, <3>3 DEF TypeOK, WriterHoldsMu
    <3>5. AskedIdle'
      BY <1>2, <2>1, <3>3 DEF TypeOK, AskedIdle, Writers
    <3> QED
      BY <3>1, <3>4, <3>5
  <2>3. asked[r] \in open => asked[r] = conn
    BY <2>1 DEF NothingLeaks, DialledIsFresh, TypeOK
  <2>4. target' = [target EXCEPT ![r] = conn] /\ asked' = asked
    BY <1>5 DEF LockAnswer
  <2>5. AnswerToAsker'
    BY <1>1, <1>2, <2>3, <2>4 DEF AnswerToAsker, TypeOK, Writers
  <2> QED
    BY <1>4, <2>2, <2>5
<1>6. CASE Answer(r)
  <2>1. wmu = r /\ pc # "write" /\ \A w \in Writers : w # r => target[w] = None
    BY <1>2, <1>6 DEF Answer, WriterHoldsMu
  <2>2. TypeOK' /\ WriterHoldsMu' /\ AskedIdle'
    BY <1>1, <1>2, <1>6, <2>1 DEF Answer, TypeOK, WriterHoldsMu, AskedIdle, Writers
  <2>3. \A w \in Writers : target'[w] = None
    BY <1>6, <2>1 DEF Answer, TypeOK
  <2>4. AnswerToAsker'
    BY <2>3 DEF AnswerToAsker, Writers
  <2> QED
    BY <1>4, <2>2, <2>4
<1>7. CASE AnswerPanics(r)
  <2>1. TypeOK' /\ WriterHoldsMu' /\ AskedIdle'
    BY <1>1, <1>2, <1>7 DEF AnswerPanics, TypeOK, WriterHoldsMu, AskedIdle
  <2>2. AnswerToAsker'
    BY <1>1, <1>2, <1>7 DEF AnswerPanics, AnswerToAsker, TypeOK, AskedIdle
  <2> QED
    BY <1>4, <2>1, <2>2
<1> QED
  BY <1>5, <1>6, <1>7

-----------------------------------------------------------------------------
\* Every step keeps the invariant.
LEMMA NextIInv == IInv /\ [Next]_vars => IInv'
<1> SUFFICES ASSUME IInv, [Next]_vars PROVE IInv'
  OBVIOUS
<1>1. ASSUME NEW c \in Conns, Drop(c) PROVE IInv'
  BY <1>1, DropIInv
<1>2. CASE Dial \/ Install
  BY <1>2, ConnectIInv
<1>3. CASE Push \/ LockWrite \/ WriteOk \/ WriteFails
  BY <1>3, PushIInv
<1>4. ASSUME NEW l \in Listeners,
             \/ Listen(l) \/ ReadFails(l) \/ ListenerEnds(l)
             \/ \E r \in Requests : Request(l, r)
      PROVE  IInv'
  BY <1>4, ListenIInv
<1>5. ASSUME NEW r \in Requests, LockAnswer(r) \/ Answer(r) \/ AnswerPanics(r)
      PROVE  IInv'
  BY <1>5, AnswerIInv
<1>6. CASE UNCHANGED vars
  BY <1>6 DEF vars, netVars, listVars, IInv, TypeOK, WriterHoldsMu, OldIsClosed,
              DialledIsFresh, AskedHasConn, AskedIdle, NothingLeaks, AnswerToAsker
<1> QED
  BY <1>1, <1>2, <1>3, <1>4, <1>5, <1>6 DEF Next

LEMMA Invariance == Spec => []IInv
BY InitIInv, NextIInv, PTL DEF Spec

\* Types of the client.
THEOREM TypeCorrect == Spec => []TypeOK
<1>1. IInv => TypeOK
  BY DEF IInv
<1> QED
  BY <1>1, Invariance, PTL

\* A connection is written by one goroutine at a time (server/websocket.go).
THEOREM OneWriterOnly == Spec => []OneWriter
<1>1. IInv => OneWriter
  BY DEF IInv, WriterHoldsMu, OneWriter
<1> QED
  BY <1>1, Invariance, PTL

\* Replaced connections are closed.
THEOREM NoLeak == Spec => []NothingLeaks
<1>1. IInv => NothingLeaks
  BY DEF IInv
<1> QED
  BY <1>1, Invariance, PTL

\* An answer goes astray only when the connection it is for is closed.
THEOREM NoStrayAnswer == Spec => []AnswerToAsker
<1>1. IInv => AnswerToAsker
  BY DEF IInv
<1> QED
  BY <1>1, Invariance, PTL
=============================================================================
