------------------------ MODULE EventDispatchProofs ------------------------
(***************************************************************************)
(* Proofs about EventDispatch, for any number of loops, API goroutines,    *)
(* handlers and retries.                                                   *)
(***************************************************************************)
EXTENDS EventDispatch, TLAPS

\* The RWMutex and the control states of the sources agree.
LockInv ==
    /\ \A s \in Sources : s \in readers <=> pc[s] \in {"locked", "wait"}
    /\ \A s \in Sources : s \in waiting <=> pc[s] = "blocked"

\* Handlers run for sources that wait for them, and only registered ones.
RunInv ==
    \A s \in Sources, h \in Handlers :
        run[s][h] # "none" => pc[s] = "wait" /\ h \in Registered

\* Nobody has seen an event before it registered.
SeenInv == \A s \in Sources : seen[s] \subseteq Registered

IInv == TypeOK /\ LockInv /\ RunInv /\ SeenInv /\ NoGaps

-----------------------------------------------------------------------------
\* Appending a handler to bot.events registers it and keeps the others.
LEMMA AppendRegisters ==
    ASSUME NEW q \in Seq(Handlers), NEW h \in Handlers
    PROVE  /\ Append(q, h) \in Seq(Handlers)
           /\ ToSet(Append(q, h)) = ToSet(q) \cup {h}
<1>1. Append(q, h) \in Seq(Handlers)
  OBVIOUS
<1>2. DOMAIN Append(q, h) = DOMAIN q \cup {Len(q) + 1}
  OBVIOUS
<1>3. /\ Append(q, h)[Len(q) + 1] = h
      /\ \A i \in DOMAIN q : Append(q, h)[i] = q[i]
  OBVIOUS
<1> QED
  BY <1>1, <1>2, <1>3 DEF ToSet

\* The registered handlers are handlers.
LEMMA RegisteredAreHandlers ==
    ASSUME NEW q \in Seq(Handlers)
    PROVE  ToSet(q) \subseteq Handlers
BY DEF ToSet

\* A handler's run for a source is one of the runs.
LEMMA RunsArePairs ==
    ASSUME NEW s \in Sources, NEW h \in Handlers
    PROVE  <<s, h>> \in Runs
BY DEF Runs

\* The invariant holds before anything is registered or dispatched.
LEMMA InitIInv == Init => IInv
<1> SUFFICES ASSUME Init PROVE IInv
  OBVIOUS
<1> USE DispatchAssumption DEF Init
<1>1. TypeOK
  BY DEF TypeOK, Runs
<1>2. LockInv
  BY DEF LockInv
<1>3. RunInv
  BY DEF RunInv, Runs
<1>4. SeenInv
  BY DEF SeenInv
<1>5. NoGaps
  BY DEF NoGaps
<1> QED
  BY <1>1, <1>2, <1>3, <1>4, <1>5 DEF IInv

-----------------------------------------------------------------------------
\* A registration waits until no dispatch holds the read lock and lets the
\* waiting ones go on.
LEMMA OnEventPushIInv ==
    ASSUME IInv, NEW h \in Handlers, OnEventPush(h)
    PROVE  IInv'
<1> USE DEF IInv, OnEventPush, runVars, histVars
<1>1. /\ events' \in Seq(Handlers)
      /\ Registered' = Registered \cup {h}
  BY AppendRegisters DEF TypeOK, Registered
<1>2. \A s \in Sources : pc[s] \notin {"locked", "wait"}
  BY DEF LockInv
<1>3. TypeOK'
  BY <1>1 DEF TypeOK
<1>4. LockInv'
  BY <1>2 DEF LockInv, TypeOK
<1>5. RunInv'
  BY <1>1, <1>2 DEF RunInv, TypeOK
<1>6. SeenInv'
  BY <1>1 DEF SeenInv
<1>7. NoGaps'
  BY <1>2 DEF NoGaps, TypeOK, RunInv
<1> QED
  BY <1>3, <1>4, <1>5, <1>6, <1>7

\* A source takes the read lock or waits for an announced writer.
LEMMA ReadLockIInv ==
    ASSUME IInv, NEW s \in Sources, pc[s] \in {"idle", "sending"}, ReadLock(s),
           seen' = seen, asked' \in SUBSET Runs, replied' \in SUBSET Runs
    PROVE  IInv'
<1> USE DEF IInv, ReadLock, runVars
<1>1. TypeOK'
  BY DEF TypeOK
<1>2. LockInv'
  BY DEF LockInv, TypeOK
<1>3. RunInv'
  BY DEF RunInv, TypeOK, Registered
<1>4. SeenInv'
  BY DEF SeenInv, Registered
<1>5. NoGaps'
  BY DEF NoGaps, TypeOK
<1> QED
  BY <1>1, <1>2, <1>3, <1>4, <1>5

\* Every registered handler gets a goroutine.
LEMMA SpawnIInv ==
    ASSUME IInv, NEW s \in Sources, Spawn(s)
    PROVE  IInv'
<1> USE DEF IInv, Spawn, lockVars, histVars
<1>1. \A t \in Sources, h \in Handlers :
          run'[t][h] = IF t # s THEN run[t][h]
                       ELSE IF h \in Registered THEN "spawned" ELSE "none"
  BY DEF TypeOK
<1>2. run' \in [Sources -> [Handlers -> {"none", "spawned", "posting", "answered", "done"}]]
  BY DEF TypeOK
<1>3. TypeOK'
  BY <1>2 DEF TypeOK
<1>4. LockInv'
  BY DEF LockInv, TypeOK
<1>5. RunInv'
  BY <1>1 DEF RunInv, TypeOK, Registered
<1>6. SeenInv'
  BY DEF SeenInv, Registered
<1>7. NoGaps'
  <2> SUFFICES ASSUME NEW t \in Sources, pc'[t] = "wait", NEW h \in seen[t]
               PROVE  run'[t][h] # "none"
    BY DEF NoGaps
  <2>1. h \in Registered /\ h \in Handlers
    BY RegisteredAreHandlers DEF SeenInv, Registered, TypeOK
  <2>2. CASE t = s
    BY <1>1, <2>1, <2>2
  <2>3. CASE t # s
    BY <1>1, <2>1, <2>3 DEF NoGaps, TypeOK
  <2> QED
    BY <2>2, <2>3
<1> QED
  BY <1>3, <1>4, <1>5, <1>6, <1>7

\* All handlers are done: dispatch returns.
LEMMA ReturnIInv ==
    ASSUME IInv, NEW s \in Sources, Return(s)
    PROVE  IInv'
<1> USE DEF IInv, Return, Unlock
<1>1. \A t \in Sources, h \in Handlers :
          run'[t][h] = IF t = s THEN "none" ELSE run[t][h]
  BY DEF TypeOK
<1>2. TypeOK'
  <2>1. run' \in [Sources -> [Handlers -> {"none", "spawned", "posting", "answered", "done"}]]
    BY DEF TypeOK
  <2>2. caller' \in [Apis -> Runs \cup {None}]
    BY DEF TypeOK
  <2>3. seen' \in [Sources -> SUBSET Handlers]
    BY DEF TypeOK
  <2> QED
    BY <2>1, <2>2, <2>3 DEF TypeOK
<1>3. LockInv'
  BY DEF LockInv, TypeOK
<1>4. RunInv'
  BY <1>1 DEF RunInv, TypeOK, Registered
<1>5. SeenInv'
  BY DEF SeenInv, Registered, RunInv, TypeOK
<1>6. NoGaps'
  <2> SUFFICES ASSUME NEW t \in Sources, pc'[t] = "wait", NEW h \in seen'[t]
               PROVE  run'[t][h] # "none"
    BY DEF NoGaps
  <2>1. t # s
    BY DEF TypeOK
  <2>2. h \in seen[t] /\ pc[t] = "wait"
    BY <2>1 DEF TypeOK
  <2>3. h \in Handlers
    BY <2>2 DEF TypeOK
  <2> QED
    BY <1>1, <2>1, <2>2, <2>3 DEF NoGaps
<1> QED
  BY <1>2, <1>3, <1>4, <1>5, <1>6

\* A handler at work goes on to another state of its own.
LEMMA HandleIInv ==
    ASSUME IInv, NEW s \in Sources, NEW h \in Handlers, Handle(s, h)
    PROVE  IInv'
<1> USE DispatchAssumption DEF IInv
<1>1. /\ run[s][h] \in {"spawned", "posting", "answered"}
      /\ \E l \in {"posting", "answered", "done"} \cup {run[s][h]} :
             run' = [run EXCEPT ![s][h] = l]
      /\ UNCHANGED <<events, lockVars, pc, seen>>
  BY DEF Handle, Post, PostAnswered, PostFails, QuickOperation, Step, runVars, histVars, TypeOK, Runs
<1>2. PICK l \in {"posting", "answered", "done"} \cup {run[s][h]} :
          run' = [run EXCEPT ![s][h] = l]
  BY <1>1
<1>3. /\ \A t \in Sources, g \in Handlers : (run'[t][g] # "none") <=> (run[t][g] # "none")
      /\ run' \in [Sources -> [Handlers -> {"none", "spawned", "posting", "answered", "done"}]]
  BY <1>1, <1>2 DEF TypeOK, Runs
<1>4. tries' \in [Sources -> [Handlers -> 0..MaxRetries + 1]]
  <2>1. \E n \in 0..MaxRetries + 1 : tries' \in {tries, [tries EXCEPT ![s][h] = n]}
    <3>1. CASE Post(s, h) \/ PostAnswered(s, h)
      BY <3>1 DEF Post, PostAnswered
    <3>2. CASE PostFails(s, h)
      <4>1. tries[s][h] \in 0..MaxRetries + 1
        BY DEF TypeOK
      <4> QED
        BY <3>2, <4>1 DEF PostFails
    <3>3. CASE QuickOperation(s, h)
      BY <3>3 DEF QuickOperation
    <3> QED
      BY <3>1, <3>2, <3>3 DEF Handle
  <2>2. PICK n \in 0..MaxRetries + 1 : tries' \in {tries, [tries EXCEPT ![s][h] = n]}
    BY <2>1
  <2>3. CASE tries' = tries
    BY <2>3 DEF TypeOK
  <2>4. CASE tries' = [tries EXCEPT ![s][h] = n]
    <3> HIDE DEF IInv
    <3> DEFINE N == 0..MaxRetries + 1
    <3>1. tries \in [Sources -> [Handlers -> N]] /\ n \in N
      BY DEF IInv, TypeOK
    <3> HIDE DEF N
    <3>2. [tries EXCEPT ![s][h] = n] \in [Sources -> [Handlers -> N]]
      BY <3>1
    <3> QED
      BY <2>4, <3>2 DEF N
  <2> QED
    BY <2>2, <2>3, <2>4
<1>5. caller' \in [Apis -> Runs \cup {None}]
  BY DEF Handle, Post, PostAnswered, PostFails, QuickOperation, HangUp, TypeOK
<1>6. asked' \in SUBSET Runs /\ replied' \in SUBSET Runs
  BY RunsArePairs DEF Handle, Post, PostAnswered, PostFails, QuickOperation, histVars, TypeOK
<1>7. TypeOK'
  BY <1>1, <1>3, <1>4, <1>5, <1>6 DEF TypeOK, lockVars
<1>8. LockInv'
  BY <1>1 DEF LockInv, lockVars
<1>9. RunInv'
  BY <1>1, <1>3 DEF RunInv, Registered, lockVars
<1>10. SeenInv'
  BY <1>1 DEF SeenInv, Registered, lockVars
<1>11. NoGaps'
  BY <1>1, <1>3 DEF NoGaps, TypeOK, lockVars
<1> QED
  BY <1>7, <1>8, <1>9, <1>10, <1>11

\* An API goroutine starts a send.
LEMMA ApiRequestIInv ==
    ASSUME IInv, NEW a \in Apis, ApiRequest(a)
    PROVE  IInv'
<1> USE DispatchAssumption DEF IInv, ApiRequest, lockVars, runVars, histVars
<1>1. a \in Sources
  BY DEF Sources
<1>2. caller' \in [Apis -> Runs \cup {None}]
  <2>1. CASE UNCHANGED caller
    BY <2>1 DEF TypeOK
  <2>2. ASSUME NEW s \in Loops, NEW h \in Handlers,
               caller' = [caller EXCEPT ![a] = <<s, h>>]
        PROVE  caller' \in [Apis -> Runs \cup {None}]
    BY <2>2, RunsArePairs DEF TypeOK, Sources
  <2> QED
    BY <2>1, <2>2
<1>3. TypeOK'
  BY <1>2 DEF TypeOK
<1>4. LockInv'
  BY <1>1 DEF LockInv, TypeOK
<1>5. RunInv' /\ SeenInv'
  BY <1>1 DEF RunInv, SeenInv, TypeOK, Registered
<1>6. NoGaps'
  BY <1>1 DEF NoGaps, TypeOK
<1> QED
  BY <1>3, <1>4, <1>5, <1>6

\* A send fails.
LEMMA SendFailsIInv ==
    ASSUME IInv, NEW a \in Apis, SendFails(a)
    PROVE  IInv'
<1> USE DEF IInv, SendFails, lockVars, runVars, histVars
<1>1. a \in Sources
  BY DEF Sources
<1>2. TypeOK'
  BY DEF TypeOK
<1>3. LockInv'
  BY <1>1 DEF LockInv, TypeOK
<1>4. RunInv' /\ SeenInv'
  BY <1>1 DEF RunInv, SeenInv, TypeOK, Registered
<1>5. NoGaps'
  BY <1>1 DEF NoGaps, TypeOK
<1> QED
  BY <1>2, <1>3, <1>4, <1>5

\* Every step preserves the invariant.
LEMMA NextIInv == IInv /\ [Next]_vars => IInv'
<1> SUFFICES ASSUME IInv, [Next]_vars PROVE IInv'
  OBVIOUS
<1>1. ASSUME NEW h \in Handlers, AnnounceWriter(h) PROVE IInv'
  BY <1>1 DEF IInv, AnnounceWriter, TypeOK, LockInv, RunInv, SeenInv, NoGaps, Registered,
              runVars, histVars
<1>2. ASSUME NEW h \in Handlers, OnEventPush(h) PROVE IInv'
  BY <1>2, OnEventPushIInv
<1>3. ASSUME NEW s \in Sources, Dispatch(s) PROVE IInv'
  BY <1>3, ReadLockIInv DEF Dispatch, IInv, TypeOK, histVars
<1>4. ASSUME NEW s \in Sources, Spawn(s) PROVE IInv'
  BY <1>4, SpawnIInv
<1>5. ASSUME NEW s \in Sources, Return(s) PROVE IInv'
  BY <1>5, ReturnIInv
<1>6. ASSUME NEW s \in Sources, NEW h \in Handlers, Handle(s, h) PROVE IInv'
  BY <1>6, HandleIInv
<1>7. ASSUME NEW a \in Apis, ApiRequest(a) PROVE IInv'
  BY <1>7, ApiRequestIInv
<1>8. ASSUME NEW a \in Apis, SendFails(a) PROVE IInv'
  BY <1>8, SendFailsIInv
<1>9. ASSUME NEW a \in Apis, SelfMessage(a) PROVE IInv'
  <2>1. a \in Sources /\ pc[a] = "sending" /\ ReadLock(a) /\ seen' = seen
    BY <1>9 DEF SelfMessage, Sources
  <2>2. asked' \in SUBSET Runs /\ replied' \in SUBSET Runs
    BY <1>9, DispatchAssumption DEF SelfMessage, IInv, TypeOK, Runs, Sources
  <2> QED
    BY <2>1, <2>2, ReadLockIInv
<1>10. ASSUME UNCHANGED vars PROVE IInv'
  BY <1>10 DEF IInv, TypeOK, LockInv, RunInv, SeenInv, NoGaps, Registered, vars,
               lockVars, runVars, histVars
<1> QED
  BY <1>1, <1>2, <1>3, <1>4, <1>5, <1>6, <1>7, <1>8, <1>9, <1>10 DEF Next

\* The invariant holds for ever.
THEOREM Invariance == Spec => []IInv
BY InitIInv, NextIInv, PTL DEF Spec

\* Types are kept, for any number of handlers and retries.
THEOREM TypeCorrect == Spec => []TypeOK
<1>1. IInv => TypeOK
  BY DEF IInv
<1> QED
  BY <1>1, Invariance, PTL

\* dispatch never returns, and never gives an event's buffer back to the
\* pool, while a handler is at work on the event.
THEOREM BufferInUse == Spec => []DoneBeforeReturn
<1>1. IInv => DoneBeforeReturn
  BY DEF IInv, RunInv, LockInv, DoneBeforeReturn, InProgress
<1> QED
  BY <1>1, Invariance, PTL

\* A handler misses no event after its first, whoever registers meanwhile.
THEOREM MissesNone == Spec => []NoGaps
<1>1. IInv => NoGaps
  BY DEF IInv
<1> QED
  BY <1>1, Invariance, PTL
=============================================================================
