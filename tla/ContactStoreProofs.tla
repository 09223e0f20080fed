------------------------- MODULE ContactStoreProofs -------------------------
(***************************************************************************)
(* Proofs about ContactStore, for any peers, hash of them, senders,        *)
(* messages and faults: its two maps and its file agree, what was observed *)
(* stays known, and a token regresses only through a send action.          *)
(***************************************************************************)
EXTENDS ContactStore, TLAPS

\* A process that is not idle is concerned with a peer, and the peer of one
\* that is sending is known.
PeersKnown ==
    /\ \A p \in Procs : pc[p] # "idle" => peer[p] \in Peers
    /\ \A s \in Senders : pc[s] = "sending" => contactsRaw[peer[s]] # None
    /\ pc[Poller] # "sending"

\* The file never holds two contacts of one id, and there is none only until
\* the first save.
FileSound ==
    /\ file \notin {None, Torn} =>
           \A p, q \in Peers :
               file[p] # None /\ file[q] # None /\ IdOf[p] = IdOf[q] => p = q
    /\ file = None /\ mu = None /\ ~stale => contactsRaw = NoContacts

\* No token is newer than the newest received; the poller passes on the
\* newest or none.
TokensReceived ==
    /\ \A q \in Peers : contactsRaw[q] # None => contactsRaw[q] <= latest[q]
    /\ file \notin {None, Torn} => \A q \in Peers : file[q] # None => file[q] <= latest[q]
    /\ \A p \in Procs : pc[p] # "idle" => arg[p] <= latest[peer[p]]
    /\ pc[Poller] # "idle" => arg[Poller] \in {0, latest[peer[Poller]]}

\* A token is in hand only on the way to UpsertContact.
IdleArg == \A p \in Procs : pc[p] \in {"idle", "sending"} => arg[p] = 0

IInv == TypeOK /\ IdleArg /\ PeersKnown /\ MapsAgree /\ FileUpToDate /\ FileSound
        /\ TokensReceived /\ ObservedStaysKnown

-----------------------------------------------------------------------------
\* Facts about the constants.
LEMMA Constants ==
    /\ None \notin Peers /\ None \notin Procs /\ None \notin Nat /\ None # Torn
    /\ Tokens \subseteq Nat /\ 0 \in Tokens
    /\ Poller \in Procs /\ Poller \notin Senders /\ Senders \subseteq Procs
    /\ \A q \in Peers : IdOf[q] \in Ids
<1>1. Tokens \subseteq Nat /\ 0 \in Tokens
  BY ContactAssumption DEF Tokens
<1> QED
  BY <1>1, ContactAssumption DEF Procs

\* A list of contacts is neither an absent file nor a torn one.
LEMMA ListIsList ==
    ASSUME NEW f \in [Peers -> Tokens \cup {None}]
    PROVE  f # None /\ f # Torn
<1>1. f \in [Peers -> Nat \cup {None}]
  BY Constants
<1> QED
  BY <1>1, ContactAssumption

\* What the types say of the pieces.
LEMMA Pieces ==
    ASSUME TypeOK
    PROVE  /\ \A q \in Peers : latest[q] \in Nat
           /\ \A q \in Peers : contactsRaw[q] # None => contactsRaw[q] \in Nat
           /\ \A p \in Procs : arg[p] \in Nat
           /\ file \notin {None, Torn} => file \in [Peers -> Tokens \cup {None}]
           /\ file \notin {None, Torn} => \A q \in Peers : file[q] # None => file[q] \in Nat
           /\ faults < MaxFaults => faults + 1 \in 0..MaxFaults
<1>1. file \notin {None, Torn} => file \in [Peers -> Tokens \cup {None}]
  BY DEF TypeOK
<1>2. faults < MaxFaults => faults + 1 \in 0..MaxFaults
  BY ContactAssumption DEF TypeOK
<1>3. \A q \in Peers : contactsRaw[q] # None => contactsRaw[q] \in Nat
  BY Constants DEF TypeOK
<1>4. (\A q \in Peers : latest[q] \in Nat) /\ (\A p \in Procs : arg[p] \in Nat)
  BY Constants DEF TypeOK
<1>5. file \notin {None, Torn} => \A q \in Peers : file[q] # None => file[q] \in Nat
  BY <1>1, Constants
<1> QED
  BY <1>1, <1>2, <1>3, <1>4, <1>5

\* What is saved is a list of contacts, one per id.
LEMMA SavedSound ==
    ASSUME TypeOK
    PROVE  /\ Saved \in [Peers -> Tokens \cup {None}]
           /\ \A p, q \in Peers :
                  Saved[p] # None /\ Saved[q] # None /\ IdOf[p] = IdOf[q] => p = q
BY DEF TypeOK, Saved

\* The invariant holds at the start.
LEMMA InitIInv == Init => IInv
<1> SUFFICES ASSUME Init PROVE IInv
  OBVIOUS
<1> USE Constants DEF Init, NoContacts
<1>1. TypeOK
  <2>1. /\ contactsRaw \in [Peers -> Tokens \cup {None}] /\ faults \in 0..MaxFaults
        /\ latest \in [Peers -> Tokens] /\ arg \in [Procs -> Tokens]
    BY ContactAssumption
  <2> QED
    BY <2>1 DEF TypeOK
<1>2. PeersKnown /\ IdleArg /\ MapsAgree /\ FileUpToDate /\ FileSound
  BY DEF PeersKnown, IdleArg, MapsAgree, FileUpToDate, FileSound
<1>3. TokensReceived /\ ObservedStaysKnown
  BY DEF TokensReceived, ObservedStaysKnown
<1> QED
  BY <1>1, <1>2, <1>3 DEF IInv

-----------------------------------------------------------------------------
\* UpsertContact keeps both maps in step; the file is out of date from here.
LEMMA UpsertIInv ==
    ASSUME IInv, NEW p \in Procs, UpsertContact(p)
    PROVE  IInv'
<1> USE Constants DEF IInv, UpsertContact, histVars
<1>1. peer[p] \in Peers /\ pc[p] # "idle" /\ arg[p] \in Tokens /\ IdOf[peer[p]] \in Ids
  BY DEF TypeOK, PeersKnown
<1>2. TypeOK'
  BY <1>1 DEF TypeOK
<1>3. PeersKnown' /\ IdleArg'
  BY <1>1 DEF TypeOK, PeersKnown, IdleArg
<1>4. MapsAgree'
  <2>1. \A q \in Peers : q = peer[p] \/ contactsRaw[q] # None => contactsRaw'[q] # None
    BY <1>1 DEF TypeOK
  <2>2. \A i \in Ids : \/ contacts'[i] = contacts[i]
                       \/ i = IdOf[peer[p]] /\ contacts'[i] = peer[p]
    <3>1. contacts' = contacts \/ contacts' = [contacts EXCEPT ![IdOf[peer[p]]] = peer[p]]
      OBVIOUS
    <3>2. contacts \in [Ids -> Peers \cup {None}]
      BY DEF TypeOK
    <3>3. CASE contacts' = contacts
      BY <3>3
    <3>4. CASE contacts' = [contacts EXCEPT ![IdOf[peer[p]]] = peer[p]]
      <4> SUFFICES ASSUME NEW i \in Ids, i # IdOf[peer[p]] PROVE contacts'[i] = contacts[i]
        BY <1>1, <3>2, <3>4
      <4> QED
        BY <3>2, <3>4
    <3> QED
      BY <3>1, <3>3, <3>4
  <2>3. contacts'[IdOf[peer[p]]] # None
    BY <1>1 DEF TypeOK, MapsAgree
  <2>4. \A q \in Peers : contactsRaw'[q] # None => q = peer[p] \/ contactsRaw[q] # None
    BY <1>1 DEF TypeOK
  <2>5. \A i \in Ids : contacts[i] \in Peers \cup {None}
    BY DEF TypeOK
  <2>6. \A i \in Ids : contacts'[i] # None =>
            IdOf[contacts'[i]] = i /\ contactsRaw'[contacts'[i]] # None
    BY <1>1, <2>1, <2>2, <2>5 DEF MapsAgree
  <2>7. \A q \in Peers : contactsRaw'[q] # None => contacts'[IdOf[q]] # None
    BY <1>1, <2>2, <2>3, <2>4 DEF MapsAgree
  <2> QED
    BY <2>6, <2>7 DEF MapsAgree
<1>5. FileUpToDate' /\ FileSound'
  BY DEF FileUpToDate, FileSound
<1>6. TokensReceived'
  BY <1>1 DEF TypeOK, PeersKnown, TokensReceived
<1>7. ObservedStaysKnown'
  <2> SUFFICES ASSUME NEW q \in Peers,
                      latest[q] > 0, ~missed,
                      ~(pc[Poller] = "record" /\ peer[Poller] = q) \/ (p = Poller /\ peer[p] = q)
               PROVE  contacts'[IdOf[q]] # None
    BY <1>1 DEF ObservedStaysKnown, TypeOK
  <2>1. CASE peer[p] = q
    BY <1>1, <1>4, <2>1 DEF MapsAgree, TypeOK
  <2>2. CASE peer[p] # q
    BY <1>1, <2>2 DEF ObservedStaysKnown, TypeOK
  <2> QED
    BY <2>1, <2>2
<1> QED
  BY <1>2, <1>3, <1>4, <1>5, <1>6, <1>7

\* Writing the file, or failing to.
LEMMA SaveIInv ==
    ASSUME IInv, NEW p \in Procs, TruncateContacts(p) \/ WriteContacts(p) \/ SaveFails(p)
    PROVE  IInv'
<1> USE Constants DEF IInv, histVars, memVars
<1>1. mu = p /\ p # None /\ pc[p] # "idle" /\ pc[p] # "record"
  BY DEF TruncateContacts, WriteContacts, SaveFails, Saving
<1>2. UNCHANGED <<contacts, contactsRaw, latest, missed>>
  BY DEF TruncateContacts, WriteContacts, SaveFails
<1>3. MapsAgree'
  BY <1>2 DEF MapsAgree
<1>4. CASE TruncateContacts(p)
  BY <1>1, <1>2, <1>3, <1>4
     DEF TruncateContacts, Saving, TypeOK, PeersKnown, FileUpToDate, FileSound, TokensReceived,
         IdleArg, ObservedStaysKnown
<1>5. CASE WriteContacts(p) \/ SaveFails(p)
  <2>1. Unlock(p)
    BY <1>5 DEF WriteContacts, SaveFails
  <2>2. /\ mu' = None /\ arg' = [arg EXCEPT ![p] = 0]
        /\ pc' = [pc EXCEPT ![p] = pc'[p]] /\ pc'[p] \in {"insert", "idle"}
        /\ pc'[p] = "insert" => peer' = peer
        /\ pc'[p] = "idle" => peer' = [peer EXCEPT ![p] = None]
    BY <1>1, <2>1 DEF Unlock, TypeOK
  <2>3. file' = file \/ file' = Saved
    BY <1>5 DEF WriteContacts, SaveFails
  <2>4. TypeOK'
    <3>1. faults' \in 0..MaxFaults /\ stale' \in BOOLEAN
      <4>1. CASE WriteContacts(p)
        BY <4>1 DEF WriteContacts, TypeOK
      <4>2. CASE SaveFails(p)
        BY <4>2, Pieces DEF SaveFails
      <4> QED
        BY <1>5, <4>1, <4>2
    <3> QED
      BY <1>1, <1>2, <2>2, <2>3, <3>1, SavedSound DEF TypeOK
  <2>5. PeersKnown' /\ IdleArg'
    BY <1>1, <1>2, <2>2 DEF TypeOK, PeersKnown, IdleArg
  <2>6. Saved' = Saved
    BY <1>2 DEF Saved
  <2>7. FileUpToDate' /\ FileSound'
    <3>1. CASE WriteContacts(p)
      <4>1. file' = Saved /\ file' # None
        BY <3>1, SavedSound, ListIsList DEF WriteContacts
      <4>2. \A q, r \in Peers :
                file'[q] # None /\ file'[r] # None /\ IdOf[q] = IdOf[r] => q = r
        BY <4>1, SavedSound
      <4> QED
        BY <2>6, <4>1, <4>2 DEF FileUpToDate, FileSound
    <3>2. CASE SaveFails(p)
      BY <3>2 DEF SaveFails, FileUpToDate, FileSound
    <3> QED
      BY <1>5, <3>1, <3>2
  <2>8. TokensReceived'
    <3>1. \A q \in Peers : Saved[q] # None => Saved[q] <= latest[q]
      BY DEF Saved, TokensReceived
    <3>2. file' \notin {None, Torn} => \A q \in Peers : file'[q] # None => file'[q] <= latest[q]
      BY <2>3, <3>1 DEF TokensReceived
    <3>3. \A r \in Procs : pc'[r] # "idle" => pc[r] # "idle" /\ peer'[r] = peer[r]
      BY <1>1, <2>2 DEF TypeOK
    <3>4. \A r \in Procs : arg'[r] = arg[r] \/ arg'[r] = 0
      BY <2>2 DEF TypeOK
    <3>5. \A q \in Peers : latest[q] \in Nat
      BY DEF TypeOK
    <3> QED
      BY <1>2, <3>2, <3>3, <3>4, <3>5 DEF TokensReceived, PeersKnown
  <2>9. ObservedStaysKnown'
    BY <1>1, <1>2, <2>2 DEF TypeOK, ObservedStaysKnown
  <2> QED
    BY <1>3, <2>4, <2>5, <2>7, <2>8, <2>9
<1> QED
  BY <1>4, <1>5

\* A message arrives: until it is recorded its peer may be unknown.
LEMMA ReceiveIInv ==
    ASSUME IInv, NEW q \in Peers, Receive(q)
    PROVE  IInv'
<1> USE Constants DEF IInv, Receive, memVars, histVars
<1>1. \/ UNCHANGED <<latest, arg>>
      \/ /\ latest' = [latest EXCEPT ![q] = @ + 1] /\ latest[q] < MaxTokens
         /\ arg' = [arg EXCEPT ![Poller] = latest[q] + 1]
  OBVIOUS
<1>2. latest[q] < MaxTokens => latest[q] + 1 \in Tokens
  BY ContactAssumption DEF TypeOK, Tokens
<1>3. latest' \in [Peers -> Tokens] /\ arg' \in [Procs -> Tokens]
  BY <1>1, <1>2 DEF TypeOK
<1>4. TypeOK'
  <2>1. /\ pc' = [pc EXCEPT ![Poller] = "record"] /\ peer' = [peer EXCEPT ![Poller] = q]
        /\ mu' = mu /\ mu # Poller
    BY DEF TypeOK
  <2>2. /\ pc' \in [Procs -> {"idle", "sending", "record", "saveRecord", "writeRecord",
                              "insert", "saveInsert", "writeInsert"}]
        /\ peer' \in [Procs -> Peers \cup {None}]
    BY <2>1 DEF TypeOK
  <2>3. \A p \in Procs : mu' = p <=> pc'[p] \in {"saveRecord", "writeRecord",
                                                 "saveInsert", "writeInsert"}
    BY <2>1 DEF TypeOK
  <2> QED
    BY <1>3, <2>2, <2>3 DEF TypeOK
<1>5. PeersKnown' /\ IdleArg' /\ MapsAgree' /\ FileUpToDate' /\ FileSound'
  BY DEF TypeOK, PeersKnown, IdleArg, MapsAgree, FileUpToDate, Saved, FileSound
<1>6. \A r \in Peers : latest[r] \in Nat /\ latest'[r] \in Nat /\ latest[r] <= latest'[r]
  <2>1. \A r \in Peers : latest[r] \in Nat
    BY Pieces
  <2> QED
    BY <1>1, <2>1 DEF TypeOK
<1>7. TokensReceived'
  <2>1. /\ peer'[Poller] = q /\ (arg'[Poller] = latest'[q] \/ arg'[Poller] = 0)
        /\ \A p \in Procs \ {Poller} :
               pc'[p] = pc[p] /\ peer'[p] = peer[p] /\ arg'[p] = arg[p]
    BY <1>1 DEF TypeOK, IdleArg
  <2>2. \A r \in Peers : contactsRaw'[r] # None => contactsRaw'[r] <= latest'[r]
    BY <1>6, Pieces DEF TokensReceived
  <2>3. file' \notin {None, Torn} => \A r \in Peers : file'[r] # None => file'[r] <= latest'[r]
    BY <1>6, Pieces DEF TokensReceived
  <2>4. \A p \in Procs : pc'[p] # "idle" => arg'[p] <= latest'[peer'[p]]
    <3>1. \A p \in Procs \ {Poller} :
              pc[p] # "idle" => peer[p] \in Peers /\ arg[p] <= latest[peer[p]]
      BY DEF PeersKnown, TokensReceived
    <3> QED
      BY <1>6, <2>1, <3>1, Pieces
  <2> QED
    BY <2>1, <2>2, <2>3, <2>4 DEF TokensReceived
<1>8. ObservedStaysKnown'
  BY <1>1 DEF ObservedStaysKnown, TypeOK
<1> QED
  BY <1>4, <1>5, <1>7, <1>8

\* Send actions leave the maps alone until they upsert.
LEMMA SenderIInv ==
    ASSUME IInv, NEW s \in Senders,
           (\E i \in Ids : LookUp(s, i)) \/ SendFails(s) \/ SendSucceeds(s)
    PROVE  IInv'
<1> USE Constants DEF IInv, memVars, histVars
<1>1. UNCHANGED <<contacts, contactsRaw, file, mu, latest, faults, stale, missed>>
  BY DEF LookUp, SendFails, SendSucceeds
<1>2. MapsAgree' /\ FileUpToDate' /\ FileSound'
  BY <1>1 DEF MapsAgree, FileUpToDate, Saved, FileSound
<1>3. ASSUME NEW i \in Ids, LookUp(s, i) PROVE TypeOK' /\ PeersKnown' /\ IdleArg' /\ TokensReceived'
  <2>1. contacts[i] \in Peers /\ contactsRaw[contacts[i]] # None
    BY <1>3 DEF LookUp, TypeOK, MapsAgree
  <2>2. TypeOK' /\ PeersKnown' /\ IdleArg'
    BY <1>1, <1>3, <2>1 DEF LookUp, TypeOK, PeersKnown, IdleArg
  <2>3. \A p \in Procs : p # s => pc'[p] = pc[p] /\ peer'[p] = peer[p]
    BY <1>3 DEF LookUp, TypeOK
  <2>4. arg' = arg /\ arg[s] = 0 /\ peer'[s] \in Peers
    BY <1>3, <2>1 DEF LookUp, IdleArg, TypeOK
  <2>5. \A p \in Procs : pc'[p] # "idle" => arg'[p] <= latest[peer'[p]]
    BY <2>3, <2>4, Pieces DEF TokensReceived
  <2>6. pc'[Poller] = pc[Poller] /\ peer'[Poller] = peer[Poller]
    BY <2>3
  <2> QED
    BY <1>1, <2>2, <2>4, <2>5, <2>6 DEF TokensReceived
<1>4. CASE SendFails(s)
  <2>1. TypeOK' /\ PeersKnown' /\ IdleArg'
    BY <1>1, <1>4 DEF SendFails, TypeOK, PeersKnown, IdleArg
  <2> QED
    BY <1>1, <1>2, <1>4, <2>1 DEF SendFails, TypeOK, TokensReceived, IdleArg, ObservedStaysKnown
<1>5. CASE SendSucceeds(s)
  <2>1. peer[s] \in Peers /\ contactsRaw[peer[s]] \in Tokens
    BY <1>5 DEF SendSucceeds, TypeOK, PeersKnown
  <2>2. TypeOK' /\ PeersKnown' /\ IdleArg'
    BY <1>1, <1>5, <2>1 DEF SendSucceeds, TypeOK, PeersKnown, IdleArg
  <2>3. \A p \in Procs : p # s => pc'[p] = pc[p] /\ arg'[p] = arg[p]
    BY <1>5 DEF SendSucceeds, TypeOK
  <2>4. peer' = peer /\ arg'[s] = contactsRaw[peer[s]]
    BY <1>5 DEF SendSucceeds, TypeOK
  <2>5. arg'[s] <= latest[peer[s]]
    BY <2>1, <2>4 DEF TokensReceived
  <2>6. \A p \in Procs : pc'[p] # "idle" => arg'[p] <= latest[peer'[p]]
    BY <2>3, <2>4, <2>5 DEF TokensReceived
  <2>7. pc'[Poller] = pc[Poller] /\ arg'[Poller] = arg[Poller]
    BY <2>3
  <2>8. TokensReceived' /\ ObservedStaysKnown'
    BY <1>1, <2>4, <2>6, <2>7 DEF TokensReceived, ObservedStaysKnown
  <2> QED
    BY <1>2, <2>2, <2>8
<1>6. \A i \in Ids : LookUp(s, i) => ObservedStaysKnown'
  BY <1>1 DEF LookUp, ObservedStaysKnown, TypeOK
<1> QED
  BY <1>2, <1>3, <1>4, <1>5, <1>6

\* A restart rebuilds the maps from the file.
LEMMA RestartIInv ==
    ASSUME IInv, CrashAndRestart
    PROVE  IInv'
<1> USE Constants DEF IInv, CrashAndRestart
<1> DEFINE Here(i) == {q \in Peers : IdOf[q] = i /\ contactsRaw'[q] # None}
<1>1. contactsRaw' \in [Peers -> Tokens \cup {None}]
  BY DEF TypeOK, NoContacts
<1>2. contacts' = [i \in Ids |-> IF Here(i) # {} THEN CHOOSE q \in Peers :
                                     IdOf[q] = i /\ contactsRaw'[q] # None ELSE None]
  OBVIOUS
<1>3. \A i \in Ids : IF Here(i) # {} THEN contacts'[i] \in Here(i) ELSE contacts'[i] = None
  BY <1>2
<1>4. TypeOK'
  <2>1. contacts' \in [Ids -> Peers \cup {None}]
    BY <1>2, <1>3
  <2>2. faults' \in 0..MaxFaults
    BY Pieces
  <2>3. mu' = None /\ \A p \in Procs : pc'[p] = "idle" /\ p # None
    OBVIOUS
  <2>4. pc' \in [Procs -> {"idle"}] /\ peer' \in [Procs -> {None}] /\ arg' \in [Procs -> {0}]
    OBVIOUS
  <2>5. missed' \in BOOLEAN /\ stale' \in BOOLEAN /\ latest' = latest /\ file' = file
    BY DEF TypeOK
  <2> QED
    BY <1>1, <2>1, <2>2, <2>3, <2>4, <2>5 DEF TypeOK
<1>5. PeersKnown' /\ IdleArg' /\ MapsAgree'
  BY <1>3 DEF PeersKnown, IdleArg, MapsAgree
<1>6. FileUpToDate'
  <2> SUFFICES ASSUME file \notin {None, Torn} PROVE Saved' = file
    BY DEF FileUpToDate
  <2>1. contactsRaw' = file /\ file \in [Peers -> Tokens \cup {None}]
    BY DEF TypeOK
  <2>2. \A q \in Peers : file[q] # None => contacts'[IdOf[q]] = q
    BY <1>3, <2>1 DEF FileSound
  <2> QED
    BY <2>1, <2>2 DEF Saved
<1>7. FileSound'
  BY DEF FileSound
<1>8. TokensReceived'
  BY DEF TokensReceived, NoContacts, TypeOK
<1>9. ObservedStaysKnown'
  <2> SUFFICES ASSUME NEW q \in Peers, latest[q] > 0, ~missed'
               PROVE  contacts'[IdOf[q]] # None
    BY DEF ObservedStaysKnown
  <2>1. ~missed /\ file # Torn /\ ~stale /\ mu = None /\ pc[Poller] # "record"
    BY DEF TypeOK
  <2>2. contacts[IdOf[q]] # None
    BY <2>1 DEF ObservedStaysKnown
  <2>3. PICK r \in Peers : r = contacts[IdOf[q]]
    BY <2>2 DEF TypeOK
  <2>4. IdOf[r] = IdOf[q] /\ contactsRaw[r] # None
    BY <2>2, <2>3 DEF MapsAgree
  <2>5. file # None
    BY <2>1, <2>4 DEF FileSound, NoContacts
  <2>6. file = Saved
    BY <2>1, <2>5 DEF FileUpToDate
  <2>7. Saved[r] # None
    BY <2>3, <2>4 DEF Saved
  <2>8. contactsRaw' = file
    BY <2>1, <2>5
  <2>9. r \in Here(IdOf[q])
    BY <2>4, <2>6, <2>7, <2>8
  <2> QED
    BY <1>3, <2>9
<1> QED
  BY <1>4, <1>5, <1>6, <1>7, <1>8, <1>9
-----------------------------------------------------------------------------
\* Every step keeps the invariant.
LEMMA NextIInv == IInv /\ [Next]_vars => IInv'
<1> SUFFICES ASSUME IInv, [Next]_vars PROVE IInv'
  OBVIOUS
<1>1. ASSUME NEW p \in Procs, Upsert(p) PROVE IInv'
  BY <1>1, UpsertIInv, SaveIInv DEF Upsert
<1>2. ASSUME NEW q \in Peers, Receive(q) PROVE IInv'
  BY <1>2, ReceiveIInv
<1>3. ASSUME NEW s \in Senders,
             (\E i \in Ids : LookUp(s, i)) \/ SendFails(s) \/ SendSucceeds(s)
      PROVE  IInv'
  BY <1>3, SenderIInv
<1>4. CASE CrashAndRestart
  BY <1>4, RestartIInv
<1>5. CASE UNCHANGED vars
  BY <1>5 DEF vars, memVars, procVars, histVars, IInv, TypeOK, IdleArg, PeersKnown, MapsAgree,
              FileUpToDate, FileSound, Saved, TokensReceived, ObservedStaysKnown
<1> QED
  BY <1>1, <1>2, <1>3, <1>4, <1>5 DEF Next

LEMMA Invariance == Spec => []IInv
BY InitIInv, NextIInv, PTL DEF Spec

\* Types of the contact store.
THEOREM TypeCorrect == Spec => []TypeOK
<1>1. IInv => TypeOK
  BY DEF IInv
<1> QED
  BY <1>1, Invariance, PTL

\* Both maps and the file describe the same contacts (coolq/weixin.go), also
\* after restarts and failed saves, whatever the hash.
THEOREM StoreAgreement == Spec => []StoreAgrees
<1>1. IInv => StoreAgrees
  BY DEF IInv, StoreAgrees
<1> QED
  BY <1>1, Invariance, PTL

\* A peer that was observed can be addressed ever after.
THEOREM StaysKnown == Spec => []ObservedStaysKnown
<1>1. IInv => ObservedStaysKnown
  BY DEF IInv
<1> QED
  BY <1>1, Invariance, PTL

\* A token becomes older only through a send action, or by a crash: the poller
\* never takes one back.
THEOREM Regression == Spec => TokenRegressesOnlyThroughSend
<1> DEFINE Regresses(q) ==
              /\ contactsRaw[q] # None
              /\ contactsRaw'[q] # contactsRaw[q]
              /\ contactsRaw'[q] = None \/ contactsRaw'[q] < contactsRaw[q]
           Through(q) == \/ faults' # faults
                         \/ \E s \in Senders :
                                mu' = s /\ peer[s] = q /\ arg[s] = contactsRaw'[q]
<1>1. ASSUME IInv, [Next]_vars, NEW q \in Peers, Regresses(q) PROVE Through(q)
  <2>1. \A p \in Procs : UpsertContact(p) => Through(q)
    <3> SUFFICES ASSUME NEW p \in Procs, UpsertContact(p) PROVE Through(q)
      OBVIOUS
    <3>1. peer[p] \in Peers /\ arg[p] \in Tokens /\ pc[p] # "idle"
      BY <1>1 DEF UpsertContact, IInv, TypeOK, PeersKnown
    <3>2. peer[p] = q /\ contactsRaw'[q] = arg[p] /\ arg[p] # 0 /\ mu' = p
      BY <1>1, <3>1 DEF UpsertContact, IInv, TypeOK
    <3>3. arg[p] < contactsRaw[q] /\ contactsRaw[q] <= latest[q]
      BY <1>1, <3>1, <3>2, Constants DEF IInv, TokensReceived
    <3>4. p # Poller
      <4>1. contactsRaw[q] \in Nat /\ latest[q] \in Nat /\ arg[p] \in Nat
        BY <1>1, Pieces DEF IInv
      <4>2. arg[p] # latest[q]
        BY <3>3, <4>1
      <4> QED
        BY <1>1, <3>1, <3>2, <4>2 DEF IInv, TokensReceived
    <3> QED
      BY <3>2, <3>4 DEF Procs
  <2>2. CrashAndRestart => Through(q)
    BY <1>1 DEF CrashAndRestart, IInv, TypeOK
  <2>3. contactsRaw' # contactsRaw
    BY <1>1
  <2> QED
    BY <1>1, <2>1, <2>2, <2>3
       DEF Next, Upsert, TruncateContacts, WriteContacts, SaveFails, Receive, LookUp, SendFails,
           SendSucceeds, vars, memVars
<1>2. IInv /\ [Next]_vars => [\A q \in Peers : Regresses(q) => Through(q)]_vars
  BY <1>1
<1> QED
  BY <1>2, Invariance, PTL DEF Spec, TokenRegressesOnlyThroughSend
=============================================================================
