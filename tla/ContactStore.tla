---------------------------- MODULE ContactStore ----------------------------
(***************************************************************************)
(* The peers the bot has observed and the context token a reply to each of *)
(* them needs: the two maps of WeixinRuntime, the file contacts.json they  *)
(* are saved to, and the poller and the send actions that update them      *)
(* (coolq/weixin.go, coolq/weixin_api.go).                                 *)
(*                                                                         *)
(* A context token is the number of the peer's message that brought it; 0  *)
(* is the empty token.  rt.mu is held over the whole of UpsertContact,     *)
(* including the write of the file; send actions keep the *WeixinContact   *)
(* that ContactByID gave them and read its token without the lock.         *)
(***************************************************************************)
EXTENDS Naturals, FiniteSets

CONSTANTS Peers,       \* raw ids
          Ids,         \* public ids
          IdOf,        \* mapWeixinID, a hash
          Senders,     \* goroutines serving send actions
          Poller,      \* the goroutine of pollWeixinEvents
          None,        \* nil, an absent file
          Torn,        \* contacts.json truncated or half written
          MaxTokens,   \* bound: messages with a token per peer
          MaxFaults    \* bound: crashes and failed writes considered

ASSUME ContactAssumption ==
    /\ IdOf \in [Peers -> Ids]
    /\ Poller \notin Senders
    /\ None \notin Peers \cup Senders \cup {Poller} \cup Nat
    /\ None \notin [Peers -> Nat \cup {None}]
    /\ Torn \notin [Peers -> Nat \cup {None}] \cup {None}
    /\ MaxTokens \in Nat
    /\ MaxFaults \in Nat

Procs == Senders \cup {Poller}
Tokens == 0..MaxTokens

VARIABLES
    contacts,     \* rt.contacts: the peer behind each public id
    contactsRaw,  \* rt.contactsRaw: each peer's LastContextToken, None if unknown
    file,         \* contacts.json: the peers in it with their tokens
    mu,           \* who holds rt.mu for writing
    pc,           \* control state of each process
    peer,         \* the contact each process is concerned with
    arg,          \* the contextToken it is about to pass to UpsertContact
    latest,       \* history: newest token the poller received, per peer
    faults,       \* crashes and failed writes so far
    stale,        \* history: contacts.json missed the last update
    missed        \* history: a crash struck before an update was on disk

memVars  == <<contacts, contactsRaw>>
procVars == <<pc, peer, arg>>
histVars == <<stale, missed>>
vars == <<memVars, file, mu, procVars, latest, faults, histVars>>

NoContacts == [p \in Peers |-> None]

\* What saveContactsLocked writes: it walks rt.contacts.
Saved == [p \in Peers |-> IF contacts[IdOf[p]] = p THEN contactsRaw[p] ELSE None]

-----------------------------------------------------------------------------
(* UpsertContact, called for the token (pc "record") and again by          *)
(* InsertWeixinPrivateMessage without one (pc "insert").                   *)

\* Mutant: the empty token is stored like any other.
UpsertContactAnyToken(p) ==
    /\ pc[p] \in {"record", "insert"}
    /\ mu = None
    /\ mu' = p
    /\ contactsRaw' = [contactsRaw EXCEPT ![peer[p]] = arg[p]]
    /\ contacts' = IF contactsRaw[peer[p]] = None
                   THEN [contacts EXCEPT ![IdOf[peer[p]]] = peer[p]] ELSE contacts
    /\ pc' = [pc EXCEPT ![p] = IF @ = "record" THEN "saveRecord" ELSE "saveInsert"]
    /\ UNCHANGED <<file, peer, arg, latest, faults, histVars>>

\* Lock and update of the maps; the update of a known contact keeps its id's
\* entry, a new one takes over an id that collides.
UpsertContact(p) ==
    /\ pc[p] \in {"record", "insert"}
    /\ mu = None
    /\ mu' = p
    /\ contactsRaw' = [contactsRaw EXCEPT ![peer[p]] =
                          IF @ = None \/ arg[p] # 0 THEN arg[p] ELSE @]
    /\ contacts' = IF contactsRaw[peer[p]] = None
                   THEN [contacts EXCEPT ![IdOf[peer[p]]] = peer[p]] ELSE contacts
    /\ pc' = [pc EXCEPT ![p] = IF @ = "record" THEN "saveRecord" ELSE "saveInsert"]
    /\ UNCHANGED <<file, peer, arg, latest, faults, histVars>>

Saving(p) == mu = p /\ pc[p] \in {"saveRecord", "saveInsert"}

\* os.WriteFile truncates contacts.json first.
TruncateContacts(p) ==
    /\ Saving(p)
    /\ file' = Torn
    /\ pc' = [pc EXCEPT ![p] = IF @ = "saveRecord" THEN "writeRecord" ELSE "writeInsert"]
    /\ UNCHANGED <<memVars, mu, peer, arg, latest, faults, histVars>>

\* The deferred Unlock; then InsertWeixinPrivateMessage, or the end.
Unlock(p) ==
    /\ mu' = None
    /\ IF pc[p] \in {"saveRecord", "writeRecord"}
       THEN pc' = [pc EXCEPT ![p] = "insert"] /\ UNCHANGED peer
       ELSE pc' = [pc EXCEPT ![p] = "idle"] /\ peer' = [peer EXCEPT ![p] = None]
    /\ arg' = [arg EXCEPT ![p] = 0]

\* Mutant: only contacts with a token are written.
WriteContactsWithToken(p) ==
    /\ mu = p
    /\ pc[p] \in {"writeRecord", "writeInsert"}
    /\ file' = [q \in Peers |-> IF Saved[q] = 0 THEN None ELSE Saved[q]]
    /\ stale' = FALSE
    /\ Unlock(p)
    /\ UNCHANGED <<memVars, latest, faults, missed>>

WriteContacts(p) ==
    /\ mu = p
    /\ pc[p] \in {"writeRecord", "writeInsert"}
    /\ file' = Saved
    /\ stale' = FALSE
    /\ Unlock(p)
    /\ UNCHANGED <<memVars, latest, faults, missed>>

\* Mutant: the error paths forget the lock.
SaveFailsLocked(p) ==
    /\ faults < MaxFaults
    /\ faults' = faults + 1
    /\ mu = p
    /\ pc[p] \in {"saveRecord", "saveInsert", "writeRecord", "writeInsert"}
    /\ stale' = TRUE
    /\ pc' = [pc EXCEPT ![p] = "idle"]
    /\ peer' = [peer EXCEPT ![p] = None]
    /\ arg' = [arg EXCEPT ![p] = 0]
    /\ UNCHANGED <<memVars, file, mu, latest, missed>>

\* MkdirAll or the open fails: the old file stays.  The write fails: the file
\* stays torn.  Both are only logged.
SaveFails(p) ==
    /\ faults < MaxFaults
    /\ faults' = faults + 1
    /\ mu = p
    /\ pc[p] \in {"saveRecord", "saveInsert", "writeRecord", "writeInsert"}
    /\ stale' = TRUE
    /\ Unlock(p)
    /\ UNCHANGED <<memVars, file, latest, missed>>

-----------------------------------------------------------------------------
(* The poller: DispatchWeixinPrivateMessage for each message.              *)

\* A message arrives from q, with the next context token or none.
Receive(q) ==
    /\ pc[Poller] = "idle"
    /\ \/ /\ latest[q] < MaxTokens
          /\ latest' = [latest EXCEPT ![q] = @ + 1]
          /\ arg' = [arg EXCEPT ![Poller] = latest[q] + 1]
       \/ UNCHANGED <<latest, arg>>
    /\ peer' = [peer EXCEPT ![Poller] = q]
    /\ pc' = [pc EXCEPT ![Poller] = "record"]
    /\ UNCHANGED <<memVars, file, mu, faults, histVars>>

-----------------------------------------------------------------------------
(* Send actions: weixinSendPrivate and weixinUploadPrivateFile.            *)

\* ContactByID under the read lock, and the check for a context token.
LookUp(s, i) ==
    /\ pc[s] = "idle"
    /\ mu = None
    /\ contacts[i] # None
    /\ contactsRaw[contacts[i]] # 0
    /\ peer' = [peer EXCEPT ![s] = contacts[i]]
    /\ pc' = [pc EXCEPT ![s] = "sending"]
    /\ UNCHANGED <<memVars, file, mu, arg, latest, faults, histVars>>

SendFails(s) ==
    /\ pc[s] = "sending"
    /\ pc' = [pc EXCEPT ![s] = "idle"]
    /\ peer' = [peer EXCEPT ![s] = None]
    /\ UNCHANGED <<memVars, file, mu, arg, latest, faults, histVars>>

\* SendPrivate has succeeded: the contact's token is read, without the lock,
\* as the argument of DispatchWeixinSelfMessage.
SendSucceeds(s) ==
    /\ pc[s] = "sending"
    /\ arg' = [arg EXCEPT ![s] = contactsRaw[peer[s]]]
    /\ pc' = [pc EXCEPT ![s] = "record"]
    /\ UNCHANGED <<memVars, file, mu, peer, latest, faults, histVars>>

-----------------------------------------------------------------------------
\* Mutant: loadContacts forgets one of the two maps.
CrashLoadingHalf ==
    /\ faults < MaxFaults
    /\ faults' = faults + 1
    /\ contactsRaw' = IF file \in {None, Torn} THEN NoContacts ELSE file
    /\ contacts' = [i \in Ids |-> None]
    /\ mu' = None
    /\ pc' = [p \in Procs |-> "idle"]
    /\ peer' = [p \in Procs |-> None]
    /\ arg' = [p \in Procs |-> 0]
    /\ stale' = FALSE
    /\ missed' = (missed \/ file = Torn \/ stale \/ mu # None \/ pc[Poller] = "record")
    /\ UNCHANGED <<file, latest>>

\* The process dies and NewWeixinRuntime starts from what loadContacts finds;
\* a file that does not parse counts as empty.  (The file never holds two
\* contacts of one id.)
CrashAndRestart ==
    /\ faults < MaxFaults
    /\ faults' = faults + 1
    /\ contactsRaw' = IF file \in {None, Torn} THEN NoContacts ELSE file
    /\ contacts' = [i \in Ids |->
                       IF \E q \in Peers : IdOf[q] = i /\ contactsRaw'[q] # None
                       THEN CHOOSE q \in Peers : IdOf[q] = i /\ contactsRaw'[q] # None
                       ELSE None]
    /\ mu' = None
    /\ pc' = [p \in Procs |-> "idle"]
    /\ peer' = [p \in Procs |-> None]
    /\ arg' = [p \in Procs |-> 0]
    /\ stale' = FALSE
    /\ missed' = (missed \/ file = Torn \/ stale \/ mu # None \/ pc[Poller] = "record")
    /\ UNCHANGED <<file, latest>>

Init ==
    /\ contacts = [i \in Ids |-> None]
    /\ contactsRaw = NoContacts
    /\ file = None
    /\ mu = None
    /\ pc = [p \in Procs |-> "idle"]
    /\ peer = [p \in Procs |-> None]
    /\ arg = [p \in Procs |-> 0]
    /\ latest = [p \in Peers |-> 0]
    /\ faults = 0
    /\ stale = FALSE
    /\ missed = FALSE

Upsert(p) == UpsertContact(p) \/ TruncateContacts(p) \/ WriteContacts(p) \/ SaveFails(p)

Next ==
    \/ \E p \in Procs : Upsert(p)
    \/ \E q \in Peers : Receive(q)
    \/ \E s \in Senders : (\E i \in Ids : LookUp(s, i)) \/ SendFails(s) \/ SendSucceeds(s)
    \/ CrashAndRestart

Spec == Init /\ [][Next]_vars

-----------------------------------------------------------------------------
(* Properties.                                                             *)

\* Types, and rt.mu is held exactly while a contact list is being saved.
TypeOK ==
    /\ contacts \in [Ids -> Peers \cup {None}]
    /\ contactsRaw \in [Peers -> Tokens \cup {None}]
    /\ file \in [Peers -> Tokens \cup {None}] \cup {None, Torn}
    /\ mu \in Procs \cup {None}
    /\ pc \in [Procs -> {"idle", "sending", "record", "saveRecord", "writeRecord",
                         "insert", "saveInsert", "writeInsert"}]
    /\ peer \in [Procs -> Peers \cup {None}]
    /\ arg \in [Procs -> Tokens]
    /\ latest \in [Peers -> Tokens]
    /\ faults \in 0..MaxFaults
    /\ stale \in BOOLEAN
    /\ missed \in BOOLEAN
    /\ \A p \in Procs : mu = p <=> pc[p] \in {"saveRecord", "writeRecord",
                                              "saveInsert", "writeInsert"}

\* The two maps describe the same contacts: an id resolves to a known peer
\* that has it, and the id of every known peer resolves (to another peer if
\* the hash collides), also after they have been rebuilt from the file.
MapsAgree ==
    /\ \A i \in Ids : contacts[i] # None =>
           IdOf[contacts[i]] = i /\ contactsRaw[contacts[i]] # None
    /\ \A q \in Peers : contactsRaw[q] # None => contacts[IdOf[q]] # None

\* Whenever nobody is writing contacts.json it holds the contacts in memory,
\* unless the last save failed or the file was torn and not saved since.
FileUpToDate ==
    mu = None /\ ~stale /\ file \notin {None, Torn} => file = Saved

\* Both: maps and file describe the same contacts.
StoreAgrees == MapsAgree /\ FileUpToDate

\* A peer whose message was recorded can be addressed ever after, restarts
\* included, as long as no crash struck between an update and its save.
ObservedStaysKnown ==
    \A q \in Peers :
        latest[q] > 0 /\ ~missed /\ ~(pc[Poller] = "record" /\ peer[Poller] = q)
            => contacts[IdOf[q]] # None

\* A contact's token gives way to an older one only when a send action stores
\* again the token it read before a newer one came, or by a crash.
TokenRegressesOnlyThroughSend ==
    [][ \A q \in Peers :
            (/\ contactsRaw[q] # None
             /\ contactsRaw'[q] # contactsRaw[q]
             /\ contactsRaw'[q] = None \/ contactsRaw'[q] < contactsRaw[q])
            => \/ faults' # faults
               \/ \E s \in Senders : mu' = s /\ peer[s] = q /\ arg[s] = contactsRaw'[q] ]_vars

\* UpsertContact "records an observed peer and latest context token"
\* (coolq/weixin.go:167): the token of a contact is the newest received.
LatestContextToken ==
    \A q \in Peers :
        latest[q] > 0 /\ ~missed /\ ~(pc[Poller] = "record" /\ peer[Poller] = q)
            => contactsRaw[q] = latest[q]
=============================================================================
