----------------------------- MODULE WeixinApi -----------------------------
(***************************************************************************)
(* The actions an application calls (coolq/weixin_api.go, weixin.go) while *)
(* the poller may log in to another account: the client's session, the     *)
(* identity of the runtime, the contacts' tokens and the stored messages   *)
(* are read at different moments of a call, without a common lock.         *)
(*                                                                         *)
(* WeixinSession has the login, ContactStore the contacts and their file,  *)
(* PrivateMessages the sending of segments; each is one step here.  A      *)
(* context token is the account it was given under, an account's mapped id *)
(* the account.                                                            *)
(***************************************************************************)
EXTENDS Naturals

CONSTANTS Accounts, Users, Calls,
          Requests,   \* what callers may ask for: [action, user, type, payload]
          MaxLogins, MaxReceived,   \* bounds
          None

WeixinApiAssumption == \A r \in Requests : r.user \in Users

VARIABLES
    session,    \* account of c.session
    self,       \* the runtime's identity: [raw, mapped]
    poller,     \* at: poll, dispatch, confirm, adopt, mapped; whose account and message
    contacts,   \* users observed
    token,      \* LastContextToken of each
    call,       \* each call: where it is and what it has read
    last,       \* history: what was stored, told or posted last
    switched,   \* history: calls that overlapped a change of account
    wrote,      \* history: users who brought a token since the identity was set
    reverted,   \* history: users for whom a send has put an older token back
    bounds      \* logins and messages so far

clientVars == <<session, self, poller>>
dataVars == <<contacts, token>>
histVars == <<last, switched, wrote, reverted>>
vars == <<clientVars, dataVars, call, histVars, bounds>>

Idle == [at |-> "idle", user |-> None, token |-> None, fresh |-> FALSE,
         account |-> None, seen |-> None]
AtPoll == [at |-> "poll", user |-> None, account |-> None]
Active == {c \in Calls : call[c].at # "idle"}
\* Session and identity are those of one account.
Settled == self.raw = self.mapped /\ session \in {None, self.raw}

-----------------------------------------------------------------------------
(* The poller: pollWeixinEvents.                                           *)

\* Poll gives a message of the session's account.
Poll(u) ==
    /\ poller.at = "poll" /\ session # None /\ bounds.received < MaxReceived
    /\ poller' = [at |-> "dispatch", user |-> u, account |-> session]
    /\ bounds' = [bounds EXCEPT !.received = @ + 1]
    /\ UNCHANGED <<session, self, dataVars, call, histVars>>

\* What is stored or told: the accounts that its fields name, and the account
\* that it is about.
Names(names, account, overlap) ==
    [what |-> "names", names |-> names, account |-> account, switched |-> overlap]

\* InsertWeixinPrivateMessage: the account is in the id, the key, and as sender
\* or target; an error is only logged.
Stored(m) == last' = m \/ last' = last

\* Mutant: the first token stays.
TokenOnce(u, t) == token' = [token EXCEPT ![u] = IF @ = None THEN t ELSE @]

\* UpsertContact with a token; without one it leaves the old one.
UpsertContact(u, t) == token' = [token EXCEPT ![u] = t]

\* DispatchWeixinPrivateMessage.  A message may come without a token.
DispatchWeixinPrivateMessage ==
    /\ poller.at = "dispatch"
    /\ poller' = AtPoll
    /\ contacts' = contacts \cup {poller.user}
    /\ \E withToken \in BOOLEAN :
          IF withToken
          THEN /\ UpsertContact(poller.user, self.raw)
               /\ wrote' = wrote \cup {poller.user} /\ reverted' = reverted \ {poller.user}
          ELSE UNCHANGED <<token, wrote, reverted>>
    /\ Stored(Names({self.raw, self.mapped}, poller.account, FALSE))
    /\ UNCHANGED <<session, self, call, switched, bounds>>

\* A 401 for a request of anybody.
Invalidate ==
    /\ session # None
    /\ session' = None
    /\ UNCHANGED <<self, poller, dataVars, call, histVars, bounds>>

\* WaitQRLogin, whoever scans the code.
WaitQRLogin(a) ==
    /\ poller.at = "poll" /\ session = None /\ bounds.logins < MaxLogins
    /\ session' = a
    /\ poller' = [AtPoll EXCEPT !.at = "confirm"]
    /\ switched' = IF a = self.raw THEN switched ELSE switched \cup Active
    /\ bounds' = [bounds EXCEPT !.logins = @ + 1]
    /\ UNCHANGED <<self, dataVars, call, last, wrote, reverted>>

\* Self, at the end of ensureWeixinLogin.
Confirm ==
    /\ poller.at = "confirm"
    /\ poller' = IF session = None THEN AtPoll
                 ELSE [AtPoll EXCEPT !.at = "adopt", !.account = session]
    /\ UNCHANGED <<session, self, dataVars, call, histVars, bounds>>

\* UpdateSelf holds rt.mu, which none of those who read the identity take.
UpdateSelfRaw ==
    /\ poller.at = "adopt"
    /\ self' = [self EXCEPT !.raw = poller.account]
    /\ poller' = [poller EXCEPT !.at = "mapped"]
    /\ switched' = IF poller.account = self.raw THEN switched ELSE switched \cup Active
    /\ UNCHANGED <<session, dataVars, call, last, wrote, reverted, bounds>>

\* Mutant: the mapped id stays that of the first login.
UpdateSelfRawOnly ==
    /\ poller.at = "mapped"
    /\ poller' = AtPoll
    /\ wrote' = {}
    /\ UNCHANGED <<session, self, dataVars, call, last, switched, reverted, bounds>>

UpdateSelfMapped ==
    /\ poller.at = "mapped"
    /\ self' = [self EXCEPT !.mapped = poller.account]
    /\ poller' = AtPoll
    /\ wrote' = IF self.mapped = poller.account THEN wrote ELSE {}
    /\ UNCHANGED <<session, dataVars, call, last, switched, reverted, bounds>>

-----------------------------------------------------------------------------
(* CallWeixinAction.                                                       *)

\* The first refusal of weixinSendPrivate, weixinUploadPrivateFile, send_msg
\* and the quick operation; "OK" for one that is no reply to a private message.
Refusal(r) ==
    IF r.action = ".handle_quick_operation" /\ r.type # "private" THEN "OK"
    ELSE IF r.action = "send_msg" /\ r.type # "private" THEN "UNSUPPORTED_MESSAGE_TYPE"
    ELSE IF r.user \notin contacts THEN "USER_NOT_FOUND"
    ELSE IF token[r.user] = None THEN "CONTEXT_TOKEN_MISSING"
    ELSE CASE r.payload = "malformed"    -> "BAD_MESSAGE"
           [] r.payload = "unsupported"  -> "UNSUPPORTED_MESSAGE"
           [] r.payload = "missing file" -> "OPEN_FILE_ERROR"
           [] r.payload = "empty"        -> "SEND_ERROR"
           [] OTHER                      -> None

Begin(c, r) ==
    /\ c \notin Active
    /\ Refusal(r) = None
    /\ call' = [call EXCEPT ![c] = [Idle EXCEPT !.at = "build", !.user = r.user]]
    /\ switched' = IF Settled THEN switched \ {c} ELSE switched \cup {c}
    /\ UNCHANGED <<clientVars, dataVars, last, wrote, reverted, bounds>>

\* The segments are built; the token is read again for the request.
ReadToken(c) ==
    LET u == call[c].user IN
    /\ call[c].at = "build"
    /\ call' = [call EXCEPT ![c].at = "send", ![c].token = token[u],
                            ![c].fresh = (u \in wrote \ reverted)]
    /\ UNCHANGED <<clientVars, dataVars, histVars, bounds>>

\* SendPrivate fails without a session.
SendPrivate(c) ==
    /\ call[c].at = "send"
    /\ call' = [call EXCEPT ![c] =
                    IF session = None THEN Idle
                    ELSE [call[c] EXCEPT !.at = "post", !.account = session]]
    /\ UNCHANGED <<clientVars, dataVars, histVars, bounds>>

PostFails(c) ==
    /\ call[c].at = "post"
    /\ call' = [call EXCEPT ![c] = Idle]
    /\ UNCHANGED <<clientVars, dataVars, histVars, bounds>>

Posted(c) ==
    /\ call[c].at = "post"
    /\ last' = [what |-> "posted", account |-> call[c].account, token |-> call[c].token,
                   fresh |-> call[c].fresh, switched |-> c \in switched]
    /\ call' = [call EXCEPT ![c].at = "sent", ![c].fresh = FALSE]
    /\ UNCHANGED <<clientVars, dataVars, switched, wrote, reverted, bounds>>

\* An argument of DispatchWeixinSelfMessage.
ReadTokenAgain(c) ==
    /\ call[c].at = "sent"
    /\ call' = [call EXCEPT ![c].at = "upsert", ![c].token = token[call[c].user]]
    /\ UNCHANGED <<clientVars, dataVars, histVars, bounds>>

DispatchWeixinSelfMessage(c) ==
    LET u == call[c].user IN
    /\ call[c].at = "upsert"
    /\ UpsertContact(u, call[c].token)
    /\ reverted' = IF call[c].token = token[u] THEN reverted ELSE reverted \cup {u}
    /\ call' = [call EXCEPT ![c].at = "name", ![c].token = None]
    /\ UNCHANGED <<clientVars, contacts, last, switched, wrote, bounds>>

\* InsertWeixinPrivateMessage: the id, then the sender and the key.
NameMessage(c) ==
    /\ call[c].at = "name"
    /\ call' = [call EXCEPT ![c].at = "insert", ![c].seen = self.raw]
    /\ UNCHANGED <<clientVars, dataVars, histVars, bounds>>

InsertMessage(c) ==
    /\ call[c].at = "insert"
    /\ Stored(Names({call[c].seen, self.raw, self.mapped}, call[c].account, c \in switched))
    /\ call' = [call EXCEPT ![c].at = "report"]
    /\ UNCHANGED <<clientVars, dataVars, switched, wrote, reverted, bounds>>

\* The message_sent event, if own messages are reported.
ReportSelf(c) ==
    /\ call[c].at = "report"
    /\ last' = Names({self.raw, self.mapped}, call[c].account, c \in switched)
    /\ call' = [call EXCEPT ![c] = Idle]
    /\ UNCHANGED <<clientVars, dataVars, switched, wrote, reverted, bounds>>

\* weixinGetLoginInfo reads the mapped id, then the raw one.
GetLoginInfo(c) ==
    /\ c \notin Active
    /\ call' = [call EXCEPT ![c] = [Idle EXCEPT !.at = "info", !.seen = self.mapped]]
    /\ switched' = IF Settled THEN switched \ {c} ELSE switched \cup {c}
    /\ UNCHANGED <<clientVars, dataVars, last, wrote, reverted, bounds>>

LoginInfo(c) ==
    /\ call[c].at = "info"
    /\ last' = Names({call[c].seen, self.raw}, self.raw, c \in switched)
    /\ call' = [call EXCEPT ![c] = Idle]
    /\ UNCHANGED <<clientVars, dataVars, switched, wrote, reverted, bounds>>

-----------------------------------------------------------------------------
\* StartWeixin has logged in and loaded the contacts, whose tokens may have
\* been given to any account.
Init ==
    /\ session \in Accounts
    /\ self = [raw |-> session, mapped |-> session]
    /\ poller = AtPoll
    /\ contacts \in SUBSET Users
    /\ token \in [Users -> Accounts \cup {None}]
    /\ \A u \in Users \ contacts : token[u] = None
    /\ call = [c \in Calls |-> Idle]
    /\ last = [what |-> "nothing"] /\ switched = {} /\ wrote = {} /\ reverted = {}
    /\ bounds = [logins |-> 0, received |-> 0]

Next ==
    \/ \E u \in Users : Poll(u)
    \/ DispatchWeixinPrivateMessage
    \/ Invalidate
    \/ \E a \in Accounts : WaitQRLogin(a)
    \/ Confirm
    \/ UpdateSelfRaw
    \/ UpdateSelfMapped
    \/ \E c \in Calls :
          \/ \E r \in Requests : Begin(c, r)
          \/ ReadToken(c) \/ SendPrivate(c) \/ PostFails(c) \/ Posted(c)
          \/ ReadTokenAgain(c) \/ DispatchWeixinSelfMessage(c)
          \/ NameMessage(c) \/ InsertMessage(c) \/ ReportSelf(c)
          \/ GetLoginInfo(c) \/ LoginInfo(c)

Spec == Init /\ [][Next]_vars

-----------------------------------------------------------------------------
\* A message is stored and reported under the account that received or sent
\* it, in its id, its key and its sender or target; a received one always, what
\* a call tells unless the account changed meanwhile.
NamesItsAccount ==
    last.what = "names" => last.names = {last.account} \/ last.switched

\* A user who has brought the account a context token is not sent to with one
\* given to another account, unless a send has put that back in between or the
\* account changed during the call.
OwnContextToken ==
    last.what = "posted" => last.token = last.account \/ ~last.fresh \/ last.switched
=============================================================================
