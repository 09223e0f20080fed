------------------------------ MODULE Servers ------------------------------
(***************************************************************************)
(* The servers besides HTTP POST and reverse WebSocket, the actions they   *)
(* run and the download of files, composed: a behaviour is one of any of   *)
(* these parts.  They share nothing but the bus, which EventDispatch       *)
(* covers.  LongPolling, the part "get_updates", is the module extended.   *)
(***************************************************************************)
EXTENDS LongPolling, Integers

CONSTANTS Clients, WSEvents,                                 \* ForwardWS
          HttpRequests, HttpMessages, Bucket, MaxRefills,    \* HttpApi
          Ops, Size, Threads, MinSplit, Margin, Cuts, MaxFaults, \* Download
          Accounts, Users, ApiCalls, ApiRequests,            \* WeixinApi
          MaxLogins, MaxReceived, None

VARIABLES part,
    endpoint, open, eventConn, walk, request, got, wsPushed, since,
    server, message, stage, status, ran, tokens, refills,
    resource, path, content, call, disturbed, soiled, result,
    session, self, poller, contacts, token, apiCall, last, switched, wrote, reverted, bounds

wsVars == <<endpoint, open, eventConn, walk, request, got, wsPushed, since>>
httpVars == <<server, message, stage, status, ran, tokens, refills>>
downloadVars == <<resource, path, content, call, disturbed, soiled, result>>
apiVars == <<session, self, poller, contacts, token, apiCall, last, switched, wrote,
             reverted, bounds>>

W == INSTANCE ForwardWS WITH MaxEvents <- WSEvents, pushed <- wsPushed
H == INSTANCE HttpApi WITH Requests <- HttpRequests, Messages <- HttpMessages
D == INSTANCE Download
X == INSTANCE WeixinApi WITH Calls <- ApiCalls, Requests <- ApiRequests, call <- apiCall

ASSUME ServersAssumption ==
    H!HttpAssumption /\ D!DownloadAssumption /\ X!WeixinApiAssumption

-----------------------------------------------------------------------------
(* The parts that do not run.                                              *)

WSOff == /\ endpoint = 0 /\ open = 0 /\ eventConn = 0 /\ walk = 0
         /\ request = 0 /\ got = 0 /\ wsPushed = 0 /\ since = 0
HttpOff == /\ server = 0 /\ message = 0 /\ stage = 0 /\ status = 0
           /\ ran = 0 /\ tokens = 0 /\ refills = 0
DownloadOff == /\ resource = 0 /\ path = 0 /\ content = 0 /\ call = 0
               /\ disturbed = 0 /\ soiled = 0 /\ result = 0
ApiOff == /\ session = 0 /\ self = 0 /\ poller = 0 /\ contacts = 0 /\ token = 0
          /\ apiCall = 0 /\ last = 0 /\ switched = 0 /\ wrote = 0 /\ reverted = 0
          /\ bounds = 0

ServersInit ==
    /\ part \in {"get_updates", "websocket", "http", "download", "api"}
    /\ Init
    /\ IF part = "websocket" THEN W!Init ELSE WSOff
    /\ IF part = "http" THEN H!Init ELSE HttpOff
    /\ IF part = "download" THEN D!Init ELSE DownloadOff
    /\ IF part = "api" THEN X!Init ELSE ApiOff

\* Nothing but the variables of part p changes.
Only(p) ==
    /\ part = p /\ UNCHANGED part
    /\ p # "get_updates" => UNCHANGED vars
    /\ p # "websocket" => UNCHANGED wsVars
    /\ p # "http" => UNCHANGED httpVars
    /\ p # "download" => UNCHANGED downloadVars
    /\ p # "api" => UNCHANGED apiVars

ServersNext ==
    \/ Only("get_updates") /\ Next
    \/ Only("websocket") /\ W!Next
    \/ Only("http") /\ H!Next
    \/ Only("download") /\ D!Next
    \/ Only("api") /\ X!Next

serversVars == <<part, vars, wsVars, httpVars, downloadVars, apiVars>>

ServersSpec == ServersInit /\ [][ServersNext]_serversVars

-----------------------------------------------------------------------------
(* Properties.                                                             *)

\* Every client of the WebSocket server gets the events since it joined, once
\* and in order, and stays in the list until its connection is gone
\* (server/websocket.go).
ReportedToEach == part = "websocket" => W!EachEventOnceInOrder /\ W!SubscribersListed

\* Only requests with the right credentials run an action, and in QQ mode no
\* more than the limiter has had tokens for (server/http.go, middlewares.go).
OnlyAdmittedCallsRun == part = "http" => H!OnlyAdmittedCallsRun

\* A download that succeeds is the whole file (internal/download).
Downloaded == part = "download" => D!FetchedIsWhole

\* Messages are sent, stored and told under one account, with its context
\* tokens, but for the named cases (coolq/weixin_api.go, weixin.go).
AccountsKeptApart == part = "api" => X!NamesItsAccount /\ X!OwnContextToken
=============================================================================
