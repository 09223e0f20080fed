------------------------------ MODULE FrontEnd ------------------------------
(***************************************************************************)
(* What applications know of the QQ front end and of inbound media: the    *)
(* messages that ids stand for and their elements, groups and friends,     *)
(* requests to answer, the files that a message brought, and the events    *)
(* that a filter lets pass.  Each is a part, and a behaviour is one of any *)
(* of them: they meet only in data.                                        *)
(***************************************************************************)
EXTENDS Naturals

CONSTANTS Self, Users, Groups, None,
          Channels, GroupSeqs, PrivateSeqs, Wrap, MaxSaid,          \* QQMessages
          AllowTempSession, ReportSelfMessage,
          GroupUsers, MemberGroups, All, MaxChanges,                \* QQGroups
          Requests, RequestKind, RequestFlag, Callers, MaxAnswers,  \* QQRequests
          MediaMessages, Block, Limit, MaxReports,                  \* Media
          Received, Outgoing, KnownReplies, Readable, RemoveReplyAt, \* QQElements
          Split, SettingsOf,
          RuleFiles, RuleValues, RuleStarts, FilterPayloads, FilterEvents,
          Adders, Matches, Panic \* EventFilter

VARIABLES part,
    friends, sessions, said, reported, db, did,
    server, library, view, inbox, pinner, changes,
    open, flags, answers, call, overlap,
    current, next, segments, disk, saved,
    settings, client, cached, fetched, remote, got, shown, job, down,
    read, filter, rules

messageVars == <<friends, sessions, said, reported, db, did>>
groupVars == <<server, library, view, inbox, pinner, changes>>
requestVars == <<open, flags, answers, call, overlap>>
mediaVars == <<current, next, segments, disk, saved>>
elementVars == <<settings, client, cached, fetched, remote, got, shown, job, down>>
filterVars == <<read, filter, rules>>

Q == INSTANCE QQMessages
G == INSTANCE QQGroups WITH Users <- GroupUsers, Groups <- MemberGroups
R == INSTANCE QQRequests WITH Kind <- RequestKind, Flag <- RequestFlag
M == INSTANCE Media WITH Messages <- MediaMessages, Nobody <- None, reported <- saved
E == INSTANCE QQElements
F == INSTANCE EventFilter WITH Files <- RuleFiles, Values <- RuleValues, Starts <- RuleStarts,
                                Payloads <- FilterPayloads, Events <- FilterEvents

ASSUME FrontEndAssumption ==
    /\ Q!SeqsAssumption /\ Q!CodesAssumption /\ Q!NoneAssumption
    /\ R!RequestsAssumption /\ M!MediaAssumption
    /\ E!ElementsAssumption /\ E!ReceivedAssumption /\ E!OutgoingAssumption
    /\ F!RulesAssumption /\ F!PayloadsAssumption

-----------------------------------------------------------------------------
(* The parts that do not run.                                              *)

MessagesOff == friends = 0 /\ sessions = 0 /\ said = 0 /\ reported = 0 /\ db = 0 /\ did = 0
GroupsOff == server = 0 /\ library = 0 /\ view = 0 /\ inbox = 0 /\ pinner = 0 /\ changes = 0
RequestsOff == open = 0 /\ flags = 0 /\ answers = 0 /\ call = 0 /\ overlap = 0
MediaOff == current = 0 /\ next = 0 /\ segments = 0 /\ disk = 0 /\ saved = 0
ElementsOff == /\ settings = 0 /\ client = 0 /\ cached = 0 /\ fetched = 0 /\ remote = 0
               /\ got = 0 /\ shown = 0 /\ job = 0 /\ down = 0
FilterOff == read = 0 /\ filter = 0 /\ rules = 0

FrontEndInit ==
    /\ part \in {"messages", "groups", "requests", "media", "elements", "filter"}
    /\ IF part = "messages" THEN Q!Init ELSE MessagesOff
    /\ IF part = "groups" THEN G!Init ELSE GroupsOff
    /\ IF part = "requests" THEN R!Init ELSE RequestsOff
    /\ IF part = "media" THEN M!Init ELSE MediaOff
    /\ IF part = "elements" THEN E!Init ELSE ElementsOff
    /\ IF part = "filter" THEN F!Init ELSE FilterOff

\* Nothing but the variables of part p changes.
Only(p) ==
    /\ part = p /\ UNCHANGED part
    /\ p # "messages" => UNCHANGED messageVars
    /\ p # "groups" => UNCHANGED groupVars
    /\ p # "requests" => UNCHANGED requestVars
    /\ p # "media" => UNCHANGED mediaVars
    /\ p # "elements" => UNCHANGED elementVars
    /\ p # "filter" => UNCHANGED filterVars

FrontEndNext ==
    \/ Only("messages") /\ Q!Next
    \/ Only("groups") /\ G!Next
    \/ Only("requests") /\ R!Next
    \/ Only("media") /\ M!Next
    \/ Only("elements") /\ E!Next
    \/ Only("filter") /\ F!Next

frontEndVars ==
    <<part, messageVars, groupVars, requestVars, mediaVars, elementVars, filterVars>>

FrontEndSpec == FrontEndInit /\ [][FrontEndNext]_frontEndVars

-----------------------------------------------------------------------------
(* Properties.                                                             *)

\* The id of an event, an answer, a reply or a call names the message it is
\* about, but for the named cases (coolq/bot.go, event.go, api.go, cqcode.go).
IdsName == part = "messages" => Q!IdsNameMessages /\ Q!RepliesNameTheQuoted

\* The notices told the application everything that it sees in the lists of
\* groups, members and friends (coolq/event.go, api.go).
NoticesTell == part = "groups" => G!NoticesTellAll

\* A request is answered once, unless calls overlap (coolq/api.go).
RequestsAnsweredOnce == part = "requests" => R!AnsweredOnce

\* Inbound media are what was sent (internal/weixin/client.go).
MediaKept == part = "media" => M!MediaIsWhatWasSent

\* get_msg shows what the event showed, and uploads in parallel keep the order
\* of a message's elements (coolq/cqcode.go, bot.go).
Shown == part = "elements" => E!ShownAsReported
Uploaded == part = "elements" => E!UploadsKeepOrder

\* The filter judges events by the rules that it read (modules/filter).
JudgedByRules == part = "filter" => F!JudgedByRules
=============================================================================
