# gocq-wechat: a TLA+ verification project

The program is a OneBot v11 gateway for Weixin private messages. It logs in with
a QR code, long-polls the Weixin server for messages, turns them into OneBot
events for a set of *servers* (HTTP, HTTP POST, WebSocket, reverse WebSocket)
and sends messages back when one of these asks for it. It is derived from
go-cqhttp; the QQ protocol code is still in the tree, compiled and reachable from
shared paths, but `main` starts the Weixin front end only.

This directory holds TLA+ models of its concurrent and persistent core, of the
servers, and of what becomes of messages and media on their way through it (the
QQ front end included), TLC runs that check them on small instances, and TLAPS
proofs that hold for every instance. `PROJECT.json` lists components, runs, mutants, the source lines of
every definition, findings, hazards and theorems.

## 1. Inventory

| component | state | operations | hard behaviour |
|---|---|---|---|
| **Login session and polling loop** `internal/weixin/client.go`, `cmd/gocq/weixin_start.go` | `c.session` under `c.mu`; `session.json`, `sync.json` under no lock; `WeixinRuntime.SelfRawID` | start, QR login, poll, save cursor, invalidate on 401, relogin | any request of any goroutine may drop the session while the poller is creating or using another; files are rewritten in place; crash between two writes |
| **Inbound flow** `client.go` Poll, `weixin_start.go` | cursor on disk, batch in memory | get updates, save cursor, normalise, dispatch | the cursor is saved *before* the messages it covers are dispatched; a failed save repeats, a crash loses |
| **Event bus and POST reporter** `coolq/bot.go`, `server/http.go` | `bot.events`, `RWMutex`, pooled event buffers | `OnEventPush`, `dispatch`, POST with retries, quick reply | readers waiting for a writer waiting for readers, through the application; one slow handler stops all events |
| **Contacts** `coolq/weixin.go` | two maps under `rt.mu`, `contacts.json` | `UpsertContact`, `ContactByID`, load, save | pointers that outlive the lock; stale context token written back; torn file; colliding hash ids |
| **Outbound sends and API** `coolq/weixin_api.go`, `client.go` | session snapshot, runtime identity, `messages.json` | `CallWeixinAction`, `SendPrivate`, media upload | sequential segments with partial failure, timeouts after delivery, lost updates of `messages.json`, a change of account during a call |
| **Long polling** `server/middlewares.go` | bounded queue, condition variable | push, `get_updates` | lost wake-ups and answers, queue at its limit |
| **Reverse WebSocket** `server/websocket.go` | the current `wsConn` under its mutex | connect, report, reconnect, API listener | the listener of a replaced connection closes the new one; reconnecting holds up `dispatch` |
| **WebSocket server** `server/websocket.go` | list of event connections | accept, broadcast, remove, API requests | list edited in place; a connection between handshake and list |
| **HTTP API server** `server/http.go`, `scf.go`, `modules/api` | token bucket | parse, check access, limit, call | order of the checks; a malformed form that is run all the same |
| **Event filter** `modules/filter` | compiled filters by file | compile, evaluate, reload | rules files read while they are written, rules that do not compile |
| **Download** `internal/download`, `coolq/api.go`, `global/fs.go` | cache files | block download, cache lookup | partition, short and misplaced blocks, error pages, two calls at one cache file |
| **CQ codes and segments** `internal/msg`, `coolq/weixin.go` | none | escape, print, parse, build | escapes that arise from pieces; keys in the order of a map |
| **Inbound media** `client.go` | `inbound/` files | download, decrypt, save | files named alike, failed saves, missing keys, padding, read limit, one bad item of several |
| **Message databases** `db/` | one store per backend | insert into all, read from the first | partial insert and partial statements, colliding ids, order that changes at a restart |
| **QQ messages** `coolq/event.go`, `bot.go`, `api.go`, `cqcode.go` | stored messages, temporary sessions | events, sends, `get_msg`, recall, history | ids and replies made in several ways that must agree |
| **QQ groups, friends, requests** `coolq/event.go`, `api.go` | the library's lists | notices, calls, lists read back | notices and lists that come from different copies; requests answered twice |
| **QQ elements** `coolq/cqcode.go`, `bot.go`, `image.go` | media caches | to segments and back, parallel upload | what `get_msg` shows against what the event showed; slots replaced in any order |
| **QQ login, sign servers** `cmd/gocq/main.go`, `login.go`, `qsign.go` | – | – | not started in this program |
| **Configuration, terminal, update, daemon; generated code** | – | – | start-up I/O |

Interaction: the poller goroutine calls `Client.Poll`, then
`DispatchWeixinPrivateMessage`, which upserts the contact, stores the message
and runs `dispatch`; `dispatch` runs every registered handler in a goroutine and
waits for all of them under the read lock of `bot.lock`. Handlers are the
callbacks of the servers. A server that receives an API request runs
`CallWeixinAction` in the goroutine of the request; a send goes out with a
snapshot of the session and ends in `DispatchWeixinSelfMessage`, which upserts
the contact and dispatches again. A heartbeat goroutine dispatches on its own.

What makes the components correct: memory and files never describe different
logins; a session that was refused is never used again; events are reported
under the right account, in order, once; nobody waits for ever for the event
bus; an event's buffer is not reused while it is read; contacts stay
addressable; a reply uses the newest context token; an id means one message
wherever it appears; what is stored, escaped, encrypted or uploaded comes out as
it went in; only admitted calls run.

## 2. Plan

Done, in this order:

1. `WeixinSession` and its proofs; `EventDispatch`; `ContactStore`;
   `MessageFlow` (abstract) and `Inbound`, which implements it
2. `ReverseWS`, `LongPolling`, `PrivateMessages`; proofs of `EventDispatch`,
   `Inbound`, `PrivateMessages`
3. The servers: `ForwardWS`, `HttpApi`, `Download`, and `WeixinApi`, the calls
   they run, composed with `LongPolling` in `Servers`
4. The QQ front end and inbound media: `QQMessages`, `QQGroups`, `QQRequests`,
   `Media`, and later `QQElements` and `EventFilter`, composed in `FrontEnd`
5. The data: `MessageStore` with `LevelDBCodec`, composed with `FrontEnd` in
   `MCData`, and `Segments`, composed with `PrivateMessages` in `MCPrivateMessages`
6. Proofs of `ContactStore`, `ReverseWS`, of every property of `Servers` and
   `FrontEnd`, and of `MessageStore` and `Segments`; for those of `QQElements`,
   `EventFilter` and `Segments` the three were written anew without RECURSIVE
   operators

Every safety property of the passing runs is proved; what stays with TLC is named
at the end of section 5. Left: reverse WebSocket clients of the types API and Event
and the heartbeat are not modelled; section 7 has the rest.

## 3. Modules

### WeixinSession (`client.go`, `weixin_start.go`)

One process, the *Poller*, is the goroutine of `StartWeixin` and
`pollWeixinEvents`; a set of *Senders* stands for API goroutines. `session`,
`sessionFile`, `syncFile` and `selfRaw` are `c.session`, `session.json`,
`sync.json` and `SelfRawID`. A token stands for the whole session record, a
cursor for the account it was issued to. Each file write is two steps (truncate,
write), each removal one, and every point where the code releases a lock or
waits for the network is a control state: `ensure, qr, scan, save, write,
setMem, confirm, adopt, poll, loadBuf, await, saveBuf, writeBuf, dispatch` for
`ensureWeixinLogin`, `saveSession`, `UpdateSelf` and `Poll`; `await, forget,
rmSession, rmSync` for `apiPost` and `invalidateSession`. The server (outside)
issues a fresh token per confirmed scan and revokes tokens at any time. `Crash`
loses everything but the files.

`dropped` and `exposures` are history variables. The code has three real
windows, named by `exposures`: an invalidation that overlaps a login
(`overtaken`), a cursor saved after the session was dropped (`lateCursor`), a
crash between the two removals (`halfRemoved`). `SessionPersisted` and
`CursorMatchesAccount` say that nothing else can go wrong.

### EventDispatch (`bot.go`, `http.go`, `caller.go`, `weixin_api.go`)

Sources are the loops (poller, heartbeat) and API goroutines. The RWMutex is
modelled with Go's writer preference: an announced writer blocks new readers,
its `Unlock` admits the waiting ones. A handler run goes `spawned`, `posting`
(an attempt is under way), `answered` (the application sent a quick operation),
`done`. While an attempt is under way the application may call the API
(`caller`) and then it answers only after the call has returned; the attempt may
time out first. Handlers other than the POST reporter return at once in this
module (`Post` straight to `done`).

### ContactStore (`coolq/weixin.go`, `weixin_api.go`)

`contacts` maps ids to peers, `contactsRaw` peers to tokens; `file` is
`contacts.json`, `Torn` while truncated. `mu` is `rt.mu`. A message or a self
message upserts twice: with its token (`record`), then without one in
`InsertWeixinPrivateMessage` (`insert`). A context token is numbered by the
message that brought it.

### MessageFlow and Inbound (`client.go`, `weixin_start.go`)

`MessageFlow` is the promise: messages are reported in order and once, unless
there is an excuse. `Inbound` is the polling goroutine with its cursor file and
shows which faults are excuses: a crash between saving the cursor and
dispatching, a message that could not be normalised (loss), a cursor that was
torn, not saved or removed (loss or repetition). `KeepsPromise` is the
refinement, with `excuses` mapped to the faults that have happened.

### LongPolling (`server/middlewares.go`)

A request is two goroutines: the handler (`started` until it reaches the receive
from `ch`, then `receiving`) and the collector it starts (`lock` when it wants
the mutex, `wait` in `cond.Wait`). One action per critical section. A push wakes
any one waiter; Go wakes the first, so the model admits more. `answers` and
`trimmed` are history; `excused` records the two ways a wake-up can be consumed
without emptying the queue: a collector gave up, or its limit was smaller than
the queue. In Weixin mode `Caller.Call` skips the middlewares, so the request
side runs only in the QQ mode that is still in the tree.

### ReverseWS (`server/websocket.go`)

One client of type Universal. `conn` is `wsConn.conn`, `open` the connections
this side has not closed, `alive` those that work. The *pusher* is
`runWSClient`'s first `connect` and afterwards `onBotPushEvent`, which `c.mu`
makes one process: `dial, install, idle, push, write`. `listen` and `reads` are
the `listenAPI` goroutines; `asked` is the connection each `handleRequest` was
started for, `target` the one a writer under `wsConn.mu` (`wmu`) writes to. The
connection is replaced without `wsConn.mu`, as in the code.

### PrivateMessages (`client.go`, `weixin.go`, `db/`)

Actors are API calls (`Senders`) and received messages (`Events`); each handles
one message. A call goes `idle, send, posted, ..., log, trim, write, store,
done`; a received message is normalised (`log, trim, write`) and waits as
`ready` until the poller, one goroutine, dispatches its batch (`store`). A
request to the server is two steps, leaving (`flying`) and arriving, so that it
can arrive after its call has given up. `messages.json` is read, truncated and
written in three steps. `store` is what each backend holds; LevelDB and SQLite
keep one message per id, MongoDB one per `_id`. An insert goes through `order`,
chosen anew at every start because `db.Init` ranges over a map. `told`, `logged`,
`partial` and `clean` are history. Left out here: the records (`MessageStore`),
when a message is repeated without a restart (`Inbound`), contacts
(`ContactStore`).

### WeixinApi (`weixin_api.go`, `weixin.go`)

Calls of the application beside a poller that may log in to another account. The
order of the refusals is `Refusal`. A send reads, one step each and without a
common lock: the token (twice more after the check), the session, and the
identity for the id, the record and the event; `UpdateSelf` writes its fields
under a lock that no reader takes, so it is two steps. A token is represented by
the account it was given under. `switched` marks calls that overlapped a change
of account, `reverted` users whose token a send has put back.

### ForwardWS (`server/websocket.go`)

Clients connect to `/`, `/event` or `/api`, join the list after the handshake
and leave it when a write fails. `walk` is the loop of `onBotPushEvent` with its
two indices; `s.mu` is free exactly when no walk is under way. API answers and
events share the client's mutex (`request = "answering"`).

### HttpApi (`server/http.go`, `scf.go`, `modules/api/caller.go`)

`Refusal` is the list of early returns in their order, `CheckAuth` the access
check, `Parameter` where `Get` takes a value from. `runHTTP` and `runLambda`
start the same handler; the latter leaves the spec nil, so that a call panics and
200 is answered with nothing run: a POST at once, a GET where the action is looked
up, behind the rate limiter, so that it has cost a token (`Panic`). `TakeToken` is
the rate limiter, which Weixin mode never asks.

### EventFilter (`modules/filter`)

A compiled filter is what the interface `Filter` shows of it, a function from
payloads (events and the values in them) to whether it lets them pass. `Generate`
makes it of the rules, or is the `Panic` of malformed ones; it calls itself for the values
inside a value, so `Compiled[n]` is what it makes of values with at most `n` levels
inside, from `Compiled[n - 1]`. The reference definition, `Means`, goes the same way
and reads operators and names as `docs/EventFilter.md` does, without compiling. A name
is a path of gjson (`Get`): fields and elements, one inside the other, with nothing at
the end of a path that leaves the event; gjson's wildcards, queries and modifiers are
left out. Whenever a server adds the file or `reload_event_filter` runs, it may have
any of its contents, or the start of one that is being written (`Starts`), of which
gjson makes what it can. For these the documentation promises that the filter stays
off; the code compiles them, and `JudgedByRules` names them as its exception.

### Download (`internal/download`, `coolq/api.go`, `global/fs.go`)

A file's content is, per byte, the version of the resource it came from. Calls
of `download_file` and `FindFile` meet at one path, which is removed, reopened
without truncation and written at offsets. A body or a block may break off (an
error) or end early (none: EOF before `EndOffset`, a lost `Flush`), a block may go to
the wrong place or bring the wrong bytes (`Seek` unchecked, any 2xx taken), and
`WriteToFile` takes an error page for the file. `disturbed`, `misled` and `soiled` are
history: a call that ran beside another or a new version, one that was deceived in
one of the ways just named, and whether anything of this, or a failure, has happened
since the file was last fetched whole. A call is disturbed or misled by name; what is
left is what the partition, the workers and their errors can do, and the cache.

### Segments (`internal/msg`, `coolq/weixin.go`)

Strings are sequences of tokens, fine enough for escapes to arise from pieces.
`ParseString` and `CQCode` are the parser and the printer, `Build` what is sent.
The parser's loops are rounds (`Round`) on what is left of the string, what has been
read, and the element that is open: the header of a code, a key and its value, or the
end of it. A string has no more rounds than tokens, so `ParseString` takes the last of
them. Keys in the order of a map are chosen (`swap`).

### Media (`client.go`)

The items of a message are fetched, decrypted and saved one after the other; a
bad one drops the message and leaves the files; `os.WriteFile` that fails leaves its
file torn (`DropTorn`), also one that was reported under the same name. Padding, key
forms and the 64 MiB read limit are modelled; of the cipher only that the right key
inverts it. An image whose fallback key is no hexadecimal is kept as it came.

### MessageStore, LevelDBCodec (`db/`)

The records of the three kinds of messages, MongoDB's documents, and SQLite's
tables with one action for every statement that may fail. Reads run beside
inserts. Contents pass through YAML in SQLite and BSON in MongoDB, which change the
types of numbers (`YamlValue`, `BsonValue`); the code reads them with `fmt.Sprint`, so
for these two `Same` compares what that makes of them, and types for LevelDB. Strings
are taken to survive both, and contents have no nested slices, as those that
`ToMessageContent` makes have none. `LevelDBCodec` is LevelDB's encoding with its string table and varints;
it is recursive, as the values are, and a module of its own so that one can
reason about `MessageStore`, whose constant `Decoded` stands for what reading
makes of each message's bytes. `MCData` gives it the value that the codec computes.

### QQMessages, QQElements, QQGroups, QQRequests (`coolq/`)

`QQMessages`: the ids of events, notices, answers of sends, stored records and the
quoted ones in them, replies and history, for messages of groups, friends, temporary
sessions and channels, songs and pokes, and the calls that are given an id. Ids are
what they are computed from: a pair, or a plain number where the code passes one on
(`Plain`: a temporary message's, 0 for a poke, -1) or the numbers that a send to a
channel answers (`SentID`). Not among them are the ids of forwarded messages inside a
forward, files and anonymous senders, which name no message of a conversation.
`QQElements`: protocol elements to segments (event and `get_msg`)
and segments to elements, with media caches and the settings that change the
conversion, and the parallel upload, whose
workers replace slots of a slice that is compacted afterwards. `QQGroups`: three
copies of the groups, the server's, the library's and what an application makes
of the notices; ownership does not change while the bot is in a group, groups stand
still while it is out, and a role is an administrator's or not, which is all that
`memberPermissionChangedEvent` tells apart. `QQRequests`: requests, their flags and concurrent answers.

### Servers, FrontEnd, MCData

The modules of 3 and 4 in the plan, elements and filter included, share no state with each other, only data. So
as not to multiply their states, each is a *part* with its own initial states, of
which a behaviour runs one; `Only(p)` keeps the variables of the others fixed. A
property of a part is one of the composition, guarded by `part = ...`. `Servers`
extends `LongPolling`; the other parts are instances. `FrontEnd` is composed of
instances only. `MCServers` gives `Servers` its values. `MCFrontEnd` does the same
for `FrontEnd`, and `MCData` adds `MessageStore` to it as a part. In the same way
`MCPrivateMessages` runs `Segments`, what is written in messages, beside
`PrivateMessages`: one moves only while the other is at its start.


## 4. Runs

| run | checks | bounds |
|---|---|---|
| `session` | memory against file, no refused token again, identity, persistence, cursor, who may drop a live session | 3 logins of 2 accounts, so that a client relogs in to the same and to another account; 2 senders, so that one can be late while the other is early; 1 crash at any step. Senders and same-account tokens are symmetric |
| `session_live` | a revoked session is noticed and a login follows (`LoginRecovers`) | same logins, 1 sender, no crash |
| `dispatch` | handlers done before return, no gaps; dispatches and registrations end (`NobodyWaitsForEver`) | the poller, 1 API goroutine (two sources, of which one can be nested in the other), 2 handlers that register at any time, 1 retry; no bound on events |
| `quick_reply` | *violation*: a quick reply in a POST answer is not sent | 1 handler |
| `contacts` | maps and file agree (`StoreAgrees`), contacts stay known, only sends bring back older tokens | 3 peers of which 2 collide, 2 senders, 2 tokens per peer, 2 faults |
| `latest_token` | *violation*: an older context token replaces a newer one | 1 sender, no fault |
| `inbound` | order, at most once, cursor, refinement of `MessageFlow`; every message is reported | 4 messages, 3 faults: enough for a loss, a repetition and a batch between them |
| `messages` | ids told are found, databases agree, sends are whole, log loses only for named reasons | a call of 2 segments with a media upload, a call and a received message that share an id, one database of each kind, log of 2 entries (fewer than there are appends), 1 crash |
| | what is printed as CQ codes is read back, arrays are sent like strings (`ReadBack`) | messages of 2 segments or elements: texts with every escape, escapes made of pieces and whole codes, in every place; strings that end too early, codes without a key or a value |
| `reverse_ws` | one writer, no leak, stray answers; reconnection and the end of a push (`LossIsOvercome`) | 3 connections (in use, being installed, being forgotten), 2 listeners (old and new), 2 requests, each used again without end |
| `healthy_kept` | *violation*: an old listener closes the new connection | 2 connections, 2 listeners |
| `servers` | long polling: each event once and in order, no sleep beside events without an excuse | 3 requests (one can take another's wake-up while a third sleeps), queue limit 2, 4 events, limits none and 1 |
| | WebSocket server: each subscriber gets the events since it joined (`ReportedToEach`) | 3 clients on any path (first, middle and last of the list), 2 events |
| | HTTP: only admitted calls run, the rate holds, for the server and the cloud function | 2 requests of every method, type, token and well-formedness; bucket 1, 1 refill |
| | download: success means whole | 2 calls of either kind; sizes 8 and 4 with a threshold of 5, so that there are several blocks and one; 2 and 8 threads; 1 block that goes wrong per call, answers and writes that stop at byte 0 or 1 |
| | API calls under one account (`AccountsKeptApart`) | 2 accounts, 1 user, 2 calls, 1 relogin, 1 message: each of the property's three exceptions happens, and it fails without any of them |
| `data` | ids name messages, also those of replies (`IdsName`) | a group, a friend and a channel that all have the same number, 2 messages: one to quote and one that quotes |
| | notices tell what lists show; requests answered once | 1 group, 2 users, 3 changes; 3 requests of which 2 share an id, 3 calls |
| | `get_msg` shows what the event showed; uploads keep the order | 6 messages with every element, 6 to send with every media type and setting, songs, pokes, cards and mentions of all |
| | databases give back what they were given | one message per kind, two of them with one id, numbers of every type that contents have; LevelDB + SQLite and MongoDB |
| | inbound media are what was sent | 4 messages: empty, full-block, over-long, same-named, malformed and keyless items |
| | filter: judged by the last rules that compiled | each operator on a field, nested, negated, joined and in a list, paths of one and two names, missing fields, rules that do not compile, every start of every file; 1 reload at a time |

`CHECK_DEADLOCK` is on in every run unless its cfg says otherwise.

### Fairness

`WeixinSession`: the goroutines run, the disk does not refuse every write, a
request that is repeated for ever is answered some time (strong fairness on the
401 and on the scan); nothing is assumed about senders, revocations, crashes.
`EventDispatch`: goroutines run, a POST ends at the latest with
`http.Client.Timeout` (`Run` raises it to at least 5 s), a send ends with its
30 s context; no event, registration or request need come. `Inbound`: the
poller runs and a server that has messages answers some time.
`ReverseWS`: goroutines run and compete fairly for `wsConn.mu` (Go's mutex does
not starve), heartbeats keep bringing events, a write ends with its 15 s
deadline and does not succeed for ever on a connection that is gone, and the
application accepts a connection some time: without the last the code retries for
ever and holds up every server, because `dispatch` waits.

`servers` and `data` check safety only and switch the deadlock check off: their
inputs are bounded, and a `get_updates` request without a timeout may wait for
ever.

## 5. Proofs

`WeixinSessionProofs` proves, for any tokens, accounts, senders and crash bound,
every safety property of run `session`. The properties are not inductive: that
memory and file agree depends on only the poller logging in, only without a
session (`SingleLogin`), on the token of a login in progress being unknown to
everybody else (`OnlyIssued`, `FreshLogin`), and on what each process in the
middle of an invalidation may still remove (`Snapshots`, `FileInLogin`,
`FileSurvives`, `CursorCustody`, `BufCustody`). `IInv` is their conjunction;
`InitIInv` and `NextIInv` show it inductive and each theorem follows from it.
The only assumption is `SessionAssumption`, that the special values are distinct
from the others.

`EventDispatchProofs` proves `DoneBeforeReturn` and `NoGaps` for any number of
loops, API goroutines, handlers and retries. Neither is inductive: they need
that readers are exactly the sources in `locked` and `wait` (`LockInv`), that
only registered handlers of a waiting source run (`RunInv`), and that nobody has
seen an event before it registered (`SeenInv`). The run bounds these parameters;
the proof does not.

`InboundProofs` proves, for any number of messages and faults, that `Inbound`
implements `MessageFlow` (`PromiseKept`). The argument is that a batch ends at
the cursor received and is taken from the front (`BatchOrder`); that until a
cursor is lost everything reported is covered by the cursor on disk and
everything in hand comes after it (`Covered`, which gives `AtMostOnce`); and that
until anything goes wrong what is in hand starts right after what has been
reported (`Exact`, which gives `CursorNotAhead`). Then every `Dispatch` is a
`Report` of `MessageFlow`, every fault an `Excuse`, and the rest stutters.

`PrivateMessagesProofs` proves `ReportedIdIsFound`, `BackendsAgree`, `SentIsWhole`
and `LogIsFaithful` for any calls, segments, ids, backends, log length and crashes.
The first two
need that every backend an insert has passed knows the id (`PassedInv`), and
that placing a message removes another one only with the same id, so that ids
stay known (`StoreStep`). The third needs that a call's requests are at most one
segment ahead of what has arrived (`SegmentInv`), and that wherever a trace of
it is – the log, an entry list in memory, a database, an answer – all of it has
arrived (`RecordedInv`). The fourth needs that what an actor has read is embedded,
with its own entry, in the history of writes (`OrderInv`), and that as long as
appends do not overlap one actor at most rewrites the log and holds all of it
(`CompleteInv`); trimming a trimmed log after an append trims the whole
(`TrimAppend`).

The same module proves `ReadBack` of `Segments`, that is, of what is written in those
messages, for any texts, elements and arrays. An induction theorem cannot be
instantiated, but induction can be had from a set: if the good strings contain the
empty one and every good string with a token added, they are all strings (`EverySeq`,
from a least counterexample).

* *Escapes*: `FlattenSeq` of images is a function of each element (`Each`) that joins
  as its argument does. `strings.ReplaceAll` distributes over two strings unless what
  is replaced begins in one and ends in the other (`ReplaceJoined`). Texts are
  therefore cut in blocks, one for each character: replacing one code turns its blocks
  back and leaves the others alone (`ReplaceBlocks`), and the replacements in the order
  of the program turn back all of them (`TextUnescaped`, `ValueUnescaped`).
* *Parser*: a printed code holds no `,` or `]` in its values and no start of a code in
  its texts, so each round reads exactly what was printed for it. What remains is
  always the printed form of the elements to come, together with the rest of the
  element that is open, and they and what was read make up the message (`Between`,
  `Within`); each round keeps this (`RoundHeader`, `RoundPair`, `RoundClose`) and
  shortens the string (`Shorter`), so that after as many rounds as tokens nothing is
  left (`LoopRuns`).
  Neighbouring texts run together when they are read, which is why `Seen` compares
  their characters.
* *Arrays*: keys of an element differ, so that `Get` finds the same value in either
  order (`GetReversed`), and what is sent depends on those values only (`AlikeBuilt`).
* `ReadInv` says that what was sent are elements that can be written and what was
  reported is a raw message of its content; `ReadBack` follows.

`ContactStoreProofs` proves `StoreAgrees`, `ObservedStaysKnown` and
`TokenRegressesOnlyThroughSend` for any peers, hash of them, senders and faults.
The file on disk lags behind the maps, so the invariant says what may be in it
(`FileSound`), that the peer of a send under way is known (`PeersKnown`), that no
token is newer than the newest received (`TokensReceived`) and that one is in hand
only on the way to `UpsertContact` (`IdleArg`).

`ReverseWSProofs` proves `OneWriter`, `NothingLeaks` and `AnswerToAsker` for any
connections, listeners and requests: a writer holds `wsConn.mu`
(`WriterHoldsMu`), a connection is dialled only when the old one has been closed
(`OldIsClosed`), nobody has heard of the one being installed (`DialledIsFresh`),
and only requests, which came over some connection, are answered (`AskedHasConn`,
`AskedIdle`).

`ServersProofs` proves every property of run `servers`, first for each part under
that part's own specification, then for `ServersSpec` (`PartsInv`: the invariant
of the part that runs).

* *Long polling*, for any requests, limits and events: the queue is the newest
  events, in order, and every answer older (`QueueIsTail`); what is handed out is
  cut off the front of consecutive numbers.
* *WebSocket server*, for any clients and events: the list is squeezed in place
  while it is walked; at any moment its *places* are those already kept and those
  still ahead. They hold distinct clients (`ListSound`), among them every open
  subscriber (`AllListed`), each of which has received consecutive events
  (`WSReceived`).
* *HTTP API*, for any requests, contents, settings and bucket: what waits, is
  called or has run was admitted when it came (`Handled`), and the limiter's count
  (`Metered`). `Refusal` is turned into what it lets through, case by case, once
  (`CheckAuthByAuth`, `Admission`).
* *API calls*, for any accounts, users and calls: how far the identity has followed
  the session at each step of the poller (`PollerKnows`), and that what a call has
  read since the account last changed is of one account (`CallsSettled`); both are
  needed because no lock covers the reads.
* *Downloads*, for any sizes, thread counts, threshold and callers: an undisturbed
  call is the only one at the file (`Alone`), an idle cache that nothing soiled is
  whole (`Quiet`), and during a call that is not misled every byte is the resource's or belongs to a
  block not yet written (`Progress`, `OnItsWay`). It rests on the arithmetic of the
  partition: `Blocks` covers all bytes, and none beyond, for every size and number
  of threads (`BlocksCover`, with the lemmas on division). Sizes, contents of blocks
  that failed and the places of misplaced ones are arbitrary.

`FrontEndProofs` proves the seven properties of `FrontEnd` in the same way, and the one of
`MessageStore`.

* *Requests*: of the calls about a request that nothing overlaps at most one has it
  in hand, and none once it is answered (`InOneHand`).
* *Inbound media*: a file under a path is of an item that has this path and holds
  what it was sent with, unless it exceeds the limit, its write failed or its key was
  no hexadecimal (`FileSound`), and every segment made so far has its file (`OnDisk`). It needs that `Unpad` undoes
  `Pad`, which is proved for every sequence and block size (`UnpadPad`).
* *Groups*: for every subject – the role of a member, a ban, the pinned message, a
  friend – the last push about it in the queue says what the server has, and where
  none is waiting the application has it already (`RolesFollow`, `BansFollow`,
  `PinsFollow`, `FriendsFollow`). The lemmas say how appending to a queue and
  taking its head keep "the last push about".
* *Messages*: ids tell messages apart, but for a private message and one of a group
  with the sender's number (`Namesakes`); a quoted message is one of three forms, in
  its conversation, of a group from a private one, or by a call (`QuoteSound`);
  and every event, record and call is about a message said, under its id, from
  where its replies resolve (`ReportSound`, `RecordSound`, `CallSound`).
* *Elements read back* (`Shown`), for any messages, caches and files, in a process
  with neither `IgnoreInvalidCQCode` nor `SplitURL`, which leave out and split
  elements; run `data` has these too: an element
  that has been stored as a segment becomes one element again or stays text, and
  that shows as `Kept` allows. This is proved kind by kind (`PlainBecomes`,
  `KnownBecomes`, `OtherBecomes`, `ImageBecomes`). Lists are *choices of places*:
  `Place` numbers the places kept, and choosing keeps their order (`ThoseInOrder`,
  `MovedInOrder`), which takes counting lemmas about finite sets and no induction
  on lists. The invariant is that the last event and record are made of one
  message whose videos are cached (`ShownInv`); without the cache a video, renamed
  when it was reported, would come back as text.
* *Uploads* (`Uploaded`), for any messages to send: each slot has the element it began with
  or what its worker put there (`Slots`), so that what is left after compaction is
  in order (`SentInOrder`), whoever was first; a mention of all is replaced in its
  place.
* *Event filter*, for any rules, events and adders: the filter installed is what
  `Generate` makes of the rules noted, which came from a file or the first items
  of one (`FilterInv`). What it lets pass is what the rules mean: if this holds
  for the values inside (`Agreed`), it does for an object's items (`ItemsAgree`)
  and for each operator (`OperatorAgrees`), unless it panics. The levels are then
  gone through by a least counterexample (`LevelsAgree`, from `WFMin` and the
  well-foundedness of `<`), which takes the place of an induction theorem; that
  `Compiled` and `Means` are the functions their recursive definitions ask for is
  proved in the same way (`CompiledLevels`, `MeansLevels`).

* *Databases*: every table is sound (`TablesSound`: a key, a document, a row, an
  attribute or a name is of a message being inserted), a content read of one has its
  text (`ContentKept`, `QuoteKept`), and complete for what has
  passed it (`Inserting`: past the first backend a message of its kind has its key
  there; before its row is written, attribute and quote are, or are noted as
  lost). A reader's row agrees with one message, attribute by stage
  (`ReadsRowOf`), and the kinds it has yet to try have all that it wants
  (`Trying`). What other actors do in between only adds (`Grows`), so a reader's
  part of the invariant survives it (`ReaderStays`). `StoreKeepsMessages` assumes
  `DecodesWhatWasEncoded` of the codec: a round trip by induction over the values,
  which TLC computes for those of run `data`.

The assumptions are `ServersAssumption`, `FrontEndAssumption`, `StoreAssumption` and
`SegmentsAssumption`. They say of what kind the constants are and that special values are
distinct from the others, with six that have content: every version of a resource has a byte (`Download`); the
numbers of private messages stay below `Wrap`, what a reply may add to them
(`QQMessages`); messages of a kind with one `_id` have one key, both being made of the
number of the place and the message's (`StoreAssumption`); a message from QQ has one
reply at most, which comes first or is to a message in the database, and guilds'
messages, which that does not keep under such ids, reply to each other
(`ReceivedAssumption`); rules have finitely many levels of values inside, as JSON
has (`RulesAssumption`); the types and keys of an array have no character that would end them in a CQ code,
where neither is escaped, and its keys differ, as those of a map do
(`SegmentsAssumption`). Users, groups and channels may share numbers
(`CodesAssumption` only says that the account is not another user): ids are computed
from the number of the place and the message's, and where a group has the number of
a user, the two can have messages with one id, which `Namesakes` names.

The type invariants of the parts of `Servers` other than long polling, and of
those of `FrontEnd`, are the first conjuncts of their invariants; the other proof
modules, and long polling, state theirs as a theorem (`TypeCorrect`).

Model-checked only: the round trip of LevelDB's encoding, on which `StoreKeeps` rests
and which TLC computes for the records of run `data`. `LevelDBCodec` is written with
RECURSIVE operators, after the code's recursion over nested records; what they compute
of every value can only be shown by induction over it. TLAPS has no provers for a
module with RECURSIVE operators, and they cannot instantiate the library's induction
theorems. The detours by which rules and texts are treated – a recursive function over
levels, induction on sets – would have to be made for a scanner of bytes and a table
of strings that grows while it is written.

Liveness (`LoginRecovers`, `NobodyWaitsForEver`, `EveryMessageReported`,
`LossIsOvercome`) is only model-checked: TLAPS does not treat fairness and
ENABLED.

## 6. Findings

* `quick_reply`: `HTTPClient.onBotPushEvent` passes the application's answer to
  `CQHandleQuickOperation`, the QQ implementation, although the Weixin mode has
  its own `weixinHandleQuickOperation` behind the API. The former uses
  `bot.Client`, which is nil; the panic is recovered in `dispatch`, and the reply
  that `docs/weixin_api_matrix.md:25` promises is dropped.
* `latest_token`: a send stores the context token it read earlier; if a message
  with a newer token was recorded in between, the contact goes back to the older
  one, against the comment at `coolq/weixin.go:167`.
* `healthy_kept`: the deferred `Close` of a Universal listener closes whatever
  connection the `wsConn` has after the pause, the new one if the reconnection
  was quicker (narrow window, see `PROJECT.json`), although the listener is
  meant to leave the connection to `onBotPushEvent` (`server/websocket.go:333`).

Met while modelling, and stated in the properties as named exceptions or in the
modules' comments; no text of the repository says otherwise:

* A collector that is quicker than its own request gives up as if it had timed
  out (`server/middlewares.go:82`); a request without a timeout then hangs.
* Rate limiter and long polling are never asked in Weixin mode
  (`modules/api/caller.go:30`). A server in a cloud function has no spec: each
  call panics and is answered 200 with nothing. A malformed form is answered 400
  and run all the same; a cloud function's call that panics has cost a token if the
  rate is limited. A rules file read half-written is accepted if what is there
  compiles, and filters events by a part of the rules; `docs/EventFilter.md:3` says
  that a syntax error leaves the filter off.
* `raw_message` of Weixin events does not escape texts; a quoted text is cut at 64
  bytes, if need be inside a character; media beyond 64 MiB are cut without an
  error (`client.go:839`, `1070`).
* `FindFile` gives out whatever is in the cache, also what a failed or running
  download has left (`global/fs.go:86`); a `thread_count` so large that the block
  size is not positive makes `download_file` loop for ever; a short block, a lost
  `Flush` and an error page are reported as success.
* A failed save of an inbound file truncates an earlier one of its name; an image
  whose fallback key is malformed is kept encrypted.
* SQLite writes the attributes of a guild's message to one table and reads them
  from another (always nil); a message whose attribute is nil makes `get_msg`
  panic. YAML and BSON give back other number types than were stored.
* A message to a temporary session is sent and answered as failed. Group history
  and forwarded messages are stored with the source `private/0`, so that their
  replies get other ids. Temporary messages carry their bare number as an id, and a
  send to a channel answers with other numbers than its notices carry. Changes of pinned messages by the own account are not
  reported. `get_msg` shows a mention of all as text and may drop a second mention
  after a reply.

## 7. Not modelled

* *QQ login and sign servers, configuration, terminal, self update, diagnostics,
  daemon, generated tables*: never started or start-up I/O, without state worth
  checking.
* *Read-only Weixin actions* other than `get_login_info` (`get_msg`,
  `get_friend_list`, `get_stranger_info`, `get_status` and constants): each is one
  read of state that `ContactStore`, `PrivateMessages` and `WeixinSession` keep.
* *QQ groups*: names, cards, titles, honours, files, boards and guild
  administration are single calls to the protocol library. *OneBot 12* differs in
  names of segments and is off in Weixin mode.
* *Reverse WebSocket clients of the types API and Event*, and *heartbeat events*,
  which are further sources of `dispatch` like the poller.
* *Hash functions*: contact and message ids are an arbitrary function of what they
  are computed from where collisions matter (`ContactStore`, `PrivateMessages`) and
  that data itself elsewhere. *Ciphers* are taken to be inverted by the right key.
* A torn Go string (the unsynchronised read of a context token) is modelled as the
  old or the new value.
* One hazard has no property: media fetched from a URL for sending are never
  removed from the temporary directory, and nothing promises that they are.
