----------------------------- MODULE QQMessages -----------------------------
(***************************************************************************)
(* What message ids mean in the QQ front end: the ids that events and      *)
(* answers carry (coolq/event.go, bot.go), the records kept under them,    *)
(* and the calls of coolq/api.go that are given one.                       *)
(*                                                                         *)
(* A message has a place <<type, code>>, a sender and a sequence number.   *)
(* Groups number their messages, an account numbers those it sends to      *)
(* friends.  The 32-bit checksum of an id is left out: an id is what it is *)
(* computed from, with its form.                                           *)
(***************************************************************************)
EXTENDS Integers, FiniteSets, TLC

CONSTANTS Self, Users, Groups, Channels,
          GroupSeqs, PrivateSeqs,
          Wrap,                   \* 2^16: private numbers stay below it
          MaxSaid,                \* bound on the messages of a run
          AllowTempSession, ReportSelfMessage,   \* settings of these names
          None

SeqsAssumption ==
    Wrap \in Nat \ {0} /\ GroupSeqs \subseteq Nat /\ PrivateSeqs \subseteq 0..(Wrap - 1)

\* A group, a channel and an account may have the same number.
CodesAssumption == Self \notin Users

VARIABLES
    friends,   \* users who are friends
    sessions,  \* tempSessionCache: users with a temporary session
    said,      \* messages at the server
    reported,  \* ids that events and answers carried, with their message and reply id
    db,        \* StoredGroupMessage and StoredPrivateMessage
    did        \* the last call: its id and the message it acted on

vars == <<friends, sessions, said, reported, db, did>>

Key(m) == [in |-> m.in, from |-> m.from, seq |-> m.seq]

Codes == Users \cup {Self} \cup Groups \cup Channels
Keys == [in : {"group", "private", "temp", "guild"} \X Codes, from : Codes,
         seq : GroupSeqs \cup PrivateSeqs]
NoneAssumption == None \notin Codes \cup Keys

OneToOne(in) == in[1] \in {"private", "temp"}

\* What a reply element has of the message it quotes.  The number of a private
\* message may come with more in its upper half; group is 0 (None), the friend
\* for some accounts, or the group where a private reply was made to a message.
ReplyElements(in, from) ==
    {None} \cup UNION {
        LET Element(seqs, groups) == {[of |-> Key(q), sender |-> q.from, seq |-> s, group |-> g] :
                                         s \in seqs, g \in groups}
        IN IF q.in = in /\ OneToOne(in) THEN Element({q.seq, q.seq + Wrap}, {None, from})
           ELSE IF q.in = in THEN Element({q.seq}, {None, in[2]})
           ELSE IF OneToOne(in) /\ q.in[1] = "group" THEN Element({q.seq}, {q.in[2]})
           ELSE {}
        : q \in said}

-----------------------------------------------------------------------------
(* Ids.                                                                    *)

ToGlobalID(code, seq) == <<"global", code, seq>>

\* An id that is a number as it is: -1 for what failed, 0, a message's own.
Plain(n) == <<"plain", None, n>>
Failed == Plain(-1)

\* encodeGuildMessageID has guild, channel and number, and is its own inverse.
GuildID(channel, seq) == <<"guild", channel, seq>>

\* SendGuildChannelMessage answers with the numbers of the message alone.
SentID(seq) == <<"sent", None, seq>>

\* Mutant: the number of a private message is taken as it comes.
ReplyIDUncut(r, source) ==
    IF r = None THEN None
    ELSE IF source[1] = "private" /\ (r.sender = source[2] \/ r.group \in {source[2], None})
    THEN ToGlobalID(r.sender, r.seq)
    ELSE ToGlobalID(IF r.group = None THEN source[2] ELSE r.group, r.seq)

ReplyID(r, source) ==
    IF r = None THEN None
    ELSE IF source[1] = "private" /\ (r.sender = source[2] \/ r.group \in {source[2], None})
    THEN ToGlobalID(r.sender, r.seq % Wrap)
    ELSE ToGlobalID(IF r.group = None THEN source[2] ELSE r.group, r.seq)

\* Mutant: an id is made of the conversation in every case.
CodeOfPlace(m) == m.in[2]

Code(m) == IF m.in[1] = "private" THEN m.from ELSE m.in[2]
IdOf(m) == IF m.in[1] = "guild" THEN GuildID(m.in[2], m.seq) ELSE ToGlobalID(Code(m), m.seq)

\* PrevGlobalID has the number as it comes.
PrevID(m) ==
    IF m.re = None \/ m.in[1] = "guild" THEN None
    ELSE ToGlobalID(IF m.in[1] = "private" THEN m.re.sender ELSE m.in[2], m.re.seq)

\* InsertGroupMessage, InsertPrivateMessage, InsertGuildChannelMessage, with
\* the source that replies are resolved in; what they replace had the same id.
\* SessionUin is the other end of a private conversation, as m.in[2] is.
Record(m, source) == [id |-> IdOf(m), kind |-> m.in[1], code |-> m.in[2], from |-> m.from,
                      seq |-> m.seq, of |-> IF m.re = None THEN None ELSE m.re.of,
                      reply |-> ReplyID(m.re, source), prev |-> PrevID(m), source |-> source]
Inserted(store, m, source) == {r \in store : r.id # IdOf(m)} \cup {Record(m, source)}

Report(id, m, reply) == reported' = reported \cup {[id |-> id, msg |-> Key(m), reply |-> reply,
                                        re |-> IF reply = None THEN None ELSE m.re]}

\* A database that fails gives the id -1.
Store(m, source, reply) ==
    \/ db' = Inserted(db, m, source) /\ Report(IdOf(m), m, reply)
    \/ db' = db /\ Report(Failed, m, reply)

-----------------------------------------------------------------------------
(* Events.  One may come any time after its message, and more than once.   *)

Said(m) == Cardinality(said) < MaxSaid /\ said' = said \cup {m}

\* Someone, or the account on another device, says something.
Say(in, from) ==
    /\ \E s \in IF OneToOne(in) THEN PrivateSeqs ELSE GroupSeqs, re \in ReplyElements(in, from) :
          /\ \A m \in said : m.seq # s \/ (IF OneToOne(in) THEN m.in[1] # in[1] \/ m.from # from
                                      ELSE m.in # in)
          /\ Said([in |-> in, from |-> from, seq |-> s, re |-> re])
    /\ UNCHANGED <<friends, sessions, reported, db, did>>

PrivateMessageEvent(m) ==
    /\ m.in[1] = "private" /\ (m.from = Self => ReportSelfMessage)
    /\ Store(m, <<"private", m.from>>, ReplyID(m.re, <<"private", m.from>>))
    /\ UNCHANGED <<friends, sessions, said, did>>

\* A sender who is not found among the members is not reported.
GroupMessageEvent(m) ==
    /\ m.in[1] = "group" /\ (m.from = Self => ReportSelfMessage)
    /\ \/ Store(m, m.in, ReplyID(m.re, m.in))
       \/ db' = Inserted(db, m, m.in) /\ UNCHANGED reported
    /\ UNCHANGED <<friends, sessions, said, did>>

\* A temporary message is not stored; its id is its number as it is.
TempMessageEvent(m) ==
    /\ m.in[1] = "temp"
    /\ sessions' = IF AllowTempSession THEN sessions \cup {m.from} ELSE sessions
    /\ Report(Plain(m.seq), m, ReplyID(m.re, <<"private", m.from>>))
    /\ UNCHANGED <<friends, said, db, did>>

\* A guild's replies are not reported; they are stored by the sender's id.
GuildChannelMessageEvent(m) ==
    /\ m.in[1] = "guild"
    /\ Store(m, <<"guild", m.from>>, None)
    /\ UNCHANGED <<friends, sessions, said, did>>

Notice(id, m) ==
    /\ Report(id, m, None)
    /\ UNCHANGED <<friends, sessions, said, db, did>>

GroupRecallEvent(m) == m.in[1] = "group" /\ Notice(ToGlobalID(m.in[2], m.seq), m)

\* Of a message that someone else pinned or unpinned.
GroupEssenceMsg(m) == m.in[1] = "group" /\ Notice(ToGlobalID(m.in[2], m.seq), m)

\* A friend recalled a message.
FriendRecallEvent(m) ==
    m.in[1] = "private" /\ m.from # Self /\ Notice(ToGlobalID(m.in[2], m.seq), m)

GuildChannelMessageRecalledEvent(m) == m.in[1] = "guild" /\ Notice(IdOf(m), m)

GuildMessageReactionsUpdatedEvent(m) == m.in[1] = "guild" /\ Notice(IdOf(m), m)

FriendAddedEvent(u) ==
    /\ friends' = friends \cup {u}
    /\ sessions' = sessions \ {u}
    /\ UNCHANGED <<said, reported, db, did>>

-----------------------------------------------------------------------------
(* Calls.                                                                  *)

Did(id, on) == did' = [id |-> id, on |-> on]

\* reply() resolves an id in the database.
ReplyTo(rec) == IF rec = None THEN None
                ELSE [of |-> [in |-> <<rec.kind, rec.code>>, from |-> rec.from, seq |-> rec.seq],
                      sender |-> rec.from, seq |-> rec.seq, group |-> None]

Numbered(in) == IF in[1] = "private" THEN PrivateSeqs \ {m.seq : m \in {n \in said : n.in[1] = "private" /\ n.from = Self}}
                ELSE GroupSeqs \ {m.seq : m \in {n \in said : n.in = in}}

Quotable == {r \in db : r.kind # "guild"} \cup {None}

\* A poke is no message, and the answer is 0.
Poke ==
    /\ Did(Plain(0), None)
    /\ UNCHANGED <<friends, sessions, said, reported, db>>

\* SendGroupMessage, and CQSendGroupForwardMessage, which stores the message as
\* if it were private; a blocked message fails.
SendGroup(g, rec, forward) ==
    LET in == <<"group", g>> IN
    \/ \E s \in Numbered(in) :
          LET m == [in |-> in, from |-> Self, seq |-> s, re |-> ReplyTo(rec)] IN
          /\ Said(m)
          /\ Store(m, IF forward THEN <<"private", None>> ELSE in, None)
          /\ Did(IdOf(m), Key(m))
          /\ UNCHANGED <<friends, sessions>>
    \/ /\ Did(Failed, None)
       /\ UNCHANGED <<friends, sessions, said, reported, db>>

\* Music to a friend: sent or not, the answer is 0, and nothing is stored.
SendFriendMusicShare(u) ==
    /\ \/ UNCHANGED <<said, reported>> /\ Did(Plain(0), None)
       \/ \E s \in Numbered(<<"private", u>>) :
             LET m == [in |-> <<"private", u>>, from |-> Self, seq |-> s, re |-> None] IN
             Said(m) /\ Report(Plain(0), m, None) /\ Did(Plain(0), Key(m))
    /\ UNCHANGED <<friends, sessions, db>>

\* SendPrivateMessage.  What goes through a temporary session is not stored,
\* and the caller is told that it failed; who is neither may be a friend one way.
SendPrivate(u, rec) ==
    LET in == <<"private", u>>
        ToFriend == \E s \in Numbered(in) :
            LET m == [in |-> in, from |-> Self, seq |-> s, re |-> ReplyTo(rec)] IN
            /\ Said(m) /\ Store(m, in, None)
            /\ Did(IdOf(m), Key(m))
            /\ UNCHANGED <<friends, sessions>>
        Temporary == u \in sessions /\ Did(Failed, None)
                     /\ UNCHANGED <<friends, sessions, said, reported, db>>
        Refused == Did(Failed, None) /\ UNCHANGED <<friends, sessions, said, reported, db>>
    IN IF u \in friends THEN ToFriend \/ Refused
       ELSE IF u \in sessions THEN (AllowTempSession /\ Temporary) \/ Refused
       ELSE ToFriend \/ Refused

\* SendGuildChannelMessage stores nothing, and answers a music share with -1.
SendGuild(c) ==
    \/ \E s \in Numbered(<<"guild", c>>) : \E id \in {SentID(s), Failed} :
          LET m == [in |-> <<"guild", c>>, from |-> Self, seq |-> s, re |-> None] IN
          /\ Said(m) /\ Report(id, m, None) /\ Did(id, Key(m))
          /\ UNCHANGED <<friends, sessions, db>>
    \/ Did(Failed, None) /\ UNCHANGED <<friends, sessions, said, reported, db>>

\* The message a record names.
On(rec) == [in |-> <<rec.kind, rec.code>>, from |-> rec.from, seq |-> rec.seq]

Use(rec) ==
    /\ Did(rec.id, On(rec))
    /\ UNCHANGED <<friends, sessions, said, reported, db>>

\* CQGetMessage.
GetMessage(rec) == rec.kind # "guild" /\ Use(rec)

\* CQGetGuildMessage reads the database, or stores what the server has of the
\* message whose guild, channel and number the id is made of.
GetGuildMessage(rec) == rec.kind = "guild" /\ Use(rec)

PullGuildMessage(e) ==
    /\ e.id[1] = "guild"
    /\ \E m \in said :
          /\ IdOf(m) = e.id
          /\ db' \in {db, Inserted(db, m, <<"guild", m.from>>)}
          /\ Did(e.id, Key(m))
    /\ UNCHANGED <<friends, sessions, said, reported>>

\* A node of uploadForwardElement that has nothing but the id of a message.
ForwardNode(rec) == rec.kind # "guild" /\ Use(rec)

\* CQSetEssenceMessage, CQDeleteEssenceMessage.
EssenceMessage(rec) == rec.kind = "group" /\ Use(rec)

MarkMessageAsRead(rec) == rec.kind # "guild" /\ Use(rec)

\* CQDeleteMessage; the private message of another is not recalled.
DeleteMessage(rec) ==
    /\ rec.kind = "group" \/ (rec.kind = "private" /\ rec.from = Self)
    /\ Use(rec)

\* CQHandleQuickOperation: the message of the event, or what answers it.
QuickOperation(e) ==
    \/ e.msg.in[1] = "group" /\ \E rec \in db : rec.id = e.id /\ DeleteMessage(rec)
    \/ e.msg.in[1] = "group" /\ SendGroup(e.msg.in[2], None, FALSE)
    \/ OneToOne(e.msg.in) /\ e.msg.from # Self /\ SendPrivate(e.msg.from, None)

\* CQGetGroupMessageHistory stores messages again, as if they were private; it
\* ends with a panic at one whose sender is no longer among the members.
History(g, ms) ==
    /\ ms # {} /\ \A m \in ms : m.in = <<"group", g>>
    /\ db' = {r \in db : r.id \notin {IdOf(m) : m \in ms}}
             \cup {Record(m, <<"private", None>>) : m \in ms}
    /\ \/ UNCHANGED reported
       \/ reported' = reported \cup {[id |-> IdOf(m), msg |-> Key(m), reply |-> ReplyID(m.re, m.in),
                                      re |-> m.re] : m \in ms}
    /\ UNCHANGED <<friends, sessions, said, did>>

-----------------------------------------------------------------------------
Init ==
    /\ friends \in SUBSET Users
    /\ sessions = {} /\ said = {} /\ reported = {} /\ db = {}
    /\ did = [id |-> Failed, on |-> None]

Next ==
    \/ \E g \in Groups, u \in Users \cup {Self} : Say(<<"group", g>>, u)
    \/ \E u \in Users : Say(<<"private", u>>, u) \/ Say(<<"private", u>>, Self)
    \/ \E u \in Users : Say(<<"temp", u>>, u)
    \/ \E c \in Channels, u \in Users : Say(<<"guild", c>>, u)
    \/ \E m \in said : PrivateMessageEvent(m)
    \/ \E m \in said : GroupMessageEvent(m)
    \/ \E m \in said : GuildChannelMessageEvent(m)
    \/ \E m \in said : GroupRecallEvent(m) \/ GroupEssenceMsg(m)
    \/ \E m \in said : FriendRecallEvent(m)
    \/ \E m \in said : GuildChannelMessageRecalledEvent(m) \/ GuildMessageReactionsUpdatedEvent(m)
    \/ \E m \in said : TempMessageEvent(m)
    \/ \E u \in Users : FriendAddedEvent(u)
    \/ \E g \in Groups, rec \in Quotable, f \in BOOLEAN : SendGroup(g, rec, f)
    \/ \E u \in Users, rec \in Quotable : SendPrivate(u, rec)
    \/ \E u \in Users : SendFriendMusicShare(u)
    \/ \E c \in Channels : SendGuild(c)
    \/ Poke
    \/ \E rec \in db : GetMessage(rec)
    \/ \E rec \in db : GetGuildMessage(rec)
    \/ \E e \in reported : PullGuildMessage(e)
    \/ \E rec \in db : ForwardNode(rec)
    \/ \E rec \in db : EssenceMessage(rec)
    \/ \E rec \in db : MarkMessageAsRead(rec)
    \/ \E rec \in db : DeleteMessage(rec)
    \/ \E e \in reported : QuickOperation(e)
    \/ \E g \in Groups, ms \in SUBSET said : History(g, ms)

Spec == Init /\ [][Next]_vars

-----------------------------------------------------------------------------
\* An id under which a call finds a message, as it does not under -1, 0, the
\* plain number of a temporary message or what a send to a channel answers.
Usable(id) == id[1] \in {"global", "guild"}

\* A private message and one of a group whose number is the sender's, with the
\* same number.
Homonymous(a, b) == a.in[1] = "private" /\ b.in = <<"group", a.from>> /\ a.seq = b.seq
Namesakes(a, b) == a = b \/ Homonymous(a, b) \/ Homonymous(b, a)

\* Ids name messages: events and answers that carry the same usable id are about
\* the same message and those about one message carry one usable id, whoever
\* reported it, and a call that is given an id acts on the message that was
\* reported with it.  Excepted by name: a private message whose sender's number
\* and own are those of a group and its message, and ids of no use, which are
\* those of failed inserts, temporary messages and the account's own music and
\* messages to channels.
IdsNameMessages ==
    LET Told == {e \in reported : Usable(e.id)} IN
    /\ \A a, b \in Told : a.id = b.id => Namesakes(a.msg, b.msg)
    /\ \A a, b \in Told : a.msg = b.msg => a.id = b.id
    /\ \A a \in Told : did.id = a.id => Namesakes(did.on, a.msg)
    /\ \A a \in reported \ Told :
          a.id = Failed \/ a.msg.in[1] = "temp" \/ (a.msg.from = Self /\ a.msg.in[1] # "group")

\* The id of a reply is the id that the quoted message was reported with, in
\* events, in what get_msg reads back and in what is stored as the quoted id.
\* Excepted by name: a private answer to a friend's own group message or to one
\* of a group that has the friend's number, a reply to a message of another
\* conversation, messages stored again from the history of their group or
\* forwarded, and the stored id of a private number that came with an upper half.
RepliesNameTheQuoted ==
    \A b \in {e \in reported : Usable(e.id)} :
        /\ \A a \in reported : (a.re # None /\ a.re.of = b.msg) =>
              \/ a.reply = b.id
              \/ /\ a.msg.in # b.msg.in
                 /\ a.msg.from = b.msg.from \/ a.re.group \in {None, a.msg.from}
        /\ \A r \in db : (r.of = b.msg /\ r.kind # "guild") =>
              \/ b.msg.in # <<r.kind, r.code>>
              \/ /\ r.reply = b.id \/ r.source = <<"private", None>>
                 /\ r.prev = b.id \/ (r.kind = "private" /\ r.prev[3] >= Wrap)
=============================================================================
