----------------------------- MODULE QQElements -----------------------------
(***************************************************************************)
(* Message elements of the QQ front end (coolq/cqcode.go, and the parts of *)
(* bot.go and event.go that handle media): what an event shows of a        *)
(* message, what the database keeps, what get_msg makes of that later, and *)
(* the upload of the media of an outgoing message.                         *)
(*                                                                         *)
(* An element is [k, v, x]: its kind, its main value and the rest of it.   *)
(* A segment is [type, data], data a function from keys to values.  A file *)
(* is <<scheme, name>>, scheme being "hash" for <md5>.image and .video.  A *)
(* text is a list of words.                                                *)
(***************************************************************************)
EXTENDS Naturals, Sequences, FiniteSets, SequencesExt

CONSTANTS Received,       \* list of messages from QQ: [source, elems]
          Outgoing,       \* list of messages given to the API: [source, segs]
          KnownReplies,   \* messages in the database: from ids to [sender, in], in being
                          \* the kind of their conversation
          Readable,       \* files that can be read and are what they claim to be,
                          \* texts the server speaks and songs that are found
          Split,          \* texts with addresses in them, and what SplitURL makes of them
          SettingsOf,     \* the settings that processes have
          RemoveReplyAt,  \* the setting of this name
          None

Kinds == {"text", "lightapp", "at", "redbag", "forward", "face", "sticker", "voice",
          "video", "groupimage", "friendimage", "guildimage", "dice", "rps",
          "marketface", "xml", "jsonservice", "file", "reply"}
Images == {"groupimage", "friendimage", "guildimage"}
Local == {"localimage", "localvideo", "voice"}

E(k, v, x) == [k |-> k, v |-> v, x |-> x]

VARIABLES
    settings, \* those of IgnoreInvalidCQCode and SplitURL that are on
    client,   \* there is a QQ client; without one the program is in Weixin mode
    cached,   \* what cache.Image and cache.Video have: <<"image" or "video", md5>>
    fetched,  \* files of VoicePath and of guild-images
    remote,   \* what the server still has: <<"image" or "forward", name>>
    got,      \* the last message received: source, what was reported and stored
    shown,    \* what get_msg made of it
    job,      \* the message being sent
    down      \* the process has crashed

vars == <<settings, client, cached, fetched, remote, got, shown, job, down>>

-----------------------------------------------------------------------------
(* toElements and ToMessageContent.                                        *)

Pair(key, v) == [k \in {key} |-> v]
Nothing == [k \in {} |-> None]
Both(f, g) == [k \in DOMAIN f \cup DOMAIN g |-> IF k \in DOMAIN f THEN f[k] ELSE g[k]]
SegmentOf == [text |-> <<"text", "text">>, lightapp |-> <<"json", "data">>,
              redbag |-> <<"redbag", "title">>, forward |-> <<"forward", "id">>,
              face |-> <<"face", "id">>, sticker |-> <<"face", "id">>,
              voice |-> <<"record", "file">>, video |-> <<"video", "file">>,
              groupimage |-> <<"image", "file">>, friendimage |-> <<"image", "file">>,
              guildimage |-> <<"image", "file">>, localimage |-> <<"image", "file">>,
              dice |-> <<"dice", "value">>, rps |-> <<"rps", "value">>,
              marketface |-> <<"text", "text">>, xml |-> <<"xml", "data">>,
              jsonservice |-> <<"json", "data">>, file |-> <<"file", "path">>,
              reply |-> <<"reply", "id">>, at |-> <<"at", "qq">>]

\* x of a medium is its URL, of an image <<URL, type, ImageBizType>>, its type
\* being "flash", "show" (with an effect) or None, of a service element
\* <<Id, ResId>>, of a file the rest of its data.
Extra(e) ==
    CASE e.k = "sticker"            -> Pair("type", "sticker")
      [] e.k \in {"voice", "video"} -> Pair("url", e.x)
      [] e.k \in Images \cup {"localimage"} ->
            Both(Pair("url", e.x[1]),
                 Both(IF e.x[2] = None THEN Nothing ELSE Pair("type", e.x[2]),
                      IF e.k = "groupimage" THEN Pair("subType", e.x[3]) ELSE Nothing))
      [] e.k \in {"xml", "jsonservice"} -> Pair("resid", e.x[2])
      [] e.k = "file"               -> Pair("name", e.x)
      [] OTHER                      -> Nothing

Segment(e) ==
    [type |-> SegmentOf[e.k][1], data |-> Both(Pair(SegmentOf[e.k][2], e.v), Extra(e))]

\* The place that i has among keep, and the elements of es at the places of
\* keep, in their order.
Place(keep, i) == Cardinality({h \in keep : h <= i})
Those(es, keep) ==
    [n \in 1..Cardinality(keep) |-> es[CHOOSE i \in keep : Place(keep, i) = n]]

Replies(es) == {i \in DOMAIN es : es[i].k = "reply"}
First(places) == CHOOSE i \in places : \A j \in places : i <= j

\* A mention right after the reply is dropped for good, if so configured.
Dropped(es) ==
    {i \in DOMAIN es : /\ RemoveReplyAt /\ i > 1
                       /\ es[i].k = "at" /\ es[i - 1].k = "reply" /\ es[i].v = es[i - 1].x}
DropAt(es) == Those(es, DOMAIN es \ Dropped(es))

\* The reply comes first; what is not in SegmentOf is left out.
ToElements(es, source) ==
    LET rest == Those(es, {i \in DOMAIN es \ Replies(es) : es[i].k \in DOMAIN SegmentOf})
        list == IF Replies(es) = {} \/ source = "guild" THEN rest
                ELSE <<es[First(Replies(es))]>> \o rest
    IN [i \in DOMAIN list |-> Segment(list[i])]

\* Mutant: the target of a mention is stored under the key of the event.
ContentAtQQ(e) ==
    CASE e.k = "at" -> [type |-> "at", data |-> Both(Pair("subType", "user"), Pair("user", e.v))]
      [] e.k \in {"xml", "jsonservice"} ->
            [type |-> SegmentOf[e.k][1], data |-> Both(Pair("data", e.v), Pair("resid", e.x[1]))]
      [] OTHER -> Segment(e)

Content(e) ==
    CASE e.k = "at" -> [type |-> "at", data |-> IF e.v = "all" THEN Pair("subType", "all")
                                                ELSE Both(Pair("subType", "user"),
                                                          Pair("target", e.v))]
      [] e.k \in {"xml", "jsonservice"} ->
            [type |-> SegmentOf[e.k][1], data |-> Both(Pair("data", e.v), Pair("resid", e.x[1]))]
      [] OTHER -> Segment(e)

ToMessageContent(es) ==
    LET list == Those(es, {i \in DOMAIN es : es[i].k \in Kinds}) IN
    [i \in DOMAIN list |-> Content(list[i])]

-----------------------------------------------------------------------------
(* ConvertElements: a segment becomes a list of elements, or fails.        *)

Value(seg, key) == IF key \in DOMAIN seg.data THEN seg.data[key] ELSE None
Fails == <<>>

ImageKind(source) == IF source = "group" THEN "groupimage"
                     ELSE IF source = "guild" THEN "guildimage" ELSE "friendimage"

\* makeImageOrVideoElem and readImageCache for an image.  An image the server
\* no longer knows is fetched from its URL, if it has one; of a guild's there
\* may be a copy.
Fetched(f, url) == IF f \in Readable THEN <<E("localimage", f, <<url, None, 0>>)>> ELSE Fails

ImageElement(seg, source) ==
    LET f == Value(seg, "file")
        url == Value(seg, "url")
    IN IF f[1] # "hash" THEN Fetched(f, f)
       ELSE IF source = "guild" /\ f \in fetched
            THEN <<E("localimage", <<"path", f[2]>>, <<None, None, 0>>)>>
       ELSE IF <<"image", f>> \in cached \cap remote
            THEN <<E(ImageKind(source), f, <<url, None, 0>>)>>
       ELSE IF url = None THEN Fails ELSE Fetched(url, url)

\* What has no type is returned before its subType is read; of an image fetched
\* again, and of a friend's, toElements shows no effect.
Typed(seg, es) ==
    LET type == Value(seg, "type")
        biz == Value(seg, "subType")
    IN IF es = Fails \/ type \notin {"flash", "show"} THEN es
       ELSE IF es[1].k = "groupimage"
            THEN <<[es[1] EXCEPT !.x = <<@[1], type, IF biz = None THEN 0 ELSE biz>>]>>
       ELSE IF es[1].k # "guildimage" /\ type = "flash"
            THEN <<[es[1] EXCEPT !.x = <<@[1], type, @[3]>>]>>
       ELSE es

\* readVideoCache gives the name the sender gave the video, not <md5>.video.
VideoElement(seg) ==
    LET f == Value(seg, "file") IN
    IF f[1] = "hash" THEN IF <<"video", f>> \in cached THEN <<E("video", <<"name", f[2]>>, None)>>
                          ELSE Fails
    ELSE IF f \in Readable THEN <<E("localvideo", f, None)>> ELSE Fails

VoiceElement(seg) ==
    LET f == Value(seg, "file") IN
    IF f \in fetched \cup Readable THEN <<E("voice", None, None)>> ELSE Fails

Mention(seg) ==
    LET target == IF Value(seg, "qq") # None THEN Value(seg, "qq") ELSE Value(seg, "target") IN
    IF target = None THEN Fails ELSE <<E("at", target, None)>>

\* makeShowPic uploads the image at once, to a group or a friend; a guild's image,
\* and one that cannot be uploaded (it is not Readable), makes no card.
Card(seg, source) ==
    LET image == ImageElement(seg, source) IN
    IF image = Fails \/ image[1].k = "guildimage" THEN Fails
    ELSE <<E(IF source = "group" THEN "groupimage" ELSE "friendimage", image[1].v, image[1].x),
           E("xml", "card", <<5, None>>)>>

Service(seg) ==
    LET data == Value(seg, "data")
        resid == Value(seg, "resid")
    IN IF seg.type = "xml" THEN <<E("xml", data, <<resid, None>>)>>
       ELSE IF resid = None THEN <<E("lightapp", data, None)>>
       ELSE <<E("jsonservice", data, <<1, None>>)>>

\* The database has no group of the quoted message, so that in a conversation of
\* another kind the reply gets an id that is made of the sender.
Reply(seg, source) ==
    LET id == Value(seg, "id")
        known == KnownReplies[id]
    IN IF Value(seg, "text") # None
       THEN IF id = None /\ Value(seg, "qq") = None THEN Fails
            ELSE <<E("reply", id, Value(seg, "qq"))>>
       ELSE IF id \notin DOMAIN KnownReplies THEN Fails
       ELSE <<E("reply", IF known.in = source THEN id ELSE <<known.sender, id>>, known.sender)>>

\* A song of one's own without a subtype is a service element.
Music(seg) ==
    LET song == <<"song", Value(seg, "id")>> IN
    CASE Value(seg, "type") \in {"qq", "163"} /\ song \in Readable -> <<E("music", song, None)>>
      [] Value(seg, "type") = "custom" ->
            IF Value(seg, "subtype") = None THEN <<E("xml", "song", <<60, None>>)>>
            ELSE <<E("music", song, None)>>
      [] OTHER -> Fails

Thrown(seg, most) ==
    IF Value(seg, "value") \in 0..most THEN <<E(seg.type, Value(seg, "value"), None)>> ELSE Fails

Texts(seg) ==
    LET text == Value(seg, "text")
        parts == IF "SplitURL" \in settings /\ text \in DOMAIN Split THEN Split[text] ELSE <<text>>
    IN [n \in DOMAIN parts |-> E("text", parts[n], None)]

Convert(seg, source) ==
    LET id == Value(seg, "id") IN
    CASE seg.type = "text"    -> Texts(seg)
      [] seg.type = "at"      -> Mention(seg)
      [] seg.type = "record"  -> VoiceElement(seg)
      [] seg.type = "tts"     -> IF <<"tts", Value(seg, "text")>> \in Readable
                                 THEN <<E("voice", None, None)>> ELSE Fails
      [] seg.type = "image"   -> Typed(seg, ImageElement(seg, source))
      [] seg.type = "cardimage" -> Card(seg, source)
      [] seg.type = "video"   -> VideoElement(seg)
      [] seg.type = "reply"   -> Reply(seg, source)
      [] seg.type = "forward" -> IF <<"forward", id>> \in remote THEN <<E("forward", id, None)>>
                                 ELSE Fails
      [] seg.type = "face"    -> <<E(IF Value(seg, "type") = "sticker" THEN "sticker" ELSE "face",
                                     id, None)>>
      [] seg.type = "dice"    -> Thrown(seg, 6)
      [] seg.type = "rps"     -> Thrown(seg, 2)
      [] seg.type \in {"xml", "json"} -> Service(seg)
      [] seg.type = "share"   -> <<E("xml", "share", <<33, None>>)>>
      [] seg.type = "file"    -> <<E("file", Value(seg, "path"), Value(seg, "name"))>>
      [] seg.type = "poke"    -> <<E("poke", Value(seg, "qq"), None)>>
      [] seg.type = "music"   -> Music(seg)
      [] OTHER                -> Fails

\* What cannot be converted is sent and shown as the text of its CQ code, or not
\* at all; the first reply goes to the front and others are dropped.
Instead(seg) == IF "IgnoreInvalidCQCode" \in settings THEN <<>> ELSE <<E("text", <<"CQ", seg>>, None)>>

ConvertElements(segs, source) ==
    LET list == FlattenSeq([i \in DOMAIN segs |->
                   LET es == Convert(segs[i], source) IN
                   IF es = Fails THEN Instead(segs[i]) ELSE es])
    IN IF Replies(list) = {} THEN list
       ELSE <<list[First(Replies(list))]>> \o Those(list, DOMAIN list \ Replies(list))

-----------------------------------------------------------------------------
(* Receiving and reading back.                                             *)

ElementsAssumption ==
    /\ None \notin {"flash", "show", "sticker"} /\ RemoveReplyAt \in BOOLEAN
    /\ \A t \in DOMAIN Split : Len(Split[t]) \in Nat \ {0} /\ DOMAIN Split[t] = 1..Len(Split[t])
    /\ SettingsOf \subseteq SUBSET {"IgnoreInvalidCQCode", "SplitURL"}

\* A message from QQ has one reply at most, which comes first or is to a message
\* in the database.  That has no messages of guilds, which reply to each other.
ReceivedAssumption ==
    \A n \in DOMAIN Received :
        LET es == Received[n].elems  guild == Received[n].source = "guild" IN
        /\ Len(es) \in Nat /\ DOMAIN es = 1..Len(es)
        /\ \A i \in DOMAIN es :
              /\ es[i].k \in Kinds
              /\ es[i].k = "at" => es[i].v # None
              /\ es[i].k \in Images =>
                    /\ es[i].k = ImageKind(Received[n].source)
                    /\ es[i].x[2] \in {None, "flash", "show"}
                    /\ es[i].x[2] = "show" => es[i].k = "groupimage"
                    /\ es[i].k = "groupimage" => es[i].x[3] # None
                    /\ es[i].k = "guildimage" => es[i].x[2] = None
              /\ es[i].k = "dice" => es[i].v \in 0..6
              /\ es[i].k = "rps" => es[i].v \in 0..2
        /\ \A i \in Replies(es) :
              /\ Replies(es) = {i}
              /\ i = 1 \/ es[i].v \in DOMAIN KnownReplies
              /\ guild => es[i].v \notin DOMAIN KnownReplies

OutgoingAssumption ==
    \A n \in DOMAIN Outgoing :
        LET segs == Outgoing[n].segs IN Len(segs) \in Nat /\ DOMAIN segs = 1..Len(segs)

\* checkMedia: remembers images and videos, renames videos, and fetches voices
\* and the images of guilds.
Renamed(es) == [i \in DOMAIN es |->
                   IF es[i].k = "video" THEN E("video", <<"hash", es[i].v[2]>>, "url") ELSE es[i]]
CheckMedia(es) ==
    LET Of(ks) == {es[i].v : i \in {j \in DOMAIN es : es[j].k \in ks}} IN
    /\ cached' = cached \cup {<<"image", f>> : f \in Of(Images)}
                        \cup {<<"video", <<"hash", f[2]>>>> : f \in Of({"video"})}
    /\ \E new \in SUBSET Of({"voice", "guildimage"}) : fetched' = fetched \cup new

\* privateMessageEvent, groupMessageEvent, guildChannelMessageEvent; toElements
\* runs before ToMessageContent and may drop a mention from what that sees.
Receive(m) ==
    LET es == DropAt(Renamed(m.elems)) IN
    /\ client
    /\ CheckMedia(m.elems)
    /\ remote' = remote \cup {<<"image", e.v>> : e \in {m.elems[i] : i \in
                                {j \in DOMAIN m.elems : m.elems[j].k \in Images}}}
                        \cup {<<"forward", e.v>> : e \in {m.elems[i] : i \in
                                {j \in DOMAIN m.elems : m.elems[j].k = "forward"}}}
    /\ got' = [source |-> m.source, event |-> ToElements(es, m.source),
               content |-> ToMessageContent(es)]
    /\ shown' = None
    /\ UNCHANGED <<settings, client, job, down>>

\* CQGetMessage, CQGetGuildMessage.
GetMsg ==
    /\ got # None
    /\ shown' = ToElements(DropAt(ConvertElements(got.content, got.source)), got.source)
    /\ UNCHANGED <<settings, client, cached, fetched, remote, got, job, down>>

\* The server forgets, files are removed.
Forget ==
    /\ \/ \E r \in remote : remote' = remote \ {r} /\ UNCHANGED fetched
       \/ \E f \in fetched : fetched' = fetched \ {f} /\ UNCHANGED remote
    /\ shown' = None
    /\ UNCHANGED <<settings, client, cached, got, job, down>>

-----------------------------------------------------------------------------
(* Sending.                                                                *)

\* Segments whose conversion asks the client; a panic there is recovered by
\* the caller, as is one in Send*Message.
AsksClient(seg) ==
    \/ seg.type \in {"forward", "tts"}
    \/ seg.type = "cardimage" /\ Value(seg, "file") \in Readable
    \/ seg.type \in {"image", "cardimage"} /\ <<"image", Value(seg, "file")>> \in cached

\* A group message, and a guild's, asks the client first.
Send(m) ==
    /\ job.at = "idle"
    /\ client \/ (m.source = "private" /\ \A i \in DOMAIN m.segs : ~AsksClient(m.segs[i]))
    /\ LET es == ConvertElements(m.segs, m.source) IN
       job' = [at |-> "upload", source |-> m.source, elems |-> es, all |-> es,
               failed |-> {}, plain |-> FALSE, pending |-> {i \in DOMAIN es : es[i].k \in Local}]
    /\ UNCHANGED <<settings, client, cached, fetched, remote, got, shown, down>>

UploadedKind(e) == CASE e.k = "localimage" -> ImageKind(job.source)
                     [] e.k = "localvideo" -> "video"
                     [] OTHER -> "uploadedvoice"

\* Its worker, uploadLocalImage, uploadLocalVideo or UploadVoice, writes the slot.
UploadDone(i) ==
    /\ job.at = "upload" /\ client
    /\ job' = [job EXCEPT !.pending = @ \ {i},
                          !.elems[i] = E(UploadedKind(job.elems[i]), <<"uploaded", i>>, None)]
    /\ UNCHANGED <<settings, client, cached, fetched, remote, got, shown, down>>

UploadFails(i) ==
    /\ job.at = "upload"
    /\ job' = [job EXCEPT !.pending = @ \ {i}, !.failed = @ \cup {i}]
    /\ UNCHANGED <<settings, client, cached, fetched, remote, got, shown, down>>

\* Nothing recovers a panic of a worker.
UploadPanics(i) ==
    /\ job.at = "upload" /\ ~client
    /\ down' = TRUE
    /\ job' = [job EXCEPT !.at = "lost"]
    /\ UNCHANGED <<settings, client, cached, fetched, remote, got, shown>>

\* Mutant: voices that were not uploaded are kept.
CompactedWithVoices(es) ==
    Those(es, {i \in DOMAIN es : es[i].k \notin {"localimage", "localvideo"}})

\* removeLocalElement, in place: what it keeps moves to its place among the kept.
Compacted(es) == Those(es, {i \in DOMAIN es : es[i].k \notin Local})

\* A mention of all, in a group of which the account is a plain member.
IsAll(e) == e.k = "at" /\ e.v = "all"
AllAsText == E("text", <<"@all">>, None)

\* A poke or a shared song is sent alone, as soon as it is met; to a guild, a
\* poke is not sent.
Outcome(es, plain) ==
    LET special == {i \in DOMAIN es : es[i].k = "music" \/ (es[i].k = "poke" /\ job.source # "guild")}
    IN IF special # {} THEN <<es[First(special)]>>
       ELSE IF job.source = "guild"
            THEN Those(es, {i \in DOMAIN es : es[i].k \notin {"poke", "voice"}})
       ELSE [i \in DOMAIN es |-> IF plain /\ IsAll(es[i]) THEN AllAsText ELSE es[i]]

Finish ==
    /\ job.at = "upload" /\ job.pending = {}
    /\ \E plain \in BOOLEAN :
          /\ plain => job.source = "group"
          /\ LET es == Outcome(Compacted(job.elems), plain) IN
             job' = [job EXCEPT !.at = IF client /\ es # <<>> THEN "sent" ELSE "refused",
                                !.elems = es, !.plain = plain]
    /\ UNCHANGED <<settings, client, cached, fetched, remote, got, shown, down>>

NextCall ==
    /\ job.at \in {"sent", "refused"}
    /\ job' = [at |-> "idle"]
    /\ UNCHANGED <<settings, client, cached, fetched, remote, got, shown, down>>

-----------------------------------------------------------------------------
Init ==
    /\ settings \in SettingsOf
    /\ client \in BOOLEAN
    /\ cached = {} /\ fetched = {} /\ remote = {}
    /\ got = None /\ shown = None
    /\ job = [at |-> "idle"]
    /\ down = FALSE

Uploading == IF job.at = "upload" THEN job.pending ELSE {}

Next ==
    \/ \E n \in DOMAIN Received : ~down /\ Receive(Received[n])
    \/ ~down /\ GetMsg
    \/ ~down /\ Forget
    \/ \E n \in DOMAIN Outgoing : ~down /\ Send(Outgoing[n])
    \/ \E i \in Uploading : ~down /\ UploadDone(i)
    \/ \E i \in Uploading : ~down /\ UploadFails(i)
    \/ \E i \in Uploading : ~down /\ UploadPanics(i)
    \/ ~down /\ Finish
    \/ ~down /\ NextCall

Spec == Init /\ [][Next]_vars

-----------------------------------------------------------------------------
\* Segments that get_msg may not be able to convert: mentions of all and red
\* envelopes, and what is no longer in the database, on the server or on disk.
MayFail(a) ==
    a.type \in {"redbag", "reply", "forward", "record", "image"} \/ a.data = Pair("qq", "all")

\* An image may be another file, a copy of a guild's or its URL.  Fetched again it
\* has no subType, and no effect; the server's has its subType only with a type.
SameImage(a, b) ==
    LET again == "subType" \notin DOMAIN b.data IN
    /\ Value(b, "file") \in {Value(a, "file"), Value(a, "url"), <<"path", Value(a, "file")[2]>>}
    /\ Value(b, "type") = Value(a, "type") \/ (again /\ Value(a, "type") = "show")
    /\ Value(b, "subType") = Value(a, "subType") \/ again \/ Value(a, "type") = None

\* What get_msg shows of a segment that an event showed: the same, but for what
\* cannot be converted, of which only the CQ code is left, media, the resid of a
\* service element, and the id of a reply to a message of another conversation.
Kept(a, b, source) ==
    \/ MayFail(a) /\ b.type = "text"
    \/ /\ a.type = b.type
       /\ \/ a = b
          \/ a.type \in {"record", "video"}
          \/ a.type = "image" /\ SameImage(a, b)
          \/ a.type \in {"xml", "json"} /\ Value(a, "data") = Value(b, "data")
          \/ /\ a.type = "reply" /\ Value(a, "id") \in DOMAIN KnownReplies
             /\ KnownReplies[Value(a, "id")].in # source

Aligned(event, list) ==
    /\ Len(list) = Len(event)
    /\ \A i \in DOMAIN list : Kept(event[i], list[i], got.source)

\* What the settings make of a list of segments: texts come in parts, and some
\* of what cannot be converted is left out.
InParts(segs) == FlattenSeq([i \in DOMAIN segs |->
    IF segs[i].type = "text"
    THEN LET texts == Texts(segs[i]) IN [n \in DOMAIN texts |-> Segment(texts[n])]
    ELSE <<segs[i]>>])

Expected(event) ==
    IF settings = {} THEN {event}
    ELSE LET segs == InParts(event)
             ignored == IF "IgnoreInvalidCQCode" \in settings
                        THEN {i \in DOMAIN segs : MayFail(segs[i])} ELSE {}
         IN {Those(segs, DOMAIN segs \ lost) : lost \in SUBSET ignored}

\* get_msg shows a message as its event did, segment by segment, but for what
\* the settings split or leave out; but a second mention after a reply may be
\* dropped then, and a reply in a guild, which its event did not show, appears
\* as text.
ShownAsReported ==
    shown # None =>
        \/ \E event \in Expected(got.event) : Aligned(event, shown)
        \/ /\ RemoveReplyAt /\ Len(got.event) > 1
           /\ got.event[1].type = "reply" /\ got.event[2].type = "at"
           /\ \E event \in Expected(RemoveAt(got.event, 2)) : Aligned(event, shown)
        \/ got.source = "guild" /\ \E event \in Expected(got.event) : Aligned(event, Tail(shown))

\* What is sent are the elements that could be uploaded or did not have to, in
\* their order, but for a mention of all, which from a plain member is text; and
\* a panic while uploading, which ends the process, takes a message with media
\* and no QQ client.
UploadsKeepOrder ==
    /\ job.at = "sent" =>
         LET kept == {i \in DOMAIN job.all \ job.failed :
                         ~(job.source = "guild" /\ job.all[i].k = "poke")}
             Sent(e, i) == IF job.all[i].k \in Local
                           THEN e.k = UploadedKind(job.all[i]) /\ e.v = <<"uploaded", i>>
                           ELSE IF job.plain /\ IsAll(job.all[i]) THEN e = AllAsText
                           ELSE e = job.all[i]
         IN \/ /\ Len(job.elems) = Cardinality(kept)
               /\ \A i \in kept : Sent(job.elems[Place(kept, i)], i)
            \/ Len(job.elems) = 1 /\ job.elems[1].k \in {"poke", "music"}
    /\ job.at = "sent" /\ job.plain => job.source = "group"
    /\ down => ~client /\ \E i \in DOMAIN job.all : job.all[i].k \in Local
=============================================================================
