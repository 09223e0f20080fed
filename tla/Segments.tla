------------------------------ MODULE Segments ------------------------------
(***************************************************************************)
(* What becomes of a message's text and media between Weixin and OneBot:   *)
(* the normalisation and formatting of inbound segments, the CQ code       *)
(* parser and printer (internal/msg), and the construction of the segments *)
(* to send (coolq/weixin.go).                                              *)
(*                                                                         *)
(* A string is a sequence of tokens; "&#91;" is the two tokens "&", "#91;",*)
(* as escapes can arise from pieces.  An element is <<type, pairs>>, its   *)
(* pairs a sequence of <<key, value>>.                                     *)
(***************************************************************************)
EXTENDS Naturals, Sequences, FiniteSetsExt, SequencesExt

CONSTANTS Tokens,    \* what strings are made of
          Inbound,   \* lists of segments received
          Payloads,  \* lists of elements given to send_msg as an array
          Strings,   \* strings given to send_msg
          Stored,    \* the stored messages' snippets, by message id
          BaseName   \* base name of a path or URL, empty if it has none

VARIABLES
    reported,  \* what the last operation reported: content, raw, path
    sent       \* what it sent: elements and segments

segmentVars == <<reported, sent>>

NothingReported == [content |-> <<>>, raw |-> <<>>, path |-> <<>>]
NothingSent == [elements |-> <<>>, segments |-> <<>>]

-----------------------------------------------------------------------------
(* internal/msg/element.go.                                                *)

Escape == [c \in {"&", "[", "]", ","} |->
              CASE c = "&" -> "amp;" [] c = "[" -> "#91;" [] c = "]" -> "#93;" [] OTHER -> "#44;"]

EscapeBy(s, chars) ==
    FlattenSeq([i \in 1..Len(s) |->
        IF s[i] \in chars THEN <<"&", Escape[s[i]]>> ELSE <<s[i]>>])

EscapeText(s) == EscapeBy(s, {"&", "[", "]"})
EscapeValue(s) == EscapeBy(EscapeText(s), {","})

\* strings.ReplaceAll of "&" code by char.
Replace(s, code, char) ==
    LET At(i) == i \in 1..(Len(s) - 1) /\ s[i] = "&" /\ s[i + 1] = code IN
    FlattenSeq([i \in 1..Len(s) |->
        IF At(i) THEN <<char>> ELSE IF At(i - 1) THEN <<>> ELSE <<s[i]>>])

\* Mutant: the ampersands first.
UnescapeAmpFirst(s) == Replace(Replace(Replace(s, "amp;", "&"), "#91;", "["), "#93;", "]")

UnescapeText(s) == Replace(Replace(Replace(s, "#91;", "["), "#93;", "]"), "amp;", "&")
UnescapeValue(s) == UnescapeText(Replace(s, "#44;", ","))

Texts == Seq(Tokens)
Elements == Texts \X Seq(Texts \X Texts)

\* Element.Get: the first pair with the key.
Get(pairs, key) ==
    LET i == SelectInSeq(pairs, LAMBDA p : p[1] = key) IN
    IF i = 0 THEN <<>> ELSE pairs[i][2]

\* Element.WriteCQCodeTo.
CQCode(e) ==
    IF e[1] = <<"text">> THEN EscapeText(e[2][1][2])
    ELSE <<"[", "CQ:">> \o e[1]
         \o FlattenSeq([i \in 1..Len(e[2]) |->
                <<",">> \o e[2][i][1] \o <<"=">> \o EscapeValue(e[2][i][2])])
         \o <<"]">>

-----------------------------------------------------------------------------
(* internal/msg/parse.go.                                                  *)

\* Length of the longest prefix without any of the tokens.
Upto(s, tokens) ==
    LET i == SelectInSeq(s, LAMBDA t : t \in tokens) IN
    IF i = 0 THEN Len(s) ELSE i - 1

Text(t) == <<<<"text">>, <<<<<<"text">>, t>>>>>>
Drop(s, n) == SubSeq(s, n + 1, Len(s))

\* "[CQ:" with something behind it.
IsCode(s, i) == i + 2 <= Len(s) /\ s[i] = "[" /\ s[i + 1] = "CQ:"

\* The loops of ParseString, a step for each of their rounds: raw is what is
\* left, open the element being read, <<>> between elements.  A string that
\* ends too early ends the parse.
Start(s) == [raw |-> s, read |-> <<>>, open |-> <<>>]
Return(read) == [raw |-> <<>>, read |-> read, open |-> <<>>]

\* The text before the next code, and the type of that.
Header(x) ==
    LET s == x.raw
        starts == {i \in 1..Len(s) : IsCode(s, i)}
        n == IF starts = {} THEN Len(s) ELSE Min(starts) - 1
        read == IF n = 0 THEN x.read ELSE Append(x.read, Text(UnescapeText(SubSeq(s, 1, n))))
        code == Drop(s, n + 2)
        k == Upto(code, {",", "]"})
    IN IF starts = {} \/ k = Len(code) THEN Return(read)
       ELSE [raw |-> Drop(code, k), read |-> read, open |-> <<SubSeq(code, 1, k), <<>>>>]

KeyAndValue(x) ==
    LET t == Tail(x.raw)
        k == Upto(t, {"="})
        u == Drop(t, k + 1)
        n == Upto(u, {",", "]"})
    IN IF k = Len(t) \/ n = Len(u) THEN Return(x.read)
       ELSE [raw |-> Drop(u, n), read |-> x.read,
             open |-> <<x.open[1], Append(x.open[2], <<SubSeq(t, 1, k),
                                                       UnescapeValue(SubSeq(u, 1, n))>>)>>]

Close(x) == [raw |-> Tail(x.raw), read |-> Append(x.read, x.open), open |-> <<>>]

Round(x) ==
    IF x.raw = <<>> THEN x
    ELSE IF x.open = <<>> THEN Header(x)
    ELSE IF x.raw[1] = "]" THEN Close(x)
    ELSE KeyAndValue(x)

ParseString(s) ==
    LET loop[k \in 0..Len(s)] == IF k = 0 THEN Start(s) ELSE Round(loop[k - 1])
    IN loop[Len(s)].read

-----------------------------------------------------------------------------
(* Inbound: coolq/weixin.go.                                               *)

\* normalizeWeixinSegments: a file becomes a text and the message's path.
Normalized(segments) ==
    LET One(g) ==
            CASE g.type = "text" -> Text(g.text)
              [] g.type = "file" ->
                   Text(IF g.name = <<>> THEN <<"[", "file", "]">>
                        ELSE <<"[", "file", "]">> \o g.name)
              [] OTHER -> <<<<g.type>>, <<<<<<"file">>, g.file>>, <<<<"url">>, <<>>>>>>>>
    IN [i \in 1..Len(segments) |-> One(segments[i])]

FilePath(segments) ==
    LET i == SelectLastInSeq(segments, LAMBDA g : g.type = "file") IN
    IF i = 0 THEN <<>> ELSE segments[i].file

\* formatWeixinRawMessage: texts as they are, media as CQ codes whose pairs
\* come in the order of a map, swap saying which have theirs exchanged.
Raw(content, swap) ==
    FlattenSeq([i \in 1..Len(content) |->
        IF content[i][1] = <<"text">> THEN content[i][2][1][2]
        ELSE IF i \in swap THEN CQCode(<<content[i][1], Reverse(content[i][2])>>)
        ELSE CQCode(content[i])])

\* DispatchWeixinPrivateMessage builds message and raw_message.
ReportSegments(segments) ==
    /\ \E swap \in SUBSET (1..Len(segments)) :
          reported' = [content |-> Normalized(segments),
                       raw |-> Raw(Normalized(segments), swap), path |-> FilePath(segments)]
    /\ sent' = NothingSent

-----------------------------------------------------------------------------
(* Outbound: buildWeixinSendSegments.                                      *)

\* buildReplyFallback: nothing for a message that is not stored.
ReplyPrefix(id) == IF id \in DOMAIN Stored THEN <<"[", "reply", "]">> \o Stored[id] ELSE <<>>

\* weixinSegmentName.
Name(file, name) == IF name # <<>> THEN BaseName[name] ELSE BaseName[file]

File(pairs) ==
    IF Get(pairs, <<"file">>) # <<>> THEN Get(pairs, <<"file">>) ELSE Get(pairs, <<"url">>)

Media == {<<"image">>, <<"video">>, <<"file">>}

Wrong(e) ==
    \/ e[1] \in Media /\ File(e[2]) = <<>>
    \/ e[1] = <<"reply">> /\ Get(e[2], <<"id">>) \notin {<<"7">>, <<"8">>}
    \/ e[1] \notin Media \cup {<<"text">>, <<"reply">>}

Segment(e) ==
    CASE e[1] = <<"text">> /\ Get(e[2], <<"text">>) # <<>> ->
           <<[type |-> "text", text |-> Get(e[2], <<"text">>)]>>
      [] e[1] = <<"file">> ->
           <<[type |-> "file", file |-> File(e[2]),
              name |-> Name(File(e[2]), Get(e[2], <<"name">>))]>>
      [] e[1] \in Media \ {<<"file">>} -> <<[type |-> e[1][1], file |-> File(e[2])]>>
      [] OTHER -> <<>>

\* The last reply's prefix comes first; one wrong element spoils the message.
Build(elements) ==
    LET last == SelectLastInSeq(elements, LAMBDA e : e[1] = <<"reply">>)
        prefix == IF last = 0 THEN <<>> ELSE ReplyPrefix(Get(elements[last][2], <<"id">>))
    IN IF \E i \in 1..Len(elements) : Wrong(elements[i]) THEN <<"error">>
       ELSE (IF prefix = <<>> THEN <<>> ELSE <<[type |-> "text", text |-> prefix]>>)
            \o FlattenSeq([i \in 1..Len(elements) |-> Segment(elements[i])])

\* send_msg with a string.
SendString(s) ==
    /\ sent' = [elements |-> ParseString(s), segments |-> Build(ParseString(s))]
    /\ reported' = NothingReported

\* send_msg with an array; the pairs come in the order of a map.
SendArray(elements) ==
    /\ \E swap \in SUBSET (1..Len(elements)) :
          LET given == [i \in 1..Len(elements) |->
                  IF i \in swap THEN <<elements[i][1], Reverse(elements[i][2])>> ELSE elements[i]]
          IN sent' = [elements |-> elements, segments |-> Build(given)]
    /\ reported' = NothingReported

\* Types and keys are such as can be read off a CQ code, and the keys of a map
\* differ.
ASSUME SegmentsAssumption ==
    /\ {"&", "[", "]", ",", "=", "amp;", "#91;", "#93;", "#44;", "CQ:", "text", "file", "url",
        "image", "record", "video"} \subseteq Tokens
    /\ Strings \subseteq Texts
    /\ Payloads \subseteq Seq(Elements)
    /\ \A es \in Payloads : \A i \in 1..Len(es) :
          /\ \A j \in 1..Len(es[i][1]) : es[i][1][j] \notin {",", "]"}
          /\ \A j \in 1..Len(es[i][2]) :
                /\ \A h \in 1..Len(es[i][2][j][1]) : es[i][2][j][1][h] # "="
                /\ \A h \in 1..Len(es[i][2]) : es[i][2][h][1] = es[i][2][j][1] => h = j
    /\ \A segments \in Inbound :
          /\ Len(segments) \in Nat /\ DOMAIN segments = 1..Len(segments)
          /\ \A i \in 1..Len(segments) :
                LET g == segments[i] IN
                /\ g.type \in {"text", "file", "image", "record", "video"}
                /\ g.type = "text" => g.text \in Texts
                /\ g.type = "file" => g.name \in Texts
                /\ g.type # "text" => g.file \in Texts

SegmentsInit == reported = NothingReported /\ sent = NothingSent

SegmentsNext ==
    \/ \E g \in Inbound : ReportSegments(g)
    \/ \E s \in Strings : SendString(s)
    \/ \E e \in Payloads : SendArray(e)

SegmentsSpec == SegmentsInit /\ [][SegmentsNext]_segmentVars

-----------------------------------------------------------------------------
(* Properties.                                                             *)

\* Elements as a reader sees them: the characters of texts, whatever elements
\* they came in, and media with their pairs as a set.
Seen(es) ==
    FlattenSeq([i \in 1..Len(es) |->
        IF es[i][1] = <<"text">>
        THEN [j \in 1..Len(es[i][2][1][2]) |-> <<es[i][1], {es[i][2][1][2][j]}>>]
        ELSE <<<<es[i][1], {es[i][2][j] : j \in 1..Len(es[i][2])}>>>>])

\* An element of type text without a pair cannot be printed: Data[0] panics.
Printable(es) == \A i \in 1..Len(es) : es[i][1] = <<"text">> => es[i][2] # <<>>

Plain(s) == {s[i] : i \in 1..Len(s)} \cap {"&", "["} = {}

\* The printed form of a message is read back as the same message, whatever
\* special characters its values hold; a reported raw_message is, when its
\* texts hold no character that starts a code or an escape; and the same
\* elements are sent the same way as an array, in any order of their keys,
\* and as a string.
ReadBack ==
    /\ Printable(sent.elements) =>
         Seen(ParseString(FlattenSeq([i \in 1..Len(sent.elements) |-> CQCode(sent.elements[i])])))
            = Seen(sent.elements)
    /\ (\A i \in 1..Len(reported.content) :
            reported.content[i][1] = <<"text">> => Plain(reported.content[i][2][1][2]))
       => Seen(ParseString(reported.raw)) = Seen(reported.content)
    /\ sent.segments = Build(sent.elements)
=============================================================================
