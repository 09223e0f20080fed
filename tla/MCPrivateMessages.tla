------------------------- MODULE MCPrivateMessages -------------------------
(* Instance of PrivateMessages for TLC: a call with a media segment and a    *)
(* plain one, the latter with the id of a message from a peer.  Beside it    *)
(* Segments, what is written in messages: they share no state, and so as not *)
(* to multiply their states one moves only while the other is at its start.  *)
EXTENDS PrivateMessages, Segments, TLC

CONSTANTS s1, s2, e1, leveldb, mongodb

MCSegments == (s1 :> <<"media", "text">>) @@ (s2 :> <<"text">>)
MCGid == (s1 :> 1) @@ (s2 :> 2) @@ (e1 :> 2)

-----------------------------------------------------------------------------
MCTokens == {"&", "[", "]", ",", "=", "amp;", "#91;", "#93;", "#44;", "CQ:", "text", "file",
             "url", "image", "record", "video", "reply", "id", "7", "8", "x"}

\* What is written in messages: texts with every escape, in every place of an element.
Medium(type, v) == <<<<type>>, <<<<<<"file">>, v>>, <<<<"url">>, <<"x">>>>>>>>
Reply(id) == <<<<"reply">>, <<<<<<"id">>, id>>>>>>
Values == {<<>>, <<"x">>, <<"&", "amp;">>, <<"&", "#91;">>, <<"&", "amp;", "#91;">>,
           <<"[", "CQ:", "x", ",", "x", "=", "]">>, <<",", "]", "&", "#44;">>,
           <<"&", "&", "amp;", "amp;">>}
MCPayloads ==
    {<<e, f>> : e \in {Text(v) : v \in Values} \cup {Medium("image", v) : v \in Values}
                      \cup {Reply(<<id>>) : id \in {"7", "8", "x"}},
                f \in {Text(<<"x">>), Medium("file", <<"x">>), Medium("record", <<"x">>),
                       Medium("image", <<"&", "amp;", ",">>), Text(<<"[", "CQ:", "x", "]">>)}}
MCStrings ==
    {<<"[", "CQ:">>, <<"x", "[", "CQ:", "image", ",", "file", "=", "x">>,
     <<"[", "CQ:", "image", "]", "x">>, <<"[", "CQ:", "text", "]", "x">>,
     <<"[", "CQ:", "image", ",", "file", "]", "url", "=", "x", "]">>,
     <<"[", "CQ:", "image", ",", "file", "=", "x", "]", "&", "amp;">>}
    \cup {<<"x">> \o v \o <<"]">> : v \in Values}
MCInbound ==
    [1..2 -> [type : {"text"}, text : Values \ {<<>>}]
             \cup [type : {"image", "record"}, file : {<<"x">>, <<"x", ",", "[">>}]
             \cup [type : {"file"}, file : {<<"x">>}, name : {<<>>, <<"x">>}]]
MCStored == <<"7">> :> <<"x">>
MCBaseName == [v \in {<<"x">>, <<"&", "amp;", ",">>} \cup Values |-> <<"x">>]

-----------------------------------------------------------------------------
MCInit == Init /\ SegmentsInit

MCNext ==
    \/ SegmentsInit /\ Next /\ UNCHANGED segmentVars
    \/ Init /\ SegmentsNext /\ UNCHANGED vars

MCSpec == MCInit /\ [][MCNext]_<<vars, segmentVars>>
=============================================================================
