----------------------------- MODULE MCFrontEnd -----------------------------
(* Values for FrontEnd, one instance of each part.                         *)
EXTENDS FrontEnd, Sequences, TLC

CONSTANTS joins, invites, befriends

\* Requests: one to join and one invitation share their id.
MCKind == joins :> "add" @@ invites :> "invite" @@ befriends :> "friend"
MCFlag == joins :> 1 @@ invites :> 1 @@ befriends :> 2

\* Media: items that are encrypted, empty, too long, named alike, and keys that
\* are missing, malformed or no hexadecimal.
Item(kind, name, query, key, d) ==
    [kind |-> kind, name |-> name, query |-> query, key |-> key, data |-> d]
MCItems ==
       "m1" :> <<Item("text", "m1", FALSE, "none", <<>>), Item("image", "m1", TRUE, "raw", <<1, 2>>),
                 Item("image", "m1", TRUE, "none", <<1>>)>>
    @@ "m2" :> <<Item("file", "m1", TRUE, "hex", <<2>>),
                 Item("file", "f", TRUE, "malformed", <<1>>)>>
    @@ "m3" :> <<Item("file", "f", TRUE, "raw", <<>>), Item("file", "f", TRUE, "raw", <<1, 2>>),
                 Item("video", "m1", TRUE, "raw", <<2, 2, 2, 2>>)>>
    @@ "m4" :> <<Item("image", "m1", FALSE, "none", <<>>), Item("voice", "m1", TRUE, "none", <<1>>),
                 Item("image", "m1", TRUE, "bad hex", <<2>>)>>

\* Elements: every kind of them, and media that are cached, readable or not.
Url(n) == <<"http", n>>
El(kind, v, x) == [k |-> kind, v |-> v, x |-> x]
FromQQ(source, elems) == [source |-> source, elems |-> elems]
MCReceived ==
  << FromQQ("group", <<El("reply", <<"7">>, "10"), El("at", "10", None), El("text", <<"t">>, None),
                       El("at", "11", None), El("at", "all", None)>>),
     FromQQ("private", <<El("reply", <<"7">>, "10"), El("text", <<"t", "u">>, None), El("face", 1, None),
                         El("sticker", 2, None),
                         El("friendimage", <<"hash", 1>>, <<Url(1), "flash", 0>>)>>),
     FromQQ("guild", <<El("reply", <<"9">>, "10"), El("guildimage", <<"hash", 1>>, <<Url(2), None, 0>>),
                       El("text", <<"u">>, None)>>),
     FromQQ("group", <<El("voice", <<"name", 3>>, Url(3)), El("video", <<"name", 4>>, Url(4)),
                       El("forward", "5", None), El("redbag", "r", None)>>),
     FromQQ("group", <<El("text", <<"t">>, None), El("reply", <<"7">>, "10"), El("at", "10", None),
                       El("at", "10", None)>>),
     FromQQ("group", <<El("groupimage", <<"hash", 1>>, <<Url(1), "show", 1>>),
                       El("groupimage", <<"hash", 1>>, <<Url(2), None, 1>>), El("dice", 3, None),
                       El("rps", 1, None), El("marketface", <<"m">>, None), El("xml", "x", <<60, "res">>),
                       El("jsonservice", "j", <<1, "res">>), El("lightapp", "l", None),
                       El("file", "p", "n")>>) >>
Seg(type, key, value) == [type |-> type, data |-> key :> value]
Song(type, value) == [type |-> "music", data |-> "type" :> type @@ "id" :> value]
ToQQ(source, segs) == [source |-> source, segs |-> segs]
MCOutgoing ==
  << ToQQ("private", <<Seg("text", "text", <<"a">>), Seg("image", "file", <<"base64", 1>>),
                       Seg("record", "file", <<"file", 2>>), Seg("text", "text", <<"b">>),
                       Seg("video", "file", <<"file", 3>>)>>),
     ToQQ("group", <<Seg("image", "file", Url(1)), Seg("at", "qq", "11"),
                     Seg("cardimage", "file", Url(1)), Seg("at", "qq", "all"), Seg("reply", "id", <<"7">>)>>),
     ToQQ("guild", <<Seg("record", "file", <<"file", 2>>), Seg("text", "text", <<"b">>),
                     Seg("poke", "qq", "11")>>),
     ToQQ("private", <<Seg("text", "text", <<"t", "u">>), Song("qq", 2), Seg("poke", "qq", "11")>>),
     ToQQ("group", <<Seg("tts", "text", <<"b">>), Song("custom", 1), Song("qq", 3), Seg("share", "url", 1),
                     Seg("dice", "value", 7), Seg("rps", "value", 2)>>),
     ToQQ("private", <<Seg("record", "file", <<"file", 2>>)>>) >>
MCReadable == {<<"base64", 1>>, <<"file", 2>>, <<"file", 3>>, Url(1), <<"tts", <<"b">>>>, <<"song", 2>>}
MCKnown == <<"7">> :> [sender |-> "10", in |-> "group"]
MCSplit == <<"t", "u">> :> <<<<"t">>, <<"u">>>>
MCSettings == {{}, {"IgnoreInvalidCQCode", "SplitURL"}}

\* Event filters: rules of every operator and shape, alone, negated, joined and
\* in a list, their texts cut short, and events whose fields they tell apart.
A == <<"a">>
AB == <<"a", "b">>
Bare(path) == [dot |-> FALSE, op |-> "", path |-> path]
Dot(op) == [dot |-> TRUE, op |-> op, path |-> <<>>]
Rule(items) == [kind |-> "object", items |-> items]
Arr(items) == [kind |-> "array", items |-> items]
Str(t) == [kind |-> "scalar", text |-> t, quoted |-> TRUE]
Num(t) == [kind |-> "scalar", text |-> t, quoted |-> FALSE]
Leaves == ({Dot("eq"), Dot("neq"), Dot("contains"), Dot("regex")} \X {Str(A)})
            \cup {<<Dot("regex"), Str(AB)>>, <<Dot("in"), Str(AB)>>, <<Dot("huh"), Str(A)>>,
                  <<Dot("eq"), Num(AB)>>,
                  <<Dot("in"), Arr(<<Str(A), Str(<<>>)>>)>>, <<Dot("contains"), Arr(<<>>)>>}
Other == <<Bare(<<"u">>), Str(A)>>
OnField == {<<Bare(<<"t">>), Rule(<<l>>)>> : l \in Leaves}
             \cup {<<Bare(<<>>), Str(A)>>, <<Bare(<<"s", "t">>), Str(A)>>,
                   <<Bare(<<"s">>), Rule(<<<<Bare(<<"t">>), Num(AB)>>>>)>>}
Inner(op) == <<Bare(<<"t">>), Rule(<<<<Dot(op), Str(A)>>>>)>>
MCRuleFiles ==
    {Rule(<<<<Dot("or"), Str(A)>>>>)}
    \cup {Rule(<<i, Other>>) : i \in OnField}
    \cup {Rule(<<<<Dot("not"), Rule(<<Inner("neq"), Other>>)>>>>),
          Rule(<<<<Dot("and"), Rule(<<Inner("regex"), Other>>)>>>>),
          Rule(<<<<Dot("or"), Arr(<<Rule(<<Inner("eq")>>), Rule(<<Other>>)>>)>>>>)}

\* What gjson makes of the starts of a value: the first items or elements, the
\* last of them cut short in turn; a text that does not end is none.
RECURSIVE Cut(_)
Cut(v) ==
    CASE v.kind = "object" ->
            {Rule(SubSeq(v.items, 1, n)) : n \in 0..Len(v.items)}
            \cup UNION {{Rule(Append(SubSeq(v.items, 1, n - 1), <<v.items[n][1], w>>)) :
                              w \in Cut(v.items[n][2])} : n \in 1..Len(v.items)}
      [] v.kind = "array" ->
            {Arr(SubSeq(v.items, 1, n)) : n \in 0..Len(v.items)}
            \cup UNION {{Arr(Append(SubSeq(v.items, 1, n - 1), w)) : w \in Cut(v.items[n])} :
                              n \in 1..Len(v.items)}
      [] OTHER -> IF v.quoted THEN {} ELSE {Num(SubSeq(v.text, 1, n)) : n \in 1..Len(v.text)}
MCRuleStarts == [f \in MCRuleFiles |-> Cut(f) \cup {Num(<<>>)}]

RECURSIVE Levels(_)
Levels(v) ==
    LET parts == CASE v.kind = "object" -> {v.items[n][2] : n \in 1..Len(v.items)}
                   [] v.kind = "array" -> {v.items[n] : n \in 1..Len(v.items)}
                   [] OTHER -> {}
    IN {v} \cup UNION {Levels(w) : w \in parts}
RECURSIVE Height(_)
Height(v) == LET below == {Height(w) : w \in Levels(v) \ {v}}
             IN IF below = {} THEN 1 ELSE 1 + CHOOSE n \in below : \A m \in below : m <= n
AllParts == UNION {Levels(v) \ {v} : v \in UNION {{f} \cup MCRuleStarts[f] : f \in MCRuleFiles}}
Below(n) == {v \in AllParts : Height(v) <= n}
MCRuleValues == <<Below(1), Below(2), Below(3), Below(4)>>

Value(fields, text) == [fields |-> fields, text |-> text]
Scalars == {Value(<<>>, t) : t \in {<<>>, A, AB}}
Deep == Value("t" :> Value(<<>>, A), <<"raw">>)
MCFilterEvents == {Value(f, <<"raw">>) : f \in [{"t", "u"} -> Scalars] \cup {"t" :> Value(<<>>, A)}}
                    \cup {Value("s" :> Deep, <<"raw">>), Value("s" :> Value(<<>>, A), <<"raw">>)}
MCFilterPayloads == MCFilterEvents \cup Scalars \cup {Deep}
MCMatches == A :> {A, AB}

MCSymmetry == Permutations(GroupUsers)
=============================================================================
