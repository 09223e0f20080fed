------------------------------- MODULE MCData -------------------------------
(* The front end, and the databases that keep its messages in a part of    *)
(* their own.                                                              *)
EXTENDS MCFrontEnd, MessageStore, Integers, SequencesExt

CONSTANTS g1, p1, c1, Radix

-----------------------------------------------------------------------------
\* Databases: a group's and a private message that share an id, with every
\* type of a value that ToMessageContent writes and senders' names that differ.
Type == <<2, 1>>
Hi == <<3>>
Bob == <<1>>
Rob == <<3>>
Id(n) == <<5, n>>
Data == <<2>>
Element(type, data) == Type :> <<"string", type>> @@ Data :> <<"msg", data>>
Text(s) == Element(Bob, Hi :> <<"string", s>>)
Elements == <<Element(Hi, Bob :> <<"int64", 9>> @@ Rob :> <<"string", Bob>>),
              Element(Rob, Bob :> <<"uint32", 6>> @@ <<>> :> <<"int32", -7>>)>>
MCMessageKind == g1 :> "group" @@ p1 :> "private" @@ c1 :> "guild"
MCFields == g1 :> <<Id(1), 1, <<4, 4, 9, Bob, 2>>, <<>>, <<Id(0), -3, <<Element(Hi, Bob :> <<"int", -5>>)>> >>, 5, Bob, Elements>>
         @@ p1 :> <<Id(3), 1, <<4, 4, 9, Rob, 2>>, Hi, Nil, 8, 9, <<Element(Hi, Bob :> <<"int", 9>>), Text(Type)>> >>
         @@ c1 :> <<Id(4), <<7, 7, 6, Rob, 3>>, 1, 2, Nil, <<Text(Rob)>> >>
L == INSTANCE LevelDBCodec
Recoded == [m \in Messages |-> L!Decode(L!Encode(Kind[m], Fields[m]))]
MCDecoded == Recoded
MCConfigs == {{"leveldb", "sqlite3"}, {"mongodb"}}
MCQueries == {<<"any", <<1>> >>, <<"group", <<1>> >>, <<"guild", Id(4)>>}

-----------------------------------------------------------------------------
StoreOff == /\ order = 0 /\ pc = 0 /\ backend = 0 /\ lost = 0
            /\ leveldb = 0 /\ mongo = 0 /\ sql = 0
            /\ rd = [r \in Readers |-> [at |-> "idle"]]
FrontEndOff == MessagesOff /\ GroupsOff /\ RequestsOff /\ MediaOff /\ ElementsOff /\ FilterOff

MCInit ==
    \/ FrontEndInit /\ StoreOff
    \/ part = "store" /\ FrontEndOff /\ Init

MCNext ==
    \/ FrontEndNext /\ UNCHANGED vars
    \/ part = "store" /\ Next /\ UNCHANGED frontEndVars

MCSpec == MCInit /\ [][MCNext]_<<frontEndVars, vars>>
=============================================================================
