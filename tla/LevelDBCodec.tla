---------------------------- MODULE LevelDBCodec ----------------------------
(***************************************************************************)
(* The encoding of LevelDB's values (db/leveldb/writer.go, reader.go,      *)
(* structs.go): a table of strings, and the data with variable-length      *)
(* numbers and offsets into the table.                                     *)
(***************************************************************************)
EXTENDS Integers, Sequences, SequencesExt

CONSTANTS Radix,  \* values of a uvarint's byte, 128
          Nil

\* The fields of a message and of what it points to, in the order of writing.
Schema == [group     |-> <<"string", "int", "attribute", "string", "quote", "int", "string", "content">>,
           private   |-> <<"string", "int", "attribute", "string", "quote", "int", "int", "content">>,
           guild     |-> <<"string", "attribute", "uint", "uint", "quote", "content">>,
           attribute |-> <<"int", "int", "int", "string", "int">>,
           quote     |-> <<"string", "int", "content">>]

Coder == [nil |-> 0, int |-> 1, uint |-> 2, int32 |-> 3, uint32 |-> 4, int64 |-> 5, uint64 |-> 6,
          string |-> 7, msg |-> 8, content |-> 9]
StructCoder == 10
CoderType(c) == CHOOSE t \in DOMAIN Coder : Coder[t] = c

\* How the numbers of a coder are written.
Form(t) == IF t \in {"int32", "int64"} THEN "int" ELSE IF t \in {"uint32", "uint64"} THEN "uint" ELSE t

RECURSIVE Uvarint(_)
Uvarint(n) == IF n < Radix THEN <<n>> ELSE <<(n % Radix) + Radix>> \o Uvarint(n \div Radix)

\* Mutant: a negative number loses its sign.
ZigZagUnsigned(n) == IF n >= 0 THEN 2 * n ELSE -(2 * n)

ZigZag(n) == IF n >= 0 THEN 2 * n ELSE -(2 * n) - 1

\* The writer's calls for a value of a type; a map is written in any order.
RECURSIVE Calls(_, _)
Calls(t, v) ==
    CASE t = "nil"                       -> <<>>
      [] t \in {"string", "int", "uint"} -> <<<<t, v>>>>
      [] t = "obj"     -> <<<<"byte", Coder[v[1]]>>>> \o Calls(Form(v[1]), v[2])
      [] t = "msg"     -> LET s == SetToSeq(DOMAIN v) IN
                          <<<<"uint", Len(s)>>>>
                          \o FlattenSeq([i \in DOMAIN s |-> <<<<"string", s[i]>>>> \o Calls("obj", v[s[i]])])
      [] t = "content" -> <<<<"uint", Len(v)>>>> \o FlattenSeq([i \in DOMAIN v |-> Calls("msg", v[i])])
      [] OTHER         -> IF v = Nil THEN <<<<"byte", Coder.nil>>>>
                          ELSE <<<<"byte", StructCoder>>>>
                               \o FlattenSeq([i \in DOMAIN Schema[t] |-> Calls(Schema[t][i], v[i])])

\* A string goes to the string table, once, and its offset to the data.
WriteString(w, s) ==
    IF s \in DOMAIN w.index THEN [w EXCEPT !.data = @ \o Uvarint(w.index[s])]
    ELSE [data    |-> w.data \o Uvarint(Len(w.strings)),
          strings |-> w.strings \o Uvarint(Len(s)) \o s,
          index   |-> [x \in DOMAIN w.index \cup {s} |->
                          IF x = s THEN Len(w.strings) ELSE w.index[x]]]

Write(w, call) ==
    CASE call[1] = "string" -> WriteString(w, call[2])
      [] call[1] = "uint"   -> [w EXCEPT !.data = @ \o Uvarint(call[2])]
      [] call[1] = "int"    -> [w EXCEPT !.data = @ \o Uvarint(ZigZag(call[2]))]
      [] OTHER              -> [w EXCEPT !.data = Append(@, call[2])]

Encode(kind, fields) ==
    LET flag == CASE kind = "group" -> 0 [] kind = "private" -> 1 [] OTHER -> 2
        w == FoldLeft(Write, [data |-> <<>>, strings |-> <<>>, index |-> <<>>],
                      <<<<"uint", flag>>>> \o Calls(kind, fields))
    IN [strings |-> w.strings, data |-> w.data]

\* Reads return the value and the rest of the data.
RECURSIVE ReadUvarint(_)
ReadUvarint(d) ==
    IF d[1] < Radix THEN <<d[1], Tail(d)>>
    ELSE LET more == ReadUvarint(Tail(d)) IN
         <<(d[1] - Radix) + Radix * more[1], more[2]>>

ReadString(d, strings) ==
    LET off == ReadUvarint(d)
        at == ReadUvarint(SubSeq(strings, off[1] + 1, Len(strings)))
    IN <<SubSeq(at[2], 1, at[1]), off[2]>>

RECURSIVE Read(_, _, _), ReadAll(_, _, _)
Read(t, d, strings) ==
    LET u == ReadUvarint(d) IN
    CASE t = "nil"    -> <<Nil, d>>
      [] t = "string" -> ReadString(d, strings)
      [] t = "uint"   -> u
      [] t = "int"    -> <<IF u[1] % 2 = 0 THEN u[1] \div 2 ELSE -((u[1] + 1) \div 2), u[2]>>
      [] t = "obj"    -> LET x == Read(Form(CoderType(d[1])), Tail(d), strings) IN
                         <<<<CoderType(d[1]), x[1]>>, x[2]>>
      [] t = "msg"    -> LET x == ReadAll([i \in 1..(2 * u[1]) |->
                                              IF i % 2 = 1 THEN "string" ELSE "obj"], u[2], strings)
                         IN <<[s \in {x[1][2 * i - 1] : i \in 1..u[1]} |->
                                  x[1][2 * (CHOOSE i \in 1..u[1] : x[1][2 * i - 1] = s)]], x[2]>>
      [] t = "content" -> ReadAll([i \in 1..u[1] |-> "msg"], u[2], strings)
      [] OTHER        -> IF d[1] = Coder.nil THEN <<Nil, Tail(d)>>
                         ELSE ReadAll(Schema[t], Tail(d), strings)
ReadAll(types, d, strings) ==
    IF types = <<>> THEN <<<<>>, d>>
    ELSE LET first == Read(types[1], d, strings)
             more == ReadAll(Tail(types), first[2], strings)
         IN <<<<first[1]>> \o more[1], more[2]>>

\* The kind and the fields of a value, and those of the encoding of a message.
Decode(v) ==
    LET flag == ReadUvarint(v.data)
        kind == CASE flag[1] = 0 -> "group" [] flag[1] = 1 -> "private" [] OTHER -> "guild"
    IN [kind |-> kind, fields |-> Read(kind, flag[2], v.strings)[1]]
=============================================================================
