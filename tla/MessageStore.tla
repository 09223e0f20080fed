---------------------------- MODULE MessageStore ----------------------------
(***************************************************************************)
(* The message databases (db/): the backends that are enabled, each with   *)
(* its own layout.  LevelDB keeps one encoded value per id, MongoDB one    *)
(* document per message, SQLite spreads a message over tables that are     *)
(* written and read under separate locks.                                  *)
(*                                                                         *)
(* A message is a tuple of the fields of its kind, a pointer is            *)
(* the tuple it points to or Nil, a string is a sequence of bytes, and a   *)
(* value of a content map is <<type, value>>.  Contents are what           *)
(* ToMessageContent and the Weixin side make: a sequence of maps of        *)
(* strings and of a map of strings and numbers.                            *)
(***************************************************************************)
EXTENDS Integers, Sequences, FiniteSets, Functions

CONSTANTS Messages,  \* calls of Insert*Message
          Kind,      \* "group", "private" or "guild" of each
          Fields,    \* the fields of each
          Configs,   \* sets of backends to enable: "leveldb", "mongodb", "sqlite3"
          Readers,   \* calls of Get*
          Queries,   \* what they ask for: <<"any" or a kind, key>>
          Decoded,   \* what LevelDBCodec makes of the encoding of each
          Int32,     \* the first number that has no int32, 2^31
          Nil

\* How many fields a kind has, and positions of the pointers among them and of
\* the sender and the name in an attribute.
Width(kind) == IF kind = "guild" THEN 6 ELSE 8
At(kind, type) == IF type = "quote" THEN 5 ELSE IF kind = "guild" THEN 2 ELSE 3
Sender == 3
Name == 4
QuotedContent == 3

\* The bytes of GlobalID, or the ID of a message of a guild.
Key(m) == IF Kind[m] = "guild" THEN Fields[m][1] ELSE <<Fields[m][2]>>
Pointer(m, type) == Fields[m][At(Kind[m], type)]

\* A message has all fields of its kind and an attribute, and messages of a kind
\* that have one _id in MongoDB have one key.
ASSUME StoreAssumption ==
    /\ \A m \in Messages :
          /\ Kind[m] \in {"group", "private", "guild"}
          /\ DOMAIN Fields[m] = 1..Width(Kind[m])
          /\ Pointer(m, "attribute") # Nil
          /\ Pointer(m, "quote") # Nil => DOMAIN Pointer(m, "quote") = 1..3
    /\ \A m, n \in Messages : Kind[m] = Kind[n] /\ Fields[m][1] = Fields[n][1] => Key(m) = Key(n)

-----------------------------------------------------------------------------
(* What the backends give back of a content.  SQLite's is YAML, whose      *)
(* whole numbers are all read as int; MongoDB's is BSON, which has an      *)
(* int32 and an int64: an int becomes the one it fits, a uint32 an int64.  *)

Numbers == {"int", "int32", "int64", "uint32"}
YamlValue(v) == IF v[1] \in Numbers THEN <<"int", v[2]>> ELSE v
BsonValue(v) ==
    CASE v[1] = "int" /\ -Int32 <= v[2] /\ v[2] < Int32 -> <<"int32", v[2]>>
      [] v[1] \in {"int", "uint32"}                     -> <<"int64", v[2]>>
      [] OTHER                                          -> v
ValueFrom(b, v) == IF b = "sqlite3" THEN YamlValue(v) ELSE BsonValue(v)
DataFrom(b, data) == [k \in DOMAIN data |-> ValueFrom(b, data[k])]
\* A map in a map is read as one of the same Go type by both.
ElementFrom(b, e) ==
    [k \in DOMAIN e |-> IF e[k][1] = "msg" THEN <<"msg", DataFrom(b, e[k][2])>>
                        ELSE ValueFrom(b, e[k])]
ContentFrom(b, c) == [i \in DOMAIN c |-> ElementFrom(b, c[i])]
QuoteFrom(b, quote) ==
    IF quote = Nil THEN Nil
    ELSE [quote EXCEPT ![QuotedContent] = ContentFrom(b, quote[QuotedContent])]

\* LevelDB's values are decoded to what was encoded.
DecodesWhatWasEncoded ==
    \A m \in Messages : Decoded[m] = [kind |-> Kind[m], fields |-> Fields[m]]

VARIABLES
    order,   \* db.backends
    pc,      \* what an insert does next
    backend, \* the place in order of the backend it is at
    lost,    \* pointers of a message that SQLite failed to write: their id is 0
    leveldb, \* by key, the message whose encoding is there
    mongo,   \* documents
    sql,     \* tables
    rd       \* each Get*: what it does next and what it has

tables == <<leveldb, mongo, sql>>
vars == <<order, pc, backend, lost, tables, rd>>

-----------------------------------------------------------------------------
(* Insert*Message of multidb.go: every backend in turn, up to the first    *)
(* that fails.                                                             *)

Is(m, b) == backend[m] \in DOMAIN order /\ order[backend[m]] = b
Put(f, x, v) == [y \in DOMAIN f \cup {x} |-> IF y = x THEN v ELSE f[y]]

NextBackend(m) ==
    /\ backend' = [backend EXCEPT ![m] = @ + 1]
    /\ pc' = [pc EXCEPT ![m] = IF backend[m] < Len(order) THEN "insert" ELSE "done"]

Begin(m) ==
    /\ pc[m] = "idle"
    /\ pc' = [pc EXCEPT ![m] = "insert"]
    /\ UNCHANGED <<order, backend, lost, tables, rd>>

\* The put, upsert or row insertion fails: the next backends get nothing.
InsertFails(m) ==
    /\ \/ pc[m] = "insert" /\ ~Is(m, "sqlite3")
       \/ pc[m] = "row"
    /\ pc' = [pc EXCEPT ![m] = "failed"]
    /\ UNCHANGED <<order, backend, lost, tables, rd>>

InsertLevelDB(m) ==
    /\ pc[m] = "insert" /\ Is(m, "leveldb")
    /\ leveldb' = Put(leveldb, Key(m), m)
    /\ NextBackend(m)
    /\ UNCHANGED <<order, lost, mongo, sql, rd>>

InsertMongo(m) ==
    /\ pc[m] = "insert" /\ Is(m, "mongodb")
    /\ mongo' = {n \in mongo : Kind[n] # Kind[m] \/ Fields[n][1] # Fields[m][1]} \cup {m}
    /\ NextBackend(m)
    /\ UNCHANGED <<order, lost, leveldb, sql, rd>>

\* The attribute and quote ids are crc64 of their fields: here the tuples
\* themselves; 0 is Nil.  The attribute of a guild's message goes to the table
\* of the others.
AttributeTable == "msgattr"
ReadAttributeTable(kind) == IF kind = "guild" THEN "gmsgattr" ELSE "msgattr"
NameTable(kind) == IF kind = "guild" THEN "tinyinf" ELSE "uininf"

SqlAttribute(m) ==
    LET attr == Pointer(m, "attribute")
        named == Put(sql.names, <<NameTable(Kind[m]), attr[Sender]>>, attr[Name])
    IN /\ pc[m] = "insert" /\ Is(m, "sqlite3")
       /\ pc' = [pc EXCEPT ![m] = "quote"]
       /\ \/ /\ sql' = [sql EXCEPT !.names = named,
                                   !.attrs = @ \cup {<<AttributeTable, attr>>}]
             /\ UNCHANGED lost
          \/ /\ sql' \in {sql, [sql EXCEPT !.names = named]}
             /\ lost' = [lost EXCEPT ![m] = @ \cup {"attribute"}]
       /\ UNCHANGED <<order, backend, leveldb, mongo, rd>>

SqlQuote(m) ==
    LET quote == Pointer(m, "quote") IN
    /\ pc[m] = "quote"
    /\ pc' = [pc EXCEPT ![m] = "row"]
    /\ \/ /\ sql' = [sql EXCEPT !.quotes = @ \cup ({quote} \ {Nil})]
          /\ UNCHANGED lost
       \/ /\ quote # Nil
          /\ lost' = [lost EXCEPT ![m] = @ \cup {"quote"}]
          /\ UNCHANGED sql
    /\ UNCHANGED <<order, backend, leveldb, mongo, rd>>

SqlRow(m) ==
    /\ pc[m] = "row"
    /\ sql' = [sql EXCEPT !.rows = Put(@, <<Kind[m], Key(m)>>, <<m, lost[m]>>)]
    /\ NextBackend(m)
    /\ UNCHANGED <<order, lost, leveldb, mongo, rd>>

\* SQLite's inserts are the same three steps, on tables of their own.
SqlStep(m) == SqlAttribute(m) \/ SqlQuote(m) \/ SqlRow(m)
InsertGroupMessage(m) == Kind[m] = "group" /\ SqlStep(m)
InsertPrivateMessage(m) == Kind[m] = "private" /\ SqlStep(m)
InsertGuildChannelMessage(m) == Kind[m] = "guild" /\ SqlStep(m)

-----------------------------------------------------------------------------
(* Get*: the first backend only.                                           *)

Kinds(q) == IF q[1] = "any" THEN <<"group", "private">> ELSE <<q[1]>>
Stage(r, x) == rd' = [rd EXCEPT ![r] = x]
Found(r, kind, fields) ==
    Stage(r, [rd[r] EXCEPT !.at = "found", !.found = [kind |-> kind, fields |-> fields]])
\* The row's fields, the pointers it has no id for being Nil.
RowFields(x) == [i \in DOMAIN Fields[x[1]] |->
                    IF \E type \in x[2] : i = At(Kind[x[1]], type) THEN Nil
                    ELSE IF i = Width(Kind[x[1]]) THEN ContentFrom("sqlite3", Fields[x[1]][i])
                    ELSE Fields[x[1]][i]]
\* The document's.
DocumentFields(m) == [i \in DOMAIN Fields[m] |->
                         IF i = At(Kind[m], "quote") THEN QuoteFrom("mongodb", Fields[m][i])
                         ELSE IF i = Width(Kind[m]) THEN ContentFrom("mongodb", Fields[m][i])
                         ELSE Fields[m][i]]
NotFound(r) == Stage(r, [rd[r] EXCEPT !.at = "missing"])
\* The table of the next kind, if there is one.
TryNext(r) ==
    IF Len(rd[r].kinds) > 1 THEN Stage(r, [rd[r] EXCEPT !.kinds = Tail(@)]) ELSE NotFound(r)

Ask(r, q) ==
    /\ rd[r].at = "idle"
    /\ Stage(r, [at |-> "get", q |-> q, kinds |-> Kinds(q), found |-> Nil, row |-> Nil,
                 stored |-> {m \in Messages : pc[m] = "done"}])
    /\ UNCHANGED <<order, pc, backend, lost, tables>>

GetLevelDB(r) ==
    LET key == rd[r].q[2] IN
    /\ rd[r].at = "get" /\ order[1] = "leveldb"
    /\ IF key \in DOMAIN leveldb /\ Decoded[leveldb[key]].kind \in Range(rd[r].kinds)
       THEN Found(r, Decoded[leveldb[key]].kind, Decoded[leveldb[key]].fields)
       ELSE NotFound(r)
    /\ UNCHANGED <<order, pc, backend, lost, tables>>

GetMongo(r) ==
    LET kind == rd[r].kinds[1]
        docs == {m \in mongo : Kind[m] = kind /\ Key(m) = rd[r].q[2]}
    IN /\ rd[r].at = "get" /\ order[1] = "mongodb"
       /\ IF docs # {} THEN \E m \in docs : Found(r, kind, DocumentFields(m)) ELSE TryNext(r)
       /\ UNCHANGED <<order, pc, backend, lost, tables>>

GetSqlRow(r) ==
    LET at == <<rd[r].kinds[1], rd[r].q[2]>> IN
    /\ rd[r].at = "get" /\ order[1] = "sqlite3"
    /\ IF at \in DOMAIN sql.rows
       THEN Stage(r, [rd[r] EXCEPT !.at = "attribute", !.row = RowFields(sql.rows[at])])
       ELSE TryNext(r)
    /\ UNCHANGED <<order, pc, backend, lost, tables>>

GetSqlAttribute(r) ==
    LET kind == rd[r].kinds[1]
        at == At(kind, "attribute")
    IN /\ rd[r].at = "attribute"
       /\ Stage(r, IF <<ReadAttributeTable(kind), rd[r].row[at]>> \in sql.attrs
                   THEN [rd[r] EXCEPT !.at = "name"]
                   ELSE [rd[r] EXCEPT !.at = "quote", !.row[at] = Nil])
       /\ UNCHANGED <<order, pc, backend, lost, tables>>

GetSqlName(r) ==
    LET kind == rd[r].kinds[1]
        at == At(kind, "attribute")
    IN /\ rd[r].at = "name"
       /\ Stage(r, [rd[r] EXCEPT !.at = "quote",
                       !.row[at][Name] = sql.names[<<NameTable(kind), rd[r].row[at][Sender]>>]])
       /\ UNCHANGED <<order, pc, backend, lost, tables>>

GetSqlQuote(r) ==
    LET kind == rd[r].kinds[1]
        at == At(kind, "quote")
    IN /\ rd[r].at = "quote"
       /\ Found(r, kind, IF rd[r].row[at] \in sql.quotes
                         THEN [rd[r].row EXCEPT ![at] = QuoteFrom("sqlite3", @)]
                         ELSE [rd[r].row EXCEPT ![at] = Nil])
       /\ UNCHANGED <<order, pc, backend, lost, tables>>

\* Its reads, too.
SqlRead(r) == GetSqlRow(r) \/ GetSqlAttribute(r) \/ GetSqlName(r) \/ GetSqlQuote(r)
Reading(r, kind) == rd[r].at \notin {"idle", "found", "missing"} /\ rd[r].kinds[1] = kind
GetGroupMessage(r) == Reading(r, "group") /\ SqlRead(r)
GetPrivateMessage(r) == Reading(r, "private") /\ SqlRead(r)
GetGuildChannelMessage(r) == Reading(r, "guild") /\ SqlRead(r)

-----------------------------------------------------------------------------
NoTables == <<>>

Init ==
    /\ \E enabled \in Configs :
          order \in {f \in [1..Cardinality(enabled) -> enabled] : Range(f) = enabled}
    /\ pc = [m \in Messages |-> "idle"]
    /\ backend = [m \in Messages |-> 1]
    /\ lost = [m \in Messages |-> {}]
    /\ leveldb = NoTables
    /\ mongo = {}
    /\ sql = [names |-> NoTables, attrs |-> {}, quotes |-> {}, rows |-> NoTables]
    /\ rd = [r \in Readers |-> [at |-> "idle"]]

Next ==
    \/ \E m \in Messages : Begin(m)
    \/ \E m \in Messages : InsertFails(m)
    \/ \E m \in Messages : InsertLevelDB(m)
    \/ \E m \in Messages : InsertMongo(m)
    \/ \E m \in Messages : InsertGroupMessage(m)
    \/ \E m \in Messages : InsertPrivateMessage(m)
    \/ \E m \in Messages : InsertGuildChannelMessage(m)
    \/ \E r \in Readers, q \in Queries : Ask(r, q)
    \/ \E r \in Readers : GetLevelDB(r)
    \/ \E r \in Readers : GetMongo(r)
    \/ \E r \in Readers : GetGroupMessage(r)
    \/ \E r \in Readers : GetPrivateMessage(r)
    \/ \E r \in Readers : GetGuildChannelMessage(r)

Spec == Init /\ [][Next]_vars

-----------------------------------------------------------------------------
\* A content as its readers have it: each map under its keys, each other value
\* as fmt.Sprint writes it, which of a number does not tell the type.
ValueText(v) == <<v[1] = "string", v[2]>>
ElementText(e) ==
    [k \in DOMAIN e |-> IF e[k][1] = "msg"
                        THEN <<"msg", [j \in DOMAIN e[k][2] |-> ValueText(e[k][2][j])]>>
                        ELSE ValueText(e[k])]
ContentText(c) == [i \in DOMAIN c |-> ElementText(c[i])]
SameContent(c, v) == IF order[1] = "leveldb" THEN v = c ELSE ContentText(v) = ContentText(c)

\* What a read gives is a message that was inserted under its id, as it was
\* inserted; SQLite and MongoDB may change the types of the numbers in its
\* content, which leaves what is read of it as it was.  Only SQLite may lose
\* its attribute or its quote, when it failed to write them and always with
\* the attribute of a guild's message, and give its sender the name another
\* message carries.
SameQuote(m, v) ==
    LET quote == Pointer(m, "quote") IN
    \/ v = Nil /\ (quote = Nil \/ "quote" \in lost[m])
    \/ /\ quote # Nil /\ DOMAIN v = DOMAIN quote
       /\ \A i \in DOMAIN quote \ {QuotedContent} : v[i] = quote[i]
       /\ SameContent(quote[QuotedContent], v[QuotedContent])
SameAttribute(m, v) ==
    LET attr == Pointer(m, "attribute") IN
    \/ v = attr
    \/ /\ order[1] = "sqlite3"
       /\ \/ v = Nil /\ (Kind[m] = "guild" \/ "attribute" \in lost[m])
          \/ \E n \in Messages : /\ Pointer(n, "attribute")[Sender] = attr[Sender]
                                 /\ v = [attr EXCEPT ![Name] = Pointer(n, "attribute")[Name]]
Same(m, found) ==
    LET a == At(found.kind, "attribute")
        q == At(found.kind, "quote")
        c == Width(found.kind)
    IN /\ Kind[m] = found.kind
       /\ \A i \in DOMAIN Fields[m] \ {a, q, c} : found.fields[i] = Fields[m][i]
       /\ SameContent(Fields[m][c], found.fields[c])
       /\ SameQuote(m, found.fields[q])
       /\ SameAttribute(m, found.fields[a])

\* Whatever is stored when a read starts is found, unless LevelDB has
\* overwritten it by a message of another kind.
StoreKeeps ==
    \A r \in Readers :
        /\ rd[r].at = "found" =>
             \E m \in Messages :
                pc[m] # "idle" /\ Key(m) = rd[r].q[2] /\ Same(m, rd[r].found)
        /\ rd[r].at = "missing" =>
             \A m \in rd[r].stored : Key(m) = rd[r].q[2] /\ Kind[m] \in Range(Kinds(rd[r].q)) =>
                /\ order[1] = "leveldb"
                /\ \E n \in Messages : Key(n) = Key(m) /\ Kind[n] # Kind[m]
=============================================================================
