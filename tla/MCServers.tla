----------------------------- MODULE MCServers -----------------------------
(* Values for Servers, one instance of each part.  The cfg gives Clients   *)
(* the values of Requests, and Ops and ApiCalls those of HttpRequests, so  *)
(* that there are few permutations.                                        *)
EXTENDS Servers, TLC

\* What applications ask for: every refusal, and messages that are sent.
MCApiRequests ==
    {r \in [action : {"send_private_msg", "send_msg", "upload_private_file",
                      ".handle_quick_operation"},
            user : Users, type : {"private", "group"},
            payload : {"good", "malformed", "unsupported", "missing file", "empty"}] :
        /\ r.action \in {"send_private_msg", "upload_private_file"} => r.type = "private"
        /\ r.payload = "missing file" => r.action = "upload_private_file"
        /\ r.action = "upload_private_file" => r.payload \in {"good", "missing file"}}

\* Two versions of the resource, of several blocks and of one.
MCSize == <<8, 4>>

\* Requests to the HTTP server: the three content types, a body that does not
\* parse, tokens in the header and the query, a parameter given twice.
Auth == {<<"", "">>, <<"", "right">>, <<"right", "wrong">>, <<"wrong", "right">>}
MCMessages ==
    {m \in [method : {"POST", "GET", "PUT"}, ctype : {"json", "form", "msgpack"},
            wellFormed : BOOLEAN, header : {"", "right", "wrong"}, query : {"", "right", "wrong"},
            given : {{}, {<<"json", "b">>, <<"form", "c">>, <<"query", "a">>}}] :
        /\ <<m.header, m.query>> \in Auth
        /\ m.method # "POST" => m.ctype = "json" /\ m.wellFormed /\ m.given # {}
        /\ m.method = "PUT" => m.header = "right"
        /\ m.ctype = "form" => m.wellFormed \/ m.header = "right"}

MCSymmetry == Permutations(Requests) \cup Permutations(HttpRequests) \cup Permutations(Accounts)
=============================================================================
