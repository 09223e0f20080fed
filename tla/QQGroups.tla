------------------------------ MODULE QQGroups ------------------------------
(***************************************************************************)
(* Groups and friends as the applications of the QQ front end see them:    *)
(* the notices of coolq/event.go, the calls of coolq/api.go that change a  *)
(* group or the friends, and the lists those calls check, which are those  *)
(* of the protocol library and may be behind the server's.                 *)
(*                                                                         *)
(* The state of the server, of the library and what an application makes   *)
(* of the notices have one form: [role, banned, pinned, friends].          *)
(***************************************************************************)
EXTENDS Naturals, Sequences, FiniteSets

CONSTANTS Self, Users, Groups,
          All,          \* whom a ban of the whole group is about
          MaxChanges    \* bound on the changes at the server

VARIABLES server, library, view,
          inbox,    \* pushes of the server that are still to come, in order
          pinner,   \* who last pinned or unpinned the message of a group
          changes

vars == <<server, library, view, inbox, pinner, changes>>

Members == Users \cup {Self}

-----------------------------------------------------------------------------
(* A push is [type, g, u, op, on].  The notice made of it has the type, the *)
(* sub_type and user_id that the handlers choose.                           *)

Push(type, g, u, op, on) == [type |-> type, g |-> g, u |-> u, op |-> op, on |-> on]
Notice(type, sub, g, u) == [type |-> type, sub |-> sub, g |-> g, u |-> u]

\* Mutant: who kicked a member is reported as the one who left.
GroupDecreaseOperator(p) ==
    Notice("group_decrease", IF p.op = p.u THEN "leave" ELSE IF p.u = Self THEN "kick_me" ELSE "kick",
           p.g, p.op)

\* leaveGroupEvent, memberLeaveEvent: without an operator the member left.
GroupDecrease(p) ==
    Notice("group_decrease", IF p.op = p.u THEN "leave" ELSE IF p.u = Self THEN "kick_me" ELSE "kick",
           p.g, p.u)

\* joinGroupEvent of the account, memberJoinEvent of others.
GroupIncrease(p) == Notice("group_increase", "approve", p.g, p.u)

MemberPermissionChanged(p) == Notice("group_admin", IF p.on THEN "set" ELSE "unset", p.g, p.u)

\* A ban that is lifted, of all or of one, comes with a time of 0.
GroupMuted(p) == Notice("group_ban", IF p.on THEN "ban" ELSE "lift_ban", p.g, p.u)

\* What the account did itself is not reported.
GroupEssenceMsg(p) ==
    IF p.op = Self THEN <<>> ELSE <<Notice("essence", IF p.on THEN "add" ELSE "delete", p.g, p.u)>>

FriendAdded(p) == Notice("friend_add", "", p.g, p.u)

Handled(p) ==
    CASE p.type = "join"   -> <<GroupIncrease(p)>>
      [] p.type = "leave"  -> <<GroupDecrease(p)>>
      [] p.type = "admin"  -> <<MemberPermissionChanged(p)>>
      [] p.type = "mute"   -> <<GroupMuted(p)>>
      [] p.type = "digest" -> GroupEssenceMsg(p)
      [] p.type = "friend" -> <<FriendAdded(p)>>

-----------------------------------------------------------------------------
(* What a change does to a state: at the server, and in the lists of the   *)
(* library when its push arrives.                                          *)

Changed(s, p) ==
    CASE p.type = "join"   -> [s EXCEPT !.role[p.g][p.u] = "member"]
      [] p.type = "leave"  -> [s EXCEPT !.role[p.g][p.u] = "out"]
      [] p.type = "admin"  -> [s EXCEPT !.role[p.g][p.u] = IF p.on THEN "admin" ELSE "member"]
      [] p.type = "mute"   -> [s EXCEPT !.banned[p.g] = IF p.on THEN @ \cup {p.u} ELSE @ \ {p.u}]
      [] p.type = "digest" -> [s EXCEPT !.pinned[p.g] = p.on]
      [] p.type = "friend" -> [s EXCEPT !.friends = @ \cup {p.u}]

\* An application that believes the notices; when it joins a group it asks for
\* the members (CQGetGroupMemberList), of which lib is the library's list.
Learned(v, n, lib) ==
    CASE n.type = "group_increase" ->
            IF n.u = Self THEN [v EXCEPT !.role[n.g] = lib.role[n.g]]
            ELSE [v EXCEPT !.role[n.g][n.u] = "member"]
      [] n.type = "group_decrease" -> [v EXCEPT !.role[n.g][n.u] = "out"]
      [] n.type = "group_admin" ->
            [v EXCEPT !.role[n.g][n.u] = IF n.sub = "set" THEN "admin" ELSE "member"]
      [] n.type = "group_ban" ->
            [v EXCEPT !.banned[n.g] = IF n.sub = "ban" THEN @ \cup {n.u} ELSE @ \ {n.u}]
      [] n.type = "essence" -> [v EXCEPT !.pinned[n.g] = n.sub = "add"]
      [] n.type = "friend_add" -> [v EXCEPT !.friends = @ \cup {n.u}]

\* Of what is not reported it hears nothing.
Heard(v, p, lib) == IF Handled(p) = <<>> THEN v ELSE Learned(v, Handled(p)[1], lib)

Possible(p) ==
    LET role == server.role[p.g] IN
    CASE p.type = "join"   -> role[p.u] = "out" /\ (p.u = Self \/ role[Self] # "out")
      [] p.type = "leave"  -> /\ role[p.u] \notin {"out", "owner"} /\ role[Self] # "out"
                              /\ p.op = p.u \/ role[p.op] \in {"admin", "owner"}
      [] p.type = "admin"  -> role[p.u] \in {"member", "admin"} /\ p.on = (role[p.u] = "member") /\ role[Self] # "out"
      [] p.type = "mute"   -> p.u \in {All} \cup {u \in Members : role[u] = "member"} /\ role[Self] # "out"
      [] p.type = "digest" -> role[p.op] # "out" /\ role[Self] # "out"
      [] p.type = "friend" -> p.u \notin server.friends

\* One who joins again has no ban from before, nor does the bot know of any.
Apply(p) ==
    /\ changes < MaxChanges /\ changes' = changes + 1
    /\ server' = Changed(server, p)
    /\ inbox' = Append(inbox, p)
    /\ pinner' = IF p.type = "digest" THEN [pinner EXCEPT ![p.g] = p.op] ELSE pinner

-----------------------------------------------------------------------------
(* Changes made by others, or by the account on another device.            *)

Pushes ==
    {p \in [type : {"join", "leave", "admin", "mute", "digest", "friend"}, g : Groups,
            u : Members \cup {All}, op : Members \cup {All}, on : BOOLEAN] :
        /\ p.type \in {"join", "leave", "friend"} => p.on
        /\ p.type \in {"join", "leave", "admin"} => p.u \in Members
        /\ p.type = "friend" => p.u \in Users
        /\ p.type = "digest" => p.u = Self
        /\ IF p.type \in {"leave", "digest"} THEN p.op \in Members ELSE p.op = p.u}

Change(p) ==
    /\ Possible(p) /\ Apply(p)
    /\ UNCHANGED <<library, view>>

\* The library takes the next push, and the handler reports it.
Handle ==
    /\ inbox # <<>>
    /\ LET p == Head(inbox) IN
       /\ library' = Changed(library, p)
       /\ view' = Heard(view, p, Changed(library, p))
    /\ inbox' = Tail(inbox)
    /\ UNCHANGED <<server, pinner, changes>>

-----------------------------------------------------------------------------
(* Calls; the library's lists are checked, the server may refuse.          *)

FindGroup(g) == library.role[g][Self] # "out"
FindMember(g, u) == library.role[g][u] # "out"

Ask(p) == IF Possible(p) THEN Apply(p) ELSE UNCHANGED <<server, inbox, pinner, changes>>

\* CQSetGroupKick.
SetGroupKick(g, u) ==
    /\ FindGroup(g) /\ FindMember(g, u) /\ u # Self
    /\ Ask(Push("leave", g, u, Self, TRUE))
    /\ UNCHANGED <<library, view>>

SetGroupBan(g, u, on) ==
    /\ FindGroup(g) /\ FindMember(g, u)
    /\ Ask(Push("mute", g, u, u, on))
    /\ UNCHANGED <<library, view>>

SetGroupWholeBan(g, on) ==
    /\ FindGroup(g)
    /\ Ask(Push("mute", g, All, All, on))
    /\ UNCHANGED <<library, view>>

SetGroupLeave(g) ==
    /\ FindGroup(g)
    /\ Ask(Push("leave", g, Self, Self, TRUE))
    /\ UNCHANGED <<library, view>>

\* The members are listed again, whatever the server answered.
SetGroupAdmin(g, u, on) ==
    /\ FindGroup(g) /\ library.role[g][Self] = "owner" /\ FindMember(g, u) /\ u # Self
    /\ Ask(Push("admin", g, u, u, on))
    /\ \/ library' = [library EXCEPT !.role[g] = server'.role[g]]
       \/ UNCHANGED library
    /\ UNCHANGED view

\* An application that is told OK knows what it did.
SetEssence(g, on) ==
    LET p == Push("digest", g, Self, Self, on) IN
    /\ Possible(p) /\ Apply(p)
    /\ view' = Changed(view, p)
    /\ UNCHANGED library

\* Nothing is pushed; the library forgets the friend with the answer.
DeleteFriend(u) ==
    /\ u \in library.friends /\ u \in server.friends
    /\ server' = [server EXCEPT !.friends = @ \ {u}]
    /\ library' = [library EXCEPT !.friends = @ \ {u}]
    /\ view' = [view EXCEPT !.friends = @ \ {u}]
    /\ UNCHANGED <<inbox, pinner, changes>>

\* What the application reads of role, it takes for the truth.
Reads(role) == view' = [view EXCEPT !.role = role]

\* CQGetGroupMemberList; with no_cache the library lists the members again.
GetGroupMemberList(g, noCache) ==
    /\ FindGroup(g)
    /\ LET list == IF noCache THEN server.role[g] ELSE library.role[g] IN
       /\ library' = [library EXCEPT !.role[g] = list]
       /\ Reads([view.role EXCEPT ![g] = list])
    /\ UNCHANGED <<server, inbox, pinner, changes>>

\* CQGetGroupMemberInfo; with no_cache the library's list stays as it is.
GetGroupMemberInfo(g, u, noCache) ==
    LET member == IF noCache THEN server.role[g][u] ELSE library.role[g][u] IN
    /\ FindGroup(g) /\ member # "out"
    /\ Reads([view.role EXCEPT ![g][u] = member])
    /\ UNCHANGED <<server, library, inbox, pinner, changes>>

-----------------------------------------------------------------------------
Start == [role : [Groups -> [Members -> {"member", "admin", "owner", "out"}]],
          banned : {[g \in Groups |-> {}]}, pinned : {[g \in Groups |-> FALSE]}, friends : {{}}]

OneOwner(role) == Cardinality({u \in Members : role[u] = "owner"}) = 1

Init ==
    /\ server \in {s \in Start : \A g \in Groups : OneOwner(s.role[g])}
    /\ library = server /\ view = server
    /\ inbox = <<>> /\ changes = 0
    /\ pinner = [g \in Groups |-> All]

Next ==
    \/ \E p \in Pushes : Change(p)
    \/ Handle
    \/ \E g \in Groups, u \in Users : SetGroupKick(g, u)
    \/ \E g \in Groups, u \in Users, on \in BOOLEAN : SetGroupBan(g, u, on)
    \/ \E g \in Groups, u \in Users, on \in BOOLEAN : SetGroupAdmin(g, u, on)
    \/ \E g \in Groups, on \in BOOLEAN : SetGroupWholeBan(g, on)
    \/ \E g \in Groups : SetGroupLeave(g)
    \/ \E g \in Groups, on \in BOOLEAN : SetEssence(g, on)
    \/ \E u \in Users : DeleteFriend(u)
    \/ \E g \in Groups, c \in BOOLEAN : GetGroupMemberList(g, c)
    \/ \E g \in Groups, u \in Members, c \in BOOLEAN : GetGroupMemberInfo(g, u, c)

Spec == Init /\ [][Next]_vars

-----------------------------------------------------------------------------
\* An application that follows the notices knows, once all have come, who is in
\* the groups the bot is in, with what role, who is banned and who became a
\* friend; and whether a message is pinned, unless its own account did that last.
NoticesTellAll ==
    inbox = <<>> =>
        /\ server.friends \subseteq view.friends
        /\ \A g \in {h \in Groups : server.role[h][Self] # "out"} :
              /\ view.role[g] = server.role[g]
              /\ view.banned[g] = server.banned[g]
              /\ pinner[g] # Self => view.pinned[g] = server.pinned[g]
=============================================================================
