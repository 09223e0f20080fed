----------------------------- MODULE QQRequests -----------------------------
(***************************************************************************)
(* Requests to the account in the QQ front end: to become a friend         *)
(* (friendRequestEvent keeps them by flag), to join a group of which it is *)
(* an administrator, and invitations.  Callers run concurrently: the list of *)
(* the group's requests is read first and may be old when the answer goes  *)
(* out (CQProcessGroupRequest in coolq/api.go).                            *)
(***************************************************************************)
EXTENDS Naturals, FiniteSets

CONSTANTS Requests,
          Kind,         \* kind of each: "friend", "add" or "invite"
          Flag,         \* RequestId of each; a request to join and an invitation may share one
          Callers,        \* calls that may run at a time
          MaxAnswers,   \* bound on the answers to a request
          None

RequestsAssumption == None \notin Requests

VARIABLES
    open,      \* requests that have been made
    flags,     \* friendReqCache: the friend request each flag stands for
    answers,   \* how many answers each request was given
    call,      \* what each call will answer, once it has read the list
    overlap    \* requests that two calls were about to answer

vars == <<open, flags, answers, call, overlap>>

\* friendRequestEvent, groupJoinReqEvent, groupInvitedEvent.
Arrive(r) ==
    /\ r \notin open
    /\ open' = open \cup {r}
    /\ flags' = IF Kind[r] = "friend" THEN [flags EXCEPT ![Flag[r]] = r] ELSE flags
    /\ UNCHANGED <<answers, call, overlap>>

Answered(r) == answers[r] < MaxAnswers /\ answers' = [answers EXCEPT ![r] = @ + 1]

\* CQProcessFriendRequest, Accept or Reject: the flag stays.
ProcessFriendRequest(flag) ==
    /\ flags[flag] # None
    /\ Answered(flags[flag])
    /\ UNCHANGED <<open, flags, call, overlap>>

\* GetGroupSystemMessages: the list has what was not Checked.  Any sub_type but
\* "add" is an invitation.

\* Mutant: requests that were answered are not left out.
UncheckedAny(r) == answers[r] \in 0..MaxAnswers

Unchecked(r) == answers[r] = 0

Found(flag, sub) == {r \in open : Flag[r] = flag /\ Kind[r] = (IF sub = "add" THEN "add" ELSE "invite")}

ProcessGroupRequest(c, flag, sub) ==
    /\ call[c] = None
    /\ \E r \in Found(flag, sub) :
          /\ Unchecked(r)
          /\ call' = [call EXCEPT ![c] = r]
          /\ overlap' = IF \E d \in Callers : call[d] = r THEN overlap \cup {r} ELSE overlap
    /\ UNCHANGED <<open, flags, answers>>

\* Accept or Reject.
Answer(c) ==
    /\ call[c] # None
    /\ Answered(call[c])
    /\ call' = [call EXCEPT ![c] = None]
    /\ UNCHANGED <<open, flags, overlap>>

Init ==
    /\ open = {} /\ flags = [f \in {Flag[r] : r \in Requests} |-> None]
    /\ answers = [r \in Requests |-> 0]
    /\ call = [c \in Callers |-> None] /\ overlap = {}

Next ==
    \/ \E r \in Requests : Arrive(r)
    \/ \E f \in {Flag[r] : r \in Requests} : ProcessFriendRequest(f)
    \/ \E c \in Callers, f \in {Flag[r] : r \in Requests}, s \in {"add", "invite", ""} :
           ProcessGroupRequest(c, f, s)
    \/ \E c \in Callers : Answer(c)

Spec == Init /\ [][Next]_vars

-----------------------------------------------------------------------------
\* A request to join a group, or an invitation, is answered once, but when two
\* calls found it unanswered before either of them answered.  (A friend request
\* may be answered again with the same flag.)
AnsweredOnce ==
    \A r \in Requests : Kind[r] # "friend" /\ r \notin overlap => answers[r] <= 1
=============================================================================
