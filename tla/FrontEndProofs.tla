--------------------------- MODULE FrontEndProofs ---------------------------
(***************************************************************************)
(* Proofs about the parts of FrontEnd and their composition, for any       *)
(* values of the constants: a section for each part and the theorems of    *)
(* FrontEndSpec, which runs one of them; and, last, about the databases    *)
(* that keep their messages.                                               *)
(***************************************************************************)
EXTENDS FrontEnd, MessageStore, SequenceTheorems, FiniteSetTheorems, TLAPS

-----------------------------------------------------------------------------
(* QQRequests: of the calls that may answer a request outside overlap, one *)
(* at most has it in hand, and none once it is answered.                   *)

RequestTypes ==
    /\ open \subseteq Requests
    /\ flags \in [{RequestFlag[r] : r \in Requests} -> Requests \cup {None}]
    /\ answers \in [Requests -> Nat]
    /\ call \in [Callers -> Requests \cup {None}]

\* friendReqCache has friend requests only, calls have none of them.
KindsKept ==
    /\ \A f \in DOMAIN flags : flags[f] # None => RequestKind[flags[f]] = "friend"
    /\ \A c \in Callers : call[c] # None => RequestKind[call[c]] # "friend"

InOneHand ==
    \A r \in Requests : r \notin overlap =>
        /\ \A c, d \in Callers : call[c] = r /\ call[d] = r => c = d
        /\ \A c \in Callers : call[c] = r => answers[r] = 0

RequestInv == RequestTypes /\ KindsKept /\ InOneHand /\ R!AnsweredOnce

LEMMA InitRequestInv == R!Init => RequestInv
BY FrontEndAssumption
   DEF R!RequestsAssumption, R!Init, RequestInv, RequestTypes, KindsKept, InOneHand,
       R!AnsweredOnce

\* Arriving changes no answers.
LEMMA ArriveRequestInv ==
    ASSUME RequestInv, NEW r \in Requests, R!Arrive(r)
    PROVE  RequestInv'
<1>1. /\ open' = open \cup {r} /\ UNCHANGED <<answers, call, overlap>>
      /\ flags' = IF RequestKind[r] = "friend" THEN [flags EXCEPT ![RequestFlag[r]] = r] ELSE flags
  BY DEF R!Arrive
<1>2. RequestTypes'
  BY <1>1 DEF RequestInv, RequestTypes
<1>3. KindsKept'
  BY <1>1 DEF RequestInv, RequestTypes, KindsKept
<1>4. InOneHand' /\ R!AnsweredOnce'
  BY <1>1 DEF RequestInv, InOneHand, R!AnsweredOnce
<1> QED
  BY <1>2, <1>3, <1>4 DEF RequestInv

\* What is answered by its flag is a friend request.
LEMMA ProcessFriendRequestInv ==
    ASSUME RequestInv, NEW f \in {RequestFlag[r] : r \in Requests}, R!ProcessFriendRequest(f)
    PROVE  RequestInv'
<1>1. /\ flags[f] # None /\ flags[f] \in Requests /\ RequestKind[flags[f]] = "friend"
      /\ answers' = [answers EXCEPT ![flags[f]] = @ + 1]
      /\ UNCHANGED <<open, flags, call, overlap>>
  BY DEF R!ProcessFriendRequest, R!Answered, RequestInv, RequestTypes, KindsKept
<1>2. /\ answers' \in [Requests -> Nat]
      /\ \A r \in Requests : RequestKind[r] # "friend" => answers'[r] = answers[r]
  BY <1>1 DEF RequestInv, RequestTypes
<1>3. RequestTypes' /\ KindsKept'
  BY <1>1, <1>2 DEF RequestInv, RequestTypes, KindsKept
<1>4. InOneHand'
  BY <1>1, <1>2 DEF RequestInv, RequestTypes, KindsKept, InOneHand
<1>5. R!AnsweredOnce'
  BY <1>1, <1>2 DEF RequestInv, R!AnsweredOnce
<1> QED
  BY <1>3, <1>4, <1>5 DEF RequestInv

\* A call takes an unanswered request in hand; if another has it, they overlap.
LEMMA ProcessGroupRequestInv ==
    ASSUME RequestInv, NEW c \in Callers, NEW f, NEW s, R!ProcessGroupRequest(c, f, s)
    PROVE  RequestInv'
<1>1. PICK r \in R!Found(f, s) :
        /\ R!Unchecked(r)
        /\ call' = [call EXCEPT ![c] = r]
        /\ overlap' = IF \E d \in Callers : call[d] = r THEN overlap \cup {r} ELSE overlap
  BY DEF R!ProcessGroupRequest
<1>2. call[c] = None /\ UNCHANGED <<open, flags, answers>>
  BY DEF R!ProcessGroupRequest
<1>3. r \in Requests /\ RequestKind[r] # "friend" /\ answers[r] = 0
  BY <1>1 DEF R!Found, R!Unchecked, RequestInv, RequestTypes
<1>4. /\ call' \in [Callers -> Requests \cup {None}] /\ call'[c] = r
      /\ \A d \in Callers \ {c} : call'[d] = call[d]
  BY <1>1, <1>3 DEF RequestInv, RequestTypes
<1>5. RequestTypes' /\ KindsKept'
  BY <1>2, <1>3, <1>4 DEF RequestInv, RequestTypes, KindsKept
<1>6. InOneHand'
  BY <1>1, <1>2, <1>3, <1>4 DEF RequestInv, InOneHand
<1>7. R!AnsweredOnce'
  BY <1>1, <1>2 DEF RequestInv, R!AnsweredOnce
<1> QED
  BY <1>5, <1>6, <1>7 DEF RequestInv

\* The only call that has a request in hand gives its only answer.
LEMMA AnswerRequestInv ==
    ASSUME RequestInv, NEW c \in Callers, R!Answer(c)
    PROVE  RequestInv'
<1> DEFINE r == call[c]
<1>1. /\ r # None /\ r \in Requests
      /\ answers' = [answers EXCEPT ![r] = @ + 1]
      /\ call' = [call EXCEPT ![c] = None]
      /\ UNCHANGED <<open, flags, overlap>>
  BY DEF R!Answer, R!Answered, RequestInv, RequestTypes
<1>2. /\ answers' \in [Requests -> Nat] /\ answers'[r] = answers[r] + 1
      /\ \A q \in Requests \ {r} : answers'[q] = answers[q]
  BY <1>1 DEF RequestInv, RequestTypes
<1>3. /\ call' \in [Callers -> Requests \cup {None}] /\ call'[c] = None
      /\ \A d \in Callers \ {c} : call'[d] = call[d]
  BY <1>1 DEF RequestInv, RequestTypes
<1>4. None \notin Requests
  BY FrontEndAssumption DEF R!RequestsAssumption
<1>5. RequestTypes' /\ KindsKept'
  BY <1>1, <1>2, <1>3 DEF RequestInv, RequestTypes, KindsKept
<1>6. r \notin overlap => answers[r] = 0 /\ \A d \in Callers \ {c} : call[d] # r
  BY <1>1 DEF RequestInv, InOneHand
<1> HIDE DEF r
<1>7. InOneHand'
  BY <1>1, <1>2, <1>3, <1>4, <1>6 DEF RequestInv, InOneHand
<1>8. R!AnsweredOnce'
  BY <1>1, <1>2, <1>6 DEF RequestInv, R!AnsweredOnce
<1> QED
  BY <1>5, <1>7, <1>8 DEF RequestInv

\* Every step keeps the invariant.
LEMMA NextRequestInv == RequestInv /\ [R!Next]_(R!vars) => RequestInv'
<1> SUFFICES ASSUME RequestInv, [R!Next]_(R!vars) PROVE RequestInv'
  OBVIOUS
<1>1. ASSUME NEW r \in Requests, R!Arrive(r) PROVE RequestInv'
  BY <1>1, ArriveRequestInv
<1>2. ASSUME NEW f \in {RequestFlag[r] : r \in Requests}, R!ProcessFriendRequest(f)
      PROVE  RequestInv'
  BY <1>2, ProcessFriendRequestInv
<1>3. ASSUME NEW c \in Callers, NEW f \in {RequestFlag[r] : r \in Requests},
             NEW s \in {"add", "invite", ""}, R!ProcessGroupRequest(c, f, s)
      PROVE  RequestInv'
  BY <1>3, ProcessGroupRequestInv
<1>4. ASSUME NEW c \in Callers, R!Answer(c) PROVE RequestInv'
  BY <1>4, AnswerRequestInv
<1>5. CASE UNCHANGED R!vars
  BY <1>5 DEF R!vars, RequestInv, RequestTypes, KindsKept, InOneHand, R!AnsweredOnce
<1> QED
  BY Zenon, <1>1, <1>2, <1>3, <1>4, <1>5 DEF R!Next

-----------------------------------------------------------------------------
(* Media: what is padded and unpadded is what was padded, and the paths    *)
(* keep apart what the property does not call namesakes.                   *)

\* Padding adds as many bytes as it says.
LEMMA PadProperties ==
    ASSUME NEW s \in Seq(Nat)
    PROVE  /\ Len(s) \in Nat /\ M!Padding(Len(s)) \in Nat
           /\ M!Pad(s) \in Seq(Nat)
           /\ Len(M!Pad(s)) = Len(s) + M!Padding(Len(s))
           /\ \A i \in 1..Len(s) : M!Pad(s)[i] = s[i]
           /\ M!Pad(s)[Len(M!Pad(s))] = M!Padding(Len(s))
<1> DEFINE p == M!Padding(Len(s))
           tail == [i \in 1..p |-> p]
<1>1. Len(s) \in Nat
  BY LenProperties
<1>2. p \in Nat /\ p >= 1 /\ p <= Block
  BY <1>1, FrontEndAssumption DEF M!MediaAssumption, M!Padding
<1>3. M!Pad(s) = s \o tail
  BY DEF M!Pad
<1> HIDE DEF p
<1>4. tail \in Seq(Nat) /\ Len(tail) = p /\ \A i \in 1..p : tail[i] = p
  <2>1. tail \in [1..p -> Nat]
    BY <1>2
  <2>2. tail \in Seq(Nat)
    BY <1>2, <2>1, SeqDef
  <2>3. Len(tail) = p
    BY <1>2, <2>1, <2>2, LenProperties
  <2> QED
    BY <2>2, <2>3
<1> HIDE DEF tail
<1>5. /\ s \o tail \in Seq(Nat) /\ Len(s \o tail) = Len(s) + p
      /\ \A i \in 1..(Len(s) + p) :
             (s \o tail)[i] = IF i <= Len(s) THEN s[i] ELSE tail[i - Len(s)]
  BY <1>4, ConcatProperties
<1>6. (s \o tail)[Len(s) + p] = p
  <2> DEFINE n == Len(s) + p
  <2>1. n \in 1..n /\ ~(n <= Len(s)) /\ n - Len(s) = p
    BY <1>1, <1>2
  <2> DEFINE whole == s \o tail
  <2>2. \A i \in 1..n : whole[i] = IF i <= Len(s) THEN s[i] ELSE tail[i - Len(s)]
    BY <1>5
  <2> HIDE DEF whole, n
  <2>4. whole[n] = tail[n - Len(s)]
    BY <2>1, <2>2
  <2>3. tail[p] = p
    BY <1>2, <1>4
  <2> QED
    BY Zenon, <2>1, <2>3, <2>4 DEF whole, n
<1>7. \A i \in 1..Len(s) : (s \o tail)[i] = s[i]
  BY <1>1, <1>2, <1>5
<1> QED
  BY <1>1, <1>2, <1>3, <1>5, <1>6, <1>7 DEF p

\* Unpadding gives back what was padded.
LEMMA UnpadPad == ASSUME NEW s \in Seq(Nat) PROVE M!Unpad(M!Pad(s)) = s
<1> DEFINE t == M!Pad(s)
<1>1. /\ t \in Seq(Nat) /\ Len(t) - t[Len(t)] = Len(s) /\ Len(s) <= Len(t)
      /\ \A i \in 1..Len(s) : t[i] = s[i]
  <2> DEFINE p == M!Padding(Len(s))
  <2>1. /\ t \in Seq(Nat) /\ Len(t) = Len(s) + p /\ t[Len(t)] = p
        /\ \A i \in 1..Len(s) : t[i] = s[i]
        /\ Len(s) \in Nat /\ p \in Nat
    BY PadProperties
  <2> HIDE DEF t, p
  <2>2. Len(s) + p - p = Len(s) /\ Len(s) <= Len(s) + p
    BY <2>1
  <2> QED
    BY <2>1, <2>2
<1>2. M!Unpad(t) = SubSeq(t, 1, Len(s))
  BY <1>1 DEF M!Unpad
<1> HIDE DEF t
<1>3. Len(s) \in Nat /\ Len(t) \in Nat
  BY <1>1, LenProperties
<1>4. \A i \in 1..Len(s) : t[i] \in Nat
  BY <1>1, <1>3, ElementOfSeq
<1>5. /\ SubSeq(t, 1, Len(s)) \in Seq(Nat)
      /\ Len(SubSeq(t, 1, Len(s))) = IF 1 <= Len(s) THEN Len(s) - 1 + 1 ELSE 0
      /\ \A i \in 1..(Len(s) - 1 + 1) : SubSeq(t, 1, Len(s))[i] = t[1 + i - 1]
  BY <1>3, <1>4, SubSeqProperties
<1>6. Len(SubSeq(t, 1, Len(s))) = Len(s)
  BY <1>3, <1>5
<1>7. \A i \in 1..Len(s) : SubSeq(t, 1, Len(s))[i] = s[i]
  BY <1>1, <1>3, <1>5
<1>8. SubSeq(t, 1, Len(s)) = s
  BY <1>5, <1>6, <1>7, SeqEqual
<1> QED
  BY <1>2, <1>8 DEF t

\* What is downloaded is what was sent, if that fits into the limit.
Intended(item) == IF item.key = "bad hex" THEN M!Pad(item.data) ELSE item.data

LEMMA DownloadedIsSent ==
    ASSUME NEW item, item.data \in Seq(Nat), Len(M!Pad(item.data)) <= Limit
    PROVE  M!Downloaded(item) = Intended(item)
<1>1. Len(M!Pad(item.data)) \in Nat /\ Len(item.data) \in Nat
      /\ Len(item.data) <= Len(M!Pad(item.data)) /\ Limit \in Nat
  <2> DEFINE s == item.data
             p == M!Padding(Len(s))
             t == M!Pad(s)
  <2>1. Len(s) \in Nat /\ p \in Nat /\ Len(t) = Len(s) + p
    BY PadProperties
  <2>2. Limit \in Nat
    BY FrontEndAssumption DEF M!MediaAssumption
  <2> HIDE DEF s, p, t
  <2>3. Len(t) \in Nat /\ Len(s) <= Len(t)
    BY <2>1
  <2> QED
    BY <2>1, <2>2, <2>3 DEF s, t
<1>2. M!Read(M!Pad(item.data)) = M!Pad(item.data) /\ M!Read(item.data) = item.data
  BY <1>1 DEF M!Read
<1> QED
  BY <1>2, UnpadPad DEF M!Downloaded, M!Uploaded, M!Keyless, Intended

Ids == DOMAIN MediaMessages
Items == UNION {{MediaMessages[m][i] : i \in 1..Len(MediaMessages[m])} : m \in Ids}

\* A segment of a file names the path of its item.
FileSegment(m, item) ==
    [kind |-> item.kind, message |-> m, path |-> M!Path(m, item), item |-> item]
Segment == {[kind |-> "text"]} \cup {FileSegment(m, item) : m \in Ids, item \in Items}

OnDisk(ss, paths) == \A i \in 1..Len(ss) : ss[i].kind # "text" => ss[i].path \in paths

\* A file is of an item that has its path, and holds what that item sent, unless
\* its write failed.
Whole(copy_) ==
    copy_.data = Intended(copy_.item) \/ Len(M!Pad(copy_.item.data)) > Limit \/ copy_.failed
FileSound(p) == p = M!Path(disk[p].message, disk[p].item) /\ Whole(disk[p])

MediaInv ==
    /\ current \in Ids \cup {None} /\ next \in Nat \ {0}
    /\ segments \in Seq(Segment) /\ saved \in Seq(Seq(Segment))
    /\ OnDisk(segments, DOMAIN disk)
    /\ \A k \in 1..Len(saved) : OnDisk(saved[k], DOMAIN disk)
    /\ \A p \in DOMAIN disk : FileSound(p)

LEMMA InitMediaInv == M!Init => MediaInv
<1> SUFFICES ASSUME M!Init PROVE MediaInv
  OBVIOUS
<1>1. /\ current = None /\ next = 1 /\ segments = <<>> /\ saved = <<>>
      /\ disk = [p \in {} |-> 0]
  BY DEF M!Init
<1>2. segments \in Seq(Segment) /\ saved \in Seq(Seq(Segment))
  BY Zenon, <1>1, EmptySeq
<1>3. Len(segments) = 0 /\ Len(saved) = 0 /\ DOMAIN disk = {}
  BY <1>1
<1> QED
  BY <1>1, <1>2, <1>3 DEF MediaInv, OnDisk

\* The item a step is at.
LEMMA ItemAtHand ==
    ASSUME MediaInv, M!AtItem
    PROVE  current \in Ids /\ M!Item \in Items /\ M!Item.data \in Seq(Nat)
<1>1. current \in Ids /\ next \in Nat /\ next >= 1 /\ next <= Len(MediaMessages[current])
  BY DEF MediaInv, M!AtItem
<1>2. /\ Len(MediaMessages[current]) \in Nat
      /\ \A i \in 1..Len(MediaMessages[current]) : MediaMessages[current][i].data \in Seq(Nat)
  BY <1>1, FrontEndAssumption DEF M!MediaAssumption, Ids
<1>3. next \in 1..Len(MediaMessages[current])
  BY <1>1, <1>2
<1> QED
  BY <1>1, <1>2, <1>3 DEF M!Item, Items

\* A file written replaces what is under its path, and keeps the others.
LEMMA WrittenSound ==
    ASSUME MediaInv, M!AtItem, NEW data, NEW failed,
           data = M!Downloaded(M!Item) \/ failed, M!WriteFile(data, failed)
    PROVE  /\ DOMAIN disk' = DOMAIN disk \cup {M!Path(current, M!Item)}
           /\ \A p \in DOMAIN disk' : FileSound(p)'
<1> DEFINE item == M!Item
           path == M!Path(current, item)
           copy == [message |-> current, item |-> item, data |-> data, failed |-> failed]
<1>1. disk' = [p \in DOMAIN disk \cup {path} |-> IF p = path THEN copy ELSE disk[p]]
  BY Zenon DEF M!WriteFile
<1>2. item.data \in Seq(Nat)
  BY ItemAtHand
<1>3. Whole(copy)
  <2>1. Len(M!Pad(item.data)) \in Nat /\ Limit \in Nat
    BY <1>2, PadProperties, LenProperties, FrontEndAssumption DEF M!MediaAssumption
  <2>2. copy.item = item /\ copy.data = data /\ copy.failed = failed
    OBVIOUS
  <2> HIDE DEF copy, item
  <2> QED
    BY <1>2, <2>1, <2>2, DownloadedIsSent DEF Whole, item
<1>4. copy.item = item /\ copy.message = current
  OBVIOUS
<1> HIDE DEF copy, item
<1>5. /\ DOMAIN disk' = DOMAIN disk \cup {path} /\ disk'[path] = copy
      /\ \A p \in DOMAIN disk \ {path} : disk'[p] = disk[p]
  BY <1>1
<1>6. ASSUME NEW p \in DOMAIN disk' PROVE p = M!Path(disk'[p].message, disk'[p].item) /\ Whole(disk'[p])
  <2>1. CASE p = path
    BY <1>3, <1>4, <1>5, <2>1
  <2>2. CASE p # path
    BY <1>5, <2>2 DEF MediaInv, FileSound
  <2> QED
    BY <2>1, <2>2
<1> QED
  BY <1>5, <1>6 DEF FileSound, Whole, item

LEMMA SaveMediaInv ==
    ASSUME MediaInv, M!Save
    PROVE  MediaInv'
<1> DEFINE item == M!Item
           path == M!Path(current, item)
           segment == FileSegment(current, item)
<1>1. /\ M!AtItem /\ M!WriteFile(M!Downloaded(item), FALSE)
      /\ segments' = Append(segments, segment)
      /\ next' = next + 1 /\ current' = current /\ saved' = saved
  BY Zenon DEF M!Save, FileSegment
<1>2. current \in Ids /\ item \in Items
  BY <1>1, ItemAtHand
<1>3. segment \in Segment /\ segment.path = path
  BY <1>2 DEF Segment, FileSegment
<1>6. DOMAIN disk' = DOMAIN disk \cup {path} /\ \A p \in DOMAIN disk' : FileSound(p)'
  BY <1>1, WrittenSound
<1> HIDE DEF segment, path, item
<1>5. /\ segments' \in Seq(Segment) /\ Len(segments') = Len(segments) + 1
      /\ \A i \in 1..Len(segments) : segments'[i] = segments[i]
      /\ segments'[Len(segments) + 1] = segment
  BY <1>1, <1>3, AppendProperties DEF MediaInv
<1>7. OnDisk(segments', DOMAIN disk')
  <2>1. Len(segments) \in Nat
    BY LenProperties DEF MediaInv
  <2> SUFFICES ASSUME NEW i \in 1..Len(segments'), segments'[i].kind # "text"
               PROVE  segments'[i].path \in DOMAIN disk'
    BY DEF OnDisk
  <2>2. CASE i = Len(segments) + 1
    BY <1>3, <1>5, <1>6, <2>2
  <2>3. CASE i # Len(segments) + 1
    <3>1. i \in 1..Len(segments)
      BY <1>5, <2>1, <2>3
    <3> QED
      BY <1>5, <1>6, <3>1 DEF MediaInv, OnDisk
  <2> QED
    BY <2>2, <2>3
<1>8. \A k \in 1..Len(saved') : OnDisk(saved'[k], DOMAIN disk')
  BY <1>1, <1>6 DEF MediaInv, OnDisk
<1>10. current' \in Ids \cup {None} /\ next' \in Nat \ {0} /\ saved' \in Seq(Seq(Segment))
  BY <1>1 DEF MediaInv
<1>11. segments' \in Seq(Segment)
  BY <1>5
<1> QED
  BY Zenon, <1>6, <1>7, <1>8, <1>10, <1>11 DEF MediaInv

\* The failed save of a file reports nothing.
LEMMA TornMediaInv ==
    ASSUME MediaInv, M!DropTorn
    PROVE  MediaInv'
<1>1. /\ M!AtItem /\ current' = None /\ segments' = <<>> /\ UNCHANGED <<next, saved>>
      /\ \E n \in 0..Len(M!Downloaded(M!Item)) :
            M!WriteFile(SubSeq(M!Downloaded(M!Item), 1, n), TRUE)
  BY Zenon DEF M!DropTorn, M!Dropped
<1>2. /\ DOMAIN disk' = DOMAIN disk \cup {M!Path(current, M!Item)}
      /\ \A p \in DOMAIN disk' : FileSound(p)'
  BY <1>1, WrittenSound, Zenon
<1>3. segments' \in Seq(Segment) /\ Len(segments') = 0
  <2>1. segments' \in Seq(Segment)
    BY Zenon, <1>1, EmptySeq
  <2> QED BY <1>1, <2>1
<1>4. OnDisk(segments', DOMAIN disk') /\ \A k \in 1..Len(saved') : OnDisk(saved'[k], DOMAIN disk')
  BY <1>1, <1>2, <1>3 DEF MediaInv, OnDisk
<1>5. current' \in Ids \cup {None} /\ next' \in Nat \ {0} /\ saved' \in Seq(Seq(Segment))
  BY <1>1 DEF MediaInv
<1> QED
  BY Zenon, <1>2, <1>3, <1>4, <1>5 DEF MediaInv

\* The others touch no file; what is reported is on disk.
LEMMA NextMediaInv == MediaInv /\ [M!Next]_(M!vars) => MediaInv'
<1> SUFFICES ASSUME MediaInv, [M!Next]_(M!vars) PROVE MediaInv'
  OBVIOUS
<1>1. CASE M!Save
  BY <1>1, SaveMediaInv
<1>2. ASSUME NEW m \in Ids, M!Begin(m) PROVE MediaInv'
  <2> DEFINE text == <<[kind |-> "text"]>>
  <2>1. /\ segments' \in {text, <<>>} /\ current' = m /\ next' = 1
        /\ UNCHANGED <<disk, saved>>
    BY <1>2 DEF M!Begin
  <2>2. /\ text \in Seq(Segment) /\ Len(text) = 1 /\ text[1].kind = "text"
        /\ <<>> \in Seq(Segment) /\ Len(<<>>) = 0
    BY DEF Segment
  <2> HIDE DEF text
  <2>3. OnDisk(segments', DOMAIN disk')
    BY <2>1, <2>2 DEF OnDisk
  <2>4. segments' \in Seq(Segment)
    BY Zenon, <2>1, <2>2
  <2>5. saved' \in Seq(Seq(Segment)) /\ \A k \in 1..Len(saved') : OnDisk(saved'[k], DOMAIN disk')
    BY <2>1 DEF MediaInv
  <2>6. \A p \in DOMAIN disk' : FileSound(p)'
    BY <2>1 DEF MediaInv, FileSound
  <2> QED
    BY <2>1, <2>3, <2>4, <2>5, <2>6 DEF MediaInv
<1>3. CASE M!Skip
  BY <1>3 DEF M!Skip, MediaInv, FileSound, OnDisk
<1>4. CASE M!Drop
  BY <1>4, EmptySeq DEF M!Drop, M!Dropped, MediaInv, FileSound, OnDisk
<1>7. CASE M!DropTorn
  BY <1>7, TornMediaInv
<1>5. CASE M!End
  <2>1. /\ saved' \in {saved, Append(saved, segments)}
        /\ current' = None /\ segments' = <<>> /\ UNCHANGED <<next, disk>>
    BY <1>5 DEF M!End
  <2>2. /\ Append(saved, segments) \in Seq(Seq(Segment))
        /\ Len(Append(saved, segments)) = Len(saved) + 1
        /\ \A k \in 1..Len(saved) : Append(saved, segments)[k] = saved[k]
        /\ Append(saved, segments)[Len(saved) + 1] = segments
    BY AppendProperties DEF MediaInv
  <2>3. \A k \in 1..Len(saved') : \/ k \in 1..Len(saved) /\ saved'[k] = saved[k]
                                  \/ saved'[k] = segments
    <3>1. Len(saved) \in Nat
      BY LenProperties DEF MediaInv
    <3> QED
      BY <2>1, <2>2, <3>1
  <2>4. \A k \in 1..Len(saved') : OnDisk(saved'[k], DOMAIN disk')
    BY <2>1, <2>3 DEF MediaInv
  <2>5. saved' \in Seq(Seq(Segment)) /\ segments' \in Seq(Segment)
    BY Zenon, <2>1, <2>2, EmptySeq DEF MediaInv
  <2>6. OnDisk(segments', DOMAIN disk')
    BY <2>1 DEF OnDisk
  <2> QED
    BY <2>1, <2>4, <2>5, <2>6 DEF MediaInv, FileSound
<1>6. CASE UNCHANGED M!vars
  BY <1>6 DEF M!vars, MediaInv, FileSound, OnDisk
<1> QED
  BY <1>1, <1>2, <1>3, <1>4, <1>5, <1>6, <1>7 DEF M!Next, Ids

\* What is reported is on disk, or a namesake is, as it was sent.
LEMMA SentIsKept == MediaInv => M!MediaIsWhatWasSent
<1> SUFFICES ASSUME MediaInv PROVE M!MediaIsWhatWasSent
  OBVIOUS
<1>1. ASSUME NEW k \in 1..Len(saved), NEW i \in 1..Len(saved[k]), saved[k][i].kind # "text"
      PROVE  LET s == saved[k][i] IN
             /\ s.path \in DOMAIN disk
             /\ M!Namesakes(s, disk[s.path])
             /\ Whole(disk[s.path])
  <2> DEFINE s == saved[k][i]
  <2>1. saved[k] \in Seq(Segment)
    BY ElementOfSeq DEF MediaInv
  <2>2. s \in Segment
    BY <2>1, ElementOfSeq
  <2>3. s.path \in DOMAIN disk
    BY <1>1 DEF MediaInv, OnDisk
  <2>4. PICK m \in Ids, item \in Items : s = FileSegment(m, item)
    BY <1>1, <2>2 DEF Segment
  <2>5. s.kind = item.kind /\ s.path = M!Path(m, item) /\ s.item = item /\ s.message = m
    BY <2>4 DEF FileSegment
  <2>6. FileSound(s.path)
    BY <2>3 DEF MediaInv
  <2>7. s.path = M!Path(disk[s.path].message, disk[s.path].item)
    BY <2>6 DEF FileSound
  <2> HIDE DEF s
  <2>8. M!Namesakes(s, disk[s.path])
    BY <2>5, <2>7 DEF M!Path, M!Namesakes
  <2> QED
    BY <2>3, <2>6, <2>8 DEF s, FileSound
<1>2. M!AtItem => M!AnnouncedSize(Len(M!Item.data)) = Len(M!Pad(M!Item.data))
  BY ItemAtHand, PadProperties DEF M!AnnouncedSize
<1> QED
  BY <1>1, <1>2 DEF M!MediaIsWhatWasSent, Whole, Intended

-----------------------------------------------------------------------------
(* QQGroups: the last push that is still to come about a role, a ban or a  *)
(* pinned message says what the server has; where none is to come, the     *)
(* application has it.                                                     *)

Subjects == G!Members \cup {All}
GroupState == [role : [MemberGroups -> [G!Members -> {"member", "admin", "owner", "out"}]],
               banned : [MemberGroups -> SUBSET Subjects], pinned : [MemberGroups -> BOOLEAN],
               friends : SUBSET GroupUsers]

GroupTypes ==
    /\ server \in GroupState /\ library \in GroupState /\ view \in GroupState
    /\ inbox \in Seq(G!Pushes)
    /\ pinner \in [MemberGroups -> Subjects]

\* Pushes about the role of u in g, about a ban of u, about the message of g.
RolePushes(g, u) ==
    {p \in G!Pushes : p.type \in {"join", "leave", "admin"} /\ p.g = g /\ p.u = u}
BanPushes(g, u) == {p \in G!Pushes : p.type = "mute" /\ p.g = g /\ p.u = u}
PinPushes(g) == {p \in G!Pushes : p.type = "digest" /\ p.g = g}
FriendPushes(u) == {p \in G!Pushes : p.type = "friend" /\ p.u = u}

NewRole(p) ==
    IF p.type = "leave" THEN "out" ELSE IF p.type = "admin" /\ p.on THEN "admin" ELSE "member"

Without(q, S) == \A i \in 1..Len(q) : q[i] \notin S
LastIn(q, S, good) ==
    \A i \in 1..Len(q) :
        q[i] \in S /\ (\A j \in (i + 1)..Len(q) : q[j] \notin S) => q[i] \in good

RolesFollow ==
    \A g \in MemberGroups : \A u \in G!Members :
        /\ LastIn(inbox, RolePushes(g, u), {p \in G!Pushes : NewRole(p) = server.role[g][u]})
        /\ Without(inbox, RolePushes(g, u)) =>
              library.role[g][u] = server.role[g][u] /\ view.role[g][u] = server.role[g][u]
BansFollow ==
    \A g \in MemberGroups : \A u \in Subjects :
        /\ LastIn(inbox, BanPushes(g, u), {p \in G!Pushes : p.on <=> u \in server.banned[g]})
        /\ Without(inbox, BanPushes(g, u)) => (u \in view.banned[g] <=> u \in server.banned[g])
PinsFollow ==
    \A g \in MemberGroups :
        /\ LastIn(inbox, PinPushes(g),
                  {p \in G!Pushes : p.op = pinner[g] /\ (p.on <=> server.pinned[g])})
        /\ Without(inbox, PinPushes(g)) /\ pinner[g] # Self =>
              (view.pinned[g] <=> server.pinned[g])
FriendsFollow ==
    \A u \in server.friends : Without(inbox, FriendPushes(u)) => u \in view.friends

GroupInv == GroupTypes /\ RolesFollow /\ BansFollow /\ PinsFollow /\ FriendsFollow

\* A push that is appended, about S or about something else.
LEMMA AppendQueue ==
    ASSUME NEW P, NEW q \in Seq(P), NEW p \in P, NEW S, NEW good
    PROVE  /\ Without(Append(q, p), S) => Without(q, S) /\ p \notin S
           /\ p \notin S /\ LastIn(q, S, good) => LastIn(Append(q, p), S, good)
           /\ p \in S /\ p \in good => LastIn(Append(q, p), S, good)
<1> DEFINE r == Append(q, p)
<1>1. Len(r) = Len(q) + 1 /\ r[Len(q) + 1] = p /\ \A i \in 1..Len(q) : r[i] = q[i]
  OBVIOUS
<1>2. Len(q) \in Nat
  OBVIOUS
<1> HIDE DEF r
<1>3. Without(r, S) => Without(q, S) /\ p \notin S
  BY <1>1, <1>2 DEF Without
<1>4. p \notin S /\ LastIn(q, S, good) => LastIn(r, S, good)
  <2> SUFFICES ASSUME p \notin S, LastIn(q, S, good), NEW i \in 1..Len(r),
                      r[i] \in S, \A j \in (i + 1)..Len(r) : r[j] \notin S
               PROVE  r[i] \in good
    BY DEF LastIn
  <2>1. i \in 1..Len(q)
    BY <1>1, <1>2
  <2>2. \A j \in (i + 1)..Len(q) : q[j] \notin S
    BY <1>1, <1>2, <2>1
  <2> QED BY <1>1, <2>1, <2>2 DEF LastIn
<1>5. p \in S /\ p \in good => LastIn(r, S, good)
  BY <1>1, <1>2 DEF LastIn
<1> QED BY <1>3, <1>4, <1>5 DEF r

\* The push that is taken.
LEMMA TailQueue ==
    ASSUME NEW P, NEW q \in Seq(P), q # <<>>, NEW S, NEW good
    PROVE  /\ Head(q) \in P /\ Tail(q) \in Seq(P)
           /\ LastIn(q, S, good) => LastIn(Tail(q), S, good)
           /\ Without(Tail(q), S) /\ Head(q) \notin S => Without(q, S)
           /\ Without(Tail(q), S) /\ Head(q) \in S /\ LastIn(q, S, good) => Head(q) \in good
<1> DEFINE h == Head(q)
           t == Tail(q)
<1>1. Len(q) \in Nat \ {0} /\ Len(t) = Len(q) - 1 /\ h = q[1] /\ h \in P /\ t \in Seq(P)
  OBVIOUS
<1>2. \A i \in 1..Len(t) : t[i] = q[i + 1]
  OBVIOUS
<1> HIDE DEF h, t
<1>3. \A i \in 2..Len(q) : i - 1 \in 1..Len(t) /\ q[i] = t[i - 1]
  BY <1>1, <1>2
<1>4. LastIn(q, S, good) => LastIn(t, S, good)
  <2> SUFFICES ASSUME LastIn(q, S, good), NEW i \in 1..Len(t),
                      t[i] \in S, \A j \in (i + 1)..Len(t) : t[j] \notin S
               PROVE  t[i] \in good
    BY DEF LastIn
  <2> DEFINE k == i + 1
  <2>1. k \in 1..Len(q) /\ t[i] = q[k]
    BY <1>1, <1>2
  <2>2. ASSUME NEW j \in (k + 1)..Len(q)
        PROVE  q[j] \notin S
    BY <1>1, <1>3
  <2> HIDE DEF k
  <2> QED BY <2>1, <2>2 DEF LastIn
<1>5. Without(t, S) /\ h \notin S => Without(q, S)
  BY <1>1, <1>3 DEF Without
<1>6. Without(t, S) /\ h \in S /\ LastIn(q, S, good) => h \in good
  <2> SUFFICES ASSUME Without(t, S), h \in S, LastIn(q, S, good)
               PROVE  h \in good
    OBVIOUS
  <2>1. 1 \in 1..Len(q) /\ q[1] \in S
    BY <1>1
  <2>2. \A j \in (1 + 1)..Len(q) : q[j] \notin S
    BY <1>1, <1>3 DEF Without
  <2> QED BY <1>1, <2>1, <2>2 DEF LastIn
<1> QED BY <1>1, <1>4, <1>5, <1>6 DEF h, t

\* The pushes there are.
LEMMA PushKinds ==
    ASSUME NEW p \in G!Pushes
    PROVE  /\ p.type \in {"join", "leave", "admin", "mute", "digest", "friend"}
           /\ p.type # "friend" => p.g \in MemberGroups
           /\ p.type \in {"join", "leave", "admin"} => p.u \in G!Members
           /\ p.type = "mute" => p.u \in Subjects
           /\ p.type = "digest" => p.op \in G!Members
           /\ p.type = "friend" => p.u \in GroupUsers
           /\ p.on \in BOOLEAN
BY DEF G!Pushes, Subjects

\* What a push changes in a state, one type at a time.
LEMMA ChangedIs ==
    ASSUME NEW s, NEW p
    PROVE  /\ p.type = "join" => G!Changed(s, p) = [s EXCEPT !.role[p.g][p.u] = "member"]
           /\ p.type = "leave" => G!Changed(s, p) = [s EXCEPT !.role[p.g][p.u] = "out"]
           /\ p.type = "admin" =>
                 G!Changed(s, p) = [s EXCEPT !.role[p.g][p.u] = IF p.on THEN "admin" ELSE "member"]
           /\ p.type = "mute" =>
                 G!Changed(s, p) = [s EXCEPT !.banned[p.g] = IF p.on THEN @ \cup {p.u} ELSE @ \ {p.u}]
           /\ p.type = "digest" => G!Changed(s, p) = [s EXCEPT !.pinned[p.g] = p.on]
           /\ p.type = "friend" => G!Changed(s, p) = [s EXCEPT !.friends = @ \cup {p.u}]
BY DEF G!Changed

LEMMA ChangedFields ==
    ASSUME NEW s \in GroupState, NEW p \in G!Pushes
    PROVE  /\ G!Changed(s, p) \in GroupState
           /\ G!Changed(s, p).role =
                 IF p.type \in {"join", "leave", "admin"}
                 THEN [s.role EXCEPT ![p.g] = [s.role[p.g] EXCEPT ![p.u] = NewRole(p)]]
                 ELSE s.role
           /\ G!Changed(s, p).banned =
                 IF p.type = "mute"
                 THEN [s.banned EXCEPT ![p.g] = IF p.on THEN s.banned[p.g] \cup {p.u}
                                                ELSE s.banned[p.g] \ {p.u}]
                 ELSE s.banned
           /\ G!Changed(s, p).pinned =
                 IF p.type = "digest" THEN [s.pinned EXCEPT ![p.g] = p.on] ELSE s.pinned
           /\ G!Changed(s, p).friends =
                 IF p.type = "friend" THEN s.friends \cup {p.u} ELSE s.friends
<1> USE PushKinds
<1>1. CASE p.type = "join"
  <2> DEFINE w == [s EXCEPT !.role[p.g][p.u] = "member"]
  <2>1. G!Changed(s, p) = w
    BY <1>1, ChangedIs
  <2>2. w.role = [s.role EXCEPT ![p.g] = [s.role[p.g] EXCEPT ![p.u] = "member"]]
    BY DEF GroupState
  <2>3. w.banned = s.banned /\ w.pinned = s.pinned /\ w.friends = s.friends
    BY DEF GroupState
  <2>4. NewRole(p) = "member"
    BY <1>1 DEF NewRole
  <2>5. w \in GroupState
    BY <1>1, PushKinds DEF GroupState
  <2> HIDE DEF w
  <2> QED BY <1>1, <2>1, <2>2, <2>3, <2>4, <2>5
<1>2. CASE p.type = "leave"
  <2> DEFINE w == [s EXCEPT !.role[p.g][p.u] = "out"]
  <2>1. G!Changed(s, p) = w
    BY <1>2, ChangedIs
  <2>2. w.role = [s.role EXCEPT ![p.g] = [s.role[p.g] EXCEPT ![p.u] = "out"]]
    BY DEF GroupState
  <2>3. w.banned = s.banned /\ w.pinned = s.pinned /\ w.friends = s.friends
    BY DEF GroupState
  <2>4. NewRole(p) = "out"
    BY <1>2 DEF NewRole
  <2>5. w \in GroupState
    BY <1>2, PushKinds DEF GroupState
  <2> HIDE DEF w
  <2> QED BY <1>2, <2>1, <2>2, <2>3, <2>4, <2>5
<1>3. CASE p.type = "admin"
  <2> DEFINE w == [s EXCEPT !.role[p.g][p.u] = IF p.on THEN "admin" ELSE "member"]
  <2>1. G!Changed(s, p) = w
    BY <1>3, ChangedIs
  <2>2. w.role = [s.role EXCEPT ![p.g] =
                    [s.role[p.g] EXCEPT ![p.u] = IF p.on THEN "admin" ELSE "member"]]
    BY DEF GroupState
  <2>3. w.banned = s.banned /\ w.pinned = s.pinned /\ w.friends = s.friends
    BY DEF GroupState
  <2>4. NewRole(p) = IF p.on THEN "admin" ELSE "member"
    BY <1>3 DEF NewRole
  <2>5. w \in GroupState
    BY <1>3, PushKinds DEF GroupState
  <2> HIDE DEF w
  <2> QED BY <1>3, <2>1, <2>2, <2>3, <2>4, <2>5
<1>4. CASE p.type = "mute"
  <2> DEFINE w == [s EXCEPT !.banned[p.g] = IF p.on THEN @ \cup {p.u} ELSE @ \ {p.u}]
  <2>1. G!Changed(s, p) = w
    BY <1>4, ChangedIs
  <2>2. w.banned = [s.banned EXCEPT ![p.g] = IF p.on THEN s.banned[p.g] \cup {p.u}
                                             ELSE s.banned[p.g] \ {p.u}]
    BY DEF GroupState
  <2>3. w.role = s.role /\ w.pinned = s.pinned /\ w.friends = s.friends
    BY DEF GroupState
  <2>4. s.banned[p.g] \subseteq Subjects /\ p.u \in Subjects
    BY <1>4, PushKinds DEF GroupState
  <2>5. w \in GroupState
    BY <2>4 DEF GroupState
  <2> HIDE DEF w
  <2> QED BY <1>4, <2>1, <2>2, <2>3, <2>5
<1>5. CASE p.type = "digest"
  <2> DEFINE w == [s EXCEPT !.pinned[p.g] = p.on]
  <2>1. G!Changed(s, p) = w
    BY <1>5, ChangedIs
  <2>2. w.pinned = [s.pinned EXCEPT ![p.g] = p.on]
    BY DEF GroupState
  <2>3. w.role = s.role /\ w.banned = s.banned /\ w.friends = s.friends
    BY DEF GroupState
  <2>5. w \in GroupState
    BY <1>5, PushKinds DEF GroupState
  <2> HIDE DEF w
  <2> QED BY <1>5, <2>1, <2>2, <2>3, <2>5
<1>6. CASE p.type = "friend"
  <2> DEFINE w == [s EXCEPT !.friends = @ \cup {p.u}]
  <2>1. G!Changed(s, p) = w
    BY <1>6, ChangedIs
  <2>2. w.friends = s.friends \cup {p.u}
    BY DEF GroupState
  <2>3. w.role = s.role /\ w.banned = s.banned /\ w.pinned = s.pinned
    BY DEF GroupState
  <2>5. w \in GroupState
    BY <1>6, PushKinds DEF GroupState
  <2> HIDE DEF w
  <2> QED BY <1>6, <2>1, <2>2, <2>3, <2>5
<1> QED BY <1>1, <1>2, <1>3, <1>4, <1>5, <1>6, PushKinds

\* What a push changes for each member, ban, message and friend.
LEMMA ChangedPoints ==
    ASSUME NEW s \in GroupState, NEW p \in G!Pushes
    PROVE  /\ \A g \in MemberGroups : \A u \in G!Members :
                 G!Changed(s, p).role[g][u] =
                    IF p \in RolePushes(g, u) THEN NewRole(p) ELSE s.role[g][u]
           /\ \A g \in MemberGroups : \A u \in Subjects :
                 u \in G!Changed(s, p).banned[g] <=>
                    IF p \in BanPushes(g, u) THEN p.on ELSE u \in s.banned[g]
           /\ \A g \in MemberGroups :
                 G!Changed(s, p).pinned[g] = IF p \in PinPushes(g) THEN p.on ELSE s.pinned[g]
           /\ \A u \in GroupUsers :
                 u \in G!Changed(s, p).friends <=> u \in s.friends \/ p \in FriendPushes(u)
<1> DEFINE w == G!Changed(s, p)
<1>1. /\ s.role \in [MemberGroups -> [G!Members -> {"member", "admin", "owner", "out"}]]
      /\ s.banned \in [MemberGroups -> SUBSET Subjects] /\ s.pinned \in [MemberGroups -> BOOLEAN]
  BY DEF GroupState
<1>2. /\ p.type \in {"join", "leave", "admin"} => p.g \in MemberGroups /\ p.u \in G!Members
      /\ p.type = "mute" => p.g \in MemberGroups /\ p.u \in Subjects
      /\ p.type = "digest" => p.g \in MemberGroups
  BY PushKinds
<1>3. w.role = IF p.type \in {"join", "leave", "admin"}
               THEN [s.role EXCEPT ![p.g] = [s.role[p.g] EXCEPT ![p.u] = NewRole(p)]]
               ELSE s.role
  BY ChangedFields
<1>4. w.banned = IF p.type = "mute"
                 THEN [s.banned EXCEPT ![p.g] = IF p.on THEN s.banned[p.g] \cup {p.u}
                                                ELSE s.banned[p.g] \ {p.u}]
                 ELSE s.banned
  BY ChangedFields
<1>5. /\ w.pinned = IF p.type = "digest" THEN [s.pinned EXCEPT ![p.g] = p.on] ELSE s.pinned
      /\ w.friends = IF p.type = "friend" THEN s.friends \cup {p.u} ELSE s.friends
  BY ChangedFields
<1> HIDE DEF w
<1>6. \A g \in MemberGroups : \A u \in G!Members :
         w.role[g][u] = IF p \in RolePushes(g, u) THEN NewRole(p) ELSE s.role[g][u]
  BY <1>1, <1>2, <1>3 DEF RolePushes
<1>7. \A g \in MemberGroups : \A u \in Subjects :
         u \in w.banned[g] <=> IF p \in BanPushes(g, u) THEN p.on ELSE u \in s.banned[g]
  BY <1>1, <1>2, <1>4 DEF BanPushes
<1>8. \A g \in MemberGroups : w.pinned[g] = IF p \in PinPushes(g) THEN p.on ELSE s.pinned[g]
  BY <1>1, <1>2, <1>5 DEF PinPushes
<1>9. \A u \in GroupUsers : u \in w.friends <=> u \in s.friends \/ p \in FriendPushes(u)
  BY <1>5 DEF FriendPushes
<1> QED BY <1>6, <1>7, <1>8, <1>9 DEF w

\* What the application makes of the notice of a push: the same, but for the
\* roles of a group that it joined and for messages that its account pinned.
LEMMA LearnedIs ==
    ASSUME NEW v, NEW lib, NEW p \in G!Pushes
    PROVE  \/ G!Heard(v, p, lib) = G!Changed(v, p) /\ (p.type = "digest" => p.op # Self)
           \/ p.type = "join" /\ G!Heard(v, p, lib) = [v EXCEPT !.role[p.g] = lib.role[p.g]]
           \/ p.type = "digest" /\ p.op = Self /\ G!Heard(v, p, lib) = v
<1> p.on \in BOOLEAN /\ p.type \in {"join", "leave", "admin", "mute", "digest", "friend"}
  BY PushKinds
<1>1. CASE p.type = "join"
  <2> DEFINE n == G!GroupIncrease(p)
  <2>1. G!Handled(p) = <<n>>
    BY <1>1, Zenon DEF G!Handled
  <2>2. n.type = "group_increase" /\ n.g = p.g /\ n.u = p.u
    BY DEF G!GroupIncrease, G!Notice
  <2> HIDE DEF n
  <2>3. G!Learned(v, n, lib) = IF n.u = Self THEN [v EXCEPT !.role[n.g] = lib.role[n.g]]
            ELSE [v EXCEPT !.role[n.g][n.u] = "member"]
    BY <2>2, Zenon DEF G!Learned
  <2>4. G!Handled(p) # <<>> /\ G!Handled(p)[1] = n
    BY <2>1
  <2>5. G!Changed(v, p) = [v EXCEPT !.role[p.g][p.u] = "member"]
    BY <1>1, ChangedIs
  <2>6. p.u # Self => G!Learned(v, n, lib) = G!Changed(v, p)
    BY <2>2, <2>3, <2>5
  <2>7. p.u = Self => G!Learned(v, n, lib) = [v EXCEPT !.role[p.g] = lib.role[p.g]]
    BY <2>2, <2>3
  <2>8. G!Heard(v, p, lib) = G!Learned(v, n, lib)
    BY <2>4, Zenon DEF G!Heard
  <2> QED BY <1>1, <2>6, <2>7, <2>8
<1>2. CASE p.type = "leave"
  <2> DEFINE n == G!GroupDecrease(p)
  <2>1. G!Handled(p) = <<n>>
    BY <1>2, Zenon DEF G!Handled
  <2>2. n.type = "group_decrease" /\ n.g = p.g /\ n.u = p.u
    BY DEF G!GroupDecrease, G!Notice
  <2> HIDE DEF n
  <2>3. G!Learned(v, n, lib) = [v EXCEPT !.role[n.g][n.u] = "out"]
    BY <2>2, Zenon DEF G!Learned
  <2>4. G!Handled(p) # <<>> /\ G!Handled(p)[1] = n
    BY <2>1
  <2>5. G!Changed(v, p) = [v EXCEPT !.role[p.g][p.u] = "out"]
    BY <1>2, ChangedIs
  <2>6. G!Learned(v, n, lib) = G!Changed(v, p)
    BY <2>2, <2>3, <2>5
  <2>7. G!Heard(v, p, lib) = G!Learned(v, n, lib)
    BY <2>4, Zenon DEF G!Heard
  <2> QED BY <1>2, <2>6, <2>7
<1>3. CASE p.type = "admin"
  <2> DEFINE n == G!MemberPermissionChanged(p)
  <2>1. G!Handled(p) = <<n>>
    BY <1>3, Zenon DEF G!Handled
  <2>2. n.type = "group_admin" /\ n.g = p.g /\ n.u = p.u /\ (n.sub = "set" <=> p.on)
    BY DEF G!MemberPermissionChanged, G!Notice
  <2> HIDE DEF n
  <2>3. G!Learned(v, n, lib) = [v EXCEPT !.role[n.g][n.u] = IF n.sub = "set" THEN "admin" ELSE "member"]
    BY <2>2, Zenon DEF G!Learned
  <2>4. G!Handled(p) # <<>> /\ G!Handled(p)[1] = n
    BY <2>1
  <2>5. G!Changed(v, p) = [v EXCEPT !.role[p.g][p.u] = IF p.on THEN "admin" ELSE "member"]
    BY <1>3, ChangedIs
  <2>6. G!Learned(v, n, lib) = G!Changed(v, p)
    BY <2>2, <2>3, <2>5
  <2>7. G!Heard(v, p, lib) = G!Learned(v, n, lib)
    BY <2>4, Zenon DEF G!Heard
  <2> QED BY <1>3, <2>6, <2>7
<1>4. CASE p.type = "mute"
  <2> DEFINE n == G!GroupMuted(p)
  <2>1. G!Handled(p) = <<n>>
    BY <1>4, Zenon DEF G!Handled
  <2>2. n.type = "group_ban" /\ n.g = p.g /\ n.u = p.u /\ (n.sub = "ban" <=> p.on)
    BY DEF G!GroupMuted, G!Notice
  <2> HIDE DEF n
  <2>3. G!Learned(v, n, lib) = [v EXCEPT !.banned[n.g] = IF n.sub = "ban" THEN @ \cup {n.u} ELSE @ \ {n.u}]
    BY <2>2, Zenon DEF G!Learned
  <2>4. G!Handled(p) # <<>> /\ G!Handled(p)[1] = n
    BY <2>1
  <2>5. G!Changed(v, p) = [v EXCEPT !.banned[p.g] = IF p.on THEN @ \cup {p.u} ELSE @ \ {p.u}]
    BY <1>4, ChangedIs
  <2>6. G!Learned(v, n, lib) = G!Changed(v, p)
    BY <2>2, <2>3, <2>5
  <2>7. G!Heard(v, p, lib) = G!Learned(v, n, lib)
    BY <2>4, Zenon DEF G!Heard
  <2> QED BY <1>4, <2>6, <2>7
<1>5. CASE p.type = "digest"
  <2> DEFINE n == G!Notice("essence", IF p.on THEN "add" ELSE "delete", p.g, p.u)
  <2>1. G!Handled(p) = IF p.op = Self THEN <<>> ELSE <<n>>
    BY <1>5, Zenon DEF G!Handled, G!GroupEssenceMsg
  <2>2. n.type = "essence" /\ n.g = p.g /\ (n.sub = "add") = p.on
    BY DEF G!Notice
  <2> HIDE DEF n
  <2>3. G!Learned(v, n, lib) = [v EXCEPT !.pinned[n.g] = n.sub = "add"]
    BY <2>2, Zenon DEF G!Learned
  <2>4. p.op # Self => G!Handled(p) # <<>> /\ G!Handled(p)[1] = n
    BY <2>1
  <2>5. G!Changed(v, p) = [v EXCEPT !.pinned[p.g] = p.on]
    BY <1>5, ChangedIs
  <2>6. G!Learned(v, n, lib) = G!Changed(v, p)
    BY <2>2, <2>3, <2>5
  <2>7. G!Heard(v, p, lib) = IF p.op = Self THEN v ELSE G!Learned(v, n, lib)
    BY <2>1, <2>4, Zenon DEF G!Heard
  <2> QED BY <1>5, <2>6, <2>7
<1>6. CASE p.type = "friend"
  <2> DEFINE n == G!FriendAdded(p)
  <2>1. G!Handled(p) = <<n>>
    BY <1>6, Zenon DEF G!Handled
  <2>2. n.type = "friend_add" /\ n.u = p.u
    BY Zenon DEF G!FriendAdded, G!Notice
  <2> HIDE DEF n
  <2>3. G!Learned(v, n, lib) = [v EXCEPT !.friends = @ \cup {n.u}]
    BY <2>2, Zenon DEF G!Learned
  <2>4. G!Handled(p) # <<>> /\ G!Handled(p)[1] = n
    BY <2>1
  <2>5. G!Changed(v, p) = [v EXCEPT !.friends = @ \cup {p.u}]
    BY <1>6, ChangedIs
  <2>6. G!Learned(v, n, lib) = G!Changed(v, p)
    BY <2>2, <2>3, <2>5
  <2>7. G!Heard(v, p, lib) = G!Learned(v, n, lib)
    BY <2>4, Zenon DEF G!Heard
  <2> QED BY <1>6, <2>6, <2>7
<1> QED BY <1>1, <1>2, <1>3, <1>4, <1>5, <1>6

\* An application that hears of a push has what it says, or the library has.
LEMMA LearnedPoints ==
    ASSUME NEW v \in GroupState, NEW lib \in GroupState, NEW p \in G!Pushes
    PROVE  /\ G!Heard(v, p, lib) \in GroupState
           /\ \A g \in MemberGroups : \A u \in G!Members :
                 \/ G!Heard(v, p, lib).role[g][u] = lib.role[g][u]
                 \/ G!Heard(v, p, lib).role[g][u] = IF p \in RolePushes(g, u) THEN NewRole(p) ELSE v.role[g][u]
           /\ \A g \in MemberGroups : \A u \in Subjects :
                 u \in G!Heard(v, p, lib).banned[g] <=> IF p \in BanPushes(g, u) THEN p.on ELSE u \in v.banned[g]
           /\ \A g \in MemberGroups :
                 G!Heard(v, p, lib).pinned[g] = IF p \in PinPushes(g) /\ p.op # Self THEN p.on ELSE v.pinned[g]
           /\ \A u \in GroupUsers :
                 u \in G!Heard(v, p, lib).friends <=> u \in v.friends \/ p \in FriendPushes(u)
<1> DEFINE w == G!Heard(v, p, lib)
<1>0. w = G!Heard(v, p, lib)
  OBVIOUS
<1> DEFINE goal ==
      /\ w \in GroupState
      /\ \A g \in MemberGroups : \A u \in G!Members :
            \/ w.role[g][u] = lib.role[g][u]
            \/ w.role[g][u] = IF p \in RolePushes(g, u) THEN NewRole(p) ELSE v.role[g][u]
      /\ \A g \in MemberGroups : \A u \in Subjects :
            u \in w.banned[g] <=> IF p \in BanPushes(g, u) THEN p.on ELSE u \in v.banned[g]
      /\ \A g \in MemberGroups :
            w.pinned[g] = IF p \in PinPushes(g) /\ p.op # Self THEN p.on ELSE v.pinned[g]
      /\ \A u \in GroupUsers :
            u \in w.friends <=> u \in v.friends \/ p \in FriendPushes(u)
<1> HIDE DEF w
<1>1. ASSUME w = G!Changed(v, p) /\ (p.type = "digest" => p.op # Self)
      PROVE  goal
  <2>1. \A g \in MemberGroups : p \in PinPushes(g) => p.op # Self
    BY <1>1 DEF PinPushes
  <2>2. w \in GroupState
    BY <1>1, ChangedFields
  <2>3. \A g \in MemberGroups : \A u \in G!Members :
           w.role[g][u] = IF p \in RolePushes(g, u) THEN NewRole(p) ELSE v.role[g][u]
    BY <1>1, ChangedPoints
  <2>4. \A g \in MemberGroups : \A u \in Subjects :
           u \in w.banned[g] <=> IF p \in BanPushes(g, u) THEN p.on ELSE u \in v.banned[g]
    BY <1>1, ChangedPoints
  <2>5. \A g \in MemberGroups : w.pinned[g] = IF p \in PinPushes(g) THEN p.on ELSE v.pinned[g]
    BY <1>1, ChangedPoints
  <2>6. \A u \in GroupUsers : u \in w.friends <=> u \in v.friends \/ p \in FriendPushes(u)
    BY <1>1, ChangedPoints
  <2> QED BY <2>1, <2>2, <2>3, <2>4, <2>5, <2>6
<1>2. ASSUME p.type = "join" /\ w = [v EXCEPT !.role[p.g] = lib.role[p.g]]
      PROVE  goal
  <2>1. /\ w.role = [v.role EXCEPT ![p.g] = lib.role[p.g]]
        /\ w.banned = v.banned /\ w.pinned = v.pinned /\ w.friends = v.friends
    BY <1>2 DEF GroupState
  <2>2. p.g \in MemberGroups
    BY <1>2, PushKinds
  <2>3. w \in GroupState
    <3> DEFINE x == lib.role[p.g]
    <3>1. x \in [G!Members -> {"member", "admin", "owner", "out"}]
      BY <2>2 DEF GroupState
    <3>2. w = [v EXCEPT !.role[p.g] = x]
      BY <1>2
    <3> HIDE DEF x
    <3> DEFINE f == [v.role EXCEPT ![p.g] = x]
    <3>3. f \in [MemberGroups -> [G!Members -> {"member", "admin", "owner", "out"}]]
      BY <2>2, <3>1 DEF GroupState
    <3>4. w = [v EXCEPT !.role = f]
      BY <3>2
    <3> HIDE DEF f
    <3> QED BY <3>3, <3>4 DEF GroupState
  <2>4. /\ \A g \in MemberGroups : \A u \in Subjects : p \notin BanPushes(g, u)
        /\ \A g \in MemberGroups : p \notin PinPushes(g)
        /\ \A u \in GroupUsers : p \notin FriendPushes(u)
        /\ \A g \in MemberGroups : \A u \in G!Members : g # p.g => p \notin RolePushes(g, u)
    BY <1>2 DEF BanPushes, PinPushes, FriendPushes, RolePushes
  <2>5. \A g \in MemberGroups : w.role[g] = IF g = p.g THEN lib.role[g] ELSE v.role[g]
    BY <2>1, <2>2 DEF GroupState
  <2> QED BY <2>1, <2>3, <2>4, <2>5
<1>3. ASSUME p.type = "digest" /\ p.op = Self /\ w = v
      PROVE  goal
  <2>1. /\ \A g \in MemberGroups : \A u \in Subjects : p \notin BanPushes(g, u)
        /\ \A u \in GroupUsers : p \notin FriendPushes(u)
        /\ \A g \in MemberGroups : \A u \in G!Members : p \notin RolePushes(g, u)
    BY <1>3 DEF BanPushes, FriendPushes, RolePushes
  <2> QED BY <1>3, <2>1
<1>4. goal
  <2> HIDE DEF goal
  <2> QED BY <1>0, <1>1, <1>2, <1>3, LearnedIs
<1> QED BY <1>4 DEF w

-----------------------------------------------------------------------------
(* Steps of groups and friends.                                            *)

\* A change at the server, of which a push is to come.
LEMMA PushGroupInv ==
    ASSUME GroupInv, NEW p \in G!Pushes,
           server' = G!Changed(server, p), inbox' = Append(inbox, p),
           pinner' = IF p.type = "digest" THEN [pinner EXCEPT ![p.g] = p.op] ELSE pinner,
           library' \in GroupState, view' \in GroupState,
           view'.role = view.role, view'.banned = view.banned, view'.friends = view.friends,
           \A g \in MemberGroups : view'.pinned[g] = view.pinned[g] \/ pinner'[g] = Self,
           \A g \in MemberGroups : \A u \in G!Members :
                library'.role[g][u] \in {library.role[g][u], server'.role[g][u]}
    PROVE  GroupInv'
<1>1. inbox \in Seq(G!Pushes) /\ inbox' \in Seq(G!Pushes) /\ server \in GroupState
  BY DEF GroupInv, GroupTypes
<1>2. GroupTypes'
  BY <1>1, ChangedFields, PushKinds DEF GroupInv, GroupTypes, Subjects
<1>3. RolesFollow'
  <2> SUFFICES ASSUME NEW g \in MemberGroups, NEW u \in G!Members
               PROVE  /\ LastIn(inbox', RolePushes(g, u),
                                {q \in G!Pushes : NewRole(q) = server'.role[g][u]})
                      /\ Without(inbox', RolePushes(g, u)) =>
                            /\ library'.role[g][u] = server'.role[g][u]
                            /\ view'.role[g][u] = server'.role[g][u]
    BY Zenon DEF RolesFollow
  <2> DEFINE S == RolePushes(g, u)
             now == {q \in G!Pushes : NewRole(q) = server'.role[g][u]}
  <2>1. /\ LastIn(inbox, S, {q \in G!Pushes : NewRole(q) = server.role[g][u]})
        /\ Without(inbox, S) =>
              library.role[g][u] = server.role[g][u] /\ view.role[g][u] = server.role[g][u]
    BY DEF GroupInv, RolesFollow
  <2>2. server'.role[g][u] = IF p \in S THEN NewRole(p) ELSE server.role[g][u]
    BY <1>1, ChangedPoints
  <2>3. p \in S => p \in now
    BY <2>2
  <2>4. p \notin S => now = {q \in G!Pushes : NewRole(q) = server.role[g][u]}
    BY <2>2
  <2> HIDE DEF S, now
  <2>5. LastIn(inbox', S, now)
    <3>1. /\ p \notin S /\ LastIn(inbox, S, now) => LastIn(Append(inbox, p), S, now)
          /\ p \in S /\ p \in now => LastIn(Append(inbox, p), S, now)
      BY <1>1, AppendQueue, Zenon
    <3> QED BY <2>1, <2>3, <2>4, <3>1, Zenon
  <2>6. Without(inbox', S) => Without(inbox, S) /\ p \notin S
    BY <1>1, AppendQueue
  <2>7. ASSUME Without(inbox', S)
        PROVE  library'.role[g][u] = server'.role[g][u] /\ view'.role[g][u] = server'.role[g][u]
    BY <2>1, <2>2, <2>6, <2>7
  <2> QED BY <2>5, <2>7 DEF S, now
<1>4. BansFollow'
  <2> SUFFICES ASSUME NEW g \in MemberGroups, NEW u \in Subjects
               PROVE  /\ LastIn(inbox', BanPushes(g, u),
                                {q \in G!Pushes : q.on <=> u \in server'.banned[g]})
                      /\ Without(inbox', BanPushes(g, u)) =>
                            (u \in view'.banned[g] <=> u \in server'.banned[g])
    BY Zenon DEF BansFollow
  <2> DEFINE S == BanPushes(g, u)
             now == {q \in G!Pushes : q.on <=> u \in server'.banned[g]}
  <2>1. /\ LastIn(inbox, S, {q \in G!Pushes : q.on <=> u \in server.banned[g]})
        /\ Without(inbox, S) => (u \in view.banned[g] <=> u \in server.banned[g])
    BY Zenon DEF GroupInv, BansFollow
  <2>2. u \in server'.banned[g] <=> IF p \in S THEN p.on ELSE u \in server.banned[g]
    BY <1>1, ChangedPoints
  <2>3. p \in S => p \in now
    BY <2>2
  <2>4. p \notin S => now = {q \in G!Pushes : q.on <=> u \in server.banned[g]}
    BY <2>2
  <2> HIDE DEF S, now
  <2>5. LastIn(inbox', S, now)
    <3>1. /\ p \notin S /\ LastIn(inbox, S, now) => LastIn(Append(inbox, p), S, now)
          /\ p \in S /\ p \in now => LastIn(Append(inbox, p), S, now)
      BY <1>1, AppendQueue, Zenon
    <3> QED BY <2>1, <2>3, <2>4, <3>1, Zenon
  <2>6. Without(inbox', S) => Without(inbox, S) /\ p \notin S
    BY <1>1, AppendQueue
  <2>7. ASSUME Without(inbox', S)
        PROVE  u \in view'.banned[g] <=> u \in server'.banned[g]
    BY <2>1, <2>2, <2>6, <2>7
  <2> QED BY <2>5, <2>7 DEF S, now
<1>5. PinsFollow'
  <2> SUFFICES ASSUME NEW g \in MemberGroups
               PROVE  /\ LastIn(inbox', PinPushes(g),
                           {q \in G!Pushes : q.op = pinner'[g] /\ (q.on <=> server'.pinned[g])})
                      /\ Without(inbox', PinPushes(g)) /\ pinner'[g] # Self =>
                            (view'.pinned[g] <=> server'.pinned[g])
    BY Zenon DEF PinsFollow
  <2> DEFINE S == PinPushes(g)
             now == {q \in G!Pushes : q.op = pinner'[g] /\ (q.on <=> server'.pinned[g])}
             then == {q \in G!Pushes : q.op = pinner[g] /\ (q.on <=> server.pinned[g])}
  <2>1. /\ LastIn(inbox, S, then)
        /\ Without(inbox, S) /\ pinner[g] # Self => (view.pinned[g] <=> server.pinned[g])
    BY Zenon DEF GroupInv, PinsFollow
  <2>2. server'.pinned[g] = IF p \in S THEN p.on ELSE server.pinned[g]
    BY <1>1, ChangedPoints
  <2>3. pinner'[g] = IF p \in S THEN p.op ELSE pinner[g]
    BY PushKinds DEF PinPushes, GroupInv, GroupTypes
  <2>4. p \in S => p \in now
    BY <2>2, <2>3
  <2>5. p \notin S => now = then
    BY <2>2, <2>3
  <2> HIDE DEF S, now, then
  <2>6. LastIn(inbox', S, now)
    <3>1. /\ p \notin S /\ LastIn(inbox, S, now) => LastIn(Append(inbox, p), S, now)
          /\ p \in S /\ p \in now => LastIn(Append(inbox, p), S, now)
      BY <1>1, AppendQueue, Zenon
    <3> QED BY <2>1, <2>4, <2>5, <3>1, Zenon
  <2>7. Without(inbox', S) => Without(inbox, S) /\ p \notin S
    BY <1>1, AppendQueue
  <2>8. ASSUME Without(inbox', S), pinner'[g] # Self
        PROVE  view'.pinned[g] <=> server'.pinned[g]
    BY <2>1, <2>2, <2>3, <2>7, <2>8
  <2> QED BY <2>6, <2>8 DEF S, now
<1>6. FriendsFollow'
  <2> SUFFICES ASSUME NEW u \in server'.friends, Without(inbox', FriendPushes(u))
               PROVE  u \in view'.friends
    BY Zenon DEF FriendsFollow
  <2>1. u \in GroupUsers
    BY <1>2 DEF GroupTypes, GroupState
  <2>2. Without(inbox, FriendPushes(u)) /\ p \notin FriendPushes(u)
    BY <1>1, AppendQueue
  <2>3. u \in server.friends
    BY <1>1, <2>1, <2>2, ChangedPoints
  <2> QED BY <2>2, <2>3 DEF GroupInv, FriendsFollow
<1> QED BY <1>2, <1>3, <1>4, <1>5, <1>6 DEF GroupInv

\* The push that is taken was about nothing else, or was the last about it.
LEMMA HandleGroupInv ==
    ASSUME GroupInv, G!Handle
    PROVE  GroupInv'
<1> DEFINE p == Head(inbox)
           lib == G!Changed(library, p)
<1>1. /\ inbox # <<>> /\ inbox' = Tail(inbox) /\ library' = lib
      /\ view' = G!Heard(view, p, lib)
      /\ UNCHANGED <<server, pinner>>
  BY Zenon DEF G!Handle
<1>2. /\ inbox \in Seq(G!Pushes) /\ server \in GroupState
      /\ library \in GroupState /\ view \in GroupState
  BY DEF GroupInv, GroupTypes
<1>3. p \in G!Pushes /\ inbox' \in Seq(G!Pushes)
  BY <1>1, <1>2, TailQueue, Zenon
<1> HIDE DEF p
<1>4. lib \in GroupState
  BY <1>2, <1>3, ChangedFields
<1> HIDE DEF lib
<1>5. /\ view' \in GroupState
      /\ \A g \in MemberGroups : \A u \in G!Members :
            \/ view'.role[g][u] = library'.role[g][u]
            \/ view'.role[g][u] = IF p \in RolePushes(g, u) THEN NewRole(p) ELSE view.role[g][u]
      /\ \A g \in MemberGroups : \A u \in Subjects :
            u \in view'.banned[g] <=> IF p \in BanPushes(g, u) THEN p.on ELSE u \in view.banned[g]
      /\ \A g \in MemberGroups :
            view'.pinned[g] = IF p \in PinPushes(g) /\ p.op # Self THEN p.on ELSE view.pinned[g]
      /\ \A u \in GroupUsers : u \in view'.friends <=> u \in view.friends \/ p \in FriendPushes(u)
  <2>1. view' = G!Heard(view, p, lib) /\ library' = lib
    BY <1>1
  <2> DEFINE w == G!Heard(view, p, lib)
  <2>2. /\ w \in GroupState
        /\ \A g \in MemberGroups : \A u \in G!Members :
              \/ w.role[g][u] = lib.role[g][u]
              \/ w.role[g][u] = IF p \in RolePushes(g, u) THEN NewRole(p) ELSE view.role[g][u]
        /\ \A g \in MemberGroups : \A u \in Subjects :
              u \in w.banned[g] <=> IF p \in BanPushes(g, u) THEN p.on ELSE u \in view.banned[g]
        /\ \A g \in MemberGroups :
              w.pinned[g] = IF p \in PinPushes(g) /\ p.op # Self THEN p.on ELSE view.pinned[g]
        /\ \A u \in GroupUsers : u \in w.friends <=> u \in view.friends \/ p \in FriendPushes(u)
    BY <1>2, <1>3, <1>4, LearnedPoints
  <2> HIDE DEF w
  <2>3. view' = w
    BY <2>1 DEF w
  <2> QED BY <2>1, <2>2, <2>3
<1>6. \A g \in MemberGroups : \A u \in G!Members :
         library'.role[g][u] = IF p \in RolePushes(g, u) THEN NewRole(p) ELSE library.role[g][u]
  BY <1>1, <1>2, <1>3, ChangedPoints DEF lib
<1>7. ASSUME NEW S, NEW good
      PROVE  /\ LastIn(inbox, S, good) => LastIn(inbox', S, good)
             /\ Without(inbox', S) /\ p \notin S => Without(inbox, S)
             /\ Without(inbox', S) /\ p \in S /\ LastIn(inbox, S, good) => p \in good
  BY <1>1, <1>2, TailQueue, Zenon DEF p
<1>8. GroupTypes'
  BY <1>1, <1>3, <1>4, <1>5 DEF GroupInv, GroupTypes
<1>9. RolesFollow'
  <2> SUFFICES ASSUME NEW g \in MemberGroups, NEW u \in G!Members
               PROVE  /\ LastIn(inbox', RolePushes(g, u),
                                {q \in G!Pushes : NewRole(q) = server.role[g][u]})
                      /\ Without(inbox', RolePushes(g, u)) =>
                            /\ library'.role[g][u] = server.role[g][u]
                            /\ view'.role[g][u] = server.role[g][u]
    BY <1>1, Zenon DEF RolesFollow
  <2> DEFINE S == RolePushes(g, u)
             now == {q \in G!Pushes : NewRole(q) = server.role[g][u]}
  <2>1. /\ LastIn(inbox, S, now)
        /\ Without(inbox, S) =>
              library.role[g][u] = server.role[g][u] /\ view.role[g][u] = server.role[g][u]
    BY DEF GroupInv, RolesFollow
  <2>2. p \in now => NewRole(p) = server.role[g][u]
    OBVIOUS
  <2> HIDE DEF S, now
  <2>3. LastIn(inbox', S, now)
    BY <1>7, <2>1, Zenon
  <2>4. ASSUME Without(inbox', S)
        PROVE  library'.role[g][u] = server.role[g][u] /\ view'.role[g][u] = server.role[g][u]
    <3>1. CASE p \in S
      <4>1. NewRole(p) = server.role[g][u]
        BY <1>7, <2>1, <2>2, <2>4, <3>1, Zenon
      <4> QED BY <1>5, <1>6, <3>1, <4>1 DEF S
    <3>2. CASE p \notin S
      <4>1. Without(inbox, S)
        BY <1>7, <2>4, <3>2, Zenon
      <4> QED BY <1>5, <1>6, <2>1, <3>2, <4>1 DEF S
    <3> QED BY <3>1, <3>2
  <2> QED BY <2>3, <2>4 DEF S, now
<1>10. BansFollow'
  <2> SUFFICES ASSUME NEW g \in MemberGroups, NEW u \in Subjects
               PROVE  /\ LastIn(inbox', BanPushes(g, u),
                                {q \in G!Pushes : q.on <=> u \in server.banned[g]})
                      /\ Without(inbox', BanPushes(g, u)) =>
                            (u \in view'.banned[g] <=> u \in server.banned[g])
    BY <1>1, Zenon DEF BansFollow
  <2> DEFINE S == BanPushes(g, u)
             now == {q \in G!Pushes : q.on <=> u \in server.banned[g]}
  <2>1. /\ LastIn(inbox, S, now)
        /\ Without(inbox, S) => (u \in view.banned[g] <=> u \in server.banned[g])
    BY Zenon DEF GroupInv, BansFollow
  <2>2. p \in now => (p.on <=> u \in server.banned[g])
    OBVIOUS
  <2> HIDE DEF S, now
  <2>3. LastIn(inbox', S, now)
    BY <1>7, <2>1, Zenon
  <2>4. ASSUME Without(inbox', S)
        PROVE  u \in view'.banned[g] <=> u \in server.banned[g]
    <3>1. CASE p \in S
      <4>1. p.on <=> u \in server.banned[g]
        BY <1>7, <2>1, <2>2, <2>4, <3>1, Zenon
      <4> QED BY <1>5, <3>1, <4>1 DEF S
    <3>2. CASE p \notin S
      <4>1. Without(inbox, S)
        BY <1>7, <2>4, <3>2, Zenon
      <4> QED BY <1>5, <2>1, <3>2, <4>1 DEF S
    <3> QED BY <3>1, <3>2
  <2> QED BY <2>3, <2>4 DEF S, now
<1>11. PinsFollow'
  <2> SUFFICES ASSUME NEW g \in MemberGroups
               PROVE  /\ LastIn(inbox', PinPushes(g),
                           {q \in G!Pushes : q.op = pinner[g] /\ (q.on <=> server.pinned[g])})
                      /\ Without(inbox', PinPushes(g)) /\ pinner[g] # Self =>
                            (view'.pinned[g] <=> server.pinned[g])
    BY <1>1, Zenon DEF PinsFollow
  <2> DEFINE S == PinPushes(g)
             now == {q \in G!Pushes : q.op = pinner[g] /\ (q.on <=> server.pinned[g])}
  <2>1. /\ LastIn(inbox, S, now)
        /\ Without(inbox, S) /\ pinner[g] # Self => (view.pinned[g] <=> server.pinned[g])
    BY Zenon DEF GroupInv, PinsFollow
  <2>2. p \in now => p.op = pinner[g] /\ (p.on <=> server.pinned[g])
    OBVIOUS
  <2> HIDE DEF S, now
  <2>3. LastIn(inbox', S, now)
    BY <1>7, <2>1, Zenon
  <2>4. ASSUME Without(inbox', S), pinner[g] # Self
        PROVE  view'.pinned[g] <=> server.pinned[g]
    <3>1. CASE p \in S
      <4>1. p.op = pinner[g] /\ (p.on <=> server.pinned[g])
        BY <1>7, <2>1, <2>2, <2>4, <3>1, Zenon
      <4> QED BY <1>5, <2>4, <3>1, <4>1 DEF S
    <3>2. CASE p \notin S
      <4>1. Without(inbox, S)
        BY <1>7, <2>4, <3>2, Zenon
      <4> QED BY <1>5, <2>1, <2>4, <3>2, <4>1 DEF S
    <3> QED BY <3>1, <3>2
  <2> QED BY <2>3, <2>4 DEF S, now
<1>12. FriendsFollow'
  <2> SUFFICES ASSUME NEW u \in server.friends, Without(inbox', FriendPushes(u))
               PROVE  u \in view'.friends
    BY <1>1, Zenon DEF FriendsFollow
  <2>1. u \in GroupUsers
    BY <1>2 DEF GroupState
  <2>2. CASE p \in FriendPushes(u)
    BY <1>5, <2>1, <2>2
  <2>3. CASE p \notin FriendPushes(u)
    <3>1. Without(inbox, FriendPushes(u))
      BY <1>7, <2>3, Zenon
    <3> QED BY <1>5, <2>1, <3>1 DEF GroupInv, FriendsFollow
  <2> QED BY <2>2, <2>3
<1> QED BY <1>8, <1>9, <1>10, <1>11, <1>12 DEF GroupInv

\* What is read of roles, or listed again, is what the server or the library has.
LEMMA ReadGroupInv ==
    ASSUME GroupInv, UNCHANGED <<server, inbox, pinner>>,
           library' \in GroupState, view' \in GroupState,
           view'.banned = view.banned, view'.pinned = view.pinned, view'.friends = view.friends,
           \A g \in MemberGroups : \A u \in G!Members :
                /\ library'.role[g][u] \in {library.role[g][u], server.role[g][u]}
                /\ view'.role[g][u] \in {view.role[g][u], library.role[g][u], server.role[g][u]}
    PROVE  GroupInv'
<1>1. GroupTypes' /\ BansFollow' /\ PinsFollow' /\ FriendsFollow'
  BY DEF GroupInv, GroupTypes, BansFollow, PinsFollow, FriendsFollow
<1>2. RolesFollow'
  BY DEF GroupInv, RolesFollow
<1> QED BY <1>1, <1>2 DEF GroupInv

LEMMA DeleteFriendGroupInv ==
    ASSUME GroupInv, NEW u \in GroupUsers, G!DeleteFriend(u)
    PROVE  GroupInv'
<1>1. /\ server \in GroupState /\ library \in GroupState /\ view \in GroupState
      /\ server' = [server EXCEPT !.friends = @ \ {u}]
      /\ library' = [library EXCEPT !.friends = @ \ {u}]
      /\ view' = [view EXCEPT !.friends = @ \ {u}]
      /\ UNCHANGED <<inbox, pinner>>
  BY DEF G!DeleteFriend, GroupInv, GroupTypes
<1>2. /\ server' \in GroupState /\ library' \in GroupState /\ view' \in GroupState
      /\ server'.role = server.role /\ library'.role = library.role /\ view'.role = view.role
      /\ server'.banned = server.banned /\ view'.banned = view.banned
      /\ server'.pinned = server.pinned /\ view'.pinned = view.pinned
      /\ server'.friends = server.friends \ {u} /\ view'.friends = view.friends \ {u}
  BY <1>1 DEF GroupState
<1>3. GroupTypes'
  BY <1>1, <1>2 DEF GroupInv, GroupTypes
<1>4. RolesFollow' /\ BansFollow'
  BY <1>1, <1>2 DEF GroupInv, RolesFollow, BansFollow
<1>5. PinsFollow'
  BY <1>1, <1>2 DEF GroupInv, PinsFollow
<1>6. FriendsFollow'
  BY <1>1, <1>2 DEF GroupInv, FriendsFollow
<1> QED BY <1>3, <1>4, <1>5, <1>6 DEF GroupInv

LEMMA InitGroupInv == G!Init => GroupInv
<1> SUFFICES ASSUME G!Init
             PROVE  GroupInv
  OBVIOUS
<1>1. /\ server \in G!Start /\ library = server /\ view = server /\ inbox = <<>>
      /\ pinner = [g \in MemberGroups |-> All]
  BY DEF G!Init
<1>2. server \in GroupState
  BY <1>1 DEF G!Start, GroupState
<1>3. GroupTypes
  BY <1>1, <1>2 DEF GroupTypes, Subjects
<1>4. \A S, good : LastIn(inbox, S, good)
  BY <1>1 DEF LastIn
<1>5. RolesFollow /\ BansFollow /\ PinsFollow /\ FriendsFollow
  BY <1>1, <1>4, Zenon DEF RolesFollow, BansFollow, PinsFollow, FriendsFollow
<1> QED BY <1>3, <1>5 DEF GroupInv

\* A call, or a change by others, that the server may refuse.
LEMMA AskGroupInv ==
    ASSUME GroupInv, NEW p \in G!Pushes, G!Ask(p), UNCHANGED <<library, view>>
    PROVE  GroupInv'
<1>1. CASE G!Apply(p)
  <2>1. /\ server' = G!Changed(server, p) /\ inbox' = Append(inbox, p)
        /\ pinner' = IF p.type = "digest" THEN [pinner EXCEPT ![p.g] = p.op] ELSE pinner
    BY <1>1 DEF G!Apply
  <2>2. library' \in GroupState /\ view' \in GroupState
    BY DEF GroupInv, GroupTypes
  <2> QED BY <2>1, <2>2, PushGroupInv
<1>2. CASE UNCHANGED <<server, inbox, pinner, changes>>
  <2>1. library' \in GroupState /\ view' \in GroupState
    BY DEF GroupInv, GroupTypes
  <2> QED BY <1>2, <2>1, ReadGroupInv
<1> QED BY <1>1, <1>2 DEF G!Ask

LEMMA SetGroupAdminInv ==
    ASSUME GroupInv, NEW g \in MemberGroups, NEW u \in GroupUsers, NEW on \in BOOLEAN,
           G!SetGroupAdmin(g, u, on)
    PROVE  GroupInv'
<1> DEFINE p == G!Push("admin", g, u, u, on)
<1>1. /\ G!Ask(p) /\ view' = view
      /\ library' = [library EXCEPT !.role[g] = server'.role[g]] \/ library' = library
  BY DEF G!SetGroupAdmin
<1>2. p \in G!Pushes
  BY DEF G!Push, G!Pushes, G!Members
<1>3. /\ server \in GroupState /\ library \in GroupState /\ view' \in GroupState
  BY <1>1 DEF GroupInv, GroupTypes
<1> HIDE DEF p
<1>4. server' \in GroupState
  BY <1>1, <1>2, <1>3, ChangedFields DEF G!Ask, G!Apply
<1>5. /\ library' \in GroupState
      /\ \A h \in MemberGroups : \A w \in G!Members :
            library'.role[h][w] \in {library.role[h][w], server'.role[h][w]}
  <2>1. CASE library' = library
    BY <1>3, <2>1
  <2>2. CASE library' = [library EXCEPT !.role[g] = server'.role[g]]
    <3> DEFINE list == server'.role[g]
    <3>1. list \in [G!Members -> {"member", "admin", "owner", "out"}]
      BY <1>4 DEF GroupState
    <3>2. library' = [library EXCEPT !.role[g] = list]
      BY <2>2
    <3>3. \A w \in G!Members : list[w] = server'.role[g][w]
      OBVIOUS
    <3> HIDE DEF list
    <3>4. library' \in GroupState /\ library'.role = [library.role EXCEPT ![g] = list]
      BY <1>3, <3>1, <3>2 DEF GroupState
    <3>5. \A h \in MemberGroups : library'.role[h] = IF h = g THEN list ELSE library.role[h]
      BY <1>3, <3>4 DEF GroupState
    <3> QED BY <3>3, <3>4, <3>5
  <2> QED BY <1>1, <2>1, <2>2
<1>6. CASE G!Apply(p)
  <2>1. /\ server' = G!Changed(server, p) /\ inbox' = Append(inbox, p)
        /\ pinner' = IF p.type = "digest" THEN [pinner EXCEPT ![p.g] = p.op] ELSE pinner
    BY <1>6 DEF G!Apply
  <2> QED BY <1>1, <1>2, <1>3, <1>5, <2>1, PushGroupInv
<1>7. CASE UNCHANGED <<server, inbox, pinner, changes>>
  BY <1>1, <1>3, <1>5, <1>7, ReadGroupInv
<1> QED BY <1>1, <1>6, <1>7 DEF G!Ask

LEMMA SetEssenceInv ==
    ASSUME GroupInv, NEW g \in MemberGroups, NEW on \in BOOLEAN, G!SetEssence(g, on)
    PROVE  GroupInv'
<1> DEFINE p == G!Push("digest", g, Self, Self, on)
<1>1. /\ server' = G!Changed(server, p) /\ inbox' = Append(inbox, p)
      /\ pinner' = IF p.type = "digest" THEN [pinner EXCEPT ![p.g] = p.op] ELSE pinner
      /\ view' = G!Changed(view, p) /\ library' = library
  BY DEF G!SetEssence, G!Apply
<1>2. p \in G!Pushes /\ p.type = "digest" /\ p.g = g /\ p.op = Self
  BY DEF G!Push, G!Pushes, G!Members
<1> HIDE DEF p
<1>3. view \in GroupState /\ library' \in GroupState
  BY <1>1 DEF GroupInv, GroupTypes
<1>4. /\ view' \in GroupState /\ view'.role = view.role /\ view'.banned = view.banned
      /\ view'.friends = view.friends /\ view'.pinned = [view.pinned EXCEPT ![g] = p.on]
  BY <1>1, <1>2, <1>3, ChangedFields
<1>5. \A h \in MemberGroups : view'.pinned[h] = view.pinned[h] \/ pinner'[h] = Self
  BY <1>1, <1>2, <1>3, <1>4 DEF GroupInv, GroupTypes, GroupState
<1>6. \A h \in MemberGroups : \A u \in G!Members :
         library'.role[h][u] \in {library.role[h][u], server'.role[h][u]}
  BY <1>1
<1> QED BY <1>1, <1>2, <1>3, <1>4, <1>5, <1>6, PushGroupInv

LEMMA GetGroupMemberListInv ==
    ASSUME GroupInv, NEW g \in MemberGroups, NEW c \in BOOLEAN, G!GetGroupMemberList(g, c)
    PROVE  GroupInv'
<1> DEFINE list == IF c THEN server.role[g] ELSE library.role[g]
<1>1. /\ library' = [library EXCEPT !.role[g] = list]
      /\ view' = [view EXCEPT !.role = [view.role EXCEPT ![g] = list]]
      /\ UNCHANGED <<server, inbox, pinner>>
  BY Zenon DEF G!GetGroupMemberList, G!Reads
<1>2. /\ server \in GroupState /\ library \in GroupState /\ view \in GroupState
  BY DEF GroupInv, GroupTypes
<1>3. list \in [G!Members -> {"member", "admin", "owner", "out"}]
  BY <1>2 DEF GroupState
<1>4. \A u \in G!Members : list[u] \in {library.role[g][u], server.role[g][u]}
  OBVIOUS
<1> HIDE DEF list
<1>5. library' \in GroupState /\ library'.role = [library.role EXCEPT ![g] = list]
  BY <1>1, <1>2, <1>3 DEF GroupState
<1> DEFINE f == [view.role EXCEPT ![g] = list]
<1>6. f \in [MemberGroups -> [G!Members -> {"member", "admin", "owner", "out"}]]
  BY <1>2, <1>3 DEF GroupState
<1>7. \A h \in MemberGroups : f[h] = IF h = g THEN list ELSE view.role[h]
  BY <1>2 DEF GroupState
<1>8. view' = [view EXCEPT !.role = f]
  BY <1>1, Zenon
<1> HIDE DEF f
<1>9. /\ view' \in GroupState /\ view'.role = f /\ view'.banned = view.banned
      /\ view'.pinned = view.pinned /\ view'.friends = view.friends
  BY <1>2, <1>6, <1>8 DEF GroupState
<1>10. \A h \in MemberGroups : library'.role[h] = IF h = g THEN list ELSE library.role[h]
  BY <1>2, <1>5 DEF GroupState
<1>11. \A h \in MemberGroups : \A u \in G!Members :
          /\ library'.role[h][u] \in {library.role[h][u], server.role[h][u]}
          /\ view'.role[h][u] \in {view.role[h][u], library.role[h][u], server.role[h][u]}
  BY <1>4, <1>7, <1>9, <1>10
<1> QED BY <1>1, <1>5, <1>9, <1>11, ReadGroupInv

LEMMA GetGroupMemberInfoInv ==
    ASSUME GroupInv, NEW g \in MemberGroups, NEW u \in G!Members, NEW c \in BOOLEAN,
           G!GetGroupMemberInfo(g, u, c)
    PROVE  GroupInv'
<1> DEFINE member == IF c THEN server.role[g][u] ELSE library.role[g][u]
           f == [view.role EXCEPT ![g][u] = member]
<1>1. /\ view' = [view EXCEPT !.role = f]
      /\ UNCHANGED <<server, library, inbox, pinner>>
  BY Zenon DEF G!GetGroupMemberInfo, G!Reads
<1>2. /\ server \in GroupState /\ library \in GroupState /\ view \in GroupState
      /\ library' \in GroupState
  BY <1>1 DEF GroupInv, GroupTypes
<1>3. member \in {"member", "admin", "owner", "out"}
  BY <1>2 DEF GroupState
<1>4. member \in {library.role[g][u], server.role[g][u]}
  OBVIOUS
<1> HIDE DEF member
<1>5. f \in [MemberGroups -> [G!Members -> {"member", "admin", "owner", "out"}]]
  BY <1>2, <1>3 DEF GroupState
<1>6. \A h \in MemberGroups : \A w \in G!Members :
         f[h][w] = IF h = g /\ w = u THEN member ELSE view.role[h][w]
  BY <1>2 DEF GroupState
<1> HIDE DEF f
<1>7. /\ view' \in GroupState /\ view'.role = f /\ view'.banned = view.banned
      /\ view'.pinned = view.pinned /\ view'.friends = view.friends
  BY <1>1, <1>2, <1>5 DEF GroupState
<1>8. \A h \in MemberGroups : \A w \in G!Members :
         /\ library'.role[h][w] \in {library.role[h][w], server.role[h][w]}
         /\ view'.role[h][w] \in {view.role[h][w], library.role[h][w], server.role[h][w]}
  BY <1>1, <1>4, <1>6, <1>7
<1> QED BY <1>1, <1>2, <1>7, <1>8, ReadGroupInv

LEMMA NextGroupInv == GroupInv /\ [G!Next]_(G!vars) => GroupInv'
<1> SUFFICES ASSUME GroupInv, [G!Next]_(G!vars)
             PROVE  GroupInv'
  OBVIOUS
<1>1. ASSUME NEW p \in G!Pushes, G!Change(p)
      PROVE  GroupInv'
  BY <1>1, AskGroupInv DEF G!Change, G!Ask
<1>2. CASE G!Handle
  BY <1>2, HandleGroupInv
<1>3. ASSUME NEW g \in MemberGroups, NEW u \in GroupUsers, G!SetGroupKick(g, u)
      PROVE  GroupInv'
  <2>1. G!Push("leave", g, u, Self, TRUE) \in G!Pushes
    BY DEF G!Push, G!Pushes, G!Members
  <2> QED BY <1>3, <2>1, AskGroupInv DEF G!SetGroupKick
<1>4. ASSUME NEW g \in MemberGroups, NEW u \in GroupUsers, NEW on \in BOOLEAN, G!SetGroupBan(g, u, on)
      PROVE  GroupInv'
  <2>1. G!Push("mute", g, u, u, on) \in G!Pushes
    BY DEF G!Push, G!Pushes, G!Members
  <2> QED BY <1>4, <2>1, AskGroupInv DEF G!SetGroupBan
<1>5. ASSUME NEW g \in MemberGroups, NEW u \in GroupUsers, NEW on \in BOOLEAN, G!SetGroupAdmin(g, u, on)
      PROVE  GroupInv'
  BY <1>5, SetGroupAdminInv
<1>6. ASSUME NEW g \in MemberGroups, NEW on \in BOOLEAN, G!SetGroupWholeBan(g, on)
      PROVE  GroupInv'
  <2>1. G!Push("mute", g, All, All, on) \in G!Pushes
    BY DEF G!Push, G!Pushes, G!Members
  <2> QED BY <1>6, <2>1, AskGroupInv DEF G!SetGroupWholeBan
<1>7. ASSUME NEW g \in MemberGroups, G!SetGroupLeave(g)
      PROVE  GroupInv'
  <2>1. G!Push("leave", g, Self, Self, TRUE) \in G!Pushes
    BY DEF G!Push, G!Pushes, G!Members
  <2> QED BY <1>7, <2>1, AskGroupInv DEF G!SetGroupLeave
<1>8. ASSUME NEW g \in MemberGroups, NEW on \in BOOLEAN, G!SetEssence(g, on)
      PROVE  GroupInv'
  BY <1>8, SetEssenceInv
<1>9. ASSUME NEW u \in GroupUsers, G!DeleteFriend(u)
      PROVE  GroupInv'
  BY <1>9, DeleteFriendGroupInv
<1>10. ASSUME NEW g \in MemberGroups, NEW c \in BOOLEAN, G!GetGroupMemberList(g, c)
       PROVE  GroupInv'
  BY <1>10, GetGroupMemberListInv
<1>11. ASSUME NEW g \in MemberGroups, NEW u \in G!Members, NEW c \in BOOLEAN,
              G!GetGroupMemberInfo(g, u, c)
       PROVE  GroupInv'
  BY <1>11, GetGroupMemberInfoInv
<1>12. CASE UNCHANGED G!vars
  BY <1>12 DEF G!vars, GroupInv, GroupTypes, RolesFollow, BansFollow, PinsFollow, FriendsFollow
<1> QED BY <1>1, <1>2, <1>3, <1>4, <1>5, <1>6, <1>7, <1>8, <1>9, <1>10, <1>11, <1>12 DEF G!Next

\* With nothing more to come, the application has it all.
LEMMA NoticesTold == GroupInv => G!NoticesTellAll
<1> SUFFICES ASSUME GroupInv, inbox = <<>>
             PROVE  /\ server.friends \subseteq view.friends
                    /\ \A g \in MemberGroups :
                          /\ view.role[g] = server.role[g]
                          /\ view.banned[g] = server.banned[g]
                          /\ pinner[g] # Self => view.pinned[g] = server.pinned[g]
  BY DEF G!NoticesTellAll
<1>1. \A S : Without(inbox, S)
  BY DEF Without
<1>2. server \in GroupState /\ view \in GroupState
  BY DEF GroupInv, GroupTypes
<1>3. server.friends \subseteq view.friends
  BY <1>1, Zenon DEF GroupInv, FriendsFollow
<1>4. ASSUME NEW g \in MemberGroups
      PROVE  /\ view.role[g] = server.role[g]
             /\ view.banned[g] = server.banned[g]
             /\ pinner[g] # Self => view.pinned[g] = server.pinned[g]
  <2>1. \A u \in G!Members : view.role[g][u] = server.role[g][u]
    BY <1>1, Zenon DEF GroupInv, RolesFollow
  <2>2. view.role[g] = server.role[g]
    BY <1>2, <2>1 DEF GroupState
  <2>3. \A u \in Subjects : u \in view.banned[g] <=> u \in server.banned[g]
    BY <1>1, Zenon DEF GroupInv, BansFollow
  <2>4. view.banned[g] = server.banned[g]
    BY <1>2, <2>3 DEF GroupState
  <2>5. pinner[g] # Self => (view.pinned[g] <=> server.pinned[g])
    BY <1>1, Zenon DEF GroupInv, PinsFollow
  <2>6. view.pinned[g] \in BOOLEAN /\ server.pinned[g] \in BOOLEAN
    BY <1>2 DEF GroupState
  <2> QED BY <2>2, <2>4, <2>5, <2>6
<1> QED BY <1>3, <1>4

-----------------------------------------------------------------------------
(* QQMessages: what is reported, stored or called is about a message that  *)
(* was said, under the id that its key gives; ids tell messages apart; and *)
(* a message quotes another in one of three forms.                         *)

PrivateKeys == {k \in [in : {"private"} \X Users, from : Users \cup {Self}, seq : PrivateSeqs] :
                   k.from \in {k.in[2], Self}}
GroupKeys == [in : {"group"} \X Groups, from : Users \cup {Self}, seq : GroupSeqs]
GuildKeys == [in : {"guild"} \X Channels, from : Users \cup {Self}, seq : GroupSeqs]
TempKeys == {k \in [in : {"temp"} \X Users, from : Users, seq : PrivateSeqs] : k.from = k.in[2]}
SaidKeys == PrivateKeys \cup GroupKeys \cup GuildKeys \cup TempKeys

\* A reply r of m: to a message of its conversation, to one of a group that is
\* answered privately, or a reply that a call of the account made of an id.
InPlace(m, r) ==
    /\ r.of.in = m.in
    /\ IF Q!OneToOne(m.in) THEN r.seq \in {r.of.seq, r.of.seq + Wrap} /\ r.group \in {None, m.from}
       ELSE r.seq = r.of.seq /\ r.group \in {None, m.in[2]}
FromGroup(m, r) ==
    Q!OneToOne(m.in) /\ r.of.in[1] = "group" /\ r.seq = r.of.seq /\ r.group = r.of.in[2]
ByCall(m, r) ==
    m.from = Self /\ r.seq = r.of.seq /\ r.group = None /\ r.of.in[1] \in {"private", "group"}

QuoteSound(m) ==
    m.re = None \/ /\ m.re.of \in SaidKeys /\ m.re.sender = m.re.of.from
                   /\ InPlace(m, m.re) \/ FromGroup(m, m.re) \/ ByCall(m, m.re)

\* Where the replies of a message that is reported are resolved.
SourceOf(m) == IF Q!OneToOne(m.in) THEN <<"private", m.from>> ELSE m.in

\* The id a message is reported with: its own, or one that is of no use.
IdSound(id, m) ==
    \/ m.in[1] # "temp" /\ id = Q!IdOf(m)
    \/ /\ ~Q!Usable(id)
       /\ id = Q!Failed \/ m.in[1] = "temp" \/ (m.from = Self /\ m.in[1] # "group")

StoredFrom(m, source) ==
    /\ m.in[1] # "temp"
    /\ \/ m.in[1] = "guild"
       \/ source = SourceOf(m)
       \/ m.in[1] = "group" /\ source = <<"private", None>>
       \/ m.in[1] = "private" /\ source = m.in /\ (m.re = None \/ ByCall(m, m.re))

ReportSound(e, ss) ==
    \E m \in ss :
        /\ e.msg = Q!Key(m) /\ IdSound(e.id, m)
        /\ \/ e.re = None
           \/ m.in[1] # "guild" /\ e.re = m.re /\ e.reply = Q!ReplyID(m.re, SourceOf(m))

RecordSound(r, ss) == \E m \in ss : r = Q!Record(m, r.source) /\ StoredFrom(m, r.source)

CallSound(d, ss) ==
    Q!Usable(d.id) => \E m \in ss : m.in[1] # "temp" /\ d.id = Q!IdOf(m) /\ d.on = Q!Key(m)

\* Messages other than temporary ones have ids of their own, but for homonyms.
Alike(m, n) == m = n \/ Q!Homonymous(m, n) \/ Q!Homonymous(n, m)
Told(m, n) ==
    m.in[1] # "temp" /\ n.in[1] # "temp" /\ Q!IdOf(m) = Q!IdOf(n) => Alike(m, n)

MessageInv ==
    /\ \A m \in said : Q!Key(m) \in SaidKeys /\ QuoteSound(m)
    /\ \A m, n \in said : Told(m, n)
    /\ \A e \in reported : ReportSound(e, said)
    /\ \A r \in db : RecordSound(r, said)
    /\ CallSound(did, said)

LEMMA InitMessageInv == Q!Init => MessageInv
BY DEF Q!Init, MessageInv, CallSound, Q!Usable, Q!Failed, Q!Plain

LEMMA NoUse ==
    \A n : ~Q!Usable(Q!Failed) /\ ~Q!Usable(Q!Plain(n)) /\ ~Q!Usable(Q!SentID(n))
BY DEF Q!Usable, Q!Failed, Q!Plain, Q!SentID

\* What a key says, one kind of place at a time.
LEMMA KeyFacts ==
    ASSUME NEW k \in SaidKeys
    PROVE  /\ k = [in |-> k.in, from |-> k.from, seq |-> k.seq]
           /\ k.in = <<k.in[1], k.in[2]>> /\ k.in[1] \in {"private", "group", "guild", "temp"}
           /\ k.in[1] = "private" =>
                 k.in[2] \in Users /\ k.from \in {k.in[2], Self} /\ k.seq \in PrivateSeqs
           /\ k.in[1] = "group" =>
                 k.in[2] \in Groups /\ k.from \in Users \cup {Self} /\ k.seq \in GroupSeqs
           /\ k.in[1] = "guild" =>
                 k.in[2] \in Channels /\ k.from \in Users \cup {Self} /\ k.seq \in GroupSeqs
           /\ k.in[1] = "temp" =>
                 k.in[2] \in Users /\ k.from = k.in[2] /\ k.seq \in PrivateSeqs
<1>1. CASE k \in PrivateKeys
  BY <1>1 DEF PrivateKeys
<1>2. CASE k \in GroupKeys
  BY <1>2 DEF GroupKeys
<1>3. CASE k \in GuildKeys
  BY <1>3 DEF GuildKeys
<1>4. CASE k \in TempKeys
  BY <1>4 DEF TempKeys
<1> QED BY <1>1, <1>2, <1>3, <1>4 DEF SaidKeys

LEMMA KeysAreKeys == ASSUME NEW k \in SaidKeys PROVE k \in Q!Keys /\ k # None
<1>1. k \in Q!Keys
  BY DEF SaidKeys, PrivateKeys, GroupKeys, GuildKeys, TempKeys, Q!Keys, Q!Codes
<1> QED BY <1>1, FrontEndAssumption DEF Q!NoneAssumption

\* What an id is made of.
LEMMA IdIs ==
    ASSUME NEW m
    PROVE  /\ m.in[1] = "guild" => Q!IdOf(m) = <<"guild", m.in[2], m.seq>>
           /\ m.in[1] = "private" => Q!IdOf(m) = <<"global", m.from, m.seq>>
           /\ m.in[1] \in {"group", "temp"} => Q!IdOf(m) = <<"global", m.in[2], m.seq>>
           /\ Q!IdOf(Q!Key(m)) = Q!IdOf(m)
<1>1. Q!Key(m).in = m.in /\ Q!Key(m).from = m.from /\ Q!Key(m).seq = m.seq
  BY DEF Q!Key
<1> QED BY <1>1 DEF Q!IdOf, Q!Code, Q!ToGlobalID, Q!GuildID

\* Ids tell apart what has another sender, another place or another number.
LEMMA IdsTell ==
    ASSUME NEW m, NEW n, Q!Key(m) \in SaidKeys, Q!Key(n) \in SaidKeys,
           m.in[1] # "temp", n.in[1] # "temp", Q!IdOf(m) = Q!IdOf(n)
    PROVE  \/ Q!Homonymous(m, n) \/ Q!Homonymous(n, m)
           \/ /\ m.seq = n.seq
              /\ \/ m.in[1] = "private" /\ n.in[1] = "private" /\ m.from = n.from
                 \/ m.in[1] # "private" /\ n.in = m.in
<1> DEFINE k == Q!Key(m)
           l == Q!Key(n)
<1>1. /\ k.in = m.in /\ k.from = m.from /\ k.seq = m.seq
      /\ l.in = n.in /\ l.from = n.from /\ l.seq = n.seq
  BY DEF Q!Key
<1>2. k \in SaidKeys /\ l \in SaidKeys
  OBVIOUS
<1> HIDE DEF k, l
<1>3. m.in = <<m.in[1], m.in[2]>> /\ m.in[1] \in {"private", "group", "guild"}
  <2>1. k.in[1] = m.in[1] /\ k.in[2] = m.in[2]
    BY <1>1
  <2> QED BY <1>1, <1>2, <2>1, KeyFacts
<1>4. n.in = <<n.in[1], n.in[2]>> /\ n.in[1] \in {"private", "group", "guild"}
  <2>1. l.in[1] = n.in[1] /\ l.in[2] = n.in[2]
    BY <1>1
  <2> QED BY <1>1, <1>2, <2>1, KeyFacts
<1>5. /\ m.in[1] = "guild" => Q!IdOf(m) = <<"guild", m.in[2], m.seq>>
      /\ m.in[1] = "private" => Q!IdOf(m) = <<"global", m.from, m.seq>>
      /\ m.in[1] = "group" => Q!IdOf(m) = <<"global", m.in[2], m.seq>>
      /\ n.in[1] = "guild" => Q!IdOf(n) = <<"guild", n.in[2], n.seq>>
      /\ n.in[1] = "private" => Q!IdOf(n) = <<"global", n.from, n.seq>>
      /\ n.in[1] = "group" => Q!IdOf(n) = <<"global", n.in[2], n.seq>>
  BY IdIs
<1>6. CASE m.in[1] = "private" /\ n.in[1] = "group"
  <2>1. m.from = n.in[2] /\ m.seq = n.seq
    BY <1>5, <1>6
  <2> QED BY <1>4, <1>6, <2>1 DEF Q!Homonymous
<1>7. CASE m.in[1] = "group" /\ n.in[1] = "private"
  <2>1. n.from = m.in[2] /\ m.seq = n.seq
    BY <1>5, <1>7
  <2> QED BY <1>3, <1>7, <2>1 DEF Q!Homonymous
<1>8. CASE m.in[1] = n.in[1]
  <2>1. m.seq = n.seq /\ IF m.in[1] = "private" THEN m.from = n.from ELSE m.in[2] = n.in[2]
    BY <1>3, <1>5, <1>8
  <2> QED BY <1>3, <1>4, <1>8, <2>1, Zenon
<1>9. CASE m.in[1] = "guild" /\ n.in[1] # "guild"
  BY <1>4, <1>5, <1>9
<1>10. CASE m.in[1] # "guild" /\ n.in[1] = "guild"
  BY <1>3, <1>5, <1>10
<1> QED BY <1>3, <1>4, <1>6, <1>7, <1>8, <1>9, <1>10

LEMMA WrapOff ==
    ASSUME NEW s \in PrivateSeqs
    PROVE  s \in Nat /\ s % Wrap = s /\ (s + Wrap) % Wrap = s
<1>1. s \in Nat /\ Wrap \in Nat /\ s < Wrap
  BY FrontEndAssumption DEF Q!SeqsAssumption
<1>2. s % Wrap = s
  BY <1>1
<1>3. (s + Wrap) % Wrap = s
  BY <1>1
<1> QED BY <1>1, <1>2, <1>3

\* A reply is given the id of what it quotes, but for the named cases.
LEMMA ReplyNames ==
    ASSUME NEW m, Q!Key(m) \in SaidKeys, QuoteSound(m), m.re # None, m.in[1] # "guild",
           m.re.of.in[1] # "temp"
    PROVE  /\ \/ Q!ReplyID(m.re, SourceOf(m)) = Q!IdOf(m.re.of)
              \/ m.in # m.re.of.in /\ (m.from = m.re.of.from \/ m.re.group \in {None, m.from})
           /\ m.in[1] = "private" /\ ByCall(m, m.re) /\ m.re.of.in = m.in
              => Q!ReplyID(m.re, m.in) = Q!IdOf(m.re.of)
           /\ m.re.of.in = m.in =>
                 \/ Q!PrevID(m) = Q!IdOf(m.re.of)
                 \/ m.in[1] = "private" /\ Q!PrevID(m)[3] >= Wrap
<1> DEFINE r == m.re
           k == r.of
           source == SourceOf(m)
<1>1. /\ k \in SaidKeys /\ r.sender = k.from
      /\ InPlace(m, r) \/ FromGroup(m, r) \/ ByCall(m, r)
  BY DEF QuoteSound
<1>2. /\ m.in = <<m.in[1], m.in[2]>> /\ m.in[1] \in {"private", "group", "temp"}
      /\ m.in[1] \in {"private", "temp"} => m.in[2] \in Users /\ m.from \in {m.in[2], Self}
      /\ m.in[1] = "group" => m.in[2] \in Groups
      /\ Q!OneToOne(m.in) <=> m.in[1] \in {"private", "temp"}
  <2>1. Q!Key(m).in = m.in /\ Q!Key(m).from = m.from
    BY DEF Q!Key
  <2> QED BY <2>1, KeyFacts DEF Q!OneToOne
<1>3. source = IF m.in[1] = "group" THEN m.in ELSE <<"private", m.from>>
  BY <1>2 DEF SourceOf
<1>4. /\ k.in[1] = "private" => k.in[2] \in Users /\ k.from \in {k.in[2], Self} /\ k.seq \in PrivateSeqs
      /\ k.in[1] = "group" => k.in[2] \in Groups
      /\ k.in = <<k.in[1], k.in[2]>>
  BY <1>1, KeyFacts
<1>5. /\ k.in[1] = "private" => Q!IdOf(k) = <<"global", k.from, k.seq>>
      /\ k.in[1] = "group" => Q!IdOf(k) = <<"global", k.in[2], k.seq>>
  BY IdIs
<1>6. \A src : Q!ReplyID(r, src) =
         IF src[1] = "private" /\ (r.sender = src[2] \/ r.group \in {src[2], None})
         THEN <<"global", r.sender, r.seq % Wrap>>
         ELSE <<"global", IF r.group = None THEN src[2] ELSE r.group, r.seq>>
  BY Zenon DEF Q!ReplyID, Q!ToGlobalID
<1>7. None \notin Groups
  BY FrontEndAssumption DEF Q!NoneAssumption, Q!Codes
<1>8. k.in[1] = "private" =>
         /\ k.seq % Wrap = k.seq /\ (k.seq + Wrap) % Wrap = k.seq
         /\ k.seq + Wrap >= Wrap
  <2>1. \A x \in PrivateSeqs : x % Wrap = x /\ (x + Wrap) % Wrap = x /\ x \in Nat
    BY WrapOff
  <2>2. Wrap \in Nat
    BY FrontEndAssumption DEF Q!SeqsAssumption
  <2>3. \A x \in Nat : x + Wrap >= Wrap
    BY <2>2
  <2> HIDE DEF k
  <2> QED BY <1>4, <2>1, <2>3
<1>16. Q!PrevID(m) = <<"global", IF m.in[1] = "private" THEN r.sender ELSE m.in[2], r.seq>>
  BY Zenon DEF Q!PrevID, Q!ToGlobalID
<1>17. k.in[1] # "temp" /\ m.in[1] # "guild"
  OBVIOUS
<1> HIDE DEF r, k, source
<1>9. ASSUME InPlace(m, r)
      PROVE  /\ Q!ReplyID(r, source) = Q!IdOf(k)
             /\ \/ Q!PrevID(m) = Q!IdOf(k)
                \/ m.in[1] = "private" /\ Q!PrevID(m)[3] >= Wrap
  <2>1. k.in = m.in
    BY <1>9 DEF InPlace, k
  <2>2. CASE m.in[1] = "private"
    <3>1. r.seq \in {k.seq, k.seq + Wrap} /\ r.group \in {None, source[2]}
      BY <1>2, <1>3, <1>9, <2>2 DEF InPlace, k
    <3>2. r.seq % Wrap = k.seq
      BY <1>8, <2>1, <2>2, <3>1
    <3>3. Q!ReplyID(r, source) = <<"global", r.sender, r.seq % Wrap>>
      BY <1>3, <1>6, <2>2, <3>1
    <3>4. r.seq = k.seq \/ r.seq >= Wrap
      BY <1>8, <2>1, <2>2, <3>1
    <3>5. Q!PrevID(m) = Q!IdOf(k) \/ Q!PrevID(m)[3] >= Wrap
      BY <1>1, <1>5, <1>16, <2>1, <2>2, <3>4
    <3> QED BY <1>1, <1>5, <2>1, <2>2, <3>2, <3>3, <3>5
  <2>3. CASE m.in[1] = "group"
    <3>1. r.seq = k.seq /\ r.group \in {None, k.in[2]} /\ source[2] = k.in[2] /\ source[1] = "group"
      BY <1>2, <1>3, <1>9, <2>1, <2>3 DEF InPlace, k
    <3>2. Q!ReplyID(r, source) = <<"global", k.in[2], k.seq>>
      BY <1>6, <3>1
    <3> QED BY <1>5, <1>16, <2>1, <2>3, <3>1, <3>2
  <2> QED BY <1>2, <1>17, <2>1, <2>2, <2>3
<1>10. ASSUME FromGroup(m, r)
       PROVE  /\ \/ Q!ReplyID(r, source) = Q!IdOf(k)
                 \/ m.in # k.in /\ (m.from = k.from \/ r.group = m.from)
              /\ m.in # k.in
  <2>1. /\ m.in[1] \in {"private", "temp"} /\ k.in[1] = "group"
        /\ r.seq = k.seq /\ r.group = k.in[2] /\ m.in # k.in
    BY <1>2, <1>10 DEF FromGroup, k
  <2>2. source[1] = "private" /\ source[2] = m.from /\ r.group # None
    BY <1>3, <1>4, <1>7, <2>1
  <2>3. r.sender # m.from /\ r.group # m.from => Q!ReplyID(r, source) = <<"global", r.group, r.seq>>
    BY <1>6, <2>2
  <2> QED BY <1>1, <1>5, <2>1, <2>3
<1>11. ASSUME ByCall(m, r)
       PROVE  /\ Q!ReplyID(r, source) = Q!IdOf(k) \/ (m.in # k.in /\ r.group = None)
              /\ m.in[1] = "private" /\ k.in = m.in => Q!ReplyID(r, m.in) = Q!IdOf(k)
              /\ k.in = m.in => Q!PrevID(m) = Q!IdOf(k)
  <2>1. r.seq = k.seq /\ r.group = None /\ k.in[1] \in {"private", "group"}
    BY <1>11 DEF ByCall, k
  <2>2. CASE m.in[1] = "private"
    <3>1. /\ Q!ReplyID(r, source) = <<"global", r.sender, k.seq % Wrap>>
          /\ Q!ReplyID(r, m.in) = <<"global", r.sender, k.seq % Wrap>>
      BY <1>3, <1>6, <2>1, <2>2
    <3>2. k.in = m.in => Q!IdOf(k) = <<"global", r.sender, k.seq>> /\ k.seq % Wrap = k.seq
      BY <1>1, <1>5, <1>8, <2>2
    <3> QED BY <1>16, <2>1, <2>2, <3>1, <3>2
  <2>3. CASE m.in[1] = "group"
    <3>1. Q!ReplyID(r, source) = <<"global", m.in[2], k.seq>>
      BY <1>3, <1>6, <2>1, <2>3
    <3> QED BY <1>5, <1>16, <2>1, <2>3, <3>1
  <2>4. CASE m.in[1] = "temp"
    BY <1>17, <2>1, <2>4
  <2> QED BY <1>2, <2>2, <2>3, <2>4
<1>12. /\ \/ Q!ReplyID(r, source) = Q!IdOf(k)
          \/ m.in # k.in /\ (m.from = k.from \/ r.group \in {None, m.from})
       /\ m.in[1] = "private" /\ ByCall(m, r) /\ k.in = m.in => Q!ReplyID(r, m.in) = Q!IdOf(k)
       /\ k.in = m.in =>
             \/ Q!PrevID(m) = Q!IdOf(k)
             \/ m.in[1] = "private" /\ Q!PrevID(m)[3] >= Wrap
  BY <1>1, <1>9, <1>10, <1>11
<1> QED BY <1>12 DEF r, k, source

-----------------------------------------------------------------------------
(* What the properties say of such a state.                                *)

\* A report with an id of use, and the message it is about.
LEMMA UsableReport ==
    ASSUME MessageInv, NEW e \in reported, Q!Usable(e.id)
    PROVE  \E m \in said : /\ e.msg = Q!Key(m) /\ e.id = Q!IdOf(m) /\ m.in[1] # "temp"
                           /\ Q!Key(m) \in SaidKeys
BY Zenon DEF MessageInv, ReportSound, IdSound

LEMMA KeysAlike ==
    ASSUME NEW m, NEW n, Alike(m, n)
    PROVE  Q!Namesakes(Q!Key(m), Q!Key(n)) /\ Q!Namesakes(Q!Key(n), Q!Key(m))
<1>1. /\ Q!Key(m).in = m.in /\ Q!Key(m).from = m.from /\ Q!Key(m).seq = m.seq
      /\ Q!Key(n).in = n.in /\ Q!Key(n).from = n.from /\ Q!Key(n).seq = n.seq
  BY DEF Q!Key
<1> QED BY <1>1 DEF Alike, Q!Namesakes, Q!Homonymous

LEMMA MessagesNamed == MessageInv => Q!IdsNameMessages
<1> SUFFICES ASSUME MessageInv
             PROVE  Q!IdsNameMessages
  OBVIOUS
<1>1. ASSUME NEW a \in reported, NEW b \in reported, Q!Usable(a.id), Q!Usable(b.id)
      PROVE  /\ a.id = b.id => Q!Namesakes(a.msg, b.msg)
             /\ a.msg = b.msg => a.id = b.id
  <2>1. PICK m \in said : a.msg = Q!Key(m) /\ a.id = Q!IdOf(m) /\ m.in[1] # "temp"
    BY <1>1, UsableReport, Zenon
  <2>2. PICK n \in said : b.msg = Q!Key(n) /\ b.id = Q!IdOf(n) /\ n.in[1] # "temp"
    BY <1>1, UsableReport, Zenon
  <2>3. a.id = b.id => Alike(m, n)
    BY <2>1, <2>2, Zenon DEF MessageInv, Told
  <2>4. Q!IdOf(Q!Key(m)) = Q!IdOf(m) /\ Q!IdOf(Q!Key(n)) = Q!IdOf(n)
    BY IdIs
  <2> QED BY <2>1, <2>2, <2>3, <2>4, KeysAlike
<1>2. ASSUME NEW a \in reported, Q!Usable(a.id), did.id = a.id
      PROVE  Q!Namesakes(did.on, a.msg)
  <2>1. PICK m \in said : a.msg = Q!Key(m) /\ a.id = Q!IdOf(m) /\ m.in[1] # "temp"
    BY <1>2, UsableReport, Zenon
  <2>2. PICK n \in said : did.on = Q!Key(n) /\ did.id = Q!IdOf(n) /\ n.in[1] # "temp"
    BY <1>2, Zenon DEF MessageInv, CallSound
  <2>3. Alike(m, n)
    BY <1>2, <2>1, <2>2, Zenon DEF MessageInv, Told
  <2> QED BY <2>1, <2>2, <2>3, KeysAlike
<1>3. ASSUME NEW a \in reported, ~Q!Usable(a.id)
      PROVE  a.id = Q!Failed \/ a.msg.in[1] = "temp" \/ (a.msg.from = Self /\ a.msg.in[1] # "group")
  <2>1. PICK m \in said : a.msg = Q!Key(m) /\ IdSound(a.id, m)
    BY Zenon DEF MessageInv, ReportSound
  <2>2. a.msg.in = m.in /\ a.msg.from = m.from
    BY <2>1 DEF Q!Key
  <2>3. Q!Key(m) \in SaidKeys
    BY Zenon DEF MessageInv
  <2>4. m.in[1] \in {"private", "group", "guild", "temp"}
    BY <2>1, <2>2, <2>3, KeyFacts
  <2>5. m.in[1] # "temp" => Q!Usable(Q!IdOf(m))
    BY <2>4, IdIs DEF Q!Usable
  <2>6. \/ m.in[1] # "temp" /\ a.id = Q!IdOf(m)
        \/ a.id = Q!Failed \/ m.in[1] = "temp" \/ (m.from = Self /\ m.in[1] # "group")
    BY <2>1, Zenon DEF IdSound
  <2> QED BY <1>3, <2>2, <2>5, <2>6
<1>4. ASSUME NEW a \in {e \in reported : Q!Usable(e.id)}
      PROVE  a \in reported /\ Q!Usable(a.id)
  BY <1>4
<1> QED BY <1>1, <1>2, <1>3, <1>4 DEF Q!IdsNameMessages

LEMMA RepliesNamed == MessageInv => Q!RepliesNameTheQuoted
<1> SUFFICES ASSUME MessageInv, NEW b \in reported, Q!Usable(b.id)
             PROVE  /\ \A a \in reported : (a.re # None /\ a.re.of = b.msg) =>
                          \/ a.reply = b.id
                          \/ /\ a.msg.in # b.msg.in
                             /\ a.msg.from = b.msg.from \/ a.re.group \in {None, a.msg.from}
                    /\ \A r \in db : (r.of = b.msg /\ r.kind # "guild") =>
                          \/ b.msg.in # <<r.kind, r.code>>
                          \/ /\ r.reply = b.id \/ r.source = <<"private", None>>
                             /\ r.prev = b.id \/ (r.kind = "private" /\ r.prev[3] >= Wrap)
  BY DEF Q!RepliesNameTheQuoted
<1>1. PICK n \in said : b.msg = Q!Key(n) /\ b.id = Q!IdOf(n) /\ n.in[1] # "temp"
                        /\ Q!Key(n) \in SaidKeys
  BY UsableReport, Zenon
<1>2. b.msg \in SaidKeys /\ b.id = Q!IdOf(b.msg) /\ b.msg.in[1] # "temp"
  <2>1. Q!IdOf(Q!Key(n)) = Q!IdOf(n)
    BY IdIs
  <2>2. Q!Key(n).in = n.in
    BY DEF Q!Key
  <2> QED BY <1>1, <2>1, <2>2
<1>3. ASSUME NEW a \in reported, a.re # None, a.re.of = b.msg
      PROVE  \/ a.reply = b.id
             \/ a.msg.in # b.msg.in /\ (a.msg.from = b.msg.from \/ a.re.group \in {None, a.msg.from})
  <2>1. PICK m \in said : a.msg = Q!Key(m) /\ m.in[1] # "guild" /\ a.re = m.re
                          /\ a.reply = Q!ReplyID(m.re, SourceOf(m))
    BY <1>3, Zenon DEF MessageInv, ReportSound
  <2>2. Q!Key(m) \in SaidKeys /\ QuoteSound(m)
    BY Zenon DEF MessageInv
  <2>3. \/ Q!ReplyID(m.re, SourceOf(m)) = Q!IdOf(m.re.of)
        \/ m.in # m.re.of.in /\ (m.from = m.re.of.from \/ m.re.group \in {None, m.from})
    BY <1>2, <1>3, <2>1, <2>2, ReplyNames
  <2>4. a.msg.in = m.in /\ a.msg.from = m.from
    BY <2>1 DEF Q!Key
  <2> QED BY <1>2, <1>3, <2>1, <2>3, <2>4
<1>4. ASSUME NEW r \in db, r.of = b.msg, r.kind # "guild", b.msg.in = <<r.kind, r.code>>
      PROVE  /\ r.reply = b.id \/ r.source = <<"private", None>>
             /\ r.prev = b.id \/ (r.kind = "private" /\ r.prev[3] >= Wrap)
  <2>1. PICK m \in said : r = Q!Record(m, r.source) /\ StoredFrom(m, r.source)
    BY Zenon DEF MessageInv, RecordSound
  <2>2. /\ r.kind = m.in[1] /\ r.code = m.in[2] /\ r.of = IF m.re = None THEN None ELSE m.re.of
        /\ r.reply = Q!ReplyID(m.re, r.source) /\ r.prev = Q!PrevID(m)
    BY <2>1 DEF Q!Record
  <2>3. m.re # None /\ m.re.of = b.msg
    BY <1>2, <1>4, <2>2, KeysAreKeys
  <2>4. Q!Key(m) \in SaidKeys /\ QuoteSound(m)
    BY Zenon DEF MessageInv
  <2>5. m.in = b.msg.in
    <3>1. Q!Key(m).in = m.in
      BY DEF Q!Key
    <3>2. m.in = <<m.in[1], m.in[2]>>
      BY <2>4, <3>1, KeyFacts
    <3> QED BY <1>4, <2>2, <3>2
  <2>6. /\ \/ Q!ReplyID(m.re, SourceOf(m)) = Q!IdOf(m.re.of)
           \/ m.in # m.re.of.in /\ (m.from = m.re.of.from \/ m.re.group \in {None, m.from})
        /\ m.in[1] = "private" /\ ByCall(m, m.re) /\ m.re.of.in = m.in
              => Q!ReplyID(m.re, m.in) = Q!IdOf(m.re.of)
        /\ m.re.of.in = m.in =>
              \/ Q!PrevID(m) = Q!IdOf(m.re.of)
              \/ m.in[1] = "private" /\ Q!PrevID(m)[3] >= Wrap
    BY <1>2, <1>4, <2>2, <2>3, <2>4, ReplyNames
  <2>7. \/ r.source = SourceOf(m) \/ r.source = <<"private", None>>
        \/ m.in[1] = "private" /\ r.source = m.in /\ ByCall(m, m.re)
    BY <1>4, <2>1, <2>2, <2>3, Zenon DEF StoredFrom
  <2>8. r.reply = b.id \/ r.source = <<"private", None>>
    BY <1>2, <2>2, <2>3, <2>5, <2>6, <2>7
  <2> QED BY <1>2, <2>2, <2>3, <2>5, <2>6, <2>8
<1> QED BY <1>3, <1>4

-----------------------------------------------------------------------------
(* Steps of messages.                                                      *)

\* A message that is new: said, with an id that no other has but a homonym.
NewMessage(m) ==
    /\ Q!Key(m) \in SaidKeys /\ QuoteSound(m)
    /\ \A n \in said : Told(n, m)

LEMMA KeepMessageInv ==
    ASSUME MessageInv,
           said' = said \/ \E m : NewMessage(m) /\ said' = said \cup {m},
           \A e \in reported' : e \in reported \/ ReportSound(e, said'),
           \A r \in db' : r \in db \/ RecordSound(r, said'),
           did' = did \/ CallSound(did', said')
    PROVE  MessageInv'
<1>1. said \subseteq said'
  BY Zenon
<1>2. \A m \in said' : Q!Key(m) \in SaidKeys /\ QuoteSound(m)
  <2>1. CASE said' = said
    BY <2>1, Zenon DEF MessageInv
  <2>2. ASSUME NEW m, NewMessage(m), said' = said \cup {m}
        PROVE  \A n \in said' : Q!Key(n) \in SaidKeys /\ QuoteSound(n)
    BY <2>2, Zenon DEF MessageInv, NewMessage
  <2> QED BY <2>1, <2>2, Zenon
<1>3. \A m, n \in said' : Told(m, n)
  <2>1. CASE said' = said
    BY <2>1, Zenon DEF MessageInv
  <2>2. ASSUME NEW m, NewMessage(m), said' = said \cup {m}
        PROVE  \A a, b \in said' : Told(a, b)
    <3>1. \A a, b : Told(a, b) => Told(b, a)
      BY Zenon DEF Told, Alike
    <3>2. Told(m, m)
      BY Zenon DEF Told, Alike
    <3> QED BY <2>2, <3>1, <3>2, Zenon DEF MessageInv, NewMessage
  <2> QED BY <2>1, <2>2, Zenon
<1>4. \A e \in reported' : ReportSound(e, said')
  BY <1>1, Zenon DEF MessageInv, ReportSound
<1>5. \A r \in db' : RecordSound(r, said')
  BY <1>1, Zenon DEF MessageInv, RecordSound
<1>6. CallSound(did', said')
  BY <1>1, Zenon DEF MessageInv, CallSound
<1> QED BY <1>2, <1>3, <1>4, <1>5, <1>6, Zenon DEF MessageInv, CallSound

\* A message is reported with its own id, or with one that is of no use.
LEMMA ReportIsSound ==
    ASSUME NEW ss, NEW m \in ss, NEW id, IdSound(id, m), NEW reply,
           reply = None \/ (m.in[1] # "guild" /\ reply = Q!ReplyID(m.re, SourceOf(m))),
           Q!Report(id, m, reply)
    PROVE  \A e \in reported' : e \in reported \/ ReportSound(e, ss)
<1> DEFINE e == [id |-> id, msg |-> Q!Key(m), reply |-> reply,
                 re |-> IF reply = None THEN None ELSE m.re]
<1>1. reported' = reported \cup {e}
  BY Zenon DEF Q!Report
<1>2. e.msg = Q!Key(m) /\ e.id = id /\ e.reply = reply
      /\ e.re = IF reply = None THEN None ELSE m.re
  OBVIOUS
<1> HIDE DEF e
<1>3. ReportSound(e, ss)
  BY <1>2 DEF ReportSound
<1> QED BY <1>1, <1>3

LEMMA StoreIsSound ==
    ASSUME NEW ss, NEW m \in ss, NEW source, StoredFrom(m, source), NEW reply,
           reply = None \/ (m.in[1] # "guild" /\ reply = Q!ReplyID(m.re, SourceOf(m))),
           Q!Store(m, source, reply)
    PROVE  /\ \A e \in reported' : e \in reported \/ ReportSound(e, ss)
           /\ \A r \in db' : r \in db \/ RecordSound(r, ss)
<1>1. \E id : IdSound(id, m) /\ Q!Report(id, m, reply)
  <2>1. IdSound(Q!Failed, m) /\ IdSound(Q!IdOf(m), m)
    BY NoUse, Zenon DEF IdSound, StoredFrom
  <2> QED BY <2>1, Zenon DEF Q!Store
<1>2. \A e \in reported' : e \in reported \/ ReportSound(e, ss)
  BY <1>1, ReportIsSound
<1>3. db' = db \/ db' = Q!Inserted(db, m, source)
  BY Zenon DEF Q!Store
<1>4. RecordSound(Q!Record(m, source), ss)
  <2>1. Q!Record(m, source).source = source
    BY DEF Q!Record
  <2> QED BY <2>1 DEF RecordSound
<1>5. \A r \in db' : r \in db \/ RecordSound(r, ss)
  BY <1>3, <1>4, Zenon DEF Q!Inserted
<1> QED BY <1>2, <1>5

LEMMA InsertIsSound ==
    ASSUME NEW ss, NEW m \in ss, NEW source, StoredFrom(m, source),
           NEW r \in Q!Inserted(db, m, source)
    PROVE  r \in db \/ RecordSound(r, ss)
<1>1. RecordSound(Q!Record(m, source), ss)
  <2>1. Q!Record(m, source).source = source
    BY DEF Q!Record
  <2> QED BY <2>1 DEF RecordSound
<1> QED BY <1>1, Zenon DEF Q!Inserted

LEMMA NewIsNew ==
    ASSUME MessageInv, NEW m, Q!Key(m) \in SaidKeys, QuoteSound(m),
           \A n \in said : n.seq # m.seq \/ (IF Q!OneToOne(m.in) THEN n.in[1] # m.in[1] \/ n.from # m.from
                                             ELSE n.in # m.in)
    PROVE  NewMessage(m)
<1> SUFFICES ASSUME NEW n \in said, n.in[1] # "temp", m.in[1] # "temp", Q!IdOf(n) = Q!IdOf(m)
             PROVE  Alike(n, m)
  BY Zenon DEF NewMessage, Told
<1>1. Q!Key(n) \in SaidKeys
  BY Zenon DEF MessageInv
<1>2. \/ Q!Homonymous(n, m) \/ Q!Homonymous(m, n)
      \/ /\ n.seq = m.seq
         /\ \/ n.in[1] = "private" /\ m.in[1] = "private" /\ n.from = m.from
            \/ n.in[1] # "private" /\ m.in = n.in
  BY <1>1, IdsTell, Zenon
<1> QED BY <1>2 DEF Alike, Q!OneToOne

\* What a reply element may have of the message it quotes.
LEMMA ElementSound ==
    ASSUME MessageInv, NEW m,
           m.re \in Q!ReplyElements(m.in, m.from)
    PROVE  QuoteSound(m)
<1> SUFFICES ASSUME m.re # None
             PROVE  /\ m.re.of \in SaidKeys /\ m.re.sender = m.re.of.from
                    /\ InPlace(m, m.re) \/ FromGroup(m, m.re)
  BY Zenon DEF QuoteSound
<1> DEFINE Heads(q, seqs, groups) == {[of |-> Q!Key(q), sender |-> q.from, seq |-> s, group |-> g] :
                                     s \in seqs, g \in groups}
<1>1. PICK q \in said :
         m.re \in IF q.in = m.in /\ Q!OneToOne(m.in)
                  THEN Heads(q, {q.seq, q.seq + Wrap}, {None, m.from})
                  ELSE IF q.in = m.in THEN Heads(q, {q.seq}, {None, m.in[2]})
                  ELSE IF Q!OneToOne(m.in) /\ q.in[1] = "group" THEN Heads(q, {q.seq}, {q.in[2]})
                  ELSE {}
  BY DEF Q!ReplyElements
<1>2. Q!Key(q) \in SaidKeys
  BY Zenon DEF MessageInv
<1>3. ASSUME NEW seqs, NEW groups, m.re \in Heads(q, seqs, groups)
      PROVE  /\ m.re.of = Q!Key(q) /\ m.re.sender = q.from
             /\ m.re.seq \in seqs /\ m.re.group \in groups
  BY <1>3
<1> HIDE DEF Heads
<1>4. Q!Key(q).in = q.in /\ Q!Key(q).from = q.from /\ Q!Key(q).seq = q.seq
  BY DEF Q!Key
<1>5. CASE q.in = m.in /\ Q!OneToOne(m.in)
  <2>1. m.re \in Heads(q, {q.seq, q.seq + Wrap}, {None, m.from})
    BY <1>1, <1>5
  <2> QED BY <1>2, <1>3, <1>4, <1>5, <2>1 DEF InPlace
<1>6. CASE q.in = m.in /\ ~Q!OneToOne(m.in)
  <2>1. m.re \in Heads(q, {q.seq}, {None, m.in[2]})
    BY <1>1, <1>6
  <2> QED BY <1>2, <1>3, <1>4, <1>6, <2>1 DEF InPlace
<1>7. CASE q.in # m.in /\ Q!OneToOne(m.in) /\ q.in[1] = "group"
  <2>1. m.re \in Heads(q, {q.seq}, {q.in[2]})
    BY <1>1, <1>7
  <2> QED BY <1>2, <1>3, <1>4, <1>7, <2>1 DEF FromGroup
<1> QED BY <1>1, <1>5, <1>6, <1>7

LEMMA SayMessageInv ==
    ASSUME MessageInv, NEW place, NEW who, Q!Say(place, who),
           \/ place \in {"private"} \X Users /\ who \in {place[2], Self}
           \/ place \in {"group"} \X Groups /\ who \in Users \cup {Self}
           \/ place \in {"guild"} \X Channels /\ who \in Users
           \/ place \in {"temp"} \X Users /\ who = place[2]
    PROVE  MessageInv'
<1>1. PICK s \in IF Q!OneToOne(place) THEN PrivateSeqs ELSE GroupSeqs,
           re \in Q!ReplyElements(place, who) :
         /\ \A n \in said : n.seq # s \/ (IF Q!OneToOne(place) THEN n.in[1] # place[1] \/ n.from # who
                                          ELSE n.in # place)
         /\ Q!Said([in |-> place, from |-> who, seq |-> s, re |-> re])
  BY Zenon DEF Q!Say
<1>2. UNCHANGED <<reported, db, did>>
  BY DEF Q!Say
<1> DEFINE m == [in |-> place, from |-> who, seq |-> s, re |-> re]
<1>3. m.in = place /\ m.from = who /\ m.seq = s /\ m.re = re
  OBVIOUS
<1>4. said' = said \cup {m}
  BY <1>1 DEF Q!Said
<1>5. Q!Key(m) \in SaidKeys
  <2>1. Q!Key(m) = [in |-> place, from |-> who, seq |-> s]
    BY DEF Q!Key
  <2> HIDE DEF m
  <2>2. CASE place \in {"private"} \X Users /\ who \in {place[2], Self}
    BY <1>1, <2>1, <2>2 DEF SaidKeys, PrivateKeys, Q!OneToOne
  <2>3. CASE place \in {"group"} \X Groups /\ who \in Users \cup {Self}
    BY <1>1, <2>1, <2>3 DEF SaidKeys, GroupKeys, Q!OneToOne
  <2>4. CASE place \in {"guild"} \X Channels /\ who \in Users
    BY <1>1, <2>1, <2>4 DEF SaidKeys, GuildKeys, Q!OneToOne
  <2>5. CASE place \in {"temp"} \X Users /\ who = place[2]
    BY <1>1, <2>1, <2>5 DEF SaidKeys, TempKeys, Q!OneToOne
  <2> QED BY <2>2, <2>3, <2>4, <2>5
<1> HIDE DEF m
<1>6. QuoteSound(m)
  BY <1>3, <1>5, ElementSound
<1>7. NewMessage(m)
  BY <1>1, <1>3, <1>5, <1>6, NewIsNew
<1> QED BY <1>2, <1>4, <1>7, KeepMessageInv, Zenon

\* The message of a record.
LEMMA RecordFacts ==
    ASSUME MessageInv, NEW rec \in db
    PROVE  \E m \in said : /\ rec.id = Q!IdOf(m) /\ rec.kind = m.in[1]
                           /\ rec.from = m.from /\ rec.seq = m.seq
                           /\ Q!On(rec) = Q!Key(m) /\ Q!Key(m) \in SaidKeys /\ m.in[1] # "temp"
<1>1. PICK m \in said : rec = Q!Record(m, rec.source) /\ m.in[1] # "temp"
  BY Zenon DEF MessageInv, RecordSound, StoredFrom
<1>2. /\ rec.id = Q!IdOf(m) /\ rec.kind = m.in[1] /\ rec.code = m.in[2]
      /\ rec.from = m.from /\ rec.seq = m.seq
  BY <1>1 DEF Q!Record
<1>3. Q!Key(m) \in SaidKeys
  BY Zenon DEF MessageInv
<1>4. m.in = <<m.in[1], m.in[2]>>
  <2>1. Q!Key(m).in = m.in
    BY DEF Q!Key
  <2> QED BY <1>3, <2>1, KeyFacts
<1>5. Q!On(rec) = Q!Key(m)
  BY <1>2, <1>4, Zenon DEF Q!On, Q!Key
<1> QED BY <1>1, <1>2, <1>3, <1>5

\* A message of the account may reply to any that the database has.
LEMMA CallQuotes ==
    ASSUME MessageInv, NEW rec \in Q!Quotable, NEW m, m.from = Self, m.re = Q!ReplyTo(rec)
    PROVE  QuoteSound(m) /\ (m.re = None \/ ByCall(m, m.re))
<1>1. CASE rec = None
  BY <1>1, Zenon DEF Q!ReplyTo, QuoteSound
<1>2. CASE rec # None
  <2>1. rec \in db /\ rec.kind # "guild"
    BY <1>2 DEF Q!Quotable
  <2>2. PICK n \in said : /\ rec.kind = n.in[1] /\ rec.from = n.from /\ rec.seq = n.seq
                          /\ Q!On(rec) = Q!Key(n) /\ Q!Key(n) \in SaidKeys /\ n.in[1] # "temp"
    BY <2>1, RecordFacts, Zenon
  <2>3. m.re = [of |-> Q!On(rec), sender |-> rec.from, seq |-> rec.seq, group |-> None]
    BY <1>2, Zenon DEF Q!ReplyTo, Q!On
  <2>4. /\ m.re.of = Q!Key(n) /\ m.re.sender = n.from /\ m.re.seq = n.seq /\ m.re.group = None
    BY <2>2, <2>3
  <2>5. Q!Key(n).in = n.in /\ Q!Key(n).from = n.from /\ Q!Key(n).seq = n.seq
    BY DEF Q!Key
  <2>6. ByCall(m, m.re)
    <3>1. n.in[1] \in {"private", "group"}
      BY <2>1, <2>2, <2>5, KeyFacts
    <3> QED BY <2>4, <2>5, <3>1 DEF ByCall
  <2> QED BY <2>2, <2>4, <2>5, <2>6 DEF QuoteSound
<1> QED BY <1>1, <1>2

\* What a call of the account sends, and stores or not.
LEMMA SentMessageInv ==
    ASSUME MessageInv, NEW rec \in Q!Quotable, NEW place, NEW s \in Q!Numbered(place), NEW source,
           \/ place \in {"group"} \X Groups /\ source \in {<<"private", None>>, place}
           \/ place \in {"private"} \X Users /\ source = place,
           NEW m, m = [in |-> place, from |-> Self, seq |-> s, re |-> Q!ReplyTo(rec)],
           said' = said \cup {m}, Q!Store(m, source, None),
           did' = [id |-> Q!IdOf(m), on |-> Q!Key(m)]
    PROVE  MessageInv'
<1>1. m.in = place /\ m.from = Self /\ m.seq = s /\ m.re = Q!ReplyTo(rec)
  OBVIOUS
<1>2. QuoteSound(m) /\ (m.re = None \/ ByCall(m, m.re))
  BY <1>1, CallQuotes, Zenon
<1>3. place[1] \in {"group", "private"}
  OBVIOUS
<1>4. Q!Key(m) \in SaidKeys
  <2>1. Q!Key(m) = [in |-> place, from |-> Self, seq |-> s]
    BY <1>1, Zenon DEF Q!Key
  <2>2. CASE place \in {"group"} \X Groups
    <3>1. s \in GroupSeqs
      BY <2>2 DEF Q!Numbered
    <3> QED BY <2>1, <2>2, <3>1 DEF SaidKeys, GroupKeys
  <2>3. CASE place \in {"private"} \X Users
    <3>1. s \in PrivateSeqs
      BY <2>3 DEF Q!Numbered
    <3> QED BY <2>1, <2>3, <3>1 DEF SaidKeys, PrivateKeys
  <2> QED BY <2>2, <2>3
<1>5. \A n \in said : n.seq # s \/ (IF Q!OneToOne(place) THEN n.in[1] # place[1] \/ n.from # Self
                                    ELSE n.in # place)
  BY <1>3 DEF Q!Numbered, Q!OneToOne
<1>6. NewMessage(m)
  BY <1>1, <1>2, <1>4, <1>5, NewIsNew
<1>7. StoredFrom(m, source)
  BY <1>1, <1>2 DEF StoredFrom, SourceOf, Q!OneToOne
<1>8. m \in said'
  OBVIOUS
<1>9. /\ \A e \in reported' : e \in reported \/ ReportSound(e, said')
      /\ \A r \in db' : r \in db \/ RecordSound(r, said')
  BY <1>7, <1>8, StoreIsSound
<1>10. CallSound(did', said')
  <2>1. did'.id = Q!IdOf(m) /\ did'.on = Q!Key(m)
    OBVIOUS
  <2> QED BY <1>7, <1>8, <2>1, Zenon DEF CallSound, StoredFrom
<1> QED BY <1>6, <1>9, <1>10, KeepMessageInv, Zenon

\* A call that sent nothing is told no id of use.
LEMMA FailedMessageInv ==
    ASSUME MessageInv, NEW id, ~Q!Usable(id), Q!Did(id, None), UNCHANGED <<said, reported, db>>
    PROVE  MessageInv'
<1>1. did'.id = id
  BY DEF Q!Did
<1> QED BY <1>1, KeepMessageInv, Zenon DEF CallSound

\* What is sent without being stored is reported with no id of use.
LEMMA UnstoredMessageInv ==
    ASSUME MessageInv, NEW place, NEW s \in Q!Numbered(place), NEW id, ~Q!Usable(id),
           place \in {"private"} \X Users \/ place \in {"guild"} \X Channels,
           NEW m, m = [in |-> place, from |-> Self, seq |-> s, re |-> None],
           said' = said \cup {m}, Q!Report(id, m, None), Q!Did(id, Q!Key(m)), UNCHANGED db
    PROVE  MessageInv'
<1>1. m.in = place /\ m.from = Self /\ m.seq = s /\ m.re = None
  OBVIOUS
<1>2. place[1] \in {"guild", "private"}
  OBVIOUS
<1>3. Q!Key(m) \in SaidKeys
  <2>1. Q!Key(m) = [in |-> place, from |-> Self, seq |-> s]
    BY <1>1, Zenon DEF Q!Key
  <2>2. CASE place \in {"guild"} \X Channels
    <3>1. s \in GroupSeqs
      BY <2>2 DEF Q!Numbered
    <3> QED BY <2>1, <2>2, <3>1 DEF SaidKeys, GuildKeys
  <2>3. CASE place \in {"private"} \X Users
    <3>1. s \in PrivateSeqs
      BY <2>3 DEF Q!Numbered
    <3> QED BY <2>1, <2>3, <3>1 DEF SaidKeys, PrivateKeys
  <2> QED BY <2>2, <2>3
<1>4. \A n \in said : n.seq # s \/ (IF Q!OneToOne(place) THEN n.in[1] # place[1] \/ n.from # Self
                                    ELSE n.in # place)
  BY <1>2 DEF Q!Numbered, Q!OneToOne
<1>5. NewMessage(m)
  <2>1. QuoteSound(m)
    BY <1>1, Zenon DEF QuoteSound
  <2> QED BY <1>1, <1>3, <1>4, <2>1, NewIsNew
<1>6. IdSound(id, m)
  BY <1>1, <1>2 DEF IdSound
<1>7. \A e \in reported' : e \in reported \/ ReportSound(e, said')
  <2>1. m \in said'
    OBVIOUS
  <2> QED BY <1>6, <2>1, ReportIsSound
<1>8. CallSound(did', said')
  <2>1. did'.id = id
    BY DEF Q!Did
  <2> QED BY <2>1, Zenon DEF CallSound
<1> QED BY <1>5, <1>7, <1>8, KeepMessageInv, Zenon

LEMMA MusicShareInv ==
    ASSUME MessageInv, NEW u \in Users, Q!SendFriendMusicShare(u)
    PROVE  MessageInv'
<1> DEFINE place == <<"private", u>>
           m(s) == [in |-> place, from |-> Self, seq |-> s, re |-> None]
<1>1. CASE UNCHANGED <<said, reported, db>> /\ Q!Did(Q!Plain(0), None)
  BY <1>1, NoUse, FailedMessageInv, Zenon
<1>2. ASSUME NEW s \in Q!Numbered(place), Q!Said(m(s)), Q!Report(Q!Plain(0), m(s), None),
             Q!Did(Q!Plain(0), Q!Key(m(s))), UNCHANGED db
      PROVE  MessageInv'
  <2>1. place \in {"private"} \X Users
    OBVIOUS
  <2>2. said' = said \cup {m(s)}
    BY <1>2, Zenon DEF Q!Said
  <2>3. m(s) = [in |-> place, from |-> Self, seq |-> s, re |-> None]
    OBVIOUS
  <2>4. ~Q!Usable(Q!Plain(0))
    BY NoUse
  <2> HIDE DEF place, m
  <2> QED BY <1>2, <2>1, <2>2, <2>3, <2>4, UnstoredMessageInv
<1>3. /\ UNCHANGED db
      /\ \/ UNCHANGED <<said, reported>> /\ Q!Did(Q!Plain(0), None)
         \/ \E s \in Q!Numbered(place) : Q!Said(m(s)) /\ Q!Report(Q!Plain(0), m(s), None)
                                         /\ Q!Did(Q!Plain(0), Q!Key(m(s)))
  BY Zenon DEF Q!SendFriendMusicShare
<1> QED BY <1>1, <1>2, <1>3, Zenon

LEMMA SendGuildInv ==
    ASSUME MessageInv, NEW c \in Channels, Q!SendGuild(c)
    PROVE  MessageInv'
<1> DEFINE place == <<"guild", c>>
           m(s) == [in |-> place, from |-> Self, seq |-> s, re |-> None]
<1>1. CASE Q!Did(Q!Failed, None) /\ UNCHANGED <<friends, sessions, said, reported, db>>
  BY <1>1, NoUse, FailedMessageInv, Zenon
<1>2. ASSUME NEW s \in Q!Numbered(place), NEW id \in {Q!SentID(s), Q!Failed},
             Q!Said(m(s)), Q!Report(id, m(s), None), Q!Did(id, Q!Key(m(s))), UNCHANGED db
      PROVE  MessageInv'
  <2>1. place \in {"guild"} \X Channels
    OBVIOUS
  <2>2. said' = said \cup {m(s)}
    BY <1>2, Zenon DEF Q!Said
  <2>3. m(s) = [in |-> place, from |-> Self, seq |-> s, re |-> None]
    OBVIOUS
  <2>4. ~Q!Usable(id)
    BY NoUse
  <2> HIDE DEF place, m
  <2> QED BY <1>2, <2>1, <2>2, <2>3, <2>4, UnstoredMessageInv
<1>3. \/ Q!Did(Q!Failed, None) /\ UNCHANGED <<friends, sessions, said, reported, db>>
      \/ \E s \in Q!Numbered(place) : \E id \in {Q!SentID(s), Q!Failed} :
            /\ Q!Said(m(s)) /\ Q!Report(id, m(s), None) /\ Q!Did(id, Q!Key(m(s)))
            /\ UNCHANGED db
  BY Zenon DEF Q!SendGuild
<1> QED BY <1>1, <1>2, <1>3, Zenon

LEMMA SendGroupInv ==
    ASSUME MessageInv, NEW g \in Groups, NEW rec \in Q!Quotable, NEW f \in BOOLEAN,
           Q!SendGroup(g, rec, f)
    PROVE  MessageInv'
<1> DEFINE place == <<"group", g>>
           m(s) == [in |-> place, from |-> Self, seq |-> s, re |-> Q!ReplyTo(rec)]
           source == IF f THEN <<"private", None>> ELSE place
<1>1. CASE Q!Did(Q!Failed, None) /\ UNCHANGED <<friends, sessions, said, reported, db>>
  BY <1>1, NoUse, FailedMessageInv, Zenon
<1>2. ASSUME NEW s \in Q!Numbered(place), Q!Said(m(s)), Q!Store(m(s), source, None),
             Q!Did(Q!IdOf(m(s)), Q!Key(m(s)))
      PROVE  MessageInv'
  <2>1. place \in {"group"} \X Groups /\ source \in {<<"private", None>>, place}
    OBVIOUS
  <2>2. said' = said \cup {m(s)} /\ did' = [id |-> Q!IdOf(m(s)), on |-> Q!Key(m(s))]
    BY <1>2, Zenon DEF Q!Said, Q!Did
  <2>3. m(s) = [in |-> place, from |-> Self, seq |-> s, re |-> Q!ReplyTo(rec)]
    OBVIOUS
  <2> HIDE DEF place, source, m
  <2> QED BY <1>2, <2>1, <2>2, <2>3, SentMessageInv
<1>3. \/ Q!Did(Q!Failed, None) /\ UNCHANGED <<friends, sessions, said, reported, db>>
      \/ \E s \in Q!Numbered(place) : Q!Said(m(s)) /\ Q!Store(m(s), source, None)
                                      /\ Q!Did(Q!IdOf(m(s)), Q!Key(m(s)))
  BY Zenon DEF Q!SendGroup
<1> QED BY <1>1, <1>2, <1>3, Zenon

LEMMA SendPrivateInv ==
    ASSUME MessageInv, NEW u \in Users, NEW rec \in Q!Quotable, Q!SendPrivate(u, rec)
    PROVE  MessageInv'
<1> DEFINE place == <<"private", u>>
           m(s) == [in |-> place, from |-> Self, seq |-> s, re |-> Q!ReplyTo(rec)]
<1>1. ASSUME Q!Did(Q!Failed, None), UNCHANGED <<friends, sessions, said, reported, db>>
      PROVE  MessageInv'
  BY <1>1, NoUse, FailedMessageInv, Zenon
<1>2. ASSUME NEW s \in Q!Numbered(place), Q!Said(m(s)), Q!Store(m(s), place, None),
             Q!Did(Q!IdOf(m(s)), Q!Key(m(s)))
      PROVE  MessageInv'
  <2>1. place \in {"private"} \X Users
    OBVIOUS
  <2>2. said' = said \cup {m(s)} /\ did' = [id |-> Q!IdOf(m(s)), on |-> Q!Key(m(s))]
    BY <1>2, Zenon DEF Q!Said, Q!Did
  <2>3. m(s) = [in |-> place, from |-> Self, seq |-> s, re |-> Q!ReplyTo(rec)]
    OBVIOUS
  <2> HIDE DEF place, m
  <2> QED BY <1>2, <2>1, <2>2, <2>3, SentMessageInv
<1>3. \/ Q!Did(Q!Failed, None) /\ UNCHANGED <<friends, sessions, said, reported, db>>
      \/ \E s \in Q!Numbered(place) : Q!Said(m(s)) /\ Q!Store(m(s), place, None)
                                      /\ Q!Did(Q!IdOf(m(s)), Q!Key(m(s)))
  BY Zenon DEF Q!SendPrivate
<1> QED BY <1>1, <1>2, <1>3, Zenon

\* An event that is stored and reported.
LEMMA StoredMessageInv ==
    ASSUME MessageInv, NEW m \in said, NEW source, NEW reply, Q!Store(m, source, reply),
           StoredFrom(m, source), UNCHANGED <<said, did>>,
           reply = None \/ (m.in[1] # "guild" /\ reply = Q!ReplyID(m.re, SourceOf(m)))
    PROVE  MessageInv'
<1>1. m \in said' /\ said' = said /\ did' = did
  OBVIOUS
<1>2. /\ \A e \in reported' : e \in reported \/ ReportSound(e, said')
      /\ \A r \in db' : r \in db \/ RecordSound(r, said')
  BY <1>1, StoreIsSound
<1> QED BY <1>1, <1>2, KeepMessageInv, Zenon

LEMMA GroupMessageEventInv ==
    ASSUME MessageInv, NEW m \in said, Q!GroupMessageEvent(m)
    PROVE  MessageInv'
<1>1. m.in[1] = "group" /\ UNCHANGED <<said, did>>
  BY DEF Q!GroupMessageEvent
<1>2. SourceOf(m) = m.in /\ StoredFrom(m, m.in) /\ m.in[1] # "guild"
  BY <1>1 DEF SourceOf, StoredFrom, Q!OneToOne
<1>3. CASE Q!Store(m, m.in, Q!ReplyID(m.re, m.in))
  BY <1>1, <1>2, <1>3, StoredMessageInv
<1>4. CASE db' = Q!Inserted(db, m, m.in) /\ UNCHANGED reported
  <2>1. \A r \in db' : r \in db \/ RecordSound(r, said')
    BY <1>1, <1>2, <1>4, InsertIsSound
  <2> QED BY <1>1, <1>4, <2>1, KeepMessageInv, Zenon
<1> QED BY <1>3, <1>4, Zenon DEF Q!GroupMessageEvent

\* A notice about a message has its id.
LEMMA NoticeMessageInv ==
    ASSUME MessageInv, NEW m \in said, m.in[1] # "temp", Q!Notice(Q!IdOf(m), m)
    PROVE  MessageInv'
<1>1. Q!Report(Q!IdOf(m), m, None) /\ UNCHANGED <<said, db, did>>
  BY DEF Q!Notice
<1>2. m \in said' /\ said' = said /\ db' = db /\ did' = did
  BY <1>1
<1>3. IdSound(Q!IdOf(m), m)
  BY Zenon DEF IdSound
<1>4. \A e \in reported' : e \in reported \/ ReportSound(e, said')
  BY <1>1, <1>2, <1>3, ReportIsSound
<1> QED BY <1>2, <1>4, KeepMessageInv, Zenon

LEMMA NoticeEvents ==
    ASSUME MessageInv, NEW m \in said,
           \/ Q!GroupRecallEvent(m) \/ Q!GroupEssenceMsg(m) \/ Q!FriendRecallEvent(m)
           \/ Q!GuildChannelMessageRecalledEvent(m) \/ Q!GuildMessageReactionsUpdatedEvent(m)
    PROVE  MessageInv'
<1>1. CASE Q!GroupRecallEvent(m) \/ Q!GroupEssenceMsg(m)
  <2>1. m.in[1] = "group" /\ Q!Notice(<<"global", m.in[2], m.seq>>, m)
    BY <1>1, Zenon DEF Q!GroupRecallEvent, Q!GroupEssenceMsg, Q!ToGlobalID
  <2>2. Q!IdOf(m) = <<"global", m.in[2], m.seq>> /\ m.in[1] # "temp"
    BY <2>1, IdIs
  <2> QED BY <2>1, <2>2, NoticeMessageInv, Zenon
<1>2. CASE Q!FriendRecallEvent(m)
  <2>1. m.in[1] = "private" /\ m.from # Self /\ Q!Notice(<<"global", m.in[2], m.seq>>, m)
    BY <1>2, Zenon DEF Q!FriendRecallEvent, Q!ToGlobalID
  <2>2. Q!Key(m) \in SaidKeys /\ Q!Key(m).in = m.in /\ Q!Key(m).from = m.from
    BY Zenon DEF MessageInv, Q!Key
  <2>3. m.from = m.in[2]
    BY <2>1, <2>2, KeyFacts
  <2>4. Q!IdOf(m) = <<"global", m.in[2], m.seq>> /\ m.in[1] # "temp"
    BY <2>1, <2>3, IdIs
  <2> QED BY <2>1, <2>4, NoticeMessageInv, Zenon
<1>3. CASE Q!GuildChannelMessageRecalledEvent(m) \/ Q!GuildMessageReactionsUpdatedEvent(m)
  <2>1. m.in[1] = "guild" /\ Q!Notice(Q!IdOf(m), m)
    BY <1>3, Zenon DEF Q!GuildChannelMessageRecalledEvent, Q!GuildMessageReactionsUpdatedEvent
  <2>2. m.in[1] # "temp"
    BY <2>1
  <2> QED BY <2>1, <2>2, NoticeMessageInv, Zenon
<1> QED BY <1>1, <1>2, <1>3

\* A temporary message is reported, and not stored.
LEMMA TempMessageEventInv ==
    ASSUME MessageInv, NEW m \in said, Q!TempMessageEvent(m)
    PROVE  MessageInv'
<1>1. /\ m.in[1] = "temp" /\ said' = said /\ db' = db /\ did' = did
      /\ Q!Report(Q!Plain(m.seq), m, Q!ReplyID(m.re, <<"private", m.from>>))
  BY DEF Q!TempMessageEvent
<1>2. m \in said' /\ m.in[1] # "guild" /\ SourceOf(m) = <<"private", m.from>>
  BY <1>1 DEF SourceOf, Q!OneToOne
<1>3. IdSound(Q!Plain(m.seq), m)
  BY <1>1, NoUse, Zenon DEF IdSound
<1>4. \A e \in reported' : e \in reported \/ ReportSound(e, said')
  BY <1>1, <1>2, <1>3, ReportIsSound
<1> QED BY <1>1, <1>4, KeepMessageInv, Zenon

\* A call that is given the id of a record acts on the message of the record.
LEMMA UseMessageInv ==
    ASSUME MessageInv, NEW rec \in db, Q!Use(rec)
    PROVE  MessageInv'
<1>1. did'.id = rec.id /\ did'.on = Q!On(rec) /\ UNCHANGED <<said, reported, db>>
  BY DEF Q!Use, Q!Did
<1>2. CallSound(did', said')
  BY <1>1, RecordFacts, Zenon DEF CallSound
<1> QED BY <1>1, <1>2, KeepMessageInv, Zenon

LEMMA PullGuildMessageInv ==
    ASSUME MessageInv, NEW e \in reported, Q!PullGuildMessage(e)
    PROVE  MessageInv'
<1>1. PICK m \in said : /\ Q!IdOf(m) = e.id
                        /\ db' \in {db, Q!Inserted(db, m, <<"guild", m.from>>)}
                        /\ Q!Did(e.id, Q!Key(m))
  BY Zenon DEF Q!PullGuildMessage
<1>2. UNCHANGED <<said, reported>> /\ e.id[1] = "guild"
  BY DEF Q!PullGuildMessage
<1>3. m.in[1] = "guild"
  <2>1. Q!IdOf(m) = IF m.in[1] = "guild" THEN Q!GuildID(m.in[2], m.seq)
                    ELSE <<"global", Q!Code(m), m.seq>>
    BY Zenon DEF Q!IdOf, Q!ToGlobalID
  <2> QED BY <1>1, <1>2, <2>1
<1>4. \A r \in db' : r \in db \/ RecordSound(r, said')
  <2>1. StoredFrom(m, <<"guild", m.from>>)
    BY <1>3 DEF StoredFrom
  <2>2. \A r \in Q!Inserted(db, m, <<"guild", m.from>>) : r \in db \/ RecordSound(r, said)
    BY <2>1, InsertIsSound
  <2> QED BY <1>1, <1>2, <2>2
<1>5. CallSound(did', said')
  <2>1. did'.id = Q!IdOf(m) /\ did'.on = Q!Key(m)
    BY <1>1 DEF Q!Did
  <2>2. m.in[1] # "temp"
    BY <1>3
  <2> QED BY <1>2, <2>1, <2>2, Zenon DEF CallSound
<1> QED BY <1>2, <1>4, <1>5, KeepMessageInv, Zenon

LEMMA DeleteMessageInv ==
    ASSUME MessageInv, NEW rec \in db, Q!DeleteMessage(rec)
    PROVE  MessageInv'
BY UseMessageInv DEF Q!DeleteMessage

LEMMA QuickOperationInv ==
    ASSUME MessageInv, NEW e \in reported, Q!QuickOperation(e)
    PROVE  MessageInv'
<1>1. PICK m \in said : e.msg = Q!Key(m)
  BY Zenon DEF MessageInv, ReportSound
<1>2. e.msg \in SaidKeys
  BY <1>1, Zenon DEF MessageInv
<1>3. None \in Q!Quotable
  BY DEF Q!Quotable
<1>4. CASE \E rec \in db : Q!DeleteMessage(rec)
  BY <1>4, DeleteMessageInv
<1>5. CASE e.msg.in[1] = "group" /\ Q!SendGroup(e.msg.in[2], None, FALSE)
  <2>1. e.msg.in[2] \in Groups
    BY <1>2, <1>5, KeyFacts
  <2> QED BY <1>3, <1>5, <2>1, SendGroupInv
<1>6. CASE Q!OneToOne(e.msg.in) /\ e.msg.from # Self /\ Q!SendPrivate(e.msg.from, None)
  <2>1. e.msg.from \in Users
    BY <1>2, <1>6, KeyFacts DEF Q!OneToOne
  <2> QED BY <1>3, <1>6, <2>1, SendPrivateInv
<1> QED BY <1>4, <1>5, <1>6, Zenon DEF Q!QuickOperation

LEMMA HistoryInv ==
    ASSUME MessageInv, NEW g \in Groups, NEW ms \in SUBSET said, Q!History(g, ms)
    PROVE  MessageInv'
<1>1. /\ \A m \in ms : m \in said /\ m.in = <<"group", g>> /\ m.in[1] = "group"
      /\ UNCHANGED <<said, did>>
  BY DEF Q!History
<1>2. \A r \in db' : r \in db \/ RecordSound(r, said')
  <2>1. ASSUME NEW r \in db', r \notin db
        PROVE  RecordSound(r, said')
    <3>1. PICK m \in ms : r = Q!Record(m, <<"private", None>>)
      BY <2>1, Zenon DEF Q!History
    <3>2. r.source = <<"private", None>>
      BY <3>1 DEF Q!Record
    <3>3. StoredFrom(m, r.source)
      BY <1>1, <3>2 DEF StoredFrom
    <3>4. r = Q!Record(m, r.source)
      BY <3>1, <3>2, Zenon
    <3> QED BY <1>1, <3>3, <3>4, Zenon DEF RecordSound
  <2> QED BY <2>1
<1>3. \A e \in reported' : e \in reported \/ ReportSound(e, said')
  <2>1. ASSUME NEW e \in reported', e \notin reported
        PROVE  ReportSound(e, said')
    <3>1. PICK m \in ms : e = [id |-> Q!IdOf(m), msg |-> Q!Key(m),
                               reply |-> Q!ReplyID(m.re, m.in), re |-> m.re]
      BY <2>1, Zenon DEF Q!History
    <3>2. e.id = Q!IdOf(m) /\ e.msg = Q!Key(m) /\ e.re = m.re /\ e.reply = Q!ReplyID(m.re, m.in)
      BY <3>1
    <3>3. SourceOf(m) = m.in /\ m.in[1] # "guild"
      BY <1>1 DEF SourceOf, Q!OneToOne
    <3>4. IdSound(e.id, m)
      BY <1>1, <3>1, <3>2 DEF IdSound
    <3> QED BY <1>1, <3>2, <3>3, <3>4 DEF ReportSound
  <2> QED BY <2>1
<1> QED BY <1>1, <1>2, <1>3, KeepMessageInv, Zenon

LEMMA NextMessageInv == MessageInv /\ [Q!Next]_(Q!vars) => MessageInv'
<1> SUFFICES ASSUME MessageInv, [Q!Next]_(Q!vars)
             PROVE  MessageInv'
  OBVIOUS
<1>1. ASSUME NEW g \in Groups, NEW u \in Users \cup {Self}, Q!Say(<<"group", g>>, u)
      PROVE  MessageInv'
  <2> DEFINE place == <<"group", g>>
  <2>1. place \in {"group"} \X Groups
    OBVIOUS
  <2> HIDE DEF place
  <2>2. Q!Say(place, u)
    BY <1>1 DEF place
  <2> QED BY <2>1, <2>2, SayMessageInv
<1>2. ASSUME NEW u \in Users, Q!Say(<<"private", u>>, u) \/ Q!Say(<<"private", u>>, Self)
      PROVE  MessageInv'
  <2> DEFINE place == <<"private", u>>
  <2>1. place \in {"private"} \X Users /\ place[2] = u
    OBVIOUS
  <2>2. Q!Say(place, u) \/ Q!Say(place, Self)
    BY <1>2
  <2> HIDE DEF place
  <2> QED BY <2>1, <2>2, SayMessageInv
<1>3. ASSUME NEW c \in Channels, NEW u \in Users, Q!Say(<<"guild", c>>, u)
      PROVE  MessageInv'
  <2> DEFINE place == <<"guild", c>>
  <2>1. place \in {"guild"} \X Channels
    OBVIOUS
  <2> HIDE DEF place
  <2>2. Q!Say(place, u)
    BY <1>3 DEF place
  <2> QED BY <2>1, <2>2, SayMessageInv
<1>4. ASSUME NEW m \in said, Q!PrivateMessageEvent(m)
      PROVE  MessageInv'
  <2>1. /\ m.in[1] = "private" /\ UNCHANGED <<said, did>>
        /\ Q!Store(m, <<"private", m.from>>, Q!ReplyID(m.re, <<"private", m.from>>))
    BY <1>4 DEF Q!PrivateMessageEvent
  <2>2. SourceOf(m) = <<"private", m.from>> /\ StoredFrom(m, <<"private", m.from>>) /\ m.in[1] # "guild"
    BY <2>1 DEF SourceOf, StoredFrom, Q!OneToOne
  <2> QED BY <2>1, <2>2, StoredMessageInv
<1>5. ASSUME NEW m \in said, Q!GroupMessageEvent(m)
      PROVE  MessageInv'
  BY <1>5, GroupMessageEventInv
<1>6. ASSUME NEW m \in said, Q!GuildChannelMessageEvent(m)
      PROVE  MessageInv'
  <2>1. /\ m.in[1] = "guild" /\ UNCHANGED <<said, did>> /\ Q!Store(m, <<"guild", m.from>>, None)
    BY <1>6 DEF Q!GuildChannelMessageEvent
  <2>2. StoredFrom(m, <<"guild", m.from>>)
    BY <2>1 DEF StoredFrom
  <2> QED BY <2>1, <2>2, StoredMessageInv
<1>7. ASSUME NEW m \in said,
             \/ Q!GroupRecallEvent(m) \/ Q!GroupEssenceMsg(m) \/ Q!FriendRecallEvent(m)
             \/ Q!GuildChannelMessageRecalledEvent(m) \/ Q!GuildMessageReactionsUpdatedEvent(m)
      PROVE  MessageInv'
  BY <1>7, NoticeEvents
<1>8. ASSUME NEW u \in Users, Q!FriendAddedEvent(u)
      PROVE  MessageInv'
  <2>1. UNCHANGED <<said, reported, db, did>>
    BY <1>8 DEF Q!FriendAddedEvent
  <2> QED BY <2>1, KeepMessageInv, Zenon
<1>16. ASSUME NEW u \in Users, Q!Say(<<"temp", u>>, u)
       PROVE  MessageInv'
  <2> DEFINE place == <<"temp", u>>
  <2>1. place \in {"temp"} \X Users /\ place[2] = u
    OBVIOUS
  <2> HIDE DEF place
  <2>2. Q!Say(place, u)
    BY <1>16 DEF place
  <2> QED BY <2>1, <2>2, SayMessageInv
<1>17. ASSUME NEW m \in said, Q!TempMessageEvent(m)
       PROVE  MessageInv'
  BY <1>17, TempMessageEventInv
<1>18. ASSUME NEW u \in Users, Q!SendFriendMusicShare(u)
       PROVE  MessageInv'
  BY <1>18, MusicShareInv
<1>19. ASSUME NEW c \in Channels, Q!SendGuild(c)
       PROVE  MessageInv'
  BY <1>19, SendGuildInv
<1>20. ASSUME Q!Poke
       PROVE  MessageInv'
  <2>1. Q!Did(Q!Plain(0), None) /\ UNCHANGED <<said, reported, db>>
    BY <1>20 DEF Q!Poke
  <2> QED BY <2>1, NoUse, FailedMessageInv
<1>9. ASSUME NEW g \in Groups, NEW rec \in Q!Quotable, NEW f \in BOOLEAN, Q!SendGroup(g, rec, f)
      PROVE  MessageInv'
  BY <1>9, SendGroupInv
<1>10. ASSUME NEW u \in Users, NEW rec \in Q!Quotable, Q!SendPrivate(u, rec)
       PROVE  MessageInv'
  BY <1>10, SendPrivateInv
<1>11. ASSUME NEW rec \in db,
              \/ Q!GetMessage(rec) \/ Q!GetGuildMessage(rec) \/ Q!ForwardNode(rec)
              \/ Q!EssenceMessage(rec) \/ Q!MarkMessageAsRead(rec) \/ Q!DeleteMessage(rec)
       PROVE  MessageInv'
  BY <1>11, UseMessageInv, Zenon
     DEF Q!GetMessage, Q!GetGuildMessage, Q!ForwardNode, Q!EssenceMessage,
         Q!MarkMessageAsRead, Q!DeleteMessage
<1>12. ASSUME NEW e \in reported, Q!PullGuildMessage(e)
       PROVE  MessageInv'
  BY <1>12, PullGuildMessageInv
<1>13. ASSUME NEW e \in reported, Q!QuickOperation(e)
       PROVE  MessageInv'
  BY <1>13, QuickOperationInv
<1>14. ASSUME NEW g \in Groups, NEW ms \in SUBSET said, Q!History(g, ms)
       PROVE  MessageInv'
  BY <1>14, HistoryInv
<1>15. CASE UNCHANGED Q!vars
  <2>1. UNCHANGED <<said, reported, db, did>>
    BY <1>15 DEF Q!vars
  <2> QED BY <2>1, KeepMessageInv, Zenon
<1> QED
  BY <1>1, <1>2, <1>3, <1>4, <1>5, <1>6, <1>7, <1>8, <1>9, <1>10, <1>11, <1>12, <1>13, <1>14,
     <1>15, <1>16, <1>17, <1>18, <1>19, <1>20 DEF Q!Next

-----------------------------------------------------------------------------
(* QQElements, the choice of elements: Those(es, keep) has the elements of  *)
(* keep in their order.                                                    *)

LEMMA SameCardinality == \A S : E!Cardinality(S) = Cardinality(S)
BY Zenon DEF E!Cardinality, Cardinality

\* The places of what is kept count it, in order.
LEMMA Places ==
    ASSUME NEW n \in Nat, NEW keep \in SUBSET (1..n)
    PROVE  /\ Cardinality(keep) \in Nat
           /\ \A i \in keep : E!Place(keep, i) \in 1..Cardinality(keep)
           /\ \A i, j \in keep : i < j => E!Place(keep, i) < E!Place(keep, j)
           /\ \A p \in 1..Cardinality(keep) : \E i \in keep : E!Place(keep, i) = p
<1> DEFINE Upto(i) == {h \in keep : h <= i}
<1>0. \A i \in keep : i \in Nat
  OBVIOUS
<1>1. IsFiniteSet(keep) /\ Cardinality(keep) \in Nat
  <2>1. IsFiniteSet(1..n)
    BY FS_Interval
  <2>2. IsFiniteSet(keep)
    BY <2>1, FS_Subset
  <2> QED BY <2>2, FS_CardinalityType
<1>2. ASSUME NEW i \in keep
      PROVE  /\ IsFiniteSet(Upto(i)) /\ Cardinality(Upto(i)) \in 1..Cardinality(keep)
             /\ E!Place(keep, i) = Cardinality(Upto(i))
  <2>1. Upto(i) \in SUBSET keep /\ i \in Upto(i)
    OBVIOUS
  <2>2. /\ IsFiniteSet(Upto(i)) /\ Cardinality(Upto(i)) \in Nat
        /\ Cardinality(Upto(i)) <= Cardinality(keep)
    BY <1>1, <2>1, FS_Subset, FS_CardinalityType
  <2>3. Cardinality(Upto(i)) # 0
    BY <2>1, <2>2, FS_EmptySet
  <2>4. E!Place(keep, i) = Cardinality(Upto(i))
    BY SameCardinality, Zenon DEF E!Place
  <2> QED BY <1>1, <2>2, <2>3, <2>4
<1>3. ASSUME NEW i \in keep, NEW j \in keep, i < j
      PROVE  E!Place(keep, i) < E!Place(keep, j)
  <2>1. Upto(i) \in SUBSET Upto(j) /\ j \in Upto(j) /\ j \notin Upto(i)
    <3>1. i \in Nat /\ j \in Nat
      BY <1>0
    <3>2. ASSUME NEW h \in Upto(i) PROVE h \in Upto(j)
      <4>1. h \in keep /\ h \in Nat /\ h <= i
        BY <1>0
      <4> QED BY <1>3, <3>1, <4>1
    <3>3. j <= j /\ ~(j <= i)
      BY <1>3, <3>1
    <3> QED BY <3>2, <3>3
  <2>2. /\ Cardinality(Upto(i)) <= Cardinality(Upto(j))
        /\ Cardinality(Upto(i)) # Cardinality(Upto(j))
    <3> HIDE DEF Upto
    <3>1. IsFiniteSet(Upto(i)) /\ IsFiniteSet(Upto(j))
      BY <1>2
    <3> QED BY <2>1, <3>1, FS_Subset
  <2> QED BY <1>2, <2>2
<1> DEFINE f == [i \in keep |-> E!Place(keep, i)]
<1>4. f \in Injection(keep, 1..Cardinality(keep))
  <2>1. f \in [keep -> 1..Cardinality(keep)]
    BY <1>2
  <2>2. ASSUME NEW i \in keep, NEW j \in keep, f[i] = f[j] PROVE i = j
    <3>1. E!Place(keep, i) = E!Place(keep, j)
      BY <2>2
    <3>4. E!Place(keep, i) \in Nat
      <4> HIDE DEF Upto
      <4> QED BY <1>1, <1>2
    <3>2. ~(i < j) /\ ~(j < i)
      BY <1>3, <3>1, <3>4
    <3>3. i \in Nat /\ j \in Nat
      OBVIOUS
    <3> QED BY <3>2, <3>3
  <2> QED BY <2>1, <2>2 DEF Injection, IsInjective
<1>5. f \in Surjection(keep, 1..Cardinality(keep))
  BY <1>1, <1>4, FS_Injection, FS_Interval
<1>6. \A p \in 1..Cardinality(keep) : \E i \in keep : f[i] = p
  BY <1>5 DEF Surjection
<1> QED
  BY <1>1, <1>2, <1>3, <1>6

LEMMA ThoseAre ==
    ASSUME NEW es, NEW n \in Nat, NEW keep \in SUBSET (1..n)
    PROVE  /\ Cardinality(keep) \in Nat
           /\ DOMAIN E!Those(es, keep) = 1..Cardinality(keep)
           /\ Len(E!Those(es, keep)) = Cardinality(keep)
           /\ \A i \in keep : E!Those(es, keep)[E!Place(keep, i)] = es[i]
           /\ \A p \in 1..Cardinality(keep) :
                 \E i \in keep : E!Place(keep, i) = p /\ E!Those(es, keep)[p] = es[i]
           /\ \A S : (\A i \in keep : es[i] \in S) => E!Those(es, keep) \in Seq(S)
<1> DEFINE at(p) == CHOOSE i \in keep : E!Place(keep, i) = p
           t == [p \in 1..Cardinality(keep) |-> es[at(p)]]
<1>1. E!Those(es, keep) = t
  BY SameCardinality, Zenon DEF E!Those
<1>2. Cardinality(keep) \in Nat
  BY Places
<1>3. ASSUME NEW p \in 1..Cardinality(keep)
      PROVE  at(p) \in keep /\ E!Place(keep, at(p)) = p
  BY Places
<1>4. ASSUME NEW i \in keep
      PROVE  E!Place(keep, i) \in 1..Cardinality(keep) /\ at(E!Place(keep, i)) = i
  <2>1. E!Place(keep, i) \in 1..Cardinality(keep)
    BY Places
  <2> DEFINE j == at(E!Place(keep, i))
  <2>2. j \in keep /\ E!Place(keep, j) = E!Place(keep, i)
    BY <1>3, <2>1
  <2> HIDE DEF j
  <2>3. \A g, h \in keep : g < h => E!Place(keep, g) < E!Place(keep, h)
    BY Places
  <2>4. ~(i < j) /\ ~(j < i)
    BY <1>2, <2>1, <2>2, <2>3
  <2>5. j = i
    BY <2>2, <2>4
  <2> QED BY <2>1, <2>5 DEF j
<1> HIDE DEF at
<1>5. DOMAIN t = 1..Cardinality(keep) /\ Len(t) = Cardinality(keep)
  BY <1>2
<1>6. \A i \in keep : t[E!Place(keep, i)] = es[i]
  BY <1>4
<1>7. \A p \in 1..Cardinality(keep) : \E i \in keep : E!Place(keep, i) = p /\ t[p] = es[i]
  BY <1>3
<1>8. ASSUME NEW S, \A i \in keep : es[i] \in S PROVE t \in Seq(S)
  <2>1. t \in [1..Cardinality(keep) -> S]
    BY <1>3, <1>8
  <2> QED BY <1>2, <2>1
<1> QED
  BY <1>1, <1>2, <1>5, <1>6, <1>7, <1>8, Zenon

\* Choosing again from what was chosen.
LEMMA ThoseOfThose ==
    ASSUME NEW n \in Nat, NEW keep \in SUBSET (1..n), NEW more \in SUBSET keep,
           NEW places, \A q : q \in places <=> \E i \in more : q = E!Place(keep, i)
    PROVE  /\ Cardinality(places) = Cardinality(more)
           /\ \A i \in more : E!Place(places, E!Place(keep, i)) = E!Place(more, i)
<1>1. /\ Cardinality(keep) \in Nat
      /\ \A i \in keep : E!Place(keep, i) \in 1..Cardinality(keep)
      /\ \A i, j \in keep : i < j => E!Place(keep, i) < E!Place(keep, j)
  BY Places
<1>2. ASSUME NEW some \in SUBSET more
      PROVE  Cardinality({E!Place(keep, i) : i \in some}) = Cardinality(some)
  <2> DEFINE T == {E!Place(keep, i) : i \in some}
             f == [i \in some |-> E!Place(keep, i)]
  <2>1. IsFiniteSet(some)
    <3>1. IsFiniteSet(1..n) /\ some \in SUBSET (1..n)
      BY FS_Interval
    <3> QED BY <3>1, FS_Subset
  <2>2. \A i, j \in some : f[i] = f[j] => i = j
    <3> SUFFICES ASSUME NEW i \in some, NEW j \in some, f[i] = f[j] PROVE i = j
      OBVIOUS
    <3>1. ~(i < j) /\ ~(j < i)
      BY <1>1
    <3> QED BY <3>1
  <2>3. f \in Bijection(some, T)
    BY <2>2 DEF Bijection, Injection, IsInjective, Surjection
  <2> QED
    BY <2>1, <2>3, FS_Bijection DEF ExistsBijection
<1>3. ASSUME NEW i \in more
      PROVE  E!Place(places, E!Place(keep, i)) = E!Place(more, i)
  <2> DEFINE some == {h \in more : h <= i}
  <2>1. \A h \in more : h <= i <=> E!Place(keep, h) <= E!Place(keep, i)
    <3> SUFFICES ASSUME NEW h \in more
                 PROVE  h <= i <=> E!Place(keep, h) <= E!Place(keep, i)
      OBVIOUS
    <3>1. h < i \/ h = i \/ i < h
      OBVIOUS
    <3> QED BY <1>1, <3>1
  <2>2. {q \in places : q <= E!Place(keep, i)} = {E!Place(keep, h) : h \in some}
    BY <2>1
  <2>3. /\ E!Place(places, E!Place(keep, i)) = Cardinality({q \in places : q <= E!Place(keep, i)})
        /\ E!Place(more, i) = Cardinality(some)
    BY SameCardinality, Zenon DEF E!Place
  <2> QED BY <1>2, <2>2, <2>3
<1>4. places = {E!Place(keep, i) : i \in more}
  OBVIOUS
<1> QED
  BY <1>2, <1>3, <1>4

-----------------------------------------------------------------------------
(* QQElements, lists: what is converted from a list of segments is a list. *)

\* FlattenSeq appends its lists one after the other.
LEMMA Appended ==
    ASSUME NEW S, NEW seqs \in Seq(Seq(S)), seqs # <<>>
    PROVE  \E f : /\ E!FlattenSeq(seqs) = f[Len(seqs)]
                  /\ f[1] = seqs[1]
                  /\ \A i \in 2..Len(seqs) : f[i] = f[i - 1] \o seqs[i]
<1> DEFINE Of(f, n) == f = [i \in 1..n |-> IF i = 1 THEN seqs[i] ELSE f[i - 1] \o seqs[i]]
           none == {n \in Nat : n >= 1 /\ n <= Len(seqs) /\ ~\E f : Of(f, n)}
<1>1. none = {}
  <2> SUFFICES ASSUME none # {} PROVE FALSE
    OBVIOUS
  <2>1. PICK n \in none : \A m \in none : ~(<<m, n>> \in OpToRel(<, Nat))
    <3>1. none \subseteq Nat
      OBVIOUS
    <3> HIDE DEF none
    <3> QED BY <3>1, NatLessThanWellFounded, WFMin, Zenon
  <2>2. \A m \in none : ~(m < n)
    BY <2>1 DEF OpToRel
  <2>3. CASE n = 1
    <3>1. Of([i \in 1..n |-> seqs[i]], n)
      BY <2>3
    <3> QED BY <3>1
  <2>4. CASE n # 1
    <3>1. n - 1 \in Nat /\ n - 1 >= 1 /\ n - 1 <= Len(seqs) /\ n - 1 < n /\ n \in Nat
      BY <2>4
    <3>2. n - 1 \notin none
      BY <2>2, <3>1
    <3>3. PICK f : Of(f, n - 1)
      BY <3>1, <3>2
    <3> DEFINE g == [i \in 1..n |-> IF i = n THEN f[n - 1] \o seqs[n] ELSE f[i]]
    <3>4. \A i \in 1..(n - 1) : f[i] = IF i = 1 THEN seqs[i] ELSE f[i - 1] \o seqs[i]
      BY <3>3
    <3>5. ASSUME NEW i \in 1..n
          PROVE  g[i] = IF i = 1 THEN seqs[i] ELSE g[i - 1] \o seqs[i]
      BY <2>4, <3>1, <3>4
    <3>6. Of(g, n)
      BY <3>5
    <3> QED BY <3>6
  <2> QED BY <2>3, <2>4
<1>2. Len(seqs) \in Nat /\ Len(seqs) >= 1 /\ Len(seqs) # 0
  OBVIOUS
<1>3. \E f : Of(f, Len(seqs))
  <2> DEFINE n == Len(seqs)
  <2>1. n \in Nat /\ n >= 1 /\ n <= Len(seqs)
    BY <1>2
  <2>2. n \notin none
    <3> HIDE DEF none
    <3> QED BY <1>1
  <2> QED BY <2>1, <2>2
<1> DEFINE f == CHOOSE f : Of(f, Len(seqs))
<1>4. Of(f, Len(seqs))
  BY <1>3, Zenon
<1>5. E!FlattenSeq(seqs) = f[Len(seqs)]
  BY ONLY <1>2, Zenon DEF E!FlattenSeq
<1> HIDE DEF f
<1>6. \A i \in 1..Len(seqs) : f[i] = IF i = 1 THEN seqs[i] ELSE f[i - 1] \o seqs[i]
  BY <1>4
<1>7. f[1] = seqs[1]
  <2>1. 1 \in 1..Len(seqs)
    BY <1>2
  <2> QED BY <1>6, <2>1
<1>8. ASSUME NEW i \in 2..Len(seqs) PROVE f[i] = f[i - 1] \o seqs[i]
  <2>1. i \in 1..Len(seqs) /\ i # 1
    OBVIOUS
  <2> QED BY <1>6, <2>1
<1> QED
  BY <1>5, <1>7, <1>8, Zenon

LEMMA FlattenedIsAList ==
    ASSUME NEW S, NEW seqs \in Seq(Seq(S))
    PROVE  E!FlattenSeq(seqs) \in Seq(S)
<1>1. CASE seqs = <<>>
  <2>1. Len(seqs) = 0 /\ seqs \in Seq(S)
    BY <1>1
  <2> QED BY ONLY <2>1, Zenon DEF E!FlattenSeq
<1>2. CASE seqs # <<>>
  <2>1. PICK f : /\ E!FlattenSeq(seqs) = f[Len(seqs)]
                 /\ f[1] = seqs[1]
                 /\ \A i \in 2..Len(seqs) : f[i] = f[i - 1] \o seqs[i]
    BY <1>2, Appended
  <2> DEFINE others == {n \in Nat : n >= 1 /\ n <= Len(seqs) /\ f[n] \notin Seq(S)}
  <2>2. others = {}
    <3> SUFFICES ASSUME others # {} PROVE FALSE
      OBVIOUS
    <3>1. PICK n \in others : \A m \in others : ~(<<m, n>> \in OpToRel(<, Nat))
      <4>1. others \subseteq Nat
        OBVIOUS
      <4> HIDE DEF others
      <4> QED BY <4>1, NatLessThanWellFounded, WFMin, Zenon
    <3>2. \A m \in others : ~(m < n)
      BY <3>1 DEF OpToRel
    <3>3. CASE n = 1
      BY <2>1, <3>3
    <3>4. CASE n # 1
      <4>1. n - 1 \in Nat /\ n - 1 >= 1 /\ n - 1 <= Len(seqs) /\ n - 1 < n /\ n \in 2..Len(seqs)
        BY <3>4
      <4>2. f[n - 1] \in Seq(S)
        BY <3>2, <4>1
      <4>3. f[n] = f[n - 1] \o seqs[n]
        <5> HIDE DEF others
        <5> QED BY <2>1, <4>1
      <4>4. seqs[n] \in Seq(S)
        BY <4>1
      <4>5. f[n - 1] \o seqs[n] \in Seq(S)
        <5> DEFINE s == f[n - 1]
                   t == seqs[n]
        <5>1. s \in Seq(S) /\ t \in Seq(S)
          BY <4>2, <4>4
        <5> HIDE DEF s, t
        <5>2. s \o t \in Seq(S)
          BY <5>1
        <5> QED BY <5>2 DEF s, t
      <4> QED BY <4>3, <4>5
    <3> QED BY <3>3, <3>4
  <2>3. Len(seqs) \in Nat /\ Len(seqs) >= 1 /\ Len(seqs) \notin others
    <3> HIDE DEF others
    <3> QED BY <1>2, <2>2
  <2>4. f[Len(seqs)] \in Seq(S)
    BY <2>3
  <2> QED BY <2>1, <2>4
<1> QED BY <1>1, <1>2

LEMMA FlattenedSingles ==
    ASSUME NEW n \in Nat, NEW es
    PROVE  E!FlattenSeq([i \in 1..n |-> <<es[i]>>]) = [i \in 1..n |-> es[i]]
<1> DEFINE S == {es[i] : i \in 1..n}
           seqs == [i \in 1..n |-> <<es[i]>>]
           upto(m) == [i \in 1..m |-> es[i]]
<1>1. seqs \in Seq(Seq(S)) /\ Len(seqs) = n
  OBVIOUS
<1>2. CASE n = 0
  <2>1. Len(seqs) = 0 /\ seqs = [i \in 1..n |-> es[i]]
    BY <1>2
  <2> QED BY ONLY <2>1, Zenon DEF E!FlattenSeq
<1>3. CASE n # 0
  <2>1. PICK f : /\ E!FlattenSeq(seqs) = f[n]
                 /\ f[1] = seqs[1]
                 /\ \A i \in 2..n : f[i] = f[i - 1] \o seqs[i]
    <3>1. seqs # <<>>
      BY <1>1, <1>3
    <3> HIDE DEF seqs, S
    <3> QED BY <1>1, <3>1, Appended
  <2> DEFINE others == {m \in Nat : m >= 1 /\ m <= n /\ f[m] # upto(m)}
  <2>2. others = {}
    <3> SUFFICES ASSUME others # {} PROVE FALSE
      OBVIOUS
    <3>1. PICK m \in others : \A k \in others : ~(<<k, m>> \in OpToRel(<, Nat))
      <4>1. others \subseteq Nat
        OBVIOUS
      <4> HIDE DEF others
      <4> QED BY <4>1, NatLessThanWellFounded, WFMin, Zenon
    <3>2. \A k \in others : ~(k < m)
      BY <3>1 DEF OpToRel
    <3>3. CASE m = 1
      <4>1. f[1] = <<es[1]>>
        BY <1>3, <2>1
      <4>2. upto(1) = <<es[1]>>
        OBVIOUS
      <4> QED BY <3>3, <4>1, <4>2
    <3>4. CASE m # 1
      <4>1. m - 1 \in Nat /\ m - 1 >= 1 /\ m - 1 <= n /\ m - 1 < m /\ m \in 2..n
        BY <3>4
      <4>2. f[m - 1] = upto(m - 1)
        BY <3>2, <4>1
      <4>3. f[m] = f[m - 1] \o <<es[m]>>
        <5>1. f[m] = f[m - 1] \o seqs[m]
          <6> HIDE DEF others, seqs
          <6> QED BY <2>1, <4>1
        <5>2. seqs[m] = <<es[m]>>
          BY <4>1
        <5> QED BY <5>1, <5>2, Zenon
      <4>4. upto(m - 1) \in Seq(S) /\ <<es[m]>> \in Seq(S) /\ Len(upto(m - 1)) = m - 1
        BY <4>1
      <4>5. upto(m - 1) \o <<es[m]>> = upto(m)
        BY <4>1, <4>4
      <4> HIDE DEF upto
      <4> QED BY <4>2, <4>3, <4>5
    <3> QED BY <3>3, <3>4
  <2>3. n >= 1 /\ n \notin others
    <3> HIDE DEF others
    <3> QED BY <1>3, <2>2
  <2>4. f[n] = upto(n)
    BY <2>3
  <2> QED BY <2>1, <2>4
<1> QED BY <1>2, <1>3

\* A segment becomes a list of elements.
IsList(es) == \E n \in Nat : \E f : es = [h \in 1..n |-> f[h]]

LEMMA ShortLists ==
    /\ IsList(<<>>) /\ \A a : IsList(<<a>>)
    /\ \A a, b : IsList(<<a, b>>)
<1>1. IsList(<<>>)
  <2>1. <<>> = [h \in 1..0 |-> <<>>[h]] /\ 0 \in Nat
    OBVIOUS
  <2> QED BY ONLY <2>1, Zenon DEF IsList
<1>2. ASSUME NEW a PROVE IsList(<<a>>)
  <2>1. <<a>> = [h \in 1..1 |-> <<a>>[h]] /\ 1 \in Nat
    OBVIOUS
  <2> QED BY ONLY <2>1, Zenon DEF IsList
<1>3. ASSUME NEW a, NEW b PROVE IsList(<<a, b>>)
  <2>1. <<a, b>> = [h \in 1..2 |-> <<a, b>>[h]] /\ 2 \in Nat
    OBVIOUS
  <2> QED BY ONLY <2>1, Zenon DEF IsList
<1> QED BY <1>1, <1>2, <1>3, Zenon

LEMMA Converted ==
    ASSUME E!ElementsAssumption, NEW seg, NEW source
    PROVE  IsList(E!Convert(seg, source))
<1>1. IsList(E!Fails) /\ \A a : IsList(<<a>>)
  BY ShortLists, Zenon DEF E!Fails
<1>2. \A a, b : IsList(<<a, b>>)
  BY ShortLists, Zenon
<1>3. \A f, url : IsList(E!Fetched(f, url))
  BY <1>1, Zenon DEF E!Fetched
<1>4. IsList(E!ImageElement(seg, source))
  BY <1>1, <1>3, Zenon DEF E!ImageElement
<1>5. IsList(E!Typed(seg, E!ImageElement(seg, source)))
  BY <1>1, <1>4, Zenon DEF E!Typed
<1>6. IsList(E!Card(seg, source))
  BY <1>1, <1>2, Zenon DEF E!Card
<1>7. IsList(E!Mention(seg)) /\ IsList(E!VoiceElement(seg)) /\ IsList(E!VideoElement(seg))
  BY <1>1, Zenon DEF E!Mention, E!VoiceElement, E!VideoElement
<1>8. IsList(E!Service(seg)) /\ IsList(E!Reply(seg, source)) /\ IsList(E!Music(seg))
  BY <1>1, Zenon DEF E!Service, E!Reply, E!Music
<1>9. \A most : IsList(E!Thrown(seg, most))
  BY <1>1, Zenon DEF E!Thrown
<1>10. IsList(E!Texts(seg))
  <2> DEFINE text == E!Value(seg, "text")
             parts == IF "SplitURL" \in settings /\ text \in DOMAIN Split THEN Split[text]
                      ELSE <<text>>
             f == [h \in DOMAIN parts |-> E!E("text", parts[h], None)]
  <2>1. \E n \in Nat : DOMAIN parts = 1..n
    <3>1. CASE "SplitURL" \in settings /\ text \in DOMAIN Split
      <4>1. Len(Split[text]) \in Nat /\ DOMAIN Split[text] = 1..Len(Split[text])
        BY <3>1 DEF E!ElementsAssumption
      <4> QED BY <3>1, <4>1
    <3>2. CASE ~("SplitURL" \in settings /\ text \in DOMAIN Split)
      <4>1. DOMAIN <<text>> = 1..1
        OBVIOUS
      <4> QED BY <3>2, <4>1
    <3> QED BY <3>1, <3>2
  <2> HIDE DEF parts
  <2>2. PICK n \in Nat : DOMAIN parts = 1..n
    BY <2>1
  <2>3. f = [h \in 1..n |-> f[h]]
    BY <2>2
  <2>4. E!Texts(seg) = f
    BY Zenon DEF E!Texts, parts
  <2> HIDE DEF f
  <2> QED BY <2>3, <2>4, Zenon DEF IsList
<1> QED
  BY <1>1, <1>5, <1>6, <1>7, <1>8, <1>9, <1>10, Zenon DEF E!Convert

\* What the segments of a message become is a list of elements.
LEMMA ConvertedIsAList ==
    ASSUME E!ElementsAssumption,
           NEW segs, Len(segs) \in Nat, DOMAIN segs = 1..Len(segs), NEW source
    PROVE  /\ Len(E!ConvertElements(segs, source)) \in Nat
           /\ DOMAIN E!ConvertElements(segs, source) = 1..Len(E!ConvertElements(segs, source))
<1> DEFINE Of(i) == LET es == E!Convert(segs[i], source) IN
                    IF es = E!Fails THEN E!Instead(segs[i]) ELSE es
           lists == [i \in DOMAIN segs |-> Of(i)]
           S == UNION {{Of(i)[h] : h \in DOMAIN Of(i)} : i \in DOMAIN segs}
           list == E!FlattenSeq(lists)
           all == E!ConvertElements(segs, source)
           replies == E!Replies(list)
<1>1. ASSUME NEW i \in DOMAIN segs PROVE Of(i) \in Seq(S)
  <2>1. IsList(Of(i))
    <3>1. IsList(E!Convert(segs[i], source))
      BY Converted, Zenon
    <3>2. IsList(E!Instead(segs[i]))
      BY ShortLists, Zenon DEF E!Instead
    <3> QED BY <3>1, <3>2, Zenon
  <2>2. \A h \in DOMAIN Of(i) : Of(i)[h] \in S
    <3> HIDE DEF Of
    <3> QED OBVIOUS
  <2> HIDE DEF Of, S
  <2>3. PICK n \in Nat : \E f : Of(i) = [h \in 1..n |-> f[h]]
    BY <2>1, Zenon DEF IsList
  <2>4. PICK f : Of(i) = [h \in 1..n |-> f[h]]
    BY <2>3
  <2> QED BY <2>2, <2>4
<1> HIDE DEF S, Of
<1>2. lists \in Seq(Seq(S))
  BY <1>1
<1>3. list \in Seq(S)
  BY <1>2, FlattenedIsAList
<1>4. all = IF replies = {} THEN list
            ELSE <<list[E!First(replies)]>> \o E!Those(list, DOMAIN list \ replies)
  BY Zenon DEF E!ConvertElements, Of
<1> HIDE DEF list, lists, all
<1>5. CASE replies = {}
  BY <1>3, <1>4, <1>5 DEF all
<1>6. CASE replies # {}
  <2> DEFINE rest == E!Those(list, DOMAIN list \ replies)
  <2>1. Len(list) \in Nat /\ DOMAIN list = 1..Len(list)
    BY <1>3
  <2>2. DOMAIN list \ replies \in SUBSET (1..Len(list))
    BY <2>1
  <2>3. \E T : rest \in Seq(T)
    <3> DEFINE T == {list[i] : i \in DOMAIN list}
    <3>1. \A i \in DOMAIN list \ replies : list[i] \in T
      OBVIOUS
    <3> HIDE DEF T, replies
    <3> QED BY <2>1, <2>2, <3>1, ThoseAre
  <2> HIDE DEF rest
  <2>4. all = <<list[E!First(replies)]>> \o rest
    BY <1>4, <1>6 DEF rest
  <2> QED BY <2>3, <2>4 DEF all
<1> QED BY <1>5, <1>6

-----------------------------------------------------------------------------
(* Sending: the workers write the slots of the media, and only what they    *)
(* have not yet uploaded, or could not, is still as it was.                *)

LocalPlaces == {i \in DOMAIN job.all : job.all[i].k \in E!Local}

JobShape ==
    \/ job = [at |-> "idle"]
    \/ /\ job = [at |-> job.at, source |-> job.source, elems |-> job.elems, all |-> job.all,
                 failed |-> job.failed, plain |-> job.plain, pending |-> job.pending]
       /\ job.at \in {"upload", "sent", "refused", "lost"}
       /\ Len(job.all) \in Nat /\ DOMAIN job.all = 1..Len(job.all)

Slots ==
    job.at = "upload" =>
        /\ job.pending \subseteq LocalPlaces /\ job.failed \subseteq LocalPlaces
        /\ job.pending \cap job.failed = {}
        /\ DOMAIN job.elems = DOMAIN job.all
        /\ \A i \in DOMAIN job.all :
              IF i \in LocalPlaces \ (job.pending \cup job.failed)
              THEN job.elems[i] = E!E(E!UploadedKind(job.all[i]), <<"uploaded", i>>, None)
              ELSE job.elems[i] = job.all[i]

\* What was not dropped, and what is sent of it.
KeptPlaces == {i \in DOMAIN job.all \ job.failed :
                  ~(job.source = "guild" /\ job.all[i].k = "poke")}
SentAs(e, i) == IF job.all[i].k \in E!Local
                THEN e.k = E!UploadedKind(job.all[i]) /\ e.v = <<"uploaded", i>>
                ELSE IF job.plain /\ E!IsAll(job.all[i]) THEN e = E!AllAsText
                ELSE e = job.all[i]
SentInOrder ==
    \/ /\ Len(job.elems) = Cardinality(KeptPlaces)
       /\ \A i \in KeptPlaces : SentAs(job.elems[E!Place(KeptPlaces, i)], i)
    \/ Len(job.elems) = 1 /\ job.elems[1].k \in {"poke", "music"}

JobInv ==
    /\ JobShape /\ Slots
    /\ job.at = "sent" => SentInOrder /\ (job.plain => job.source = "group")
    /\ down => ~client /\ job.at = "lost" /\ LocalPlaces # {}

LEMMA JobInOrder == JobInv => E!UploadsKeepOrder
<1> SUFFICES ASSUME JobInv PROVE E!UploadsKeepOrder
  OBVIOUS
<1>1. job.at = "sent" =>
        \/ /\ Len(job.elems) = E!Cardinality(KeptPlaces)
           /\ \A i \in KeptPlaces : SentAs(job.elems[E!Place(KeptPlaces, i)], i)
        \/ Len(job.elems) = 1 /\ job.elems[1].k \in {"poke", "music"}
  BY SameCardinality, Zenon DEF JobInv, SentInOrder
<1>2. down => ~client /\ \E i \in DOMAIN job.all : job.all[i].k \in E!Local
  BY DEF JobInv, LocalPlaces
<1>3. job.at = "sent" /\ job.plain => job.source = "group"
  BY DEF JobInv
<1> QED BY <1>1, <1>2, <1>3, Zenon DEF E!UploadsKeepOrder, KeptPlaces, SentAs

LEMMA InitJobInv == E!Init => JobInv
BY DEF E!Init, JobInv, JobShape, Slots

\* The least of some places.
LEMMA FirstOf ==
    ASSUME NEW places \in SUBSET Nat, places # {}
    PROVE  E!First(places) \in places /\ \A j \in places : E!First(places) <= j
<1>1. PICK i \in places : \A j \in places : ~(<<j, i>> \in OpToRel(<, Nat))
  BY NatLessThanWellFounded, WFMin, Zenon
<1>2. \A j \in places : i <= j
  <2>1. \A j \in places : ~(j < i)
    BY <1>1 DEF OpToRel
  <2> QED BY <2>1
<1> QED BY <1>2, Zenon DEF E!First

LEMMA SendJobInv ==
    ASSUME E!ElementsAssumption, E!OutgoingAssumption, JobInv, NEW n \in DOMAIN Outgoing, E!Send(Outgoing[n])
    PROVE  JobInv'
<1> DEFINE m == Outgoing[n]
           es == E!ConvertElements(m.segs, m.source)
<1>1. Len(es) \in Nat /\ DOMAIN es = 1..Len(es)
  <2>1. Len(m.segs) \in Nat /\ DOMAIN m.segs = 1..Len(m.segs)
    BY DEF E!OutgoingAssumption
  <2> QED BY <2>1, ConvertedIsAList
<1>2. job' = [at |-> "upload", source |-> m.source, elems |-> es, all |-> es,
              failed |-> {}, plain |-> FALSE, pending |-> {i \in DOMAIN es : es[i].k \in E!Local}]
  BY Zenon DEF E!Send
<1>3. UNCHANGED <<client, down>> /\ job.at = "idle"
  BY DEF E!Send
<1> HIDE DEF m, es
<1>4. ~down
  BY <1>3 DEF JobInv
<1> QED
  BY <1>1, <1>2, <1>3, <1>4 DEF JobInv, JobShape, Slots, LocalPlaces

LEMMA UploadJobInv ==
    ASSUME JobInv, NEW i \in E!Uploading, E!UploadDone(i) \/ E!UploadFails(i) \/ E!UploadPanics(i)
    PROVE  JobInv'
<1>1. job.at = "upload" /\ i \in job.pending
  BY DEF E!UploadDone, E!UploadFails, E!UploadPanics, E!Uploading
<1>2. /\ job = [at |-> job.at, source |-> job.source, elems |-> job.elems, all |-> job.all,
                failed |-> job.failed, plain |-> job.plain, pending |-> job.pending]
      /\ Len(job.all) \in Nat /\ DOMAIN job.all = 1..Len(job.all)
      /\ ~down
  BY <1>1 DEF JobInv, JobShape
<1>3. Slots /\ i \in LocalPlaces /\ i \in DOMAIN job.all
  BY <1>1 DEF JobInv, Slots, LocalPlaces
<1>4. CASE E!UploadDone(i)
  <2> DEFINE new == E!E(E!UploadedKind(job.elems[i]), <<"uploaded", i>>, None)
  <2>1. job' = [job EXCEPT !.pending = job.pending \ {i}, !.elems = [job.elems EXCEPT ![i] = new]]
    BY <1>4, Zenon DEF E!UploadDone
  <2>2. job.elems[i] = job.all[i]
    BY <1>1, <1>3 DEF Slots
  <2>4. /\ job'.at = "upload" /\ job'.source = job.source /\ job'.all = job.all
        /\ job'.failed = job.failed /\ job'.pending = job.pending \ {i}
        /\ job'.elems = [job.elems EXCEPT ![i] = new] /\ down' = down
    BY <1>1, <1>2, <1>4, <2>1, Zenon DEF E!UploadDone
  <2>5. JobShape'
    BY <1>1, <1>2, <2>1 DEF JobShape
  <2>6. LocalPlaces' = LocalPlaces
    BY <2>4 DEF LocalPlaces
  <2>7. Slots'
    <3>1. DOMAIN job'.elems = DOMAIN job'.all
      BY <1>1, <1>3, <2>4 DEF Slots
    <3>2. ASSUME NEW h \in DOMAIN job'.all
          PROVE  IF h \in LocalPlaces \ (job'.pending \cup job'.failed)
                 THEN job'.elems[h] = E!E(E!UploadedKind(job.all[h]), <<"uploaded", h>>, None)
                 ELSE job'.elems[h] = job'.all[h]
      <4>1. CASE h = i
        <5>1. i \in LocalPlaces \ (job'.pending \cup job'.failed)
          BY <1>1, <1>3, <2>4 DEF Slots
        <5>2. job'.elems[i] = E!E(E!UploadedKind(job.all[i]), <<"uploaded", i>>, None)
          BY <1>1, <1>3, <2>2, <2>4 DEF Slots
        <5> QED BY <2>4, <4>1, <5>1, <5>2
      <4>2. CASE h # i
        <5> HIDE DEF new
        <5>1. job'.elems[h] = job.elems[h]
          BY <2>4, <4>2
        <5>2. h \in job'.pending <=> h \in job.pending
          BY <2>4, <4>2
        <5>3. IF h \in LocalPlaces \ (job.pending \cup job.failed)
              THEN job.elems[h] = E!E(E!UploadedKind(job.all[h]), <<"uploaded", h>>, None)
              ELSE job.elems[h] = job.all[h]
          BY <1>1, <1>3, <2>4 DEF Slots
        <5> QED BY <2>4, <5>1, <5>2, <5>3
      <4> QED BY <4>1, <4>2
    <3>3. /\ job'.pending \subseteq LocalPlaces /\ job'.failed \subseteq LocalPlaces
          /\ job'.pending \cap job'.failed = {}
      BY <1>1, <1>3, <2>4 DEF Slots
    <3>4. ASSUME NEW h \in DOMAIN job'.all
          PROVE  IF h \in LocalPlaces \ (job'.pending \cup job'.failed)
                 THEN job'.elems[h] = E!E(E!UploadedKind(job.all[h])', <<"uploaded", h>>, None)
                 ELSE job'.elems[h] = job'.all[h]
      <4>1. E!UploadedKind(job.all[h])' = E!UploadedKind(job.all[h])
        BY <2>4 DEF E!UploadedKind, E!ImageKind
      <4> QED BY <3>2, <4>1
    <3> QED BY <2>6, <3>1, <3>3, <3>4, Zenon DEF Slots
  <2> QED
    BY <1>2, <2>4, <2>5, <2>7 DEF JobInv
<1>5. CASE E!UploadFails(i)
  BY <1>1, <1>2, <1>3, <1>5
     DEF JobInv, JobShape, Slots, LocalPlaces, E!UploadFails, E!UploadedKind, E!ImageKind
<1>6. CASE E!UploadPanics(i)
  BY <1>1, <1>2, <1>3, <1>6
     DEF JobInv, JobShape, Slots, LocalPlaces, E!UploadPanics
<1> QED BY <1>4, <1>5, <1>6

\* What is uploaded is not dropped, and no poke, share, voice or mention.
LEMMA UploadedIsSent ==
    ASSUME NEW e, e.k \in E!Local
    PROVE  E!UploadedKind(e) \notin E!Local \cup {"poke", "music", "at"}
BY DEF E!UploadedKind, E!ImageKind, E!Local

LEMMA FinishJobInv ==
    ASSUME JobInv, E!Finish
    PROVE  JobInv'
<1> DEFINE es == job.elems
           keep == {i \in DOMAIN es : es[i].k \notin E!Local}
           left == E!Compacted(es)
           special == {p \in DOMAIN left : left[p].k = "music"
                                            \/ (left[p].k = "poke" /\ job.source # "guild")}
           all == job.all
<1>0. PICK plain \in BOOLEAN :
         /\ plain => job.source = "group"
         /\ job' = [job EXCEPT !.at = IF client /\ E!Outcome(left, plain) # <<>>
                                      THEN "sent" ELSE "refused",
                               !.elems = E!Outcome(left, plain), !.plain = plain]
  BY Zenon DEF E!Finish
<1> DEFINE sent == E!Outcome(left, plain)
           Fits(e, i) == IF job.all[i].k \in E!Local
                         THEN e.k = E!UploadedKind(job.all[i]) /\ e.v = <<"uploaded", i>>
                         ELSE IF plain /\ E!IsAll(job.all[i]) THEN e = E!AllAsText
                         ELSE e = job.all[i]
<1>1. /\ job.at = "upload" /\ job.pending = {}
      /\ UNCHANGED <<client, down>>
      /\ job' = [job EXCEPT !.at = IF client /\ sent # <<>> THEN "sent" ELSE "refused",
                            !.elems = sent, !.plain = plain]
  BY <1>0, Zenon DEF E!Finish
<1>2. /\ job = [at |-> job.at, source |-> job.source, elems |-> es, all |-> all,
                failed |-> job.failed, plain |-> job.plain, pending |-> job.pending]
      /\ Len(all) \in Nat /\ DOMAIN all = 1..Len(all) /\ DOMAIN es = 1..Len(all)
      /\ ~down
  BY <1>1 DEF JobInv, JobShape, Slots
<1>3. ASSUME NEW i \in DOMAIN all
      PROVE  /\ i \in keep <=> i \notin job.failed
             /\ i \in keep =>
                   /\ Fits(IF plain /\ E!IsAll(es[i]) THEN E!AllAsText ELSE es[i], i)
                   /\ es[i].k = "poke" <=> all[i].k = "poke"
  <2>1. IF i \in LocalPlaces \ job.failed
        THEN es[i] = E!E(E!UploadedKind(all[i]), <<"uploaded", i>>, None)
        ELSE es[i] = all[i]
    BY <1>1 DEF JobInv, Slots
  <2>2. job.failed \subseteq LocalPlaces /\ i \in DOMAIN es
    BY <1>1, <1>2 DEF JobInv, Slots
  <2>3. i \in LocalPlaces <=> all[i].k \in E!Local
    BY DEF LocalPlaces
  <2>4. CASE i \in LocalPlaces \ job.failed
    <3>1. es[i].k = E!UploadedKind(all[i]) /\ es[i].v = <<"uploaded", i>>
      BY <2>1, <2>4 DEF E!E
    <3>2. E!UploadedKind(all[i]) \notin E!Local \cup {"poke", "music", "at"}
      BY <2>3, <2>4, UploadedIsSent
    <3>3. all[i].k # "poke" /\ ~E!IsAll(es[i])
      BY <2>3, <2>4, <3>1, <3>2 DEF E!Local, E!IsAll
    <3> QED BY <2>2, <2>3, <2>4, <3>1, <3>2, <3>3
  <2>5. CASE i \in job.failed
    BY <2>1, <2>2, <2>3, <2>5
  <2>6. CASE i \notin LocalPlaces
    BY <2>1, <2>2, <2>3, <2>6
  <2> QED BY <2>4, <2>5, <2>6
<1> HIDE DEF Fits
<1>4. keep \in SUBSET (1..Len(all)) /\ left = E!Those(es, keep)
  <2>1. left = E!Those(es, keep)
    BY Zenon DEF E!Compacted
  <2> QED BY <1>2, <2>1
<1> HIDE DEF left, keep
<1>5. /\ Cardinality(keep) \in Nat
      /\ DOMAIN left = 1..Cardinality(keep) /\ Len(left) = Cardinality(keep)
      /\ \A i \in keep : left[E!Place(keep, i)] = es[i]
      /\ \A p \in 1..Cardinality(keep) : \E i \in keep : E!Place(keep, i) = p /\ left[p] = es[i]
  BY <1>2, <1>4, ThoseAre
<1>6. sent = IF special # {} THEN <<left[E!First(special)]>>
             ELSE IF job.source = "guild"
                  THEN E!Those(left, {p \in DOMAIN left : left[p].k \notin {"poke", "voice"}})
             ELSE [p \in DOMAIN left |-> IF plain /\ E!IsAll(left[p]) THEN E!AllAsText
                                         ELSE left[p]]
  BY Zenon DEF E!Outcome
<1> DEFINE kept == {i \in DOMAIN all \ job.failed : ~(job.source = "guild" /\ all[i].k = "poke")}
           InOrder == \/ /\ Len(sent) = Cardinality(kept)
                         /\ \A i \in kept : Fits(sent[E!Place(kept, i)], i)
                      \/ Len(sent) = 1 /\ sent[1].k \in {"poke", "music"}
<1> HIDE DEF sent
<1>7. InOrder
  <2>1. CASE special # {}
    <3>1. special \in SUBSET Nat
      BY <1>5
    <3>2. E!First(special) \in special
      BY <2>1, <3>1, FirstOf
    <3>3. sent = <<left[E!First(special)]>>
      BY <1>6, <2>1
    <3>4. Len(sent) = 1 /\ sent[1] = left[E!First(special)]
      BY <3>3
    <3> QED BY <3>2, <3>4
  <2>2. CASE special = {} /\ job.source = "guild"
    <3> DEFINE places == {p \in DOMAIN left : left[p].k \notin {"poke", "voice"}}
    <3>1. sent = E!Those(left, places)
      BY <1>6, <2>2
    <3>2. \A i \in keep : E!Place(keep, i) \in 1..Cardinality(keep)
      BY <1>2, <1>4, Places
    <3>3. \A i \in keep : es[i].k # "voice"
      BY DEF keep, E!Local
    <3>4. kept \in SUBSET keep /\ \A i \in keep : i \in kept <=> es[i].k # "poke"
      BY <1>2, <1>3, <1>4, <2>2
    <3>5. places = {E!Place(keep, i) : i \in kept}
      BY <1>5, <3>2, <3>3, <3>4
    <3> HIDE DEF places, kept
    <3>6. /\ Cardinality(places) = Cardinality(kept)
          /\ \A i \in kept : E!Place(places, E!Place(keep, i)) = E!Place(kept, i)
      <4>1. /\ Len(all) \in Nat /\ keep \in SUBSET (1..Len(all)) /\ kept \in SUBSET keep
        BY <1>2, <1>4, <3>4
      <4>2. \A q : q \in places <=> \E i \in kept : q = E!Place(keep, i)
        BY <3>5
      <4>3. \A ps : (\A q : q \in ps <=> \E i \in kept : q = E!Place(keep, i))
                 => /\ Cardinality(ps) = Cardinality(kept)
                    /\ \A i \in kept : E!Place(ps, E!Place(keep, i)) = E!Place(kept, i)
        BY ONLY <4>1, ThoseOfThose, Zenon
      <4> QED BY ONLY <4>2, <4>3, Zenon
    <3>7. places \in SUBSET (1..Cardinality(keep))
      BY <3>2, <3>4, <3>5
    <3>8. /\ Len(sent) = Cardinality(places)
          /\ \A p \in places : sent[E!Place(places, p)] = left[p]
      BY <1>5, <3>1, <3>7, ThoseAre
    <3>9. ASSUME NEW i \in kept PROVE Fits(sent[E!Place(kept, i)], i)
      <4>1. E!Place(keep, i) \in places /\ i \in keep
        BY <3>4, <3>5
      <4>2. sent[E!Place(kept, i)] = es[i]
        BY <1>5, <3>6, <3>8, <4>1
      <4>3. i \in DOMAIN all
        BY DEF kept
      <4>4. ~plain
        BY <1>0, <2>2
      <4> QED BY <1>3, <4>1, <4>2, <4>3, <4>4
    <3> QED BY <3>6, <3>8, <3>9
  <2>3. CASE special = {} /\ job.source # "guild"
    <3>1. kept = keep
      BY <1>2, <1>3, <1>4, <2>3
    <3> HIDE DEF kept
    <3>2. /\ DOMAIN sent = DOMAIN left /\ Len(sent) = Cardinality(keep)
          /\ \A p \in DOMAIN left : sent[p] = IF plain /\ E!IsAll(left[p]) THEN E!AllAsText
                                               ELSE left[p]
      BY <1>5, <1>6, <2>3
    <3>3. ASSUME NEW i \in kept PROVE Fits(sent[E!Place(kept, i)], i)
      <4>1. i \in keep /\ E!Place(keep, i) \in 1..Cardinality(keep)
        BY <1>2, <1>4, <3>1, Places
      <4>2. sent[E!Place(keep, i)] = IF plain /\ E!IsAll(es[i]) THEN E!AllAsText ELSE es[i]
        BY <1>5, <3>2, <4>1
      <4>3. i \in DOMAIN all
        BY <1>2, <1>4, <4>1
      <4> QED BY <1>3, <3>1, <4>1, <4>2, <4>3
    <3> QED BY <3>1, <3>2, <3>3
  <2> QED BY <2>1, <2>2, <2>3
<1>8. /\ job'.at \in {"sent", "refused"} /\ job'.source = job.source /\ job'.all = all
      /\ job'.failed = job.failed /\ job'.elems = sent /\ job'.plain = plain
  BY <1>1, <1>2
<1>9. JobShape'
  BY <1>1, <1>2 DEF JobShape
<1>10. KeptPlaces' = kept
  BY <1>8 DEF KeptPlaces
<1>11. SentInOrder'
  <2>1. \A e, i : SentAs(e, i)' <=> Fits(e, i)
    BY <1>8 DEF SentAs, Fits, E!UploadedKind, E!ImageKind
  <2> HIDE DEF kept
  <2>2. /\ InOrder /\ job'.elems = sent /\ KeptPlaces' = kept
    BY <1>7, <1>8, <1>10
  <2> QED BY <2>1, <2>2, Zenon DEF SentInOrder
<1> QED
  BY <1>0, <1>1, <1>2, <1>8, <1>9, <1>11 DEF JobInv, Slots

LEMMA NextJobInv ==
    ASSUME E!ElementsAssumption, E!OutgoingAssumption, JobInv, [E!Next]_(E!vars)
    PROVE  JobInv'
<1>1. ASSUME UNCHANGED <<client, job, down>> PROVE JobInv'
  BY <1>1 DEF JobInv, JobShape, Slots, LocalPlaces, SentInOrder, KeptPlaces, SentAs,
              E!UploadedKind, E!ImageKind
<1>2. ASSUME NEW n \in DOMAIN Received, E!Receive(Received[n]) PROVE JobInv'
  <2>1. UNCHANGED <<client, job, down>>
    BY <1>2, Zenon DEF E!Receive
  <2> QED BY <1>1, <2>1
<1>3. CASE E!GetMsg \/ E!Forget
  <2>1. UNCHANGED <<client, job, down>>
    BY <1>3, Zenon DEF E!GetMsg, E!Forget
  <2> QED BY <1>1, <2>1
<1>4. ASSUME NEW n \in DOMAIN Outgoing, E!Send(Outgoing[n]) PROVE JobInv'
  BY <1>4, SendJobInv
<1>5. ASSUME NEW i \in E!Uploading, E!UploadDone(i) \/ E!UploadFails(i) \/ E!UploadPanics(i)
      PROVE  JobInv'
  BY <1>5, UploadJobInv
<1>6. CASE E!Finish
  BY <1>6, FinishJobInv
<1>7. CASE E!NextCall
  BY <1>7 DEF E!NextCall, JobInv, JobShape, Slots
<1>8. CASE UNCHANGED E!vars
  <2>1. UNCHANGED <<client, job, down>>
    BY <1>8 DEF E!vars
  <2> QED BY <1>1, <2>1
<1> QED
  BY <1>2, <1>3, <1>4, <1>5, <1>6, <1>7, <1>8 DEF E!Next

-----------------------------------------------------------------------------
(* Segments, kind by kind.                                                  *)

LEMMA NothingMore == \A a, v : E!Both(E!Pair(a, v), E!Nothing) = E!Pair(a, v)
BY DEF E!Pair, E!Both, E!Nothing

LEMMA Named ==
    /\ DOMAIN E!SegmentOf = E!Kinds \cup {"localimage"}
    /\ E!SegmentOf["text"][1] = "text" /\ E!SegmentOf["text"][2] = "text"
    /\ E!SegmentOf["lightapp"][1] = "json" /\ E!SegmentOf["lightapp"][2] = "data"
    /\ E!SegmentOf["redbag"][1] = "redbag" /\ E!SegmentOf["redbag"][2] = "title"
    /\ E!SegmentOf["forward"][1] = "forward" /\ E!SegmentOf["forward"][2] = "id"
    /\ E!SegmentOf["face"][1] = "face" /\ E!SegmentOf["face"][2] = "id"
    /\ E!SegmentOf["sticker"][1] = "face" /\ E!SegmentOf["sticker"][2] = "id"
    /\ E!SegmentOf["voice"][1] = "record" /\ E!SegmentOf["voice"][2] = "file"
    /\ E!SegmentOf["video"][1] = "video" /\ E!SegmentOf["video"][2] = "file"
    /\ E!SegmentOf["dice"][1] = "dice" /\ E!SegmentOf["dice"][2] = "value"
    /\ E!SegmentOf["rps"][1] = "rps" /\ E!SegmentOf["rps"][2] = "value"
    /\ E!SegmentOf["marketface"][1] = "text" /\ E!SegmentOf["marketface"][2] = "text"
    /\ E!SegmentOf["xml"][1] = "xml" /\ E!SegmentOf["xml"][2] = "data"
    /\ E!SegmentOf["jsonservice"][1] = "json" /\ E!SegmentOf["jsonservice"][2] = "data"
    /\ E!SegmentOf["file"][1] = "file" /\ E!SegmentOf["file"][2] = "path"
    /\ E!SegmentOf["reply"][1] = "reply" /\ E!SegmentOf["reply"][2] = "id"
    /\ E!SegmentOf["at"][1] = "at" /\ E!SegmentOf["at"][2] = "qq"
    /\ E!SegmentOf["groupimage"][1] = "image" /\ E!SegmentOf["groupimage"][2] = "file"
    /\ E!SegmentOf["friendimage"][1] = "image" /\ E!SegmentOf["friendimage"][2] = "file"
    /\ E!SegmentOf["guildimage"][1] = "image" /\ E!SegmentOf["guildimage"][2] = "file"
    /\ E!SegmentOf["localimage"][1] = "image" /\ E!SegmentOf["localimage"][2] = "file"
<1>1. DOMAIN E!SegmentOf = E!Kinds \cup {"localimage"}
  BY DEF E!SegmentOf, E!Kinds
<1>2. E!SegmentOf["text"] = <<"text", "text">>
  BY DEF E!SegmentOf
<1>3. E!SegmentOf["lightapp"] = <<"json", "data">>
  BY DEF E!SegmentOf
<1>4. E!SegmentOf["redbag"] = <<"redbag", "title">>
  BY DEF E!SegmentOf
<1>5. E!SegmentOf["forward"] = <<"forward", "id">>
  BY DEF E!SegmentOf
<1>6. E!SegmentOf["face"] = <<"face", "id">>
  BY DEF E!SegmentOf
<1>7. E!SegmentOf["sticker"] = <<"face", "id">>
  BY DEF E!SegmentOf
<1>8. E!SegmentOf["voice"] = <<"record", "file">>
  BY DEF E!SegmentOf
<1>9. E!SegmentOf["video"] = <<"video", "file">>
  BY DEF E!SegmentOf
<1>10. E!SegmentOf["dice"] = <<"dice", "value">>
  BY DEF E!SegmentOf
<1>11. E!SegmentOf["rps"] = <<"rps", "value">>
  BY DEF E!SegmentOf
<1>12. E!SegmentOf["marketface"] = <<"text", "text">>
  BY DEF E!SegmentOf
<1>13. E!SegmentOf["xml"] = <<"xml", "data">>
  BY DEF E!SegmentOf
<1>14. E!SegmentOf["jsonservice"] = <<"json", "data">>
  BY DEF E!SegmentOf
<1>15. E!SegmentOf["file"] = <<"file", "path">>
  BY DEF E!SegmentOf
<1>16. E!SegmentOf["reply"] = <<"reply", "id">>
  BY DEF E!SegmentOf
<1>17. E!SegmentOf["at"] = <<"at", "qq">>
  BY DEF E!SegmentOf
<1>18. E!SegmentOf["groupimage"] = <<"image", "file">>
  BY DEF E!SegmentOf
<1>19. E!SegmentOf["friendimage"] = <<"image", "file">>
  BY DEF E!SegmentOf
<1>20. E!SegmentOf["guildimage"] = <<"image", "file">>
  BY DEF E!SegmentOf
<1>21. E!SegmentOf["localimage"] = <<"image", "file">>
  BY DEF E!SegmentOf
<1> QED
  BY <1>1, <1>2, <1>3, <1>4, <1>5, <1>6, <1>7, <1>8, <1>9, <1>10, <1>11, <1>12, <1>13, <1>14, <1>15, <1>16, <1>17, <1>18, <1>19, <1>20, <1>21

RestOfImage(kind, x) ==
    E!Both(E!Pair("url", x[1]),
           E!Both(IF x[2] = None THEN E!Nothing ELSE E!Pair("type", x[2]),
                  IF kind = "groupimage" THEN E!Pair("subType", x[3]) ELSE E!Nothing))

LEMMA SegmentIs ==
    ASSUME NEW e
    PROVE
      /\ e.k = "text" =>
          E!Segment(e) = [type |-> "text", data |-> E!Pair("text", e.v)]
      /\ e.k = "lightapp" =>
          E!Segment(e) = [type |-> "json", data |-> E!Pair("data", e.v)]
      /\ e.k = "redbag" =>
          E!Segment(e) = [type |-> "redbag", data |-> E!Pair("title", e.v)]
      /\ e.k = "forward" =>
          E!Segment(e) = [type |-> "forward", data |-> E!Pair("id", e.v)]
      /\ e.k = "face" =>
          E!Segment(e) = [type |-> "face", data |-> E!Pair("id", e.v)]
      /\ e.k = "sticker" =>
          E!Segment(e) = [type |-> "face",
                                 data |-> E!Both(E!Pair("id", e.v), E!Pair("type", "sticker"))]
      /\ e.k = "voice" =>
          E!Segment(e) = [type |-> "record",
                                 data |-> E!Both(E!Pair("file", e.v), E!Pair("url", e.x))]
      /\ e.k = "video" =>
          E!Segment(e) = [type |-> "video",
                                 data |-> E!Both(E!Pair("file", e.v), E!Pair("url", e.x))]
      /\ e.k = "dice" =>
          E!Segment(e) = [type |-> "dice", data |-> E!Pair("value", e.v)]
      /\ e.k = "rps" =>
          E!Segment(e) = [type |-> "rps", data |-> E!Pair("value", e.v)]
      /\ e.k = "marketface" =>
          E!Segment(e) = [type |-> "text", data |-> E!Pair("text", e.v)]
      /\ e.k = "xml" =>
          E!Segment(e) = [type |-> "xml",
                                 data |-> E!Both(E!Pair("data", e.v), E!Pair("resid", e.x[2]))]
      /\ e.k = "jsonservice" =>
          E!Segment(e) = [type |-> "json",
                                 data |-> E!Both(E!Pair("data", e.v), E!Pair("resid", e.x[2]))]
      /\ e.k = "file" =>
          E!Segment(e) = [type |-> "file",
                                 data |-> E!Both(E!Pair("path", e.v), E!Pair("name", e.x))]
      /\ e.k = "reply" =>
          E!Segment(e) = [type |-> "reply", data |-> E!Pair("id", e.v)]
      /\ e.k = "at" =>
          E!Segment(e) = [type |-> "at", data |-> E!Pair("qq", e.v)]
      /\ e.k \in E!Images \cup {"localimage"} =>
          E!Segment(e) = [type |-> "image", data |-> E!Both(E!Pair("file", e.v), RestOfImage(e.k, e.x))]
<1>1. ASSUME e.k = "text"
       PROVE  E!Segment(e) = [type |-> "text", data |-> E!Pair("text", e.v)]
  <2>1. E!Extra(e) = E!Nothing
    BY <1>1 DEF E!Extra, E!Images
  <2>2. E!Segment(e) = [type |-> "text", data |-> E!Both(E!Pair("text", e.v), E!Extra(e))]
    BY <1>1, Named, Zenon DEF E!Segment
  <2> QED BY <2>1, <2>2, NothingMore, Zenon
<1>2. ASSUME e.k = "lightapp"
       PROVE  E!Segment(e) = [type |-> "json", data |-> E!Pair("data", e.v)]
  <2>1. E!Extra(e) = E!Nothing
    BY <1>2 DEF E!Extra, E!Images
  <2>2. E!Segment(e) = [type |-> "json", data |-> E!Both(E!Pair("data", e.v), E!Extra(e))]
    BY <1>2, Named, Zenon DEF E!Segment
  <2> QED BY <2>1, <2>2, NothingMore, Zenon
<1>3. ASSUME e.k = "redbag"
       PROVE  E!Segment(e) = [type |-> "redbag", data |-> E!Pair("title", e.v)]
  <2>1. E!Extra(e) = E!Nothing
    BY <1>3 DEF E!Extra, E!Images
  <2>2. E!Segment(e) = [type |-> "redbag", data |-> E!Both(E!Pair("title", e.v), E!Extra(e))]
    BY <1>3, Named, Zenon DEF E!Segment
  <2> QED BY <2>1, <2>2, NothingMore, Zenon
<1>4. ASSUME e.k = "forward"
       PROVE  E!Segment(e) = [type |-> "forward", data |-> E!Pair("id", e.v)]
  <2>1. E!Extra(e) = E!Nothing
    BY <1>4 DEF E!Extra, E!Images
  <2>2. E!Segment(e) = [type |-> "forward", data |-> E!Both(E!Pair("id", e.v), E!Extra(e))]
    BY <1>4, Named, Zenon DEF E!Segment
  <2> QED BY <2>1, <2>2, NothingMore, Zenon
<1>5. ASSUME e.k = "face"
       PROVE  E!Segment(e) = [type |-> "face", data |-> E!Pair("id", e.v)]
  <2>1. E!Extra(e) = E!Nothing
    BY <1>5 DEF E!Extra, E!Images
  <2>2. E!Segment(e) = [type |-> "face", data |-> E!Both(E!Pair("id", e.v), E!Extra(e))]
    BY <1>5, Named, Zenon DEF E!Segment
  <2> QED BY <2>1, <2>2, NothingMore, Zenon
<1>6. ASSUME e.k = "sticker"
       PROVE  E!Segment(e) = [type |-> "face",
                              data |-> E!Both(E!Pair("id", e.v), E!Pair("type", "sticker"))]
  <2>1. E!Extra(e) = E!Pair("type", "sticker")
    BY <1>6 DEF E!Extra, E!Images
  <2>2. E!Segment(e) = [type |-> "face", data |-> E!Both(E!Pair("id", e.v), E!Extra(e))]
    BY <1>6, Named, Zenon DEF E!Segment
  <2> QED BY <2>1, <2>2, Zenon
<1>7. ASSUME e.k = "voice"
       PROVE  E!Segment(e) = [type |-> "record",
                              data |-> E!Both(E!Pair("file", e.v), E!Pair("url", e.x))]
  <2>1. E!Extra(e) = E!Pair("url", e.x)
    BY <1>7 DEF E!Extra, E!Images
  <2>2. E!Segment(e) = [type |-> "record", data |-> E!Both(E!Pair("file", e.v), E!Extra(e))]
    BY <1>7, Named, Zenon DEF E!Segment
  <2> QED BY <2>1, <2>2, Zenon
<1>8. ASSUME e.k = "video"
       PROVE  E!Segment(e) = [type |-> "video",
                              data |-> E!Both(E!Pair("file", e.v), E!Pair("url", e.x))]
  <2>1. E!Extra(e) = E!Pair("url", e.x)
    BY <1>8 DEF E!Extra, E!Images
  <2>2. E!Segment(e) = [type |-> "video", data |-> E!Both(E!Pair("file", e.v), E!Extra(e))]
    BY <1>8, Named, Zenon DEF E!Segment
  <2> QED BY <2>1, <2>2, Zenon
<1>9. ASSUME e.k = "dice"
       PROVE  E!Segment(e) = [type |-> "dice", data |-> E!Pair("value", e.v)]
  <2>1. E!Extra(e) = E!Nothing
    BY <1>9 DEF E!Extra, E!Images
  <2>2. E!Segment(e) = [type |-> "dice", data |-> E!Both(E!Pair("value", e.v), E!Extra(e))]
    BY <1>9, Named, Zenon DEF E!Segment
  <2> QED BY <2>1, <2>2, NothingMore, Zenon
<1>10. ASSUME e.k = "rps"
       PROVE  E!Segment(e) = [type |-> "rps", data |-> E!Pair("value", e.v)]
  <2>1. E!Extra(e) = E!Nothing
    BY <1>10 DEF E!Extra, E!Images
  <2>2. E!Segment(e) = [type |-> "rps", data |-> E!Both(E!Pair("value", e.v), E!Extra(e))]
    BY <1>10, Named, Zenon DEF E!Segment
  <2> QED BY <2>1, <2>2, NothingMore, Zenon
<1>11. ASSUME e.k = "marketface"
       PROVE  E!Segment(e) = [type |-> "text", data |-> E!Pair("text", e.v)]
  <2>1. E!Extra(e) = E!Nothing
    BY <1>11 DEF E!Extra, E!Images
  <2>2. E!Segment(e) = [type |-> "text", data |-> E!Both(E!Pair("text", e.v), E!Extra(e))]
    BY <1>11, Named, Zenon DEF E!Segment
  <2> QED BY <2>1, <2>2, NothingMore, Zenon
<1>12. ASSUME e.k = "xml"
       PROVE  E!Segment(e) = [type |-> "xml",
                              data |-> E!Both(E!Pair("data", e.v), E!Pair("resid", e.x[2]))]
  <2>1. E!Extra(e) = E!Pair("resid", e.x[2])
    BY <1>12 DEF E!Extra, E!Images
  <2>2. E!Segment(e) = [type |-> "xml", data |-> E!Both(E!Pair("data", e.v), E!Extra(e))]
    BY <1>12, Named, Zenon DEF E!Segment
  <2> QED BY <2>1, <2>2, Zenon
<1>13. ASSUME e.k = "jsonservice"
       PROVE  E!Segment(e) = [type |-> "json",
                              data |-> E!Both(E!Pair("data", e.v), E!Pair("resid", e.x[2]))]
  <2>1. E!Extra(e) = E!Pair("resid", e.x[2])
    BY <1>13 DEF E!Extra, E!Images
  <2>2. E!Segment(e) = [type |-> "json", data |-> E!Both(E!Pair("data", e.v), E!Extra(e))]
    BY <1>13, Named, Zenon DEF E!Segment
  <2> QED BY <2>1, <2>2, Zenon
<1>14. ASSUME e.k = "file"
       PROVE  E!Segment(e) = [type |-> "file",
                              data |-> E!Both(E!Pair("path", e.v), E!Pair("name", e.x))]
  <2>1. E!Extra(e) = E!Pair("name", e.x)
    BY <1>14 DEF E!Extra, E!Images
  <2>2. E!Segment(e) = [type |-> "file", data |-> E!Both(E!Pair("path", e.v), E!Extra(e))]
    BY <1>14, Named, Zenon DEF E!Segment
  <2> QED BY <2>1, <2>2, Zenon
<1>15. ASSUME e.k = "reply"
       PROVE  E!Segment(e) = [type |-> "reply", data |-> E!Pair("id", e.v)]
  <2>1. E!Extra(e) = E!Nothing
    BY <1>15 DEF E!Extra, E!Images
  <2>2. E!Segment(e) = [type |-> "reply", data |-> E!Both(E!Pair("id", e.v), E!Extra(e))]
    BY <1>15, Named, Zenon DEF E!Segment
  <2> QED BY <2>1, <2>2, NothingMore, Zenon
<1>16. ASSUME e.k = "at"
       PROVE  E!Segment(e) = [type |-> "at", data |-> E!Pair("qq", e.v)]
  <2>1. E!Extra(e) = E!Nothing
    BY <1>16 DEF E!Extra, E!Images
  <2>2. E!Segment(e) = [type |-> "at", data |-> E!Both(E!Pair("qq", e.v), E!Extra(e))]
    BY <1>16, Named, Zenon DEF E!Segment
  <2> QED BY <2>1, <2>2, NothingMore, Zenon
<1>17. ASSUME e.k \in E!Images \cup {"localimage"}
       PROVE  E!Segment(e) =
                [type |-> "image", data |-> E!Both(E!Pair("file", e.v), RestOfImage(e.k, e.x))]
  <2>1. E!Extra(e) = RestOfImage(e.k, e.x)
    BY <1>17 DEF E!Extra, E!Images, RestOfImage
  <2>2. E!SegmentOf[e.k][1] = "image" /\ E!SegmentOf[e.k][2] = "file"
    BY <1>17, Named DEF E!Images
  <2> QED BY <2>1, <2>2, Zenon DEF E!Segment
<1> QED
  BY <1>1, <1>2, <1>3, <1>4, <1>5, <1>6, <1>7, <1>8, <1>9, <1>10, <1>11, <1>12, <1>13, <1>14, <1>15, <1>16, <1>17, Zenon

-----------------------------------------------------------------------------
(* Elements read back, kind by kind.                                        *)

\* t is what get_msg makes of e.
Becomes(e, t, source) ==
    /\ t.k \in DOMAIN E!SegmentOf
    /\ t.k = "reply" <=> e.k = "reply" /\ e.v \in DOMAIN KnownReplies
    /\ t.k = "at" => e.k = "at"
    /\ E!Kept(E!Segment(e), E!Segment(t), source)

AsCode(seg) == E!E("text", <<"CQ", seg>>, None)

LEMMA BecomesText ==
    ASSUME NEW e, NEW seg, NEW source, e.k = "reply" => e.v \notin DOMAIN KnownReplies,
           E!MayFail(E!Segment(e))
    PROVE  Becomes(e, AsCode(seg), source)
<1> DEFINE t == AsCode(seg)
<1>1. t.k = "text"
  BY DEF E!E, AsCode
<1> HIDE DEF t
<1>2. E!Segment(t).type = "text"
  <2>1. E!Segment(t) = [type |-> "text", data |-> E!Pair("text", t.v)]
    BY <1>1, SegmentIs, Zenon
  <2> QED BY <2>1
<1>3. E!Kept(E!Segment(e), E!Segment(t), source)
  BY <1>2, Zenon DEF E!Kept
<1>4. t.k \in DOMAIN E!SegmentOf /\ t.k # "reply" /\ t.k # "at"
  BY <1>1, Named DEF E!Kinds
<1> QED BY <1>3, <1>4 DEF Becomes, t

LEMMA BecomesItself ==
    ASSUME NEW e, NEW t, NEW source, t.k \in DOMAIN E!SegmentOf, E!Segment(e) = E!Segment(t),
           t.k = "reply" <=> e.k = "reply" /\ e.v \in DOMAIN KnownReplies,
           t.k = "at" => e.k = "at"
    PROVE  Becomes(e, t, source)
BY Zenon DEF Becomes, E!Kept

LEMMA PlainContent ==
    ASSUME NEW e, e.k \notin {"at", "xml", "jsonservice"}
    PROVE  E!Content(e) = E!Segment(e)
BY DEF E!Content

\* Text, faces, dice and files.
LEMMA PlainBecomes ==
    ASSUME NEW e, NEW source,
           e.k \in {"text", "marketface", "lightapp", "face", "sticker", "dice", "rps", "file"},
           e.k = "dice" => e.v \in 0..6, e.k = "rps" => e.v \in 0..2,
           None \notin {"flash", "show", "sticker"}, settings = {}
    PROVE  \E t : E!Convert(E!Content(e), source) = <<t>> /\ Becomes(e, t, source)
<1> DEFINE seg == E!Content(e)
<1>1. seg = E!Segment(e)
  BY PlainContent
<1> HIDE DEF seg
<1>2. ASSUME NEW t, E!Convert(seg, source) = <<t>>, t.k \in DOMAIN E!SegmentOf \ {"reply", "at"},
             E!Segment(t) = E!Segment(e)
      PROVE  \E u : E!Convert(seg, source) = <<u>> /\ Becomes(e, u, source)
  <2>1. e.k # "reply" /\ t.k # "reply" /\ t.k # "at" /\ t.k \in DOMAIN E!SegmentOf
    BY <1>2
  <2>2. Becomes(e, t, source)
    BY <1>2, <2>1, BecomesItself, Zenon
  <2> QED BY <1>2, <2>2, Zenon
<1>3. CASE e.k \in {"text", "marketface"}
  <2> DEFINE t == E!E("text", e.v, None)
  <2>1. seg = [type |-> "text", data |-> E!Pair("text", e.v)]
    BY <1>1, <1>3, SegmentIs
  <2>2. E!Value(seg, "text") = e.v /\ seg.type = "text"
    BY <2>1 DEF E!Value, E!Pair, E!Both
  <2>3. E!Convert(seg, source) = <<t>>
    <3>1. E!Texts(seg) = [h \in DOMAIN <<e.v>> |-> E!E("text", <<e.v>>[h], None)]
      BY <2>2, Zenon DEF E!Texts
    <3>2. [h \in DOMAIN <<e.v>> |-> E!E("text", <<e.v>>[h], None)] = <<E!E("text", e.v, None)>>
      OBVIOUS
    <3> QED BY <2>2, <3>1, <3>2, Zenon DEF E!Convert
  <2>4. t.k = "text" /\ t.v = e.v
    BY DEF E!E
  <2> HIDE DEF t
  <2>5. E!Segment(t) = seg
    BY <2>1, <2>4, SegmentIs
  <2>6. t.k \in DOMAIN E!SegmentOf \ {"reply", "at"} /\ E!Segment(t) = E!Segment(e)
    BY <1>1, <2>4, <2>5, Named DEF E!Kinds
  <2> QED BY <1>2, <2>3, <2>6, Zenon DEF seg
<1>4. CASE e.k = "lightapp"
  <2> DEFINE t == E!E("lightapp", e.v, None)
  <2>1. seg = [type |-> "json", data |-> E!Pair("data", e.v)]
    BY <1>1, <1>4, SegmentIs
  <2>2. E!Value(seg, "data") = e.v /\ E!Value(seg, "resid") = None /\ seg.type = "json"
    BY <2>1 DEF E!Value, E!Pair, E!Both
  <2>3. E!Convert(seg, source) = <<t>>
    <3>1. E!Service(seg) = <<t>>
      BY <2>2 DEF E!Service
    <3> QED BY <2>2, <3>1 DEF E!Convert
  <2>4. t.k = "lightapp" /\ t.v = e.v
    BY DEF E!E
  <2> HIDE DEF t
  <2>5. E!Segment(t) = seg
    BY <2>1, <2>4, SegmentIs
  <2>6. t.k \in DOMAIN E!SegmentOf \ {"reply", "at"} /\ E!Segment(t) = E!Segment(e)
    BY <1>1, <2>4, <2>5, Named DEF E!Kinds
  <2> QED BY <1>2, <2>3, <2>6, Zenon DEF seg
<1>5. CASE e.k = "face"
  <2> DEFINE t == E!E("face", e.v, None)
  <2>1. seg = [type |-> "face", data |-> E!Pair("id", e.v)]
    BY <1>1, <1>5, SegmentIs
  <2>2. E!Value(seg, "id") = e.v /\ E!Value(seg, "type") = None /\ seg.type = "face"
    BY <2>1 DEF E!Value, E!Pair, E!Both
  <2>3. E!Convert(seg, source) = <<t>>
    BY <2>2 DEF E!Convert
  <2>4. t.k = "face" /\ t.v = e.v
    BY DEF E!E
  <2> HIDE DEF t
  <2>5. E!Segment(t) = seg
    BY <2>1, <2>4, SegmentIs
  <2>6. t.k \in DOMAIN E!SegmentOf \ {"reply", "at"} /\ E!Segment(t) = E!Segment(e)
    BY <1>1, <2>4, <2>5, Named DEF E!Kinds
  <2> QED BY <1>2, <2>3, <2>6, Zenon DEF seg
<1>6. CASE e.k = "sticker"
  <2> DEFINE t == E!E("sticker", e.v, None)
  <2>1. seg = [type |-> "face", data |-> E!Both(E!Pair("id", e.v), E!Pair("type", "sticker"))]
    BY <1>1, <1>6, SegmentIs
  <2>2. E!Value(seg, "id") = e.v /\ E!Value(seg, "type") = "sticker" /\ seg.type = "face"
    BY <2>1 DEF E!Value, E!Pair, E!Both
  <2>3. E!Convert(seg, source) = <<t>>
    BY <2>2 DEF E!Convert
  <2>4. t.k = "sticker" /\ t.v = e.v
    BY DEF E!E
  <2> HIDE DEF t
  <2>5. E!Segment(t) = seg
    BY <2>1, <2>4, SegmentIs
  <2>6. t.k \in DOMAIN E!SegmentOf \ {"reply", "at"} /\ E!Segment(t) = E!Segment(e)
    BY <1>1, <2>4, <2>5, Named DEF E!Kinds
  <2> QED BY <1>2, <2>3, <2>6, Zenon DEF seg
<1>7. CASE e.k \in {"dice", "rps"}
  <2> DEFINE t == E!E(e.k, e.v, None)
  <2>1. seg = [type |-> e.k, data |-> E!Pair("value", e.v)]
    BY <1>1, <1>7, SegmentIs
  <2>2. E!Value(seg, "value") = e.v /\ seg.type = e.k
    BY <2>1 DEF E!Value, E!Pair, E!Both
  <2>3. E!Convert(seg, source) = <<t>>
    <3>1. E!Thrown(seg, IF e.k = "dice" THEN 6 ELSE 2) = <<t>>
      BY <1>7, <2>2 DEF E!Thrown
    <3> QED BY <1>7, <2>2, <3>1 DEF E!Convert
  <2>4. t.k = e.k /\ t.v = e.v
    BY DEF E!E
  <2> HIDE DEF t
  <2>5. E!Segment(t) = seg
    BY <1>7, <2>1, <2>4, SegmentIs
  <2>6. t.k \in DOMAIN E!SegmentOf \ {"reply", "at"} /\ E!Segment(t) = E!Segment(e)
    BY <1>1, <1>7, <2>4, <2>5, Named DEF E!Kinds
  <2> QED BY <1>2, <2>3, <2>6, Zenon DEF seg
<1>8. CASE e.k = "file"
  <2> DEFINE t == E!E("file", e.v, e.x)
  <2>1. seg = [type |-> "file", data |-> E!Both(E!Pair("path", e.v), E!Pair("name", e.x))]
    BY <1>1, <1>8, SegmentIs
  <2>2. E!Value(seg, "path") = e.v /\ E!Value(seg, "name") = e.x /\ seg.type = "file"
    BY <2>1 DEF E!Value, E!Pair, E!Both
  <2>3. E!Convert(seg, source) = <<t>>
    BY <2>2 DEF E!Convert
  <2>4. t.k = "file" /\ t.v = e.v /\ t.x = e.x
    BY DEF E!E
  <2> HIDE DEF t
  <2>5. E!Segment(t) = seg
    BY <2>1, <2>4, SegmentIs
  <2>6. t.k \in DOMAIN E!SegmentOf \ {"reply", "at"} /\ E!Segment(t) = E!Segment(e)
    BY <1>1, <2>4, <2>5, Named DEF E!Kinds
  <2> QED BY <1>2, <2>3, <2>6, Zenon DEF seg
<1> QED BY <1>3, <1>4, <1>5, <1>6, <1>7, <1>8 DEF seg

BackAs(e, source) ==
    IF E!Convert(E!Content(e), source) = E!Fails THEN E!Instead(E!Content(e))
    ELSE E!Convert(E!Content(e), source)

\* A conversion that succeeds, and one that may fail and then leaves text.
LEMMA BackAsConverted ==
    ASSUME NEW e, NEW source, NEW t, E!Convert(E!Content(e), source) = <<t>>,
           Becomes(e, t, source)
    PROVE  \E u : BackAs(e, source) = <<u>> /\ Becomes(e, u, source)
<1>1. <<t>> # E!Fails
  BY DEF E!Fails
<1> QED BY <1>1, Zenon DEF BackAs

LEMMA BackAsText ==
    ASSUME NEW e, NEW source, E!Convert(E!Content(e), source) = E!Fails,
           Becomes(e, AsCode(E!Content(e)), source), settings = {}
    PROVE  \E u : BackAs(e, source) = <<u>> /\ Becomes(e, u, source)
<1>1. E!Instead(E!Content(e)) = <<AsCode(E!Content(e))>>
  BY Zenon DEF E!Instead, AsCode
<1> QED BY <1>1, Zenon DEF BackAs

\* Red envelopes, forwards, voices, replies and mentions.
LEMMA KnownBecomes ==
    ASSUME NEW e, NEW source, None \notin {"flash", "show", "sticker"}, settings = {},
           e.k \in {"redbag", "forward", "voice", "reply", "at"}, e.k = "at" => e.v # None
    PROVE  \E u : BackAs(e, source) = <<u>> /\ Becomes(e, u, source)
<1> DEFINE seg == E!Content(e)
<1>1. e.k # "at" => seg = E!Segment(e)
  <2>1. ASSUME e.k # "at" PROVE e.k \notin {"at", "xml", "jsonservice"}
    BY <2>1
  <2> QED BY <2>1, PlainContent, Zenon
<1>t. ASSUME E!Convert(seg, source) = E!Fails, e.k = "reply" => e.v \notin DOMAIN KnownReplies,
             E!MayFail(E!Segment(e))
      PROVE  \E u : BackAs(e, source) = <<u>> /\ Becomes(e, u, source)
  <2>1. Becomes(e, AsCode(seg), source)
    BY <1>t, BecomesText, Zenon
  <2> QED BY <1>t, <2>1, BackAsText, Zenon
<1>s. ASSUME NEW t, E!Convert(seg, source) = <<t>>, t.k \in DOMAIN E!SegmentOf,
             E!Segment(e) = E!Segment(t),
             t.k = "reply" <=> e.k = "reply" /\ e.v \in DOMAIN KnownReplies,
             t.k = "at" => e.k = "at"
      PROVE  \E u : BackAs(e, source) = <<u>> /\ Becomes(e, u, source)
  <2>1. Becomes(e, t, source)
    BY <1>s, BecomesItself, Zenon
  <2> QED BY <1>s, <2>1, BackAsConverted, Zenon
<1> HIDE DEF seg
<1>2. CASE e.k = "redbag"
  <2>1. E!Segment(e) = [type |-> "redbag", data |-> E!Pair("title", e.v)]
    BY <1>2, SegmentIs
  <2>2. seg.type = "redbag" /\ E!MayFail(E!Segment(e))
    BY <1>1, <1>2, <2>1 DEF E!MayFail
  <2>3. E!Convert(seg, source) = E!Fails
    BY <2>2 DEF E!Convert
  <2> QED BY <1>2, <1>t, <2>2, <2>3
<1>3. CASE e.k = "forward"
  <2> DEFINE t == E!E("forward", e.v, None)
  <2>1. E!Segment(e) = [type |-> "forward", data |-> E!Pair("id", e.v)]
    BY <1>3, SegmentIs
  <2>2. seg.type = "forward" /\ E!Value(seg, "id") = e.v /\ E!MayFail(E!Segment(e))
    BY <1>1, <1>3, <2>1 DEF E!Value, E!Pair, E!MayFail
  <2>3. E!Convert(seg, source) \in {<<t>>, E!Fails}
    BY <2>2 DEF E!Convert
  <2>4. t.k = "forward" /\ t.v = e.v
    BY DEF E!E
  <2> HIDE DEF t
  <2>5. E!Segment(t) = E!Segment(e) /\ t.k \in DOMAIN E!SegmentOf
    BY <2>1, <2>4, SegmentIs, Named DEF E!Kinds
  <2>6. CASE E!Convert(seg, source) = <<t>>
    BY <1>3, <1>s, <2>4, <2>5, <2>6
  <2>7. CASE E!Convert(seg, source) = E!Fails
    BY <1>3, <1>t, <2>2, <2>7
  <2> QED BY <2>3, <2>6, <2>7
<1>4. CASE e.k = "voice"
  <2> DEFINE t == E!E("voice", None, None)
  <2>1. E!Segment(e) = [type |-> "record", data |-> E!Both(E!Pair("file", e.v), E!Pair("url", e.x))]
    BY <1>4, SegmentIs
  <2>2. /\ seg.type = "record" /\ E!Segment(e).type = "record"
        /\ E!MayFail(E!Segment(e))
    BY <1>1, <1>4, <2>1 DEF E!MayFail
  <2>3. E!Convert(seg, source) \in {<<t>>, E!Fails}
    <3>1. E!VoiceElement(seg) \in {<<t>>, E!Fails}
      BY DEF E!VoiceElement
    <3> QED BY <2>2, <3>1 DEF E!Convert
  <2>4. t.k = "voice"
    BY DEF E!E
  <2> HIDE DEF t
  <2>5. E!Segment(t) = [type |-> "record", data |-> E!Both(E!Pair("file", t.v), E!Pair("url", t.x))]
    BY <2>4, SegmentIs
  <2>6. CASE E!Convert(seg, source) = <<t>>
    <3>1. E!Kept(E!Segment(e), E!Segment(t), source)
      <4>1. E!Segment(t).type = E!Segment(e).type /\ E!Segment(e).type \in {"record", "video"}
        BY <2>2, <2>5
      <4> QED BY <4>1, Zenon DEF E!Kept
    <3>2. Becomes(e, t, source)
      BY <1>4, <2>4, <3>1, Named DEF Becomes, E!Kinds
    <3> QED BY <2>6, <3>2, BackAsConverted DEF seg
  <2>7. CASE E!Convert(seg, source) = E!Fails
    BY <1>4, <1>t, <2>2, <2>7
  <2> QED BY <2>3, <2>6, <2>7
<1>5. CASE e.k = "reply"
  <2> DEFINE known == KnownReplies[e.v]
             t == E!E("reply", IF known.in = source THEN e.v ELSE <<known.sender, e.v>>, known.sender)
  <2>1. E!Segment(e) = [type |-> "reply", data |-> E!Pair("id", e.v)]
    BY <1>5, SegmentIs
  <2>2. /\ seg.type = "reply" /\ E!Value(seg, "id") = e.v /\ E!Value(seg, "text") = None
        /\ E!MayFail(E!Segment(e))
        /\ E!Segment(e).type = "reply" /\ E!Value(E!Segment(e), "id") = e.v
    BY <1>1, <1>5, <2>1 DEF E!Value, E!Pair, E!MayFail
  <2>3. E!Convert(seg, source) = IF e.v \in DOMAIN KnownReplies THEN <<t>> ELSE E!Fails
    <3>1. E!Reply(seg, source) = IF e.v \in DOMAIN KnownReplies THEN <<t>> ELSE E!Fails
      BY <2>2, Zenon DEF E!Reply
    <3> QED BY <2>2, <3>1 DEF E!Convert
  <2>4. t.k = "reply" /\ (known.in = source => t.v = e.v)
    BY DEF E!E
  <2> HIDE DEF t
  <2>5. E!Segment(t) = [type |-> "reply", data |-> E!Pair("id", t.v)] /\ t.k \in DOMAIN E!SegmentOf
    BY <2>4, SegmentIs, Named DEF E!Kinds
  <2>6. CASE e.v \in DOMAIN KnownReplies /\ known.in = source
    <3>1. E!Segment(t) = E!Segment(e)
      BY <2>1, <2>4, <2>5, <2>6
    <3> QED BY <1>5, <1>s, <2>3, <2>4, <2>5, <2>6, <3>1
  <2>7. CASE e.v \in DOMAIN KnownReplies /\ known.in # source
    <3>1. E!Segment(t).type = "reply"
      BY <2>5
    <3>2. E!Kept(E!Segment(e), E!Segment(t), source)
      BY <2>2, <2>7, <3>1, Zenon DEF E!Kept
    <3>3. Becomes(e, t, source)
      BY <1>5, <2>4, <2>5, <2>7, <3>2 DEF Becomes
    <3> QED BY <2>3, <2>7, <3>3, BackAsConverted, Zenon DEF seg
  <2>8. CASE e.v \notin DOMAIN KnownReplies
    BY <1>5, <1>t, <2>2, <2>3, <2>8
  <2> QED BY <2>6, <2>7, <2>8
<1>6. CASE e.k = "at" /\ e.v = "all"
  <2>1. E!Segment(e) = [type |-> "at", data |-> E!Pair("qq", "all")]
    BY <1>6, SegmentIs
  <2>2. seg = [type |-> "at", data |-> E!Pair("subType", "all")]
    BY <1>6 DEF E!Content, seg
  <2>3. seg.type = "at" /\ E!Value(seg, "qq") = None /\ E!Value(seg, "target") = None
    BY <2>2 DEF E!Value, E!Pair
  <2>4. E!Convert(seg, source) = E!Fails
    <3>1. E!Mention(seg) = E!Fails
      BY <2>3 DEF E!Mention
    <3> QED BY <2>3, <3>1 DEF E!Convert
  <2>5. E!MayFail(E!Segment(e))
    BY <2>1 DEF E!MayFail
  <2> QED BY <1>6, <1>t, <2>4, <2>5
<1>7. CASE e.k = "at" /\ e.v # "all"
  <2> DEFINE t == E!E("at", e.v, None)
  <2>1. E!Segment(e) = [type |-> "at", data |-> E!Pair("qq", e.v)]
    BY <1>7, SegmentIs
  <2>2. seg = [type |-> "at", data |-> E!Both(E!Pair("subType", "user"), E!Pair("target", e.v))]
    BY <1>7 DEF E!Content, seg
  <2>3. seg.type = "at" /\ E!Value(seg, "qq") = None /\ E!Value(seg, "target") = e.v
    BY <2>2 DEF E!Value, E!Pair, E!Both
  <2>4. E!Convert(seg, source) = <<t>>
    <3>1. E!Mention(seg) = <<t>>
      BY <1>7, <2>3 DEF E!Mention
    <3> QED BY <2>3, <3>1 DEF E!Convert
  <2>5. t.k = "at" /\ t.v = e.v
    BY DEF E!E
  <2> HIDE DEF t
  <2>6. E!Segment(t) = E!Segment(e) /\ t.k \in DOMAIN E!SegmentOf
    BY <2>1, <2>5, SegmentIs, Named DEF E!Kinds
  <2> QED BY <1>7, <1>s, <2>4, <2>5, <2>6
<1> QED BY <1>2, <1>3, <1>4, <1>5, <1>6, <1>7

\* Videos and service elements.
VideoIsKnown(e) == e.k = "video" => e.v[1] = "hash" /\ <<"video", e.v>> \in cached

LEMMA OtherBecomes ==
    ASSUME NEW e, NEW source, e.k \in {"video", "xml", "jsonservice"}, VideoIsKnown(e)
    PROVE  \E u : BackAs(e, source) = <<u>> /\ Becomes(e, u, source)
<1> USE DEF VideoIsKnown
<1> DEFINE seg == E!Content(e)
<1>t. ASSUME NEW t, E!Convert(seg, source) = <<t>>, t.k \in E!Kinds \ {"reply", "at"},
             E!Segment(t).type = E!Segment(e).type,
             \/ E!Segment(e).type = "video"
             \/ /\ E!Segment(e).type \in {"xml", "json"}
                /\ E!Value(E!Segment(e), "data") = E!Value(E!Segment(t), "data")
      PROVE  \E u : BackAs(e, source) = <<u>> /\ Becomes(e, u, source)
  <2>1. E!Kept(E!Segment(e), E!Segment(t), source)
    <3>1. CASE E!Segment(e).type = "video"
      <4>1. E!Segment(e).type \in {"record", "video"}
        BY <3>1
      <4> QED BY <1>t, <4>1, Zenon DEF E!Kept
    <3>2. CASE E!Segment(e).type # "video"
      BY <1>t, <3>2, Zenon DEF E!Kept
    <3> QED BY <3>1, <3>2
  <2>2. Becomes(e, t, source)
    BY <1>t, <2>1, Named DEF Becomes
  <2> QED BY <1>t, <2>2, BackAsConverted, Zenon
<1> HIDE DEF seg
<1>1. CASE e.k = "video"
  <2> DEFINE t == E!E("video", <<"name", e.v[2]>>, None)
  <2>1. E!Segment(e) = [type |-> "video", data |-> E!Both(E!Pair("file", e.v), E!Pair("url", e.x))]
    BY <1>1, SegmentIs
  <2>2. seg = E!Segment(e)
    BY <1>1, PlainContent DEF seg
  <2>3. seg.type = "video" /\ E!Value(seg, "file") = e.v
    BY <2>1, <2>2 DEF E!Value, E!Pair, E!Both
  <2>4. E!Convert(seg, source) = <<t>>
    <3>1. E!VideoElement(seg) = <<t>>
      BY <1>1, <2>3 DEF E!VideoElement
    <3> QED BY <2>3, <3>1 DEF E!Convert
  <2>5. t.k = "video"
    BY DEF E!E
  <2> HIDE DEF t
  <2>6. E!Segment(t) = [type |-> "video", data |-> E!Both(E!Pair("file", t.v), E!Pair("url", t.x))]
    BY <2>5, SegmentIs
  <2>7. E!Segment(e).type = "video" /\ E!Segment(t).type = "video"
    BY <2>1, <2>6
  <2>8. t.k \in E!Kinds \ {"reply", "at"}
    BY <2>5 DEF E!Kinds
  <2> QED BY <1>t, <2>4, <2>7, <2>8, Zenon
<1>2. CASE e.k \in {"xml", "jsonservice"}
  <2> DEFINE type == IF e.k = "xml" THEN "xml" ELSE "json"
  <2>1. E!Segment(e) = [type |-> type, data |-> E!Both(E!Pair("data", e.v), E!Pair("resid", e.x[2]))]
    BY <1>2, SegmentIs
  <2>2. seg = [type |-> type, data |-> E!Both(E!Pair("data", e.v), E!Pair("resid", e.x[1]))]
    <3>1. seg = [type |-> E!SegmentOf[e.k][1],
                 data |-> E!Both(E!Pair("data", e.v), E!Pair("resid", e.x[1]))]
      BY <1>2 DEF E!Content, seg
    <3>2. E!SegmentOf[e.k][1] = type
      BY <1>2, Named
    <3> QED BY <3>1, <3>2, Zenon
  <2>3. seg.type = type /\ E!Value(seg, "data") = e.v
    BY <2>2 DEF E!Value, E!Pair, E!Both
  <2>4. E!Segment(e).type = type /\ E!Value(E!Segment(e), "data") = e.v
    BY <2>1 DEF E!Value, E!Pair, E!Both
  <2>5. PICK t : /\ E!Convert(seg, source) = <<t>> /\ t.v = e.v
                 /\ <<t.k, type>> \in {<<"xml", "xml">>, <<"lightapp", "json">>, <<"jsonservice", "json">>}
    <3>1. \E t : /\ E!Service(seg) = <<t>> /\ t.v = e.v
                 /\ <<t.k, type>> \in {<<"xml", "xml">>, <<"lightapp", "json">>, <<"jsonservice", "json">>}
      <4>1. \A k, x : E!E(k, e.v, x).k = k /\ E!E(k, e.v, x).v = e.v
        BY DEF E!E
      <4>2. CASE e.k = "xml"
        <5>1. E!Service(seg) = <<E!E("xml", e.v, <<E!Value(seg, "resid"), None>>)>>
          BY <2>3, <4>2, Zenon DEF E!Service
        <5> QED BY <4>1, <4>2, <5>1
      <4>3. CASE e.k # "xml" /\ E!Value(seg, "resid") = None
        <5>1. seg.type # "xml"
          BY <2>3, <4>3
        <5>2. E!Service(seg) = <<E!E("lightapp", e.v, None)>>
          BY <2>3, <4>3, <5>1, Zenon DEF E!Service
        <5> QED BY <4>1, <4>3, <5>2
      <4>4. CASE e.k # "xml" /\ E!Value(seg, "resid") # None
        <5>1. seg.type # "xml"
          BY <2>3, <4>4
        <5>2. E!Service(seg) = <<E!E("jsonservice", e.v, <<1, None>>)>>
          BY <2>3, <4>4, <5>1, Zenon DEF E!Service
        <5> QED BY <4>1, <4>4, <5>2
      <4> QED BY <4>2, <4>3, <4>4
    <3>2. E!Convert(seg, source) = E!Service(seg)
      BY <1>2, <2>3 DEF E!Convert
    <3> QED BY <3>1, <3>2, Zenon
  <2>6. E!Segment(t).type = type /\ E!Value(E!Segment(t), "data") = e.v
    <3>1. CASE t.k = "xml"
      <4>1. E!Segment(t) = [type |-> "xml", data |-> E!Both(E!Pair("data", t.v), E!Pair("resid", t.x[2]))]
        BY <3>1, SegmentIs
      <4> QED BY <2>5, <3>1, <4>1 DEF E!Value, E!Pair, E!Both
    <3>2. CASE t.k = "jsonservice"
      <4>1. E!Segment(t) = [type |-> "json", data |-> E!Both(E!Pair("data", t.v), E!Pair("resid", t.x[2]))]
        BY <3>2, SegmentIs
      <4> QED BY <2>5, <3>2, <4>1 DEF E!Value, E!Pair, E!Both
    <3>3. CASE t.k = "lightapp"
      <4>1. E!Segment(t) = [type |-> "json", data |-> E!Pair("data", t.v)]
        BY <3>3, SegmentIs
      <4> QED BY <2>5, <3>3, <4>1 DEF E!Value, E!Pair
    <3> QED BY <2>5, <3>1, <3>2, <3>3
  <2>7. t.k \in E!Kinds \ {"reply", "at"} /\ type \in {"xml", "json"}
    BY <2>5 DEF E!Kinds
  <2> HIDE DEF type
  <2> QED BY <1>t, <2>4, <2>5, <2>6, <2>7
<1> QED BY <1>1, <1>2

\* Images: the server's, a copy of a guild's, or one fetched again.
ImageSound(e, source) ==
    /\ e.k = E!ImageKind(source)
    /\ e.x[2] \in {None, "flash", "show"}
    /\ e.x[2] = "show" => e.k = "groupimage"
    /\ e.k = "groupimage" => e.x[3] # None
    /\ e.k = "guildimage" => e.x[2] = None

LEMMA ImageSegment ==
    ASSUME NEW t, t.k \in E!Images \cup {"localimage"}
    PROVE  LET seg == E!Segment(t) IN
           /\ seg.type = "image" /\ E!Value(seg, "file") = t.v
           /\ E!Value(seg, "url") = t.x[1] /\ E!Value(seg, "type") = t.x[2]
           /\ E!Value(seg, "subType") = IF t.k = "groupimage" THEN t.x[3] ELSE None
           /\ "subType" \in DOMAIN seg.data <=> t.k = "groupimage"
<1> DEFINE seg == [type |-> "image", data |-> E!Both(E!Pair("file", t.v), RestOfImage(t.k, t.x))]
<1>1. E!Segment(t) = seg
  BY SegmentIs, Zenon
<1>2. CASE t.x[2] = None
  <2>1. CASE t.k = "groupimage"
    BY <1>1, <1>2, <2>1 DEF E!Value, E!Pair, E!Both, E!Nothing, RestOfImage
  <2>2. CASE t.k # "groupimage"
    BY <1>1, <1>2, <2>2 DEF E!Value, E!Pair, E!Both, E!Nothing, RestOfImage
  <2> QED BY <2>1, <2>2
<1>3. CASE t.x[2] # None
  <2>1. CASE t.k = "groupimage"
    BY <1>1, <1>3, <2>1 DEF E!Value, E!Pair, E!Both, RestOfImage
  <2>2. CASE t.k # "groupimage"
    BY <1>1, <1>3, <2>2 DEF E!Value, E!Pair, E!Both, E!Nothing, RestOfImage
  <2> QED BY <2>1, <2>2
<1> QED BY <1>2, <1>3

LEMMA ImageBecomes ==
    ASSUME NEW e, NEW source, e.k \in E!Images, ImageSound(e, source),
           None \notin {"flash", "show", "sticker"}, settings = {}
    PROVE  \E u : BackAs(e, source) = <<u>> /\ Becomes(e, u, source)
<1> DEFINE seg == E!Content(e)
<1>1. seg = E!Segment(e)
  <2>1. e.k \notin {"at", "xml", "jsonservice"}
    BY DEF E!Images
  <2> QED BY <2>1, PlainContent, Zenon
<1> HIDE DEF seg
<1>2. /\ seg.type = "image" /\ E!Value(seg, "file") = e.v /\ E!Value(seg, "type") = e.x[2]
      /\ E!Value(seg, "subType") = IF e.k = "groupimage" THEN e.x[3] ELSE None
  BY <1>1, ImageSegment
<1> DEFINE files == {E!Value(seg, "file"), E!Value(seg, "url"), <<"path", E!Value(seg, "file")[2]>>}
           Fit(t) == /\ t.k \in E!Images \cup {"localimage"} /\ t.v \in files
                     /\ t.x[2] = None /\ (t.k \in E!Images => t.k = e.k)
<1>3. \A k, v, url : /\ E!E(k, v, <<url, None, 0>>).k = k
                     /\ E!E(k, v, <<url, None, 0>>).v = v
                     /\ E!E(k, v, <<url, None, 0>>).x[2] = None
  BY DEF E!E
<1>4. \/ E!ImageElement(seg, source) = E!Fails
      \/ \E t : E!ImageElement(seg, source) = <<t>> /\ Fit(t)
  <2>1. ASSUME NEW f \in files, NEW url PROVE Fit(E!E("localimage", f, <<url, None, 0>>))
    BY <1>3 DEF E!Images
  <2>2. ASSUME NEW url PROVE Fit(E!E(E!ImageKind(source), E!Value(seg, "file"), <<url, None, 0>>))
    BY <1>3 DEF ImageSound
  <2>3. ASSUME NEW f \in files
        PROVE  E!Fetched(f, f) = E!Fails \/ \E t : E!Fetched(f, f) = <<t>> /\ Fit(t)
    <3> HIDE DEF files, Fit
    <3> QED BY <2>1, Zenon DEF E!Fetched
  <2>4. E!ImageElement(seg, source)
          \in {E!Fails, E!Fetched(E!Value(seg, "file"), E!Value(seg, "file")),
               E!Fetched(E!Value(seg, "url"), E!Value(seg, "url")),
               <<E!E("localimage", <<"path", E!Value(seg, "file")[2]>>, <<None, None, 0>>)>>,
               <<E!E(E!ImageKind(source), E!Value(seg, "file"), <<E!Value(seg, "url"), None, 0>>)>>}
    BY Zenon DEF E!ImageElement
  <2>5. /\ E!Value(seg, "file") \in files /\ E!Value(seg, "url") \in files
        /\ <<"path", E!Value(seg, "file")[2]>> \in files
    OBVIOUS
  <2> HIDE DEF Fit, files
  <2>6. CASE E!ImageElement(seg, source) = E!Fetched(E!Value(seg, "file"), E!Value(seg, "file"))
    BY <2>3, <2>5, <2>6, Zenon
  <2>7. CASE E!ImageElement(seg, source) = E!Fetched(E!Value(seg, "url"), E!Value(seg, "url"))
    BY <2>3, <2>5, <2>7, Zenon
  <2>8. CASE E!ImageElement(seg, source)
               = <<E!E("localimage", <<"path", E!Value(seg, "file")[2]>>, <<None, None, 0>>)>>
    BY <2>1, <2>5, <2>8, Zenon
  <2>9. CASE E!ImageElement(seg, source)
               = <<E!E(E!ImageKind(source), E!Value(seg, "file"), <<E!Value(seg, "url"), None, 0>>)>>
    BY <2>2, <2>9, Zenon
  <2> QED BY <2>4, <2>6, <2>7, <2>8, <2>9, Zenon
<1>5. E!Convert(seg, source) = E!Typed(seg, E!ImageElement(seg, source))
  BY <1>2 DEF E!Convert
<1>6. CASE E!ImageElement(seg, source) = E!Fails
  <2>1. E!Convert(seg, source) = E!Fails
    BY <1>5, <1>6, Zenon DEF E!Typed
  <2>2. Becomes(e, AsCode(seg), source)
    <3>1. E!MayFail(E!Segment(e))
      BY <1>1, <1>2 DEF E!MayFail
    <3>2. e.k # "reply"
      BY DEF E!Images
    <3> QED BY <3>1, <3>2, BecomesText
  <2> QED BY <2>1, <2>2, BackAsText, Zenon DEF seg
<1>7. CASE \E t : E!ImageElement(seg, source) = <<t>> /\ Fit(t)
  <2>1. PICK t : E!ImageElement(seg, source) = <<t>> /\ Fit(t)
    BY <1>7
  <2> DEFINE type == E!Value(seg, "type")
             biz == E!Value(seg, "subType")
             given == [t EXCEPT !.x = <<t.x[1], type, IF biz = None THEN 0 ELSE biz>>]
             flashed == [t EXCEPT !.x = <<t.x[1], type, t.x[3]>>]
  <2>2. E!Convert(seg, source) =
          IF type \notin {"flash", "show"} THEN <<t>>
          ELSE IF t.k = "groupimage" THEN <<given>>
          ELSE IF t.k # "guildimage" /\ type = "flash" THEN <<flashed>> ELSE <<t>>
    <3>1. <<t>>[1] = t /\ <<t>> # E!Fails
      BY DEF E!Fails
    <3> QED BY <1>5, <2>1, <3>1, Zenon DEF E!Typed
  <2>3. /\ given.k = t.k /\ given.v = t.v /\ given.x[2] = type
        /\ given.x[3] = IF biz = None THEN 0 ELSE biz
        /\ flashed.k = t.k /\ flashed.v = t.v /\ flashed.x[2] = type
    OBVIOUS
  <2>4. PICK u : /\ E!Convert(seg, source) = <<u>> /\ u.k = t.k /\ u.v = t.v
                 /\ u.x[2] = e.x[2] \/ (u.k # "groupimage" /\ e.x[2] = "show")
                 /\ u.k = "groupimage" /\ e.x[2] # None => u.x[3] = e.x[3]
    <3> HIDE DEF given, flashed
    <3>1. CASE type \notin {"flash", "show"}
      BY <1>2, <2>1, <2>2, <3>1 DEF ImageSound
    <3>2. CASE type \in {"flash", "show"} /\ t.k = "groupimage"
      <4>1. e.k = "groupimage" /\ e.x[3] # None
        BY <2>1, <3>2 DEF ImageSound, E!Images
      <4> QED BY <1>2, <2>2, <2>3, <3>2, <4>1
    <3>3. CASE type \in {"flash", "show"} /\ t.k # "groupimage"
      <4>1. t.k # "guildimage"
        BY <1>2, <2>1, <3>3 DEF ImageSound, E!Images
      <4>2. CASE type = "flash"
        BY <1>2, <2>2, <2>3, <3>3, <4>1, <4>2
      <4>3. CASE type # "flash"
        BY <1>2, <2>2, <3>3, <4>3
      <4> QED BY <4>2, <4>3
    <3> QED BY <3>1, <3>2, <3>3
  <2>5. u.k \in E!Images \cup {"localimage"}
    BY <2>1, <2>4
  <2> DEFINE a == E!Segment(e)
             b == E!Segment(u)
  <2>6. E!Kept(a, b, source)
    <3>1. /\ b.type = "image" /\ E!Value(b, "file") = u.v /\ E!Value(b, "type") = u.x[2]
          /\ E!Value(b, "subType") = IF u.k = "groupimage" THEN u.x[3] ELSE None
          /\ "subType" \in DOMAIN b.data <=> u.k = "groupimage"
      BY <2>5, ImageSegment
    <3>2. a = seg
      BY <1>1
    <3> HIDE DEF a, b
    <3>3. E!Value(b, "file") \in {E!Value(a, "file"), E!Value(a, "url"), <<"path", E!Value(a, "file")[2]>>}
      BY <2>1, <2>4, <3>1, <3>2
    <3>4. E!Value(b, "type") = E!Value(a, "type")
             \/ ("subType" \notin DOMAIN b.data /\ E!Value(a, "type") = "show")
      BY <1>2, <2>4, <3>1, <3>2
    <3>5. \/ E!Value(b, "subType") = E!Value(a, "subType") \/ "subType" \notin DOMAIN b.data
          \/ E!Value(a, "type") = None
      <4>1. u.k = "groupimage" => e.k = "groupimage"
        BY <2>1, <2>4 DEF E!Images
      <4> QED BY <1>2, <2>4, <3>1, <3>2, <4>1
    <3>6. E!SameImage(a, b)
      BY <3>3, <3>4, <3>5, Zenon DEF E!SameImage
    <3>7. a.type = b.type /\ a.type = "image"
      BY <1>2, <3>1, <3>2
    <3> QED BY <3>6, <3>7, Zenon DEF E!Kept
  <2>7. Becomes(e, u, source)
    <3>1. u.k \in DOMAIN E!SegmentOf /\ u.k # "reply" /\ u.k # "at" /\ e.k # "reply"
      BY <2>5, Named DEF E!Kinds, E!Images
    <3> QED BY <2>6, <3>1 DEF Becomes
  <2> QED BY <2>4, <2>7, BackAsConverted, Zenon DEF seg
<1> QED BY <1>4, <1>6, <1>7

-----------------------------------------------------------------------------
(* Lists of elements read back.                                             *)

\* Choosing places that g lists in order.
LEMMA ThoseInOrder ==
    ASSUME NEW n \in Nat, NEW k \in Nat, NEW g \in [1..k -> 1..n],
           \A p, q \in 1..k : p < q => g[p] < g[q]
    PROVE  \A keep : (\A i : i \in keep <=> \E p \in 1..k : i = g[p])
                         => \A es : E!Those(es, keep) = [p \in 1..k |-> es[g[p]]]
<1> SUFFICES ASSUME NEW keep, \A i : i \in keep <=> \E p \in 1..k : i = g[p]
             PROVE  \A es : E!Those(es, keep) = [p \in 1..k |-> es[g[p]]]
  BY Zenon
<1>1. keep \in SUBSET (1..n)
  OBVIOUS
<1>2. ASSUME NEW m \in 0..k
      PROVE  Cardinality({g[p] : p \in 1..m}) = m
  <2> DEFINE T == {g[p] : p \in 1..m}
             f == [p \in 1..m |-> g[p]]
  <2>1. IsFiniteSet(1..m) /\ Cardinality(1..m) = m
    BY FS_Interval
  <2>2. \A p, q \in 1..m : f[p] = f[q] => p = q
    <3> SUFFICES ASSUME NEW p \in 1..m, NEW q \in 1..m, f[p] = f[q] PROVE p = q
      OBVIOUS
    <3>1. ~(p < q) /\ ~(q < p)
      OBVIOUS
    <3> QED BY <3>1
  <2>3. f \in Bijection(1..m, T)
    BY <2>2 DEF Bijection, Injection, IsInjective, Surjection
  <2> QED
    BY <2>1, <2>3, FS_Bijection DEF ExistsBijection
<1>3. Cardinality(keep) = k
  <2>1. keep = {g[p] : p \in 1..k}
    OBVIOUS
  <2> QED BY <1>2, <2>1
<1>4. ASSUME NEW p \in 1..k PROVE g[p] \in keep /\ E!Place(keep, g[p]) = p
  <2>1. \A q \in 1..k : g[q] <= g[p] <=> q <= p
    <3> SUFFICES ASSUME NEW q \in 1..k PROVE g[q] <= g[p] <=> q <= p
      OBVIOUS
    <3>1. q < p \/ q = p \/ p < q
      OBVIOUS
    <3>2. g[q] \in Nat /\ g[p] \in Nat
      OBVIOUS
    <3> QED BY <3>1, <3>2
  <2>2. {h \in keep : h <= g[p]} = {g[q] : q \in 1..p}
    <3>1. ASSUME NEW h \in keep, h <= g[p] PROVE h \in {g[q] : q \in 1..p}
      <4>1. PICK q \in 1..k : h = g[q]
        OBVIOUS
      <4>2. q \in 1..p
        BY <2>1, <3>1, <4>1
      <4> QED BY <4>1, <4>2
    <3>2. ASSUME NEW q \in 1..p PROVE g[q] \in keep /\ g[q] <= g[p]
      <4>1. q \in 1..k /\ q <= p
        OBVIOUS
      <4> QED BY <2>1, <4>1
    <3> QED BY <3>1, <3>2
  <2>3. E!Place(keep, g[p]) = Cardinality({h \in keep : h <= g[p]})
    BY SameCardinality, Zenon DEF E!Place
  <2>4. p \in 0..k
    OBVIOUS
  <2> QED BY <1>2, <2>2, <2>3, <2>4
<1>5. ASSUME NEW es PROVE E!Those(es, keep) = [p \in 1..k |-> es[g[p]]]
  <2> DEFINE at(p) == CHOOSE i \in keep : E!Place(keep, i) = p
  <2>1. E!Those(es, keep) = [p \in 1..k |-> es[at(p)]]
    BY <1>3, SameCardinality, Zenon DEF E!Those
  <2>2. ASSUME NEW p \in 1..k PROVE at(p) = g[p]
    <3>1. at(p) \in keep /\ E!Place(keep, at(p)) = p
      BY <1>4
    <3> HIDE DEF at
    <3>2. PICK q \in 1..k : at(p) = g[q]
      BY <3>1
    <3> QED BY <1>4, <3>1, <3>2
  <2> HIDE DEF at
  <2> QED BY <2>1, <2>2
<1> QED BY <1>5

LEMMA ThoseAll ==
    ASSUME NEW n \in Nat
    PROVE  \A es : E!Those(es, 1..n) = [p \in 1..n |-> es[p]]
<1> DEFINE g == [p \in 1..n |-> p]
<1>1. /\ g \in [1..n -> 1..n] /\ \A p, q \in 1..n : p < q => g[p] < g[q]
      /\ \A i : i \in 1..n <=> \E p \in 1..n : i = g[p]
  OBVIOUS
<1>2. \A p \in 1..n : g[p] = p
  OBVIOUS
<1> HIDE DEF g
<1>3. \A es : E!Those(es, 1..n) = [p \in 1..n |-> es[g[p]]]
  <2>1. \A keep : (\A i : i \in keep <=> \E p \in 1..n : i = g[p])
                       => \A es : E!Those(es, keep) = [p \in 1..n |-> es[g[p]]]
    BY <1>1, ThoseInOrder, Zenon
  <2> QED BY <1>1, <2>1, Zenon
<1> QED BY <1>2, <1>3

LEMMA ThoseBut ==
    ASSUME NEW n \in Nat, NEW h \in 1..n
    PROVE  /\ n - 1 \in Nat
           /\ \A es : E!Those(es, (1..n) \ {h}) =
                         [p \in 1..(n - 1) |-> es[IF p < h THEN p ELSE p + 1]]
<1> DEFINE g == [p \in 1..(n - 1) |-> IF p < h THEN p ELSE p + 1]
           keep == (1..n) \ {h}
<1>0. n - 1 \in Nat
  OBVIOUS
<1>1. /\ g \in [1..(n - 1) -> 1..n] /\ \A p, q \in 1..(n - 1) : p < q => g[p] < g[q]
  OBVIOUS
<1>2. ASSUME NEW i PROVE i \in keep <=> \E p \in 1..(n - 1) : i = g[p]
  <2>1. ASSUME i \in keep PROVE \E p \in 1..(n - 1) : i = g[p]
    <3>1. CASE i < h
      <4>1. i \in 1..(n - 1) /\ g[i] = i
        BY <2>1, <3>1
      <4> QED BY <4>1
    <3>2. CASE i > h
      <4>1. i - 1 \in 1..(n - 1) /\ g[i - 1] = i
        BY <2>1, <3>2
      <4> QED BY <4>1
    <3> QED BY <2>1, <3>1, <3>2
  <2>2. ASSUME NEW p \in 1..(n - 1), i = g[p] PROVE i \in keep
    BY <2>2
  <2> QED BY <2>1, <2>2
<1>3. \A p \in 1..(n - 1) : g[p] = IF p < h THEN p ELSE p + 1
  OBVIOUS
<1> HIDE DEF g, keep
<1>4. \A es : E!Those(es, keep) = [p \in 1..(n - 1) |-> es[g[p]]]
  <2>1. \A kept : (\A i : i \in kept <=> \E p \in 1..(n - 1) : i = g[p])
                       => \A es : E!Those(es, kept) = [p \in 1..(n - 1) |-> es[g[p]]]
    BY <1>0, <1>1, ThoseInOrder, Zenon
  <2> QED BY <1>2, <2>1, Zenon
<1>5. \A es : E!Those(es, keep) = [p \in 1..(n - 1) |-> es[IF p < h THEN p ELSE p + 1]]
  BY <1>3, <1>4
<1> QED BY <1>0, <1>5 DEF keep

\* A list as it is, with the reply first, and with the reply left out.
Moved(es) == IF E!Replies(es) = {} THEN es
             ELSE <<es[E!First(E!Replies(es))]>> \o E!Those(es, DOMAIN es \ E!Replies(es))

LEMMA EventMoved ==
    ASSUME NEW n \in Nat, NEW es, DOMAIN es = 1..n, es = [i \in 1..n |-> es[i]],
           \A i \in 1..n : es[i].k \in DOMAIN E!SegmentOf,
           NEW source, source = "guild" => E!Replies(es) = {}
    PROVE  E!ToElements(es, source) = [i \in DOMAIN Moved(es) |-> E!Segment(Moved(es)[i])]
<1> DEFINE replies == E!Replies(es)
           rest == E!Those(es, {i \in DOMAIN es \ replies : es[i].k \in DOMAIN E!SegmentOf})
           list == IF replies = {} \/ source = "guild" THEN rest
                   ELSE <<es[E!First(replies)]>> \o rest
<1>1. {i \in DOMAIN es \ replies : es[i].k \in DOMAIN E!SegmentOf} = DOMAIN es \ replies
  <2> HIDE DEF replies
  <2> QED OBVIOUS
<1>2. rest = E!Those(es, DOMAIN es \ replies)
  BY <1>1, Zenon
<1>3. replies = {} => rest = es
  <2>1. replies = {} => DOMAIN es \ replies = 1..n
    <3> HIDE DEF replies
    <3> QED OBVIOUS
  <2>2. E!Those(es, 1..n) = es
    BY ThoseAll, Zenon
  <2> QED BY <1>2, <2>1, <2>2, Zenon
<1>4. E!ToElements(es, source) = [i \in DOMAIN list |-> E!Segment(list[i])]
  BY Zenon DEF E!ToElements
<1> HIDE DEF rest
<1>5. list = Moved(es)
  BY <1>2, <1>3, Zenon DEF Moved
<1> HIDE DEF list
<1> QED BY <1>4, <1>5

LEMMA EventOfGuild ==
    ASSUME NEW n \in Nat, NEW es, DOMAIN es = 1..n,
           \A i \in 1..n : es[i].k \in DOMAIN E!SegmentOf, E!Replies(es) = {1}
    PROVE  E!ToElements(es, "guild") = [p \in 1..(n - 1) |-> E!Segment(es[p + 1])]
<1> DEFINE rest == E!Those(es, {i \in DOMAIN es \ E!Replies(es) : es[i].k \in DOMAIN E!SegmentOf})
<1>1. 1 \in 1..n
  <2>1. 1 \in E!Replies(es)
    OBVIOUS
  <2> QED BY <2>1 DEF E!Replies
<1>2. {i \in DOMAIN es \ E!Replies(es) : es[i].k \in DOMAIN E!SegmentOf} = (1..n) \ {1}
  OBVIOUS
<1>3. rest = E!Those(es, (1..n) \ {1})
  BY <1>2, Zenon
<1>4. E!ToElements(es, "guild") = [i \in DOMAIN rest |-> E!Segment(rest[i])]
  BY Zenon DEF E!ToElements
<1> HIDE DEF rest
<1>5. rest = [p \in 1..(n - 1) |-> es[IF p < 1 THEN p ELSE p + 1]]
  <2>1. \A fs : E!Those(fs, (1..n) \ {1}) = [p \in 1..(n - 1) |-> fs[IF p < 1 THEN p ELSE p + 1]]
    BY <1>1, ThoseBut
  <2> QED BY <1>3, <2>1, Zenon
<1> QED BY <1>4, <1>5

\* What get_msg converts, when every element becomes one.
Matched(n, es, t, source) ==
    /\ n \in Nat
    /\ DOMAIN es = 1..n /\ es = [i \in 1..n |-> es[i]]
    /\ DOMAIN t = 1..n /\ t = [i \in 1..n |-> t[i]]
    /\ \A i \in 1..n : /\ es[i].k \in E!Kinds
                       /\ BackAs(es[i], source) = <<t[i]>>
                       /\ Becomes(es[i], t[i], source)
    /\ \A i \in E!Replies(es) : /\ E!Replies(es) = {i}
                                /\ i = 1 \/ es[i].v \in DOMAIN KnownReplies
                                /\ source = "guild" => es[i].v \notin DOMAIN KnownReplies

LEMMA ConvertedBack ==
    ASSUME NEW n, NEW es, NEW source, NEW t, Matched(n, es, t, source)
    PROVE  E!ConvertElements(E!ToMessageContent(es), source) = Moved(t)
<1> SUFFICES ASSUME n \in Nat, DOMAIN es = 1..n, \A i \in 1..n : es[i].k \in E!Kinds,
                    t = [i \in 1..n |-> t[i]],
                    \A i \in 1..n : BackAs(es[i], source) = <<t[i]>>
             PROVE  E!ConvertElements(E!ToMessageContent(es), source) = Moved(t)
  BY DEF Matched
<1> DEFINE segs == E!ToMessageContent(es)
<1>1. segs = [i \in 1..n |-> E!Content(es[i])]
  <2>1. {i \in DOMAIN es : es[i].k \in E!Kinds} = 1..n
    OBVIOUS
  <2> DEFINE list == E!Those(es, {i \in DOMAIN es : es[i].k \in E!Kinds})
  <2>2. list = [i \in 1..n |-> es[i]]
    BY <2>1, ThoseAll, Zenon
  <2>3. segs = [i \in DOMAIN list |-> E!Content(list[i])]
    BY Zenon DEF E!ToMessageContent
  <2> HIDE DEF list, segs
  <2> QED BY <2>2, <2>3
<1> DEFINE lists == [i \in DOMAIN segs |->
                        LET got1 == E!Convert(segs[i], source) IN
                        IF got1 = E!Fails THEN E!Instead(segs[i]) ELSE got1]
           all == E!FlattenSeq(lists)
<1>2. E!ConvertElements(segs, source) =
        IF E!Replies(all) = {} THEN all
        ELSE <<all[E!First(E!Replies(all))]>> \o E!Those(all, DOMAIN all \ E!Replies(all))
  BY Zenon DEF E!ConvertElements
<1> HIDE DEF segs
<1>3. lists = [i \in 1..n |-> <<t[i]>>]
  <2>1. DOMAIN segs = 1..n
    BY <1>1
  <2>2. ASSUME NEW i \in 1..n
        PROVE  (LET got1 == E!Convert(segs[i], source) IN
                IF got1 = E!Fails THEN E!Instead(segs[i]) ELSE got1) = <<t[i]>>
    <3>1. segs[i] = E!Content(es[i])
      BY <1>1
    <3>2. BackAs(es[i], source) = <<t[i]>>
      OBVIOUS
    <3> QED BY <3>1, <3>2, Zenon DEF BackAs
  <2> QED BY <2>1, <2>2, Zenon
<1>4. all = t
  <2>1. E!FlattenSeq([i \in 1..n |-> <<t[i]>>]) = [i \in 1..n |-> t[i]]
    BY FlattenedSingles, Zenon
  <2> HIDE DEF lists
  <2>2. all = E!FlattenSeq([i \in 1..n |-> <<t[i]>>])
    BY <1>3
  <2> QED BY <2>1, <2>2, Zenon
<1> HIDE DEF all
<1> QED BY <1>2, <1>4, Zenon DEF Moved, segs

\* With one reply, the list moved is the same choice from any list.
MovedTo(r, p) == IF p = 1 THEN r ELSE IF p - 1 < r THEN p - 1 ELSE p

LEMMA MovedInOrder ==
    ASSUME NEW n \in Nat, NEW r \in 1..n
    PROVE  /\ \A p \in 1..n : MovedTo(r, p) \in 1..n /\ (MovedTo(r, p) = r <=> p = 1)
           /\ \A es : DOMAIN es = 1..n /\ E!Replies(es) = {r}
                         => Moved(es) = [p \in 1..n |-> es[MovedTo(r, p)]]
<1>1. n - 1 \in Nat
  OBVIOUS
<1>2. \A p \in 1..n : MovedTo(r, p) \in 1..n
  BY DEF MovedTo
<1>3. \A p \in 1..n : MovedTo(r, p) = r <=> p = 1
  BY DEF MovedTo
<1>4. MovedTo(r, 1) = r
  BY DEF MovedTo
<1>5. ASSUME NEW es, DOMAIN es = 1..n, E!Replies(es) = {r}
      PROVE  Moved(es) = [p \in 1..n |-> es[MovedTo(r, p)]]
  <2> DEFINE rest == E!Those(es, (1..n) \ {r})
  <2>1. rest = [p \in 1..(n - 1) |-> es[IF p < r THEN p ELSE p + 1]]
    BY ThoseBut, Zenon
  <2>2. E!First({r}) = r
    <3>1. {r} \in SUBSET Nat
      OBVIOUS
    <3>2. E!First({r}) \in {r}
      BY <3>1, FirstOf
    <3> QED BY <3>2
  <2>3. Moved(es) = <<es[r]>> \o rest
    <3>1. {r} # {}
      OBVIOUS
    <3> QED BY <1>5, <2>2, <3>1, Zenon DEF Moved
  <2> HIDE DEF rest
  <2>4. \E S : rest \in Seq(S) /\ es[r] \in S
    <3> DEFINE S == {es[i] : i \in 1..n}
    <3>1. \A p \in 1..(n - 1) : es[IF p < r THEN p ELSE p + 1] \in S
      OBVIOUS
    <3>2. es[r] \in S
      OBVIOUS
    <3> HIDE DEF S
    <3>3. rest \in [1..(n - 1) -> S]
      BY <2>1, <3>1
    <3> QED BY <1>1, <3>2, <3>3
  <2>5. Len(rest) = n - 1
    BY <1>1, <2>1
  <2>6. DOMAIN Moved(es) = 1..n /\ Moved(es) = [p \in 1..n |-> Moved(es)[p]]
    BY <2>3, <2>4, <2>5
  <2>7. ASSUME NEW p \in 1..n PROVE Moved(es)[p] = es[MovedTo(r, p)]
    <3>1. CASE p = 1
      BY <1>4, <2>3, <2>4, <2>5, <3>1
    <3>2. CASE p # 1
      <4>1. Moved(es)[p] = rest[p - 1] /\ p - 1 \in 1..(n - 1)
        BY <2>3, <2>4, <2>5, <3>2
      <4>2. rest[p - 1] = es[IF p - 1 < r THEN p - 1 ELSE (p - 1) + 1]
        BY <2>1, <4>1
      <4>3. (p - 1) + 1 = p
        OBVIOUS
      <4>4. MovedTo(r, p) = IF p - 1 < r THEN p - 1 ELSE p
        BY <3>2 DEF MovedTo
      <4> QED BY <4>1, <4>2, <4>3, <4>4
    <3> QED BY <3>1, <3>2
  <2> QED BY <2>6, <2>7
<1> QED BY <1>2, <1>3, <1>5

\* A list whose reply comes first stays as it is.
LEMMA FirstMoved ==
    ASSUME NEW n \in Nat, NEW es, DOMAIN es = 1..n, es = [i \in 1..n |-> es[i]],
           E!Replies(es) = {1}
    PROVE  Moved(es) = es
<1>1. 1 \in 1..n
  <2>1. 1 \in E!Replies(es)
    OBVIOUS
  <2> QED BY <2>1 DEF E!Replies
<1>2. Moved(es) = [p \in 1..n |-> es[MovedTo(1, p)]]
  <2>1. \A fs : DOMAIN fs = 1..n /\ E!Replies(fs) = {1}
                  => Moved(fs) = [p \in 1..n |-> fs[MovedTo(1, p)]]
    BY <1>1, MovedInOrder
  <2> QED BY <2>1, Zenon
<1>3. \A p \in 1..n : MovedTo(1, p) = p
  BY DEF MovedTo
<1> QED BY <1>2, <1>3

\* What get_msg shows of a message is what its event showed.
Corresponds(source, event, list) ==
    \/ E!Aligned(event, list)
    \/ /\ RemoveReplyAt /\ Len(event) > 1
       /\ event[1].type = "reply" /\ event[2].type = "at"
       /\ E!Aligned(E!RemoveAt(event, 2), list)
    \/ source = "guild" /\ E!Aligned(event, Tail(list))

LEMMA ShownAligned ==
    ASSUME NEW n, NEW es, NEW t, NEW source, Matched(n, es, t, source),
           source = got.source, RemoveReplyAt \in BOOLEAN
    PROVE  Corresponds(source, E!ToElements(es, source), E!ToElements(E!DropAt(Moved(t)), source))
<1> SUFFICES \A event, list :
                 event = E!ToElements(es, source) /\ list = E!ToElements(E!DropAt(Moved(t)), source)
                     => Corresponds(source, event, list)
  BY Zenon
<1> SUFFICES ASSUME
               n \in Nat, DOMAIN es = 1..n, es = [i \in 1..n |-> es[i]],
               DOMAIN t = 1..n, t = [i \in 1..n |-> t[i]],
               \A i \in 1..n : es[i].k \in E!Kinds /\ Becomes(es[i], t[i], source),
               \A i \in E!Replies(es) : /\ E!Replies(es) = {i}
                                        /\ i = 1 \/ es[i].v \in DOMAIN KnownReplies
                                        /\ source = "guild" => es[i].v \notin DOMAIN KnownReplies,
               NEW event, event = E!ToElements(es, source),
               NEW list, list = E!ToElements(E!DropAt(Moved(t)), source)
             PROVE
               \/ E!Aligned(event, list)
               \/ /\ RemoveReplyAt /\ Len(event) > 1
                  /\ event[1].type = "reply" /\ event[2].type = "at"
                  /\ E!Aligned(E!RemoveAt(event, 2), list)
               \/ source = "guild" /\ E!Aligned(event, Tail(list))
  BY Zenon DEF Matched, Corresponds
<1>1. \A i \in 1..n : /\ es[i].k \in DOMAIN E!SegmentOf /\ t[i].k \in DOMAIN E!SegmentOf
                      /\ t[i].k = "reply" <=> es[i].k = "reply" /\ es[i].v \in DOMAIN KnownReplies
                      /\ t[i].k = "at" => es[i].k = "at"
                      /\ E!Kept(E!Segment(es[i]), E!Segment(t[i]), source)
  BY Named DEF Becomes
<1>k. /\ \A i \in 1..n : es[i].k \in DOMAIN E!SegmentOf
      /\ \A i \in 1..n : t[i].k \in DOMAIN E!SegmentOf
  BY <1>1
<1>2. \A i \in 1..n : i \in E!Replies(t) <=> i \in E!Replies(es) /\ es[i].v \in DOMAIN KnownReplies
  BY <1>1 DEF E!Replies
<1>3. E!Replies(t) \subseteq 1..n /\ E!Replies(es) \subseteq 1..n
  BY DEF E!Replies
<1>4. CASE E!Replies(t) = {}
  <2>1. Moved(t) = t
    BY <1>4 DEF Moved
  <2>2. E!Dropped(t) = {}
    <3>1. ASSUME NEW i \in DOMAIN t, i > 1 PROVE t[i - 1].k # "reply"
      <4>1. i - 1 \in DOMAIN t
        BY <3>1
      <4> QED BY <1>4, <4>1 DEF E!Replies
    <3> QED BY <3>1 DEF E!Dropped
  <2>3. E!DropAt(t) = t
    <3>1. DOMAIN t \ E!Dropped(t) = 1..n
      BY <2>2
    <3> QED BY <3>1, ThoseAll DEF E!DropAt
  <2>4. list = [i \in 1..n |-> E!Segment(t[i])]
    <3>1. E!ToElements(t, source) = [i \in DOMAIN Moved(t) |-> E!Segment(Moved(t)[i])]
      BY <1>k, <1>4, EventMoved, Zenon
    <3> QED BY <2>1, <2>3, <3>1
  <2>5. CASE E!Replies(es) = {} \/ source # "guild"
    <3>1. event = [i \in 1..n |-> E!Segment(es[i])]
      <4>1. Moved(es) = es
        <5>1. CASE E!Replies(es) = {}
          BY <5>1 DEF Moved
        <5>2. CASE E!Replies(es) # {}
          <6>1. E!Replies(es) = {1}
            BY <1>2, <1>3, <1>4, <5>2
          <6> QED BY <6>1, FirstMoved
        <5> QED BY <5>1, <5>2
      <4>2. event = [i \in DOMAIN Moved(es) |-> E!Segment(Moved(es)[i])]
        BY <1>k, <2>5, EventMoved, Zenon
      <4> QED BY <4>1, <4>2
    <3>2. Len(list) = Len(event) /\ DOMAIN list = 1..n
      BY <2>4, <3>1
    <3>3. \A i \in DOMAIN list : E!Kept(event[i], list[i], got.source)
      BY <1>1, <2>4, <3>1
    <3> QED BY <3>2, <3>3 DEF E!Aligned
  <2>6. CASE E!Replies(es) # {} /\ source = "guild"
    <3>1. E!Replies(es) = {1} /\ 1 \in 1..n
      BY <1>2, <1>3, <1>4, <2>6
    <3>2. n - 1 \in Nat
      BY <3>1
    <3>5. event = [p \in 1..(n - 1) |-> E!Segment(es[p + 1])]
      <4>1. E!ToElements(es, "guild") = [p \in 1..(n - 1) |-> E!Segment(es[p + 1])]
        BY <1>k, <3>1, EventOfGuild, Zenon
      <4> QED BY <2>6, <4>1
    <3>6. /\ Len(Tail(list)) = n - 1 /\ DOMAIN Tail(list) = 1..(n - 1)
          /\ \A p \in 1..(n - 1) : Tail(list)[p] = E!Segment(t[p + 1])
      <4> DEFINE S == {E!Segment(t[i]) : i \in 1..n}
      <4>1. \A i \in 1..n : E!Segment(t[i]) \in S
        OBVIOUS
      <4> HIDE DEF S
      <4>2. list \in Seq(S) /\ Len(list) = n
        <5>1. list \in [1..n -> S]
          BY <2>4, <4>1
        <5> QED BY <2>4, <5>1
      <4>3. list # <<>>
        BY <3>1, <4>2
      <4>4. /\ Tail(list) \in Seq(S) /\ Len(Tail(list)) = Len(list) - 1
            /\ \A p \in 1..Len(Tail(list)) : Tail(list)[p] = list[p + 1]
        BY <4>2, <4>3, HeadTailProperties
      <4>5. DOMAIN Tail(list) = 1..(n - 1) /\ Len(Tail(list)) = n - 1
        BY <4>2, <4>4
      <4>6. \A p \in 1..(n - 1) : list[p + 1] = E!Segment(t[p + 1])
        BY <2>4, <3>2
      <4> QED BY <4>2, <4>4, <4>5, <4>6
    <3>7. Len(Tail(list)) = Len(event) /\ DOMAIN Tail(list) = 1..(n - 1)
      BY <3>2, <3>5, <3>6
    <3>8. \A p \in 1..(n - 1) : E!Kept(event[p], Tail(list)[p], got.source)
      <4>1. \A p \in 1..(n - 1) : p + 1 \in 1..n
        OBVIOUS
      <4> QED BY <1>1, <3>5, <3>6, <4>1
    <3> QED BY <2>6, <3>7, <3>8 DEF E!Aligned
  <2> QED BY <2>5, <2>6
<1>5. CASE E!Replies(t) # {}
  <2>1. PICK r \in 1..n : E!Replies(t) = {r} /\ E!Replies(es) = {r} /\ source # "guild"
    BY <1>2, <1>3, <1>5
  <2> DEFINE C == Moved(t)
             W == Moved(es)
             to(p) == MovedTo(r, p)
  <2>2. \A p \in 1..n : to(p) \in 1..n /\ (to(p) = r <=> p = 1)
    BY MovedInOrder
  <2>3. C = [p \in 1..n |-> t[to(p)]] /\ W = [p \in 1..n |-> es[to(p)]]
    <3>1. \A fs : DOMAIN fs = 1..n /\ E!Replies(fs) = {r}
                    => Moved(fs) = [p \in 1..n |-> fs[MovedTo(r, p)]]
      BY MovedInOrder
    <3> QED BY <2>1, <3>1, Zenon
  <2> HIDE DEF C, W, to
  <2>4. /\ DOMAIN C = 1..n /\ C = [p \in 1..n |-> C[p]] /\ 1 \in 1..n
        /\ \A p \in 1..n : C[p].k \in DOMAIN E!SegmentOf /\ (C[p].k = "reply" <=> p = 1)
    <3>1. \A i \in 1..n : t[i].k = "reply" <=> i = r
      BY <2>1 DEF E!Replies
    <3> QED BY <1>1, <2>2, <2>3, <3>1
  <2>5. event = [p \in 1..n |-> E!Segment(es[to(p)])]
    <3>1. event = [i \in DOMAIN W |-> E!Segment(W[i])]
      BY <1>k, <2>1, EventMoved, Zenon DEF W
    <3> QED BY <2>3, <3>1
  <2>6. ASSUME NEW m \in Nat, NEW X, DOMAIN X = 1..m, X = [p \in 1..m |-> X[p]], m >= 1,
               \A p \in 1..m : X[p].k \in DOMAIN E!SegmentOf /\ (X[p].k = "reply" <=> p = 1)
        PROVE  E!ToElements(X, source) = [p \in 1..m |-> E!Segment(X[p])]
    <3>1. E!Replies(X) = {1}
      BY <2>6 DEF E!Replies
    <3>2. Moved(X) = X
      BY <2>6, <3>1, FirstMoved
    <3>3. \A p \in 1..m : X[p].k \in DOMAIN E!SegmentOf
      BY <2>6
    <3>4. E!ToElements(X, source) = [i \in DOMAIN Moved(X) |-> E!Segment(Moved(X)[i])]
      <4>1. \A k \in Nat : \A fs :
               (/\ DOMAIN fs = 1..k /\ fs = [i \in 1..k |-> fs[i]]
                /\ \A i \in 1..k : fs[i].k \in DOMAIN E!SegmentOf)
                  => E!ToElements(fs, source) = [i \in DOMAIN Moved(fs) |-> E!Segment(Moved(fs)[i])]
        BY <2>1, EventMoved, Zenon
      <4>2. m \in Nat /\ DOMAIN X = 1..m /\ X = [i \in 1..m |-> X[i]]
        BY <2>6
      <4> QED BY <3>3, <4>1, <4>2, Zenon
    <3> QED BY <2>6, <3>2, <3>4
  <2>7. ASSUME NEW i \in E!Dropped(C) PROVE RemoveReplyAt /\ i = 2 /\ 2 \in 1..n /\ C[2].k = "at"
    <3>1. i \in 1..n /\ RemoveReplyAt /\ i > 1 /\ C[i].k = "at" /\ C[i - 1].k = "reply"
      BY <2>4 DEF E!Dropped
    <3>2. i - 1 \in 1..n
      BY <3>1
    <3>3. i - 1 = 1
      BY <2>4, <3>1, <3>2
    <3> QED BY <3>1, <3>3
  <2>8. E!DropAt(C) = E!Those(C, (1..n) \ E!Dropped(C))
    BY <2>4, Zenon DEF E!DropAt
  <2>9. CASE E!Dropped(C) = {}
    <3>1. (1..n) \ E!Dropped(C) = 1..n
      BY <2>9
    <3>2. E!DropAt(C) = C
      <4>1. E!Those(C, 1..n) = [p \in 1..n |-> C[p]]
        BY ThoseAll, Zenon
      <4> QED BY <2>4, <2>8, <3>1, <4>1
    <3>3. list = [p \in 1..n |-> E!Segment(C[p])]
      <4>1. n >= 1
        BY <2>4
      <4>2. E!ToElements(C, source) = [p \in 1..n |-> E!Segment(C[p])]
        BY <2>4, <2>6, <4>1, Zenon
      <4>3. list = E!ToElements(E!DropAt(C), source)
        BY DEF C
      <4> QED BY <3>2, <4>2, <4>3
    <3>4. Len(list) = Len(event) /\ DOMAIN list = 1..n
      BY <2>5, <3>3
    <3>5. \A p \in 1..n : E!Kept(event[p], list[p], got.source)
      <4> SUFFICES ASSUME NEW p \in 1..n PROVE E!Kept(event[p], list[p], got.source)
        OBVIOUS
      <4>1. event[p] = E!Segment(es[to(p)]) /\ list[p] = E!Segment(t[to(p)])
        BY <2>3, <2>5, <3>3
      <4> QED BY <1>1, <2>2, <4>1
    <3> QED BY <3>4, <3>5 DEF E!Aligned
  <2>10. CASE E!Dropped(C) # {}
    <3>1. E!Dropped(C) = {2} /\ RemoveReplyAt /\ 2 \in 1..n /\ C[2].k = "at"
      BY <2>7, <2>10
    <3> DEFINE X == E!DropAt(C)
    <3>2. X = [p \in 1..(n - 1) |-> C[IF p < 2 THEN p ELSE p + 1]]
      <4>1. \A fs : E!Those(fs, (1..n) \ {2}) = [p \in 1..(n - 1) |-> fs[IF p < 2 THEN p ELSE p + 1]]
        BY <3>1, ThoseBut
      <4> QED BY <2>8, <3>1, <4>1, Zenon
    <3>3. n - 1 >= 1 /\ n - 1 \in Nat
      BY <3>1
    <3> HIDE DEF X
    <3>4. list = [p \in 1..(n - 1) |-> E!Segment(X[p])]
      <4>1. \A p \in 1..(n - 1) : (IF p < 2 THEN p ELSE p + 1) \in 1..n
                                  /\ ((IF p < 2 THEN p ELSE p + 1) = 1 <=> p = 1)
        OBVIOUS
      <4>2. \A p \in 1..(n - 1) : X[p].k \in DOMAIN E!SegmentOf /\ (X[p].k = "reply" <=> p = 1)
        BY <2>4, <3>2, <4>1
      <4>3. DOMAIN X = 1..(n - 1) /\ X = [p \in 1..(n - 1) |-> X[p]]
        BY <3>2
      <4>4. E!ToElements(X, source) = [p \in 1..(n - 1) |-> E!Segment(X[p])]
        BY <2>6, <3>3, <4>2, <4>3, Zenon
      <4> QED BY <4>4 DEF X, C
    <3>5. Len(event) = n /\ Len(event) > 1
      BY <2>5, <3>1
    <3>6. event[1].type = "reply"
      <4>1. event[1] = E!Segment(es[r]) /\ es[r].k = "reply"
        BY <2>1, <2>2, <2>4, <2>5 DEF E!Replies
      <4>2. E!Segment(es[r]) = [type |-> "reply", data |-> E!Pair("id", es[r].v)]
        BY <4>1, SegmentIs
      <4> QED BY <4>1, <4>2
    <3>7. event[2].type = "at"
      <4>1. event[2] = E!Segment(es[to(2)]) /\ es[to(2)].k = "at"
        BY <1>1, <2>2, <2>3, <2>5, <3>1
      <4>2. E!Segment(es[to(2)]) = [type |-> "at", data |-> E!Pair("qq", es[to(2)].v)]
        BY <4>1, SegmentIs
      <4> QED BY <4>1, <4>2
    <3>8. /\ DOMAIN E!RemoveAt(event, 2) = 1..(n - 1) /\ Len(E!RemoveAt(event, 2)) = n - 1
          /\ \A p \in 1..(n - 1) : E!RemoveAt(event, 2)[p] = event[IF p < 2 THEN p ELSE p + 1]
      <4> DEFINE S == {event[p] : p \in 1..n}
                 before == SubSeq(event, 1, 1)
                 after == SubSeq(event, 3, n)
      <4>1. \A p \in 1..n : event[p] \in S
        OBVIOUS
      <4> HIDE DEF S
      <4>2. before \in Seq(S) /\ Len(before) = 1 /\ before[1] = event[1]
        <5>1. \A p \in 1..1 : event[p] \in S
          BY <3>1, <4>1
        <5>2. 1 \in Int
          OBVIOUS
        <5>3. /\ before \in Seq(S) /\ Len(before) = IF 1 <= 1 THEN 1 - 1 + 1 ELSE 0
              /\ \A p \in 1..1 - 1 + 1 : before[p] = event[1 + p - 1]
          BY <5>1, <5>2, SubSeqProperties
        <5> QED BY <5>3
      <4>3. /\ after \in Seq(S) /\ Len(after) = n - 2
            /\ \A p \in 1..(n - 2) : after[p] = event[p + 2]
        <5>1. \A p \in 3..n : event[p] \in S
          BY <4>1
        <5>2. 3 \in Int /\ n \in Int
          OBVIOUS
        <5>3. /\ after \in Seq(S) /\ Len(after) = IF 3 <= n THEN n - 3 + 1 ELSE 0
              /\ \A p \in 1..n - 3 + 1 : after[p] = event[3 + p - 1]
          BY <5>1, <5>2, SubSeqProperties
        <5>4. Len(after) = n - 2
          BY <3>1, <5>3
        <5>5. ASSUME NEW p \in 1..(n - 2) PROVE after[p] = event[p + 2]
          <6>1. p \in 1..n - 3 + 1 /\ 3 + p - 1 = p + 2
            OBVIOUS
          <6> QED BY <5>3, <6>1
        <5> QED BY <5>3, <5>4, <5>5
      <4>4. E!RemoveAt(event, 2) = before \o after
        <5>1. E!RemoveAt(event, 2) = SubSeq(event, 1, 2 - 1) \o SubSeq(event, 2 + 1, Len(event))
          BY Zenon DEF E!RemoveAt
        <5>2. 2 - 1 = 1 /\ 2 + 1 = 3
          OBVIOUS
        <5> QED BY <3>5, <5>1, <5>2
      <4> HIDE DEF before, after
      <4>n. n - 2 \in Nat
        BY <3>1
      <4>5. /\ before \o after \in Seq(S) /\ Len(before \o after) = Len(before) + Len(after)
            /\ \A p \in 1..Len(before) + Len(after) :
                  (before \o after)[p] = IF p <= Len(before) THEN before[p] ELSE after[p - Len(before)]
        <5>1. before \in Seq(S) /\ after \in Seq(S)
          BY <4>2, <4>3
        <5> QED BY ONLY <5>1, ConcatProperties, Zenon
      <4>6. Len(before \o after) = n - 1 /\ DOMAIN (before \o after) = 1..(n - 1)
        <5>1. Len(before) + Len(after) = n - 1
          BY <4>2, <4>3
        <5> QED BY <4>5, <5>1
      <4>7. ASSUME NEW p \in 1..(n - 1)
            PROVE  (before \o after)[p] = event[IF p < 2 THEN p ELSE p + 1]
        <5>1. (before \o after)[p] = IF p <= 1 THEN before[p] ELSE after[p - 1]
          <6>1. Len(before) = 1 /\ p \in 1..Len(before) + Len(after)
            BY <4>2, <4>3
          <6> QED BY <4>5, <6>1
        <5>2. CASE p = 1
          BY <4>2, <5>1, <5>2
        <5>3. CASE p # 1
          <6>1. p - 1 \in 1..(n - 2) /\ (p - 1) + 2 = p + 1 /\ ~(p <= 1) /\ ~(p < 2)
            BY <5>3
          <6>2. after[p - 1] = event[p + 1]
            BY <4>3, <6>1
          <6> QED BY <5>1, <6>1, <6>2
        <5> QED BY <5>2, <5>3
      <4> QED BY <4>4, <4>6, <4>7
    <3>9. \A p \in 1..(n - 1) : E!Kept(E!RemoveAt(event, 2)[p], list[p], got.source)
      <4> SUFFICES ASSUME NEW p \in 1..(n - 1)
                   PROVE  E!Kept(E!RemoveAt(event, 2)[p], list[p], got.source)
        OBVIOUS
      <4> DEFINE q == IF p < 2 THEN p ELSE p + 1
      <4>1. q \in 1..n
        OBVIOUS
      <4>2. E!RemoveAt(event, 2)[p] = event[q] /\ list[p] = E!Segment(C[q])
        BY <3>2, <3>4, <3>8
      <4> HIDE DEF q
      <4>3. event[q] = E!Segment(es[to(q)]) /\ C[q] = t[to(q)]
        BY <2>3, <2>5, <4>1
      <4> QED BY <1>1, <2>2, <4>1, <4>2, <4>3
    <3>10. Len(list) = n - 1 /\ DOMAIN list = 1..(n - 1)
      BY <3>2, <3>4
    <3> QED BY <3>1, <3>5, <3>6, <3>7, <3>8, <3>9, <3>10 DEF E!Aligned
  <2> QED BY <2>9, <2>10
<1> QED BY <1>4, <1>5

-----------------------------------------------------------------------------
(* Receiving: what was reported and stored is of a message received, whose  *)
(* videos are known; and what get_msg showed is of what is stored.          *)

Sound(e, source) ==
    /\ e.k \in E!Kinds
    /\ e.k = "at" => e.v # None
    /\ e.k \in E!Images => ImageSound(e, source)
    /\ e.k = "dice" => e.v \in 0..6
    /\ e.k = "rps" => e.v \in 0..2
    /\ VideoIsKnown(e)

LEMMA EachBecomes ==
    ASSUME NEW e, NEW source, Sound(e, source), E!ElementsAssumption, settings = {}
    PROVE  \E u : BackAs(e, source) = <<u>> /\ Becomes(e, u, source)
<1>1. None \notin {"flash", "show", "sticker"}
  BY DEF E!ElementsAssumption
<1>2. CASE e.k \in {"text", "marketface", "lightapp", "face", "sticker", "dice", "rps", "file"}
  <2>1. PICK t : E!Convert(E!Content(e), source) = <<t>> /\ Becomes(e, t, source)
    BY <1>1, <1>2, PlainBecomes DEF Sound
  <2> QED BY <2>1, BackAsConverted, Zenon
<1>3. CASE e.k \in {"redbag", "forward", "voice", "reply", "at"}
  <2>1. e.k = "at" => e.v # None
    BY DEF Sound
  <2> QED BY <1>1, <1>3, <2>1, KnownBecomes, Zenon
<1>4. CASE e.k \in {"video", "xml", "jsonservice"}
  <2>1. VideoIsKnown(e)
    BY DEF Sound
  <2> QED BY <1>4, <2>1, OtherBecomes
<1>5. CASE e.k \in E!Images
  <2>1. ImageSound(e, source)
    BY <1>5 DEF Sound
  <2> QED BY <1>1, <1>5, <2>1, ImageBecomes, Zenon
<1> QED BY <1>2, <1>3, <1>4, <1>5 DEF Sound, E!Kinds, E!Images

Reported(m) == E!DropAt(E!Renamed(m.elems))
VideosKnown(m) == \A i \in DOMAIN m.elems :
    m.elems[i].k = "video" => <<"video", <<"hash", m.elems[i].v[2]>>>> \in cached

LEMMA ReportedSound ==
    ASSUME E!ReceivedAssumption, NEW m, m \in {Received[n] : n \in DOMAIN Received}, VideosKnown(m),
           NEW D, D = Reported(m)
    PROVE  \E k \in Nat :
              /\ DOMAIN D = 1..k /\ D = [i \in 1..k |-> D[i]]
              /\ \A i \in 1..k : Sound(D[i], m.source)
              /\ \A i \in E!Replies(D) :
                    /\ E!Replies(D) = {i}
                    /\ i = 1 \/ D[i].v \in DOMAIN KnownReplies
                    /\ m.source = "guild" => D[i].v \notin DOMAIN KnownReplies
<1> DEFINE es == m.elems
           N == Len(es)
           rs == E!Renamed(es)
           keep == (1..N) \ E!Dropped(rs)
<1>1. /\ N \in Nat /\ DOMAIN es = 1..N
      /\ \A i \in 1..N : /\ es[i].k \in E!Kinds
                         /\ es[i].k = "at" => es[i].v # None
                         /\ es[i].k \in E!Images => ImageSound(es[i], m.source)
                         /\ es[i].k = "dice" => es[i].v \in 0..6
                         /\ es[i].k = "rps" => es[i].v \in 0..2
      /\ \A i \in E!Replies(es) : /\ E!Replies(es) = {i}
                                  /\ i = 1 \/ es[i].v \in DOMAIN KnownReplies
                                  /\ m.source = "guild" => es[i].v \notin DOMAIN KnownReplies
  <2>1. PICK n \in DOMAIN Received : m = Received[n]
    OBVIOUS
  <2> QED BY <2>1 DEF E!ReceivedAssumption, ImageSound
<1> HIDE DEF es, N
<1>2. /\ DOMAIN rs = 1..N
      /\ \A i \in 1..N : rs[i] = IF es[i].k = "video" THEN E!E("video", <<"hash", es[i].v[2]>>, "url")
                                 ELSE es[i]
  BY <1>1 DEF E!Renamed
<1> HIDE DEF rs
<1>3. ASSUME NEW i \in 1..N PROVE Sound(rs[i], m.source) /\ (rs[i].k = "reply" => rs[i] = es[i])
  <2>1. CASE es[i].k = "video"
    <3>1. rs[i].k = "video" /\ rs[i].v = <<"hash", es[i].v[2]>>
      BY <1>2, <2>1 DEF E!E
    <3>2. <<"video", <<"hash", es[i].v[2]>>>> \in cached
      BY <1>1, <2>1 DEF VideosKnown, es
    <3> QED BY <3>1, <3>2 DEF Sound, VideoIsKnown, E!Kinds, E!Images
  <2>2. CASE es[i].k # "video"
    BY <1>1, <1>2, <2>2 DEF Sound, VideoIsKnown
  <2> QED BY <2>1, <2>2
<1>4. D = E!Those(rs, keep)
  BY <1>2, Zenon DEF Reported, E!DropAt, rs, es
<1>5. keep \in SUBSET (1..N) /\ (1 \in keep <=> 1 \in 1..N)
  <2>1. 1 \notin E!Dropped(rs)
    BY DEF E!Dropped
  <2> QED BY <2>1
<1> HIDE DEF keep
<1> DEFINE k == Cardinality(keep)
<1>6. /\ k \in Nat /\ DOMAIN D = 1..k
      /\ \A p \in 1..k : \E i \in keep : E!Place(keep, i) = p /\ D[p] = rs[i]
  <2>1. N \in Nat
    BY <1>1
  <2>2. /\ k \in Nat /\ DOMAIN E!Those(rs, keep) = 1..k
        /\ \A p \in 1..k : \E i \in keep : E!Place(keep, i) = p /\ E!Those(rs, keep)[p] = rs[i]
    BY <1>5, <2>1, ThoseAre
  <2> QED BY <1>4, <2>2, Zenon
<1>7. D = [i \in 1..k |-> D[i]]
  <2>1. D = [p \in 1..E!Cardinality(keep) |-> rs[CHOOSE i \in keep : E!Place(keep, i) = p]]
    BY <1>4, Zenon DEF E!Those
  <2> QED BY <1>6, <2>1
<1>8. /\ \A i \in keep : E!Place(keep, i) \in 1..k
      /\ \A i, j \in keep : i < j => E!Place(keep, i) < E!Place(keep, j)
      /\ \A p \in 1..k : \E i \in keep : E!Place(keep, i) = p
  <2>1. N \in Nat
    BY <1>1
  <2> QED BY <1>5, <2>1, Places
<1> HIDE DEF k
<1>9. \A p \in 1..k : Sound(D[p], m.source)
  BY <1>3, <1>5, <1>6
<1>10. ASSUME 1 \in keep PROVE E!Place(keep, 1) = 1
  <2>1. E!Place(keep, 1) \in 1..k
    BY <1>8, <1>10
  <2>2. 1 \in 1..k
    BY <1>6, <2>1
  <2>3. PICK j \in keep : E!Place(keep, j) = 1
    BY <1>8, <2>2
  <2>4. ~(1 < j)
    BY <1>6, <1>8, <1>10, <2>1, <2>3
  <2>5. j = 1
    BY <1>1, <1>5, <2>4
  <2> QED BY <2>3, <2>5
<1>11. ASSUME NEW p \in E!Replies(D)
       PROVE  \E i \in keep : /\ E!Replies(es) = {i} /\ p = E!Place(keep, i) /\ D[p] = es[i]
  <2>1. p \in 1..k /\ D[p].k = "reply"
    BY <1>6 DEF E!Replies
  <2>2. PICK i \in keep : E!Place(keep, i) = p /\ D[p] = rs[i]
    BY <1>6, <2>1
  <2>3. rs[i] = es[i] /\ i \in 1..N
    BY <1>3, <1>5, <2>1, <2>2
  <2>4. i \in E!Replies(es)
    BY <1>1, <2>1, <2>2, <2>3 DEF E!Replies
  <2> QED BY <1>1, <2>2, <2>3, <2>4
<1>12. ASSUME NEW p \in E!Replies(D)
       PROVE  /\ E!Replies(D) = {p}
              /\ p = 1 \/ D[p].v \in DOMAIN KnownReplies
              /\ m.source = "guild" => D[p].v \notin DOMAIN KnownReplies
  <2>1. PICK i \in keep : E!Replies(es) = {i} /\ p = E!Place(keep, i) /\ D[p] = es[i]
    BY <1>11
  <2>2. \A q \in E!Replies(D) : q = p
    BY <1>11, <2>1
  <2>3. i = 1 => p = 1
    BY <1>10, <2>1
  <2>4. /\ i = 1 \/ es[i].v \in DOMAIN KnownReplies
        /\ m.source = "guild" => es[i].v \notin DOMAIN KnownReplies
    BY <1>1, <2>1
  <2> QED BY <2>1, <2>2, <2>3, <2>4
<1> QED BY <1>6, <1>7, <1>9, <1>12

ShownInv ==
    /\ got # None =>
         \E n \in DOMAIN Received :
             /\ got = [source |-> Received[n].source,
                       event |-> E!ToElements(Reported(Received[n]), Received[n].source),
                       content |-> E!ToMessageContent(Reported(Received[n]))]
             /\ VideosKnown(Received[n])
    /\ shown # None =>
         /\ got # None
         /\ shown = E!ToElements(E!DropAt(E!ConvertElements(got.content, got.source)), got.source)

LEMMA ShownSame ==
    ASSUME E!ElementsAssumption, E!ReceivedAssumption, ShownInv, settings = {}
    PROVE  E!ShownAsReported
<1> SUFFICES ASSUME shown # None
             PROVE  Corresponds(got.source, got.event, shown)
  <2>1. \A event : event \in E!Expected(event)
    BY Zenon DEF E!Expected
  <2> QED BY <2>1, Zenon DEF E!ShownAsReported, Corresponds
<1>1. PICK n \in DOMAIN Received :
             /\ got = [source |-> Received[n].source,
                       event |-> E!ToElements(Reported(Received[n]), Received[n].source),
                       content |-> E!ToMessageContent(Reported(Received[n]))]
             /\ VideosKnown(Received[n])
  BY DEF ShownInv
<1> DEFINE m == Received[n]
           D == Reported(m)
           source == m.source
           event == E!ToElements(D, source)
<1>2. got.source = source /\ got.event = event /\ got.content = E!ToMessageContent(D)
  BY <1>1
<1>3. shown = E!ToElements(E!DropAt(E!ConvertElements(E!ToMessageContent(D), source)), source)
  BY <1>2, Zenon DEF ShownInv
<1>4. m \in {Received[i] : i \in DOMAIN Received} /\ VideosKnown(m)
  BY <1>1
<1> HIDE DEF m, event
<1>5. PICK k \in Nat :
         /\ DOMAIN D = 1..k /\ D = [i \in 1..k |-> D[i]]
         /\ \A i \in 1..k : Sound(D[i], source)
         /\ \A i \in E!Replies(D) :
               /\ E!Replies(D) = {i}
               /\ i = 1 \/ D[i].v \in DOMAIN KnownReplies
               /\ source = "guild" => D[i].v \notin DOMAIN KnownReplies
  BY <1>4, ReportedSound, Zenon
<1> DEFINE t == [i \in 1..k |-> CHOOSE u : BackAs(D[i], source) = <<u>> /\ Becomes(D[i], u, source)]
<1>6. ASSUME NEW i \in 1..k PROVE BackAs(D[i], source) = <<t[i]>> /\ Becomes(D[i], t[i], source)
  <2>1. \E u : BackAs(D[i], source) = <<u>> /\ Becomes(D[i], u, source)
    BY <1>5, EachBecomes, Zenon
  <2>2. t[i] = CHOOSE u : BackAs(D[i], source) = <<u>> /\ Becomes(D[i], u, source)
    OBVIOUS
  <2> QED BY <2>1, <2>2, Zenon
<1>7. DOMAIN t = 1..k /\ t = [i \in 1..k |-> t[i]]
  OBVIOUS
<1> HIDE DEF t, D, source
<1>8. Matched(k, D, t, source)
  BY <1>5, <1>6, <1>7 DEF Matched, Sound
<1>9. E!ConvertElements(E!ToMessageContent(D), source) = Moved(t)
  BY <1>8, ConvertedBack, Zenon
<1>10. RemoveReplyAt \in BOOLEAN
  BY DEF E!ElementsAssumption
<1>11. Corresponds(source, E!ToElements(D, source), E!ToElements(E!DropAt(Moved(t)), source))
  BY <1>2, <1>8, <1>10, ShownAligned, Zenon
<1> QED BY <1>2, <1>3, <1>9, <1>11, Zenon DEF event

LEMMA InitShownInv == E!Init => ShownInv
BY DEF E!Init, ShownInv

\* A segment is converted as before while files and caches are as before.
LEMMA ConvertUnchanged ==
    ASSUME UNCHANGED <<settings, cached, fetched, remote, got>>
    PROVE  E!ConvertElements(got.content, got.source)' = E!ConvertElements(got.content, got.source)
<1>1. \A seg, source : E!ImageElement(seg, source)' = E!ImageElement(seg, source)
  BY Zenon DEF E!ImageElement
<1>2. \A seg : E!VideoElement(seg)' = E!VideoElement(seg)
  BY Zenon DEF E!VideoElement
<1>3. \A seg : E!VoiceElement(seg)' = E!VoiceElement(seg)
  BY Zenon DEF E!VoiceElement
<1>4. \A seg, source : E!Card(seg, source)' = E!Card(seg, source)
  BY <1>1, Zenon DEF E!Card
<1>5. \A seg, source : E!Convert(seg, source)' = E!Convert(seg, source)
  <2>1. \A seg : E!Texts(seg)' = E!Texts(seg)
    BY Zenon DEF E!Texts
  <2> QED BY <1>1, <1>2, <1>3, <1>4, <2>1, Zenon DEF E!Convert
<1>6. \A seg : E!Instead(seg)' = E!Instead(seg)
  BY Zenon DEF E!Instead
<1> QED BY <1>5, <1>6, Zenon DEF E!ConvertElements

LEMMA NextShownInv ==
    ASSUME ShownInv, [E!Next]_(E!vars)
    PROVE  ShownInv'
<1>1. ASSUME UNCHANGED <<settings, cached, fetched, remote, got, shown>> PROVE ShownInv'
  <2>1. E!ConvertElements(got.content, got.source)' = E!ConvertElements(got.content, got.source)
    BY <1>1, ConvertUnchanged
  <2> QED BY <1>1, <2>1 DEF ShownInv, VideosKnown
<1>2. ASSUME NEW n \in DOMAIN Received, E!Receive(Received[n]) PROVE ShownInv'
  <2> DEFINE m == Received[n]
  <2>1. /\ got' = [source |-> m.source, event |-> E!ToElements(Reported(m), m.source),
                   content |-> E!ToMessageContent(Reported(m))]
        /\ shown' = None
    BY <1>2, Zenon DEF E!Receive, Reported
  <2>2. VideosKnown(m)'
    <3>1. {<<"video", <<"hash", f[2]>>>> : f \in {m.elems[i].v : i \in
              {j \in DOMAIN m.elems : m.elems[j].k \in {"video"}}}} \subseteq cached'
      BY <1>2 DEF E!Receive, E!CheckMedia
    <3> QED BY <3>1 DEF VideosKnown
  <2> HIDE DEF m
  <2> QED BY <2>1, <2>2 DEF ShownInv, m
<1>3. CASE E!GetMsg
  <2>1. /\ got # None /\ UNCHANGED <<settings, cached, fetched, remote, got>>
        /\ shown' = E!ToElements(E!DropAt(E!ConvertElements(got.content, got.source)), got.source)
    BY <1>3, Zenon DEF E!GetMsg
  <2>2. E!ConvertElements(got.content, got.source)' = E!ConvertElements(got.content, got.source)
    BY <2>1, ConvertUnchanged
  <2> QED BY <2>1, <2>2 DEF ShownInv, VideosKnown
<1>4. CASE E!Forget
  <2>1. UNCHANGED <<cached, got>> /\ shown' = None
    BY <1>4, Zenon DEF E!Forget
  <2> QED BY <2>1 DEF ShownInv, VideosKnown
<1>5. CASE \E n \in DOMAIN Outgoing : E!Send(Outgoing[n])
  <2>1. UNCHANGED <<settings, cached, fetched, remote, got, shown>>
    BY <1>5, Zenon DEF E!Send
  <2> QED BY <1>1, <2>1
<1>6. CASE \E i \in E!Uploading : E!UploadDone(i) \/ E!UploadFails(i) \/ E!UploadPanics(i)
  <2>1. UNCHANGED <<settings, cached, fetched, remote, got, shown>>
    BY <1>6, Zenon DEF E!UploadDone, E!UploadFails, E!UploadPanics
  <2> QED BY <1>1, <2>1
<1>7. CASE E!Finish \/ E!NextCall \/ UNCHANGED E!vars
  <2>1. UNCHANGED <<settings, cached, fetched, remote, got, shown>>
    BY <1>7, Zenon DEF E!Finish, E!NextCall, E!vars
  <2> QED BY <1>1, <2>1
<1> QED
  BY <1>2, <1>3, <1>4, <1>5, <1>6, <1>7 DEF E!Next

ElementInv == JobInv /\ ShownInv

LEMMA InitElementInv == E!Init => ElementInv
BY InitJobInv, InitShownInv DEF ElementInv

LEMMA NextElementInv == ElementInv /\ [E!Next]_(E!vars) => ElementInv'
BY FrontEndAssumption, NextJobInv, NextShownInv DEF ElementInv

-----------------------------------------------------------------------------
(* EventFilter: what is compiled lets pass what the rules mean, by          *)
(* induction on the levels of values inside.                                *)

RuleDepth == Len(RuleValues)

\* Level by level, Compiled and Means are what they are defined to be.
LEMMA CompiledLevels ==
    ASSUME RuleDepth \in Nat
    PROVE  \A n \in 0..RuleDepth :
               F!Compiled[n] = [op \in F!Operators |-> [v \in F!Upto(n) |->
                   F!Operator(IF n = 0 THEN <<>> ELSE F!Compiled[n - 1], op, v)]]
<1> DEFINE Level(of, n) == [op \in F!Operators |-> [v \in F!Upto(n) |-> F!Operator(of, op, v)]]
           Of(f, n) == f = [i \in 0..n |-> Level(IF i = 0 THEN <<>> ELSE f[i - 1], i)]
           none == {n \in Nat : n <= RuleDepth /\ ~\E f : Of(f, n)}
<1> HIDE DEF Level
<1>1. none = {}
  <2> SUFFICES ASSUME none # {} PROVE FALSE
    OBVIOUS
  <2>1. PICK n \in none : \A m \in none : ~(<<m, n>> \in OpToRel(<, Nat))
    <3>1. none \subseteq Nat
      OBVIOUS
    <3> HIDE DEF none
    <3> QED BY <3>1, NatLessThanWellFounded, WFMin, Zenon
  <2>2. \A m \in none : ~(m < n)
    BY <2>1 DEF OpToRel
  <2>3. CASE n = 0
    <3>1. Of([i \in 0..0 |-> Level(<<>>, 0)], 0)
      OBVIOUS
    <3> QED BY <2>3, <3>1
  <2>4. CASE n # 0
    <3>1. n - 1 \in Nat /\ n - 1 <= RuleDepth /\ n - 1 < n /\ n \in Nat
      BY <2>4
    <3>2. PICK f : Of(f, n - 1)
      BY <2>2, <3>1
    <3> DEFINE g == [i \in 0..n |-> IF i = n THEN Level(f[n - 1], n) ELSE f[i]]
    <3>3. \A i \in 0..(n - 1) : f[i] = Level(IF i = 0 THEN <<>> ELSE f[i - 1], i)
      BY <3>2
    <3>4. ASSUME NEW i \in 0..n
          PROVE  g[i] = Level(IF i = 0 THEN <<>> ELSE g[i - 1], i)
      BY <2>4, <3>1, <3>3
    <3>5. Of(g, n)
      BY <3>4
    <3> QED BY <3>5
  <2> QED BY <2>3, <2>4
<1>2. \E f : Of(f, RuleDepth)
  <2>1. RuleDepth \in Nat /\ RuleDepth <= RuleDepth
    OBVIOUS
  <2>2. RuleDepth \notin none
    <3> HIDE DEF none
    <3> QED BY <1>1
  <2> QED BY <2>1, <2>2
<1> DEFINE f == CHOOSE f : Of(f, RuleDepth)
<1>3. Of(f, RuleDepth)
  BY <1>2, Zenon
<1>4. F!Compiled = f
  BY Zenon DEF F!Compiled, Level, RuleDepth
<1> HIDE DEF f
<1>5. \A n \in 0..RuleDepth : f[n] = Level(IF n = 0 THEN <<>> ELSE f[n - 1], n)
  BY <1>3
<1>6. \A n \in 0..RuleDepth : F!Compiled[n] = Level(IF n = 0 THEN <<>> ELSE F!Compiled[n - 1], n)
  BY <1>4, <1>5, Zenon
<1> QED BY <1>6 DEF Level

LEMMA MeansLevels ==
    ASSUME RuleDepth \in Nat
    PROVE  \A n \in 0..RuleDepth :
               F!Means[n] = [op \in F!Operators |-> [v \in F!Upto(n) |-> [p \in FilterPayloads |->
                   F!Meaning(IF n = 0 THEN <<>> ELSE F!Means[n - 1], op, v, p)]]]
<1> DEFINE Level(of, n) == [op \in F!Operators |-> [v \in F!Upto(n) |->
                              [p \in FilterPayloads |-> F!Meaning(of, op, v, p)]]]
           Of(f, n) == f = [i \in 0..n |-> Level(IF i = 0 THEN <<>> ELSE f[i - 1], i)]
           none == {n \in Nat : n <= RuleDepth /\ ~\E f : Of(f, n)}
<1> HIDE DEF Level
<1>1. none = {}
  <2> SUFFICES ASSUME none # {} PROVE FALSE
    OBVIOUS
  <2>1. PICK n \in none : \A m \in none : ~(<<m, n>> \in OpToRel(<, Nat))
    <3>1. none \subseteq Nat
      OBVIOUS
    <3> HIDE DEF none
    <3> QED BY <3>1, NatLessThanWellFounded, WFMin, Zenon
  <2>2. \A m \in none : ~(m < n)
    BY <2>1 DEF OpToRel
  <2>3. CASE n = 0
    <3>1. Of([i \in 0..0 |-> Level(<<>>, 0)], 0)
      OBVIOUS
    <3> QED BY <2>3, <3>1
  <2>4. CASE n # 0
    <3>1. n - 1 \in Nat /\ n - 1 <= RuleDepth /\ n - 1 < n /\ n \in Nat
      BY <2>4
    <3>2. PICK f : Of(f, n - 1)
      BY <2>2, <3>1
    <3> DEFINE g == [i \in 0..n |-> IF i = n THEN Level(f[n - 1], n) ELSE f[i]]
    <3>3. \A i \in 0..(n - 1) : f[i] = Level(IF i = 0 THEN <<>> ELSE f[i - 1], i)
      BY <3>2
    <3>4. ASSUME NEW i \in 0..n
          PROVE  g[i] = Level(IF i = 0 THEN <<>> ELSE g[i - 1], i)
      BY <2>4, <3>1, <3>3
    <3>5. Of(g, n)
      BY <3>4
    <3> QED BY <3>5
  <2> QED BY <2>3, <2>4
<1>2. \E f : Of(f, RuleDepth)
  <2>1. RuleDepth \in Nat /\ RuleDepth <= RuleDepth
    OBVIOUS
  <2>2. RuleDepth \notin none
    <3> HIDE DEF none
    <3> QED BY <1>1
  <2> QED BY <2>1, <2>2
<1> DEFINE f == CHOOSE f : Of(f, RuleDepth)
<1>3. Of(f, RuleDepth)
  BY <1>2, Zenon
<1>4. F!Means = f
  BY Zenon DEF F!Means, Level, RuleDepth
<1> HIDE DEF f
<1>5. \A n \in 0..RuleDepth : f[n] = Level(IF n = 0 THEN <<>> ELSE f[n - 1], n)
  BY <1>3
<1>6. \A n \in 0..RuleDepth : F!Means[n] = Level(IF n = 0 THEN <<>> ELSE F!Means[n - 1], n)
  BY <1>4, <1>5, Zenon
<1> QED BY <1>6 DEF Level

LEMMA PairParts == \A x, a, b : x = <<a, b>> => x[1] = a /\ x[2] = b
OBVIOUS

\* of and means agree on the values of S, where of does not panic.
Agreed(of, means, S) ==
    /\ \A op \in F!Operators : \A v \in S :
          of[op][v] # Panic =>
              /\ of[op][v] \in [FilterPayloads -> BOOLEAN]
              /\ \A p \in FilterPayloads : of[op][v][p] <=> means[op][v][p]
    /\ \A v \in S : of["eq"][v] = [p \in FilterPayloads |-> p.text = F!String(v)]

LEMMA FieldIsPayload ==
    ASSUME F!PayloadsAssumption, NEW p \in FilterPayloads, NEW x
    PROVE  F!Field(p, x) \in FilterPayloads
BY DEF F!PayloadsAssumption, F!Field

\* What is at the end of a path, step by step.
LEMMA GetIsPayload ==
    ASSUME F!PayloadsAssumption, NEW p \in FilterPayloads, NEW path, Len(path) \in Nat
    PROVE  F!Get(p, path) \in FilterPayloads
<1> DEFINE N == Len(path)
           Of(f, n) == f = [i \in 0..n |-> IF i = 0 THEN p ELSE F!Field(f[i - 1], path[i])]
           none == {n \in Nat : n <= N /\ ~\E f : Of(f, n) /\ f[n] \in FilterPayloads}
<1>0. N \in Nat
  OBVIOUS
<1> HIDE DEF N
<1>1. none = {}
  <2> SUFFICES ASSUME none # {} PROVE FALSE
    OBVIOUS
  <2>1. PICK n \in none : \A m \in none : ~(<<m, n>> \in OpToRel(<, Nat))
    <3>1. none \subseteq Nat
      OBVIOUS
    <3> HIDE DEF none
    <3> QED BY <3>1, NatLessThanWellFounded, WFMin, Zenon
  <2>2. \A m \in none : ~(m < n)
    BY <2>1 DEF OpToRel
  <2>3. CASE n = 0
    <3> DEFINE g == [i \in 0..0 |-> p]
    <3>1. Of(g, 0) /\ g[0] \in FilterPayloads
      OBVIOUS
    <3> QED BY <2>3, <3>1
  <2>4. CASE n # 0
    <3>1. n - 1 \in Nat /\ n - 1 <= N /\ n - 1 < n /\ n \in Nat
      BY <1>0, <2>4
    <3>2. PICK f : Of(f, n - 1) /\ f[n - 1] \in FilterPayloads
      BY <2>2, <3>1
    <3> DEFINE g == [i \in 0..n |-> IF i = n THEN F!Field(f[n - 1], path[n]) ELSE f[i]]
    <3>3. \A i \in 0..(n - 1) : f[i] = IF i = 0 THEN p ELSE F!Field(f[i - 1], path[i])
      BY <3>2
    <3>4. ASSUME NEW i \in 0..n
          PROVE  g[i] = IF i = 0 THEN p ELSE F!Field(g[i - 1], path[i])
      BY <2>4, <3>1, <3>3
    <3>5. Of(g, n)
      BY <3>4
    <3>6. g[n] \in FilterPayloads
      BY <3>1, <3>2, FieldIsPayload
    <3> QED BY <3>5, <3>6
  <2> QED BY <2>3, <2>4
<1>2. \E f : Of(f, N)
  <2>1. N \in Nat /\ N <= N
    BY <1>0
  <2>2. N \notin none
    <3> HIDE DEF none
    <3> QED BY <1>1
  <2> QED BY <2>1, <2>2
<1> DEFINE f == CHOOSE f : Of(f, N)
<1>3. Of(f, N)
  BY <1>2, Zenon
<1>4. F!Get(p, path) = f[N]
  BY Zenon DEF F!Get, N
<1> HIDE DEF f
<1>5. ASSUME NEW g, Of(g, N)
      PROVE  g = f
  <2> DEFINE apart == {i \in 0..N : g[i] # f[i]}
  <2>1. /\ \A i \in 0..N : g[i] = IF i = 0 THEN p ELSE F!Field(g[i - 1], path[i])
        /\ \A i \in 0..N : f[i] = IF i = 0 THEN p ELSE F!Field(f[i - 1], path[i])
    BY <1>3, <1>5
  <2>2. apart = {}
    <3> SUFFICES ASSUME apart # {} PROVE FALSE
      OBVIOUS
    <3>1. PICK i \in apart : \A m \in apart : ~(<<m, i>> \in OpToRel(<, Nat))
      <4>1. apart \subseteq Nat
        BY <1>0
      <4> HIDE DEF apart
      <4> QED BY <4>1, NatLessThanWellFounded, WFMin, Zenon
    <3>2. i \in 0..N /\ g[i] # f[i]
      BY <3>1
    <3>3. i # 0
      BY <1>0, <2>1, <3>2
    <3>4. i - 1 \in 0..N /\ i - 1 \in Nat /\ i - 1 < i /\ i \in Nat
      BY <1>0, <3>2, <3>3
    <3>5. i - 1 \notin apart
      BY <3>1, <3>4 DEF OpToRel
    <3> QED BY <2>1, <3>2, <3>3, <3>4, <3>5
  <2> QED BY <1>3, <1>5, <2>2
<1>6. N \notin none
  <2> HIDE DEF none
  <2> QED BY <1>1
<1>7. PICK g : Of(g, N) /\ g[N] \in FilterPayloads
  BY <1>0, <1>6
<1> HIDE DEF Of
<1> QED BY <1>4, <1>5, <1>7

\* An object lets pass what all its items let pass.
LEMMA ItemsAgree ==
    ASSUME F!PayloadsAssumption, NEW of, NEW means, NEW S, Agreed(of, means, S),
           NEW v, F!Named(v), v.kind = "object", F!Inside(v) \subseteq S, F!And(of, v) # Panic
    PROVE  /\ F!And(of, v) \in [FilterPayloads -> BOOLEAN]
           /\ \A p \in FilterPayloads : F!And(of, v)[p] <=> F!AllItems(means, v, p)
<1> DEFINE ops == [i \in 1..Len(v.items) |-> F!Item(of, v.items[i])]
           at(i, p) == IF ops[i][1] = <<>> THEN p ELSE F!Get(p, ops[i][1])
           item(i, p) == LET name == v.items[i][1]  value == v.items[i][2] IN
                         IF name.dot THEN means[name.op][value][p]
                         ELSE IF value.kind = "object" THEN means["and"][value][F!Get(p, name.path)]
                         ELSE F!Get(p, name.path).text = F!String(value)
<1>1. F!And(of, v) = F!AllOf(ops)
  BY Zenon DEF F!And
<1>2. /\ \A i \in 1..Len(v.items) : ops[i][2] # Panic
      /\ F!And(of, v) = [p \in FilterPayloads |-> \A i \in DOMAIN ops : ops[i][2][at(i, p)]]
  BY <1>1, Zenon DEF F!AllOf
<1>3. ASSUME NEW p \in FilterPayloads, NEW i \in 1..Len(v.items)
      PROVE  ops[i][2][at(i, p)] <=> item(i, p)
  <2> DEFINE name == v.items[i][1]
             value == v.items[i][2]
             key == IF value.kind = "object" THEN "and" ELSE "eq"
  <2>1. value \in S
    <3>1. F!Inside(v) = {v.items[j][2] : j \in 1..Len(v.items)}
      BY DEF F!Inside
    <3> QED BY <3>1
  <2>2. ops[i] = F!Item(of, v.items[i]) /\ ops[i][2] # Panic
    BY <1>2
  <2> HIDE DEF ops
  <2>3. CASE name.dot
    <3>1. ops[i] = <<<<>>, IF name.op \in F!Operators THEN of[name.op][value] ELSE Panic>>
      BY <2>2, <2>3 DEF F!Item
    <3> DEFINE judge == IF name.op \in F!Operators THEN of[name.op][value] ELSE Panic
    <3>a. ops[i] = <<<<>>, judge>>
      BY <3>1
    <3> HIDE DEF judge
    <3>b. ops[i][1] = <<>> /\ ops[i][2] = judge
      <4> DEFINE none == <<>>
      <4>1. ops[i] = <<none, judge>>
        BY <3>a
      <4> HIDE DEF none
      <4>2. ops[i][1] = none /\ ops[i][2] = judge
        BY <4>1, PairParts, Zenon
      <4> QED BY <4>2 DEF none
    <3>2. name.op \in F!Operators /\ ops[i][1] = <<>> /\ ops[i][2] = of[name.op][value]
      BY <2>2, <3>b, Zenon DEF judge
    <3>3. of[name.op][value][p] <=> means[name.op][value][p]
      BY <2>1, <2>2, <3>2, Zenon DEF Agreed
    <3> QED BY <2>3, <3>2, <3>3, Zenon
  <2>4. CASE ~name.dot
    <3>1. name.path # <<>>
      <4> SUFFICES ASSUME name.path = <<>> PROVE FALSE
        OBVIOUS
      <4>1. ops[i] = <<<<>>, Panic>>
        BY <2>2, <2>4 DEF F!Item
      <4>2. ops[i][2] = Panic
        BY <4>1, PairParts, Zenon
      <4> QED BY <2>2, <4>2, Zenon
    <3>2. ops[i] = <<name.path, of[key][value]>>
      BY <2>2, <2>4, <3>1, Zenon DEF F!Item
    <3>3. ops[i][1] = name.path /\ ops[i][2] = of[key][value]
      BY <3>2
    <3>4. at(i, p) = F!Get(p, name.path) /\ F!Get(p, name.path) \in FilterPayloads
      <4>1. Len(name.path) \in Nat
        BY <2>4 DEF F!Named
      <4>2. F!Get(p, name.path) \in FilterPayloads
        BY <4>1, GetIsPayload
      <4> QED BY <3>1, <3>3, <4>2, Zenon
    <3>5. key \in F!Operators
      BY DEF F!Operators
    <3> HIDE DEF key
    <3>6. of[key][value][F!Get(p, name.path)] <=> means[key][value][F!Get(p, name.path)]
      BY <2>1, <2>2, <3>3, <3>4, <3>5, Zenon DEF Agreed
    <3>7. ops[i][2][at(i, p)] <=> means[key][value][F!Get(p, name.path)]
      BY <3>3, <3>4, <3>6, Zenon
    <3>8. CASE value.kind = "object"
      BY <2>4, <3>7, <3>8, Zenon DEF key
    <3>9. CASE value.kind # "object"
      <4>1. key = "eq" /\ (item(i, p) <=> F!Get(p, name.path).text = F!String(value))
        BY <2>4, <3>9, Zenon DEF key
      <4>2. of["eq"][value] = [q \in FilterPayloads |-> q.text = F!String(value)]
        BY <2>1, Zenon DEF Agreed
      <4>3. of["eq"][value][F!Get(p, name.path)] <=> F!Get(p, name.path).text = F!String(value)
        BY <3>4, <4>2, Zenon
      <4> QED BY <3>3, <3>4, <4>1, <4>3, Zenon
    <3> QED BY <3>8, <3>9
  <2> QED BY <2>3, <2>4
<1> HIDE DEF at
<1>4. ASSUME NEW p \in FilterPayloads
      PROVE  F!And(of, v)[p] <=> F!AllItems(means, v, p)
  <2>1. DOMAIN ops = 1..Len(v.items)
    OBVIOUS
  <2> HIDE DEF ops
  <2>2. F!And(of, v)[p] <=> \A i \in 1..Len(v.items) : ops[i][2][at(i, p)]
    BY <1>2, <2>1, Zenon
  <2>3. F!AllItems(means, v, p) <=> \A i \in 1..Len(v.items) : item(i, p)
    BY Zenon DEF F!AllItems
  <2> HIDE DEF item
  <2> QED BY <1>3, <2>2, <2>3, Zenon
<1>5. F!And(of, v) \in [FilterPayloads -> BOOLEAN]
  <2> HIDE DEF ops
  <2> QED BY <1>2
<1> QED BY <1>4, <1>5

\* An operator lets pass what it means, if it does so for the values inside.
Judged(of, means, S, op, v) ==
    /\ Agreed(of, means, S) /\ F!Inside(v) \subseteq S /\ F!Named(v)
    /\ op \in F!Operators /\ F!Operator(of, op, v) # Panic

LEMMA OperatorAgrees ==
    ASSUME F!PayloadsAssumption, NEW of, NEW means, NEW S, NEW op, NEW v, Judged(of, means, S, op, v)
    PROVE  /\ F!Operator(of, op, v) \in [FilterPayloads -> BOOLEAN]
           /\ \A p \in FilterPayloads : F!Operator(of, op, v)[p] <=> F!Meaning(means, op, v, p)
<1> /\ Agreed(of, means, S) /\ F!Inside(v) \subseteq S /\ F!Named(v)
    /\ op \in F!Operators /\ F!Operator(of, op, v) # Panic
  BY DEF Judged
<1> DEFINE f == F!Operator(of, op, v)
<1>1. CASE op = "and"
  <2>1. f = F!And(of, v) /\ \A p : F!Meaning(means, op, v, p) <=> F!AllItems(means, v, p)
    BY <1>1 DEF F!Operator, F!Meaning
  <2> HIDE DEF f
  <2>2. f # Panic
    BY DEF f
  <2>3. v.kind = "object"
    BY <2>1, <2>2 DEF F!And
  <2>4. /\ f \in [FilterPayloads -> BOOLEAN]
        /\ \A p \in FilterPayloads : f[p] <=> F!AllItems(means, v, p)
    BY <2>1, <2>2, <2>3, ItemsAgree
  <2> QED BY <2>1, <2>4, Zenon DEF f
<1>2. CASE op = "not"
  <2>1. /\ f = F!Not(F!And(of, v))
        /\ \A p : F!Meaning(means, op, v, p)
                    <=> \E i \in 1..Len(v.items) : ~F!AllItems(means, F!Obj(<<v.items[i]>>), p)
    BY <1>2 DEF F!Operator, F!Meaning
  <2> HIDE DEF f
  <2>2. f # Panic
    BY DEF f
  <2>3. /\ F!And(of, v) # Panic
        /\ f = [p \in FilterPayloads |-> ~F!And(of, v)[p]]
    BY <2>1, <2>2, Zenon DEF F!Not
  <2>4. v.kind = "object"
    BY <2>3 DEF F!And
  <2>5. \A p \in FilterPayloads : F!And(of, v)[p] <=> F!AllItems(means, v, p)
    BY <2>3, <2>4, ItemsAgree
  <2>6. ASSUME NEW p
        PROVE  F!AllItems(means, v, p)
                 <=> \A i \in 1..Len(v.items) : F!AllItems(means, F!Obj(<<v.items[i]>>), p)
    <3> DEFINE Holds(item) ==
                 LET name == item[1]  value == item[2] IN
                 IF name.dot THEN means[name.op][value][p]
                 ELSE IF value.kind = "object" THEN means["and"][value][F!Get(p, name.path)]
                 ELSE F!Get(p, name.path).text = F!String(value)
    <3>1. \A w : F!AllItems(means, w, p) <=> \A i \in 1..Len(w.items) : Holds(w.items[i])
      BY Zenon DEF F!AllItems
    <3> HIDE DEF Holds
    <3>2. ASSUME NEW item
          PROVE  F!AllItems(means, F!Obj(<<item>>), p) <=> Holds(item)
      <4> DEFINE w == F!Obj(<<item>>)
      <4>1. w.items = <<item>>
        BY DEF F!Obj
      <4> HIDE DEF w
      <4>2. \A i \in 1..Len(w.items) : w.items[i] = item /\ 1 \in 1..Len(w.items)
        BY <4>1
      <4>3. 1 \in 1..Len(w.items)
        BY <4>1
      <4>4. F!AllItems(means, w, p) <=> Holds(item)
        BY <3>1, <4>2, <4>3, Zenon
      <4> QED BY <4>4 DEF w
    <3> QED BY <3>1, <3>2, Zenon
  <2>7. \A p \in FilterPayloads : f[p] <=> F!Meaning(means, op, v, p)
    BY <2>1, <2>3, <2>5, <2>6, Zenon
  <2>8. f \in [FilterPayloads -> BOOLEAN]
    BY <2>3
  <2> QED BY <2>7, <2>8 DEF f
<1>3. CASE op = "or"
  <2> DEFINE ops == [i \in 1..Len(v.items) |-> of["and"][v.items[i]]]
  <2>1. /\ f = F!Or(of, v)
        /\ \A p : F!Meaning(means, op, v, p)
                    <=> \E i \in 1..Len(v.items) : means["and"][v.items[i]][p]
    BY <1>3 DEF F!Operator, F!Meaning
  <2> HIDE DEF f
  <2>2. f # Panic
    BY DEF f
  <2>3. v.kind = "array" /\ f = F!AnyOf(ops)
    BY <2>1, <2>2, Zenon DEF F!Or
  <2>4. DOMAIN ops = 1..Len(v.items) /\ \A i \in 1..Len(v.items) : ops[i] = of["and"][v.items[i]]
    OBVIOUS
  <2> HIDE DEF ops
  <2>5. /\ \A i \in 1..Len(v.items) : ops[i] # Panic
        /\ f = [p \in FilterPayloads |-> \E i \in 1..Len(v.items) : ops[i][p]]
    BY <2>2, <2>3, <2>4, Zenon DEF F!AnyOf
  <2>6. ASSUME NEW i \in 1..Len(v.items), NEW p \in FilterPayloads
        PROVE  ops[i][p] <=> means["and"][v.items[i]][p]
    <3>1. v.items[i] \in S
      <4>1. F!Inside(v) = {v.items[j] : j \in 1..Len(v.items)}
        BY <2>3 DEF F!Inside
      <4> QED BY <4>1
    <3>2. of["and"][v.items[i]] # Panic /\ "and" \in F!Operators
      BY <2>4, <2>5 DEF F!Operators
    <3>3. of["and"][v.items[i]][p] <=> means["and"][v.items[i]][p]
      BY <3>1, <3>2, Zenon DEF Agreed
    <3> QED BY <2>4, <3>3, Zenon
  <2>7. \A p \in FilterPayloads : f[p] <=> F!Meaning(means, op, v, p)
    BY <2>1, <2>5, <2>6, Zenon
  <2>8. f \in [FilterPayloads -> BOOLEAN]
    BY <2>5
  <2> QED BY <2>7, <2>8 DEF f
<1>4. CASE op = "eq"
  <2>1. /\ f = [p \in FilterPayloads |-> p.text = F!String(v)]
        /\ \A p : F!Meaning(means, op, v, p) <=> p.text = F!String(v)
    BY <1>4 DEF F!Operator, F!Meaning
  <2> HIDE DEF f
  <2>2. f \in [FilterPayloads -> BOOLEAN]
    BY <2>1
  <2>3. \A p \in FilterPayloads : f[p] <=> F!Meaning(means, op, v, p)
    BY <2>1, Zenon
  <2> QED BY <2>2, <2>3 DEF f
<1>5. CASE op = "neq"
  <2>1. /\ f = [p \in FilterPayloads |-> p.text # F!String(v)]
        /\ \A p : F!Meaning(means, op, v, p) <=> p.text # F!String(v)
    BY <1>5 DEF F!Operator, F!Meaning
  <2> HIDE DEF f
  <2>2. f \in [FilterPayloads -> BOOLEAN]
    BY <2>1
  <2>3. \A p \in FilterPayloads : f[p] <=> F!Meaning(means, op, v, p)
    BY <2>1, Zenon
  <2> QED BY <2>2, <2>3 DEF f
<1>6. CASE op = "in"
  <2>1. f = F!In(v)
    BY <1>6 DEF F!Operator
  <2> HIDE DEF f
  <2>2. v.kind # "object"
    <3>1. f # Panic
      BY DEF f
    <3> QED BY <2>1, <3>1 DEF F!In
  <2>3. CASE v.kind = "array"
    <3>1. /\ f = [p \in FilterPayloads |-> \E i \in 1..Len(v.items) : p.text = F!String(v.items[i])]
          /\ \A p : F!Meaning(means, op, v, p)
                      <=> \E i \in 1..Len(v.items) : p.text = F!String(v.items[i])
      BY <1>6, <2>1, <2>3 DEF F!In, F!Meaning
    <3>2. f \in [FilterPayloads -> BOOLEAN]
      BY <3>1
    <3>3. \A p \in FilterPayloads : f[p] <=> F!Meaning(means, op, v, p)
      BY <3>1, Zenon
    <3> QED BY <3>2, <3>3 DEF f
  <2>4. CASE v.kind # "array"
    <3>1. /\ f = [p \in FilterPayloads |-> F!Contains(v.text, p.text)]
          /\ \A p : F!Meaning(means, op, v, p) <=> F!Contains(v.text, p.text)
      BY <1>6, <2>1, <2>2, <2>4 DEF F!In, F!Meaning
    <3>2. \A p : F!Contains(v.text, p.text) \in BOOLEAN
      BY DEF F!Contains
    <3>3. f \in [FilterPayloads -> BOOLEAN]
      BY <3>1, <3>2
    <3>4. \A p \in FilterPayloads : f[p] <=> F!Meaning(means, op, v, p)
      BY <3>1, Zenon
    <3> QED BY <3>3, <3>4 DEF f
  <2> QED BY <2>3, <2>4
<1>7. CASE op = "contains"
  <2>1. /\ f = IF v.kind # "scalar" THEN Panic ELSE [p \in FilterPayloads |-> F!Contains(p.text, v.text)]
        /\ \A p : F!Meaning(means, op, v, p) <=> F!Contains(p.text, v.text)
    BY <1>7 DEF F!Operator, F!Meaning
  <2> HIDE DEF f
  <2>2. f = [p \in FilterPayloads |-> F!Contains(p.text, v.text)]
    BY <2>1 DEF f
  <2>3. \A p : F!Contains(p.text, v.text) \in BOOLEAN
    BY DEF F!Contains
  <2>4. f \in [FilterPayloads -> BOOLEAN]
    BY <2>2, <2>3
  <2>5. \A p \in FilterPayloads : f[p] <=> F!Meaning(means, op, v, p)
    BY <2>1, <2>2, Zenon
  <2> QED BY <2>4, <2>5 DEF f
<1>8. CASE op = "regex"
  <2>1. /\ f = F!Regex(v)
        /\ \A p : F!Meaning(means, op, v, p) <=> p.text \in Matches[v.text]
    BY <1>8 DEF F!Operator, F!Meaning
  <2> HIDE DEF f
  <2>2. f # Panic
    BY DEF f
  <2>3. f = [p \in FilterPayloads |-> p.text \in Matches[v.text]]
    BY <2>1, <2>2 DEF F!Regex
  <2>4. f \in [FilterPayloads -> BOOLEAN]
    BY <2>3
  <2>5. \A p \in FilterPayloads : f[p] <=> F!Meaning(means, op, v, p)
    BY <2>1, <2>3, Zenon
  <2> QED BY <2>4, <2>5 DEF f
<1> QED BY <1>1, <1>2, <1>3, <1>4, <1>5, <1>6, <1>7, <1>8 DEF F!Operators

\* The values inside a value with n levels have fewer.
LEMMA InsideIsLower ==
    ASSUME F!RulesAssumption, NEW n \in 1..RuleDepth, NEW v \in F!Upto(n)
    PROVE  F!Inside(v) \subseteq F!Upto(n - 1) /\ F!Named(v)
<1>1. n # 0
  OBVIOUS
<1>2. v \in RuleValues[n]
  BY <1>1 DEF F!Upto
<1> QED BY <1>2 DEF F!RulesAssumption, RuleDepth

LEMMA LevelsAgree ==
    ASSUME F!RulesAssumption, F!PayloadsAssumption
    PROVE  \A n \in 0..RuleDepth : Agreed(F!Compiled[n], F!Means[n], F!Upto(n))
<1>1. RuleDepth \in Nat
  BY DEF F!RulesAssumption, RuleDepth
<1> DEFINE others == {n \in 0..RuleDepth : ~Agreed(F!Compiled[n], F!Means[n], F!Upto(n))}
<1>2. others = {}
  <2> SUFFICES ASSUME others # {} PROVE FALSE
    OBVIOUS
  <2>1. PICK n \in others : \A m \in others : ~(<<m, n>> \in OpToRel(<, Nat))
    <3>1. others \subseteq Nat
      BY <1>1
    <3> HIDE DEF others
    <3> QED BY <3>1, NatLessThanWellFounded, WFMin, Zenon
  <2>a. others \subseteq 0..RuleDepth /\ ~Agreed(F!Compiled[n], F!Means[n], F!Upto(n))
    BY <2>1, Zenon
  <2>b. \A m \in 0..RuleDepth : m \notin others =>
            Agreed(F!Compiled[m], F!Means[m], F!Upto(m))
    BY Zenon
  <2> HIDE DEF others
  <2>2. n \in 0..RuleDepth /\ ~Agreed(F!Compiled[n], F!Means[n], F!Upto(n)) /\ n \in Nat
    <3>1. n \in 0..RuleDepth /\ ~Agreed(F!Compiled[n], F!Means[n], F!Upto(n))
      BY <2>1, <2>a, Zenon
    <3>2. n \in Nat
      BY <1>1, <3>1
    <3> QED BY <3>1, <3>2, Zenon
  <2>3. ASSUME NEW m \in others PROVE ~(m < n)
    <3>1. m \in 0..RuleDepth
      BY <2>a, Zenon
    <3>2. m \in Nat /\ n \in Nat
      BY <1>1, <2>2, <3>1
    <3>3. <<m, n>> \notin OpToRel(<, Nat)
      BY <2>1, Zenon
    <3> QED BY ONLY <3>2, <3>3 DEF OpToRel
  <2> DEFINE of == IF n = 0 THEN <<>> ELSE F!Compiled[n - 1]
             means == IF n = 0 THEN <<>> ELSE F!Means[n - 1]
             S == F!Upto(n - 1)
  <2>4. /\ F!Compiled[n] = [op \in F!Operators |-> [v \in F!Upto(n) |-> F!Operator(of, op, v)]]
        /\ F!Means[n] = [op \in F!Operators |-> [v \in F!Upto(n) |->
                            [p \in FilterPayloads |-> F!Meaning(means, op, v, p)]]]
    BY <1>1, <2>2, CompiledLevels, MeansLevels, Zenon
  <2>5. ASSUME n = 0 PROVE FALSE
    <3>1. F!Upto(n) = {}
      BY <2>5 DEF F!Upto
    <3> QED BY <2>2, <3>1 DEF Agreed
  <2>6. n \in 1..RuleDepth /\ n - 1 \in 0..RuleDepth /\ n - 1 < n
    BY <1>1, <2>2, <2>5
  <2>7. Agreed(of, means, S)
    <3>1. Agreed(F!Compiled[n - 1], F!Means[n - 1], F!Upto(n - 1))
      BY <2>3, <2>6, <2>b
    <3> QED BY <2>5, <3>1, Zenon
  <2> HIDE DEF of, means, S
  <2>8. \A v \in F!Upto(n) : F!Inside(v) \subseteq S /\ F!Named(v)
    BY <2>6, InsideIsLower DEF S
  <2>9. ASSUME NEW op \in F!Operators, NEW v \in F!Upto(n)
        PROVE  /\ F!Compiled[n][op][v] = F!Operator(of, op, v)
               /\ \A p \in FilterPayloads : F!Means[n][op][v][p] = F!Meaning(means, op, v, p)
    <3>1. F!Compiled[n][op] = [w \in F!Upto(n) |-> F!Operator(of, op, w)]
      BY <2>4, Zenon
    <3>2. F!Means[n][op] = [w \in F!Upto(n) |-> [p \in FilterPayloads |-> F!Meaning(means, op, w, p)]]
      BY <2>4, Zenon
    <3>3. F!Means[n][op][v] = [p \in FilterPayloads |-> F!Meaning(means, op, v, p)]
      BY <3>2, Zenon
    <3> QED BY <3>1, <3>3, Zenon
  <2>10. ASSUME NEW op \in F!Operators, NEW v \in F!Upto(n), F!Compiled[n][op][v] # Panic
         PROVE  /\ F!Compiled[n][op][v] \in [FilterPayloads -> BOOLEAN]
                /\ \A p \in FilterPayloads : F!Compiled[n][op][v][p] <=> F!Means[n][op][v][p]
    <3>1. Judged(of, means, S, op, v)
      BY <2>7, <2>8, <2>9, <2>10, Zenon DEF Judged
    <3>2. /\ F!Operator(of, op, v) \in [FilterPayloads -> BOOLEAN]
          /\ \A p \in FilterPayloads : F!Operator(of, op, v)[p] <=> F!Meaning(means, op, v, p)
      BY <3>1, OperatorAgrees, Zenon
    <3>3. F!Compiled[n][op][v] = F!Operator(of, op, v)
      BY <2>9, Zenon
    <3>4. F!Compiled[n][op][v] \in [FilterPayloads -> BOOLEAN]
      BY <3>2, <3>3, Zenon
    <3>5. ASSUME NEW p \in FilterPayloads
          PROVE  F!Compiled[n][op][v][p] <=> F!Means[n][op][v][p]
      <4>1. F!Compiled[n][op][v][p] <=> F!Meaning(means, op, v, p)
        BY <3>2, <3>3, Zenon
      <4>2. F!Means[n][op][v][p] = F!Meaning(means, op, v, p)
        BY <2>9, Zenon
      <4> QED BY <4>1, <4>2
    <3> QED BY <3>4, <3>5
  <2>11. ASSUME NEW v \in F!Upto(n)
         PROVE  F!Compiled[n]["eq"][v] = [p \in FilterPayloads |-> p.text = F!String(v)]
    <3>1. "eq" \in F!Operators /\ F!Operator(of, "eq", v) = [p \in FilterPayloads |-> p.text = F!String(v)]
      BY DEF F!Operators, F!Operator
    <3> QED BY <2>9, <3>1, Zenon
  <2>12. Agreed(F!Compiled[n], F!Means[n], F!Upto(n))
    BY <2>10, <2>11, Zenon DEF Agreed
  <2> QED BY <2>2, <2>12
<1> QED BY <1>2

\* A file, or what is made of a start of one.
IsFile(v) == F!Inside(v) \subseteq F!Upto(RuleDepth) /\ F!Named(v)

LEMMA GeneratedJudges ==
    ASSUME F!RulesAssumption, F!PayloadsAssumption, NEW v, IsFile(v), F!Generate(v) # Panic
    PROVE  /\ F!Generate(v) \in [FilterPayloads -> BOOLEAN]
           /\ \A e \in FilterEvents : F!Generate(v)[e] <=> F!AllItems(F!Means[RuleDepth], v, e)
<1>1. RuleDepth \in 0..RuleDepth
  BY DEF F!RulesAssumption, RuleDepth
<1>2. Agreed(F!Compiled[RuleDepth], F!Means[RuleDepth], F!Upto(RuleDepth))
  BY <1>1, LevelsAgree
<1>3. F!Generate(v) = F!And(F!Compiled[RuleDepth], v)
  BY Zenon DEF F!Generate, RuleDepth
<1>4. FilterEvents \subseteq FilterPayloads
  BY DEF F!PayloadsAssumption
<1>6. v.kind = "object"
  BY <1>3 DEF F!And
<1>5. /\ F!And(F!Compiled[RuleDepth], v) \in [FilterPayloads -> BOOLEAN]
      /\ \A p \in FilterPayloads : F!And(F!Compiled[RuleDepth], v)[p]
                                 <=> F!AllItems(F!Means[RuleDepth], v, p)
  BY <1>2, <1>3, <1>6, ItemsAgree DEF IsFile
<1> QED BY <1>3, <1>4, <1>5, Zenon

FilterInv ==
    /\ DOMAIN read = Adders /\ \A a \in Adders : read[a] # None =>
          IsFile(read[a].text) /\ (read[a].text \in RuleFiles \/ read[a].torn)
    /\ \/ filter = None /\ rules = None
       \/ /\ filter = F!Generate(rules.text) /\ filter # Panic
          /\ rules # None /\ IsFile(rules.text) /\ (rules.text \in RuleFiles \/ rules.torn)

LEMMA FilterJudges == F!RulesAssumption /\ F!PayloadsAssumption /\ FilterInv => F!JudgedByRules
<1> SUFFICES ASSUME F!RulesAssumption, F!PayloadsAssumption, FilterInv
             PROVE  F!JudgedByRules
  OBVIOUS
<1>1. ASSUME NEW e \in FilterEvents
      PROVE  F!Passes(e) <=> (rules = None \/ F!AllItems(F!Means[Len(RuleValues)], rules.text, e))
  <2>1. CASE filter = None /\ rules = None
    BY <2>1 DEF F!Passes
  <2>2. CASE /\ filter = F!Generate(rules.text) /\ filter # Panic
             /\ rules # None /\ IsFile(rules.text)
    <3>1. /\ F!Generate(rules.text) \in [FilterPayloads -> BOOLEAN]
          /\ \A x \in FilterEvents : F!Generate(rules.text)[x]
                                        <=> F!AllItems(F!Means[RuleDepth], rules.text, x)
      BY <2>2, GeneratedJudges, Zenon
    <3>2. filter # None
      BY <2>2, <3>1, Zenon DEF F!RulesAssumption
    <3>3. F!Passes(e) <=> F!Generate(rules.text)[e]
      BY <2>2, <3>2, Zenon DEF F!Passes
    <3> QED BY <2>2, <3>1, <3>3, Zenon DEF RuleDepth
  <2> QED BY <2>1, <2>2 DEF FilterInv
<1>2. rules = None \/ rules.text \in RuleFiles \/ rules.torn
  BY Zenon DEF FilterInv
<1> QED BY <1>1, <1>2, Zenon DEF F!JudgedByRules

LEMMA InitFilterInv == F!Init => FilterInv
BY DEF F!Init, FilterInv

LEMMA NextFilterInv ==
    ASSUME F!RulesAssumption, FilterInv, [F!Next]_(F!vars)
    PROVE  FilterInv'
<1>1. ASSUME NEW a \in Adders, F!ReadFile(a)
      PROVE  FilterInv'
  <2>1. PICK f \in RuleFiles :
            \/ read' = [read EXCEPT ![a] = [text |-> f, torn |-> FALSE]]
            \/ \E v \in RuleStarts[f] : read' = [read EXCEPT ![a] = [text |-> v, torn |-> TRUE]]
    BY <1>1, Zenon DEF F!ReadFile
  <2>2. UNCHANGED <<filter, rules>>
    BY <1>1 DEF F!ReadFile
  <2>3. \A v \in {f} \cup RuleStarts[f] : IsFile(v)
    BY DEF F!RulesAssumption, IsFile, RuleDepth
  <2>4. ASSUME NEW v, IsFile(v), NEW torn, v \in RuleFiles \/ torn,
               read' = [read EXCEPT ![a] = [text |-> v, torn |-> torn]]
        PROVE  FilterInv'
    <3> DEFINE w == [text |-> v, torn |-> torn]
    <3>1. w.text = v /\ w.torn = torn
      OBVIOUS
    <3> HIDE DEF w
    <3>2. read' = [read EXCEPT ![a] = w]
      BY <2>4 DEF w
    <3>3. DOMAIN read' = Adders /\ \A b \in Adders : read'[b] # None =>
             IsFile(read'[b].text) /\ (read'[b].text \in RuleFiles \/ read'[b].torn)
      <4>1. DOMAIN read = Adders /\ \A b \in Adders : read[b] # None =>
               IsFile(read[b].text) /\ (read[b].text \in RuleFiles \/ read[b].torn)
        BY Zenon DEF FilterInv
      <4>2. DOMAIN read' = Adders /\ \A b \in Adders : read'[b] = IF b = a THEN w ELSE read[b]
        BY <3>2, <4>1
      <4> QED BY <2>4, <3>1, <4>1, <4>2
    <3> QED BY <2>2, <3>3, Zenon DEF FilterInv
  <2> QED BY <2>1, <2>3, <2>4
<1>2. ASSUME NEW a \in Adders, F!Add(a)
      PROVE  FilterInv'
  <2> DEFINE v == read[a]
             f == F!Generate(v.text)
  <2>1. /\ v # None /\ read' = [read EXCEPT ![a] = None]
        /\ IF f = Panic THEN UNCHANGED <<filter, rules>> ELSE filter' = f /\ rules' = v
    BY <1>2, Zenon DEF F!Add
  <2>2. IsFile(v.text) /\ (v.text \in RuleFiles \/ v.torn)
    BY <2>1, Zenon DEF FilterInv
  <2> HIDE DEF f
  <2>3. DOMAIN read' = Adders /\ \A b \in Adders : read'[b] # None =>
           IsFile(read'[b].text) /\ (read'[b].text \in RuleFiles \/ read'[b].torn)
    <3>1. DOMAIN read = Adders /\ \A b \in Adders : read[b] # None =>
             IsFile(read[b].text) /\ (read[b].text \in RuleFiles \/ read[b].torn)
      BY Zenon DEF FilterInv
    <3>2. DOMAIN read' = Adders /\ \A b \in Adders : read'[b] = IF b = a THEN None ELSE read[b]
      BY <2>1, <3>1
    <3> QED BY <3>1, <3>2
  <2>4. CASE f = Panic
    BY <2>1, <2>3, <2>4, Zenon DEF FilterInv
  <2>5. CASE f # Panic
    <3> HIDE DEF v
    <3>1. rules' = v /\ filter' = f /\ f = F!Generate(v.text)
      BY <2>1, <2>5, Zenon DEF f
    <3>2. filter' = F!Generate(rules'.text) /\ filter' # Panic
      BY <2>5, <3>1, Zenon
    <3>3. rules' # None /\ IsFile(rules'.text) /\ (rules'.text \in RuleFiles \/ rules'.torn)
      BY <2>1, <2>2, <3>1, Zenon
    <3> QED BY <2>3, <3>2, <3>3, Zenon DEF FilterInv
  <2> QED BY <2>4, <2>5
<1>3. CASE UNCHANGED F!vars
  BY <1>3 DEF F!vars, FilterInv
<1> QED BY <1>1, <1>2, <1>3 DEF F!Next

-----------------------------------------------------------------------------
(* The composition: its steps are those of the part that runs.             *)

PartsInv ==
    /\ part = "messages" => MessageInv
    /\ part = "groups" => GroupInv
    /\ part = "requests" => RequestInv
    /\ part = "media" => MediaInv
    /\ part = "elements" => ElementInv
    /\ part = "filter" => FilterInv

LEMMA InitPartsInv == FrontEndInit => PartsInv
BY InitMessageInv, InitGroupInv, InitRequestInv, InitMediaInv, InitElementInv,
   InitFilterInv
   DEF FrontEndInit, PartsInv

\* A step of one part is a step or a stutter of every part that runs.
LEMMA StepOfPart ==
    ASSUME [FrontEndNext]_frontEndVars
    PROVE  /\ part' = part
           /\ part = "messages" => [Q!Next]_(Q!vars)
           /\ part = "groups" => [G!Next]_(G!vars)
           /\ part = "requests" => [R!Next]_(R!vars)
           /\ part = "media" => [M!Next]_(M!vars)
           /\ part = "elements" => [E!Next]_(E!vars)
           /\ part = "filter" => [F!Next]_(F!vars)
<1>1. CASE UNCHANGED frontEndVars
  <2>1. UNCHANGED <<part, messageVars, groupVars, requestVars, mediaVars, elementVars,
                    filterVars>>
    BY <1>1 DEF frontEndVars
  <2>2. UNCHANGED Q!vars
    BY <2>1 DEF messageVars, Q!vars
  <2>3. UNCHANGED G!vars
    BY <2>1 DEF groupVars, G!vars
  <2>4. UNCHANGED R!vars
    BY <2>1 DEF requestVars, R!vars
  <2>5. UNCHANGED M!vars
    BY <2>1 DEF mediaVars, M!vars
  <2>6. UNCHANGED E!vars
    BY <2>1 DEF elementVars, E!vars
  <2>7. UNCHANGED F!vars
    BY <2>1 DEF filterVars, F!vars
  <2> QED
    BY <2>1, <2>2, <2>3, <2>4, <2>5, <2>6, <2>7
<1>2. CASE Only("messages") /\ Q!Next
  BY <1>2 DEF Only
<1>3. CASE Only("groups") /\ G!Next
  BY <1>3 DEF Only
<1>4. CASE Only("requests") /\ R!Next
  BY <1>4 DEF Only
<1>5. CASE Only("media") /\ M!Next
  BY <1>5 DEF Only
<1>6. CASE Only("elements") /\ E!Next
  BY <1>6 DEF Only
<1>7. CASE Only("filter") /\ F!Next
  BY <1>7 DEF Only
<1> QED
  BY <1>1, <1>2, <1>3, <1>4, <1>5, <1>6, <1>7 DEF FrontEndNext

LEMMA NextPartsInv == PartsInv /\ [FrontEndNext]_frontEndVars => PartsInv'
<1> SUFFICES ASSUME PartsInv, [FrontEndNext]_frontEndVars PROVE PartsInv'
  OBVIOUS
<1>1. /\ part' = part
      /\ part = "messages" => [Q!Next]_(Q!vars)
      /\ part = "groups" => [G!Next]_(G!vars)
      /\ part = "requests" => [R!Next]_(R!vars)
      /\ part = "media" => [M!Next]_(M!vars)
      /\ part = "elements" => [E!Next]_(E!vars)
      /\ part = "filter" => [F!Next]_(F!vars)
  BY StepOfPart
<1>2. part = "messages" => MessageInv'
  BY <1>1, NextMessageInv DEF PartsInv
<1>3. part = "groups" => GroupInv'
  BY <1>1, NextGroupInv DEF PartsInv
<1>4. part = "requests" => RequestInv'
  BY <1>1, NextRequestInv DEF PartsInv
<1>5. part = "media" => MediaInv'
  BY <1>1, NextMediaInv DEF PartsInv
<1>6. part = "elements" => ElementInv'
  BY <1>1, NextElementInv DEF PartsInv
<1>7. part = "filter" => FilterInv'
  BY <1>1, FrontEndAssumption, NextFilterInv DEF PartsInv
<1> QED
  BY <1>1, <1>2, <1>3, <1>4, <1>5, <1>6, <1>7 DEF PartsInv

LEMMA PartsInvariance == FrontEndSpec => []PartsInv
BY InitPartsInv, NextPartsInv, PTL DEF FrontEndSpec

\* The id of an event, an answer or a call names the message it is about, and
\* the id of a reply the message it quotes, but for the named cases
\* (coolq/bot.go, event.go, api.go, cqcode.go).
THEOREM IdsNameTheirMessages == FrontEndSpec => []IdsName
<1>1. PartsInv => IdsName
  BY MessagesNamed, RepliesNamed DEF PartsInv, IdsName
<1> QED
  BY <1>1, PartsInvariance, PTL

\* An application that follows the notices has, once all have come, the members,
\* roles, bans, pinned messages and friends of the server (coolq/event.go, api.go).
THEOREM NoticesTellAllThereIs == FrontEndSpec => []NoticesTell
<1>1. PartsInv => NoticesTell
  BY NoticesTold DEF PartsInv, NoticesTell
<1> QED
  BY <1>1, PartsInvariance, PTL

\* A request is answered once, unless calls overlap (coolq/api.go).
THEOREM OneAnswerPerRequest == FrontEndSpec => []RequestsAnsweredOnce
<1>1. PartsInv => RequestsAnsweredOnce
  BY DEF PartsInv, RequestInv, RequestsAnsweredOnce
<1> QED
  BY <1>1, PartsInvariance, PTL

\* The files of a message are on the disk with what was sent, unless it is too
\* long (internal/weixin/client.go).
THEOREM MediaAreWhatWasSent == FrontEndSpec => []MediaKept
<1>1. PartsInv => MediaKept
  BY SentIsKept DEF PartsInv, MediaKept
<1> QED
  BY <1>1, PartsInvariance, PTL

\* Under the default settings, which neither split texts nor leave out what
\* cannot be converted, get_msg shows a message from the database as its event
\* showed it, but for what Kept and ShownAsReported name (coolq/cqcode.go).
THEOREM ShownAsTheyWere == FrontEndSpec => [](settings = {} => Shown)
<1>1. PartsInv => (settings = {} => Shown)
  BY FrontEndAssumption, ShownSame DEF PartsInv, ElementInv, Shown
<1> QED
  BY <1>1, PartsInvariance, PTL

\* A message is sent with its elements in their order, whichever upload ends
\* first or fails; a panic of one takes media and no client (coolq/bot.go).
THEOREM UploadsKeepTheirOrder == FrontEndSpec => []Uploaded
<1>1. PartsInv => Uploaded
  BY JobInOrder DEF PartsInv, ElementInv, Uploaded
<1> QED
  BY <1>1, PartsInvariance, PTL

\* Whatever is edited or does not compile, an event passes the filter iff the last
\* rules that did, as docs/EventFilter.md reads operators and names, let it; they
\* are a file's, or what gjson made of the start of one (modules/filter).
THEOREM FilterJudgesByRules == FrontEndSpec => []JudgedByRules
<1>1. PartsInv => JudgedByRules
  BY FrontEndAssumption, FilterJudges DEF PartsInv, JudgedByRules
<1> QED
  BY <1>1, PartsInvariance, PTL

-----------------------------------------------------------------------------
(* MessageStore: every table is sound, and a record is complete, but for   *)
(* the pointers noted as lost, before its row is written; so are a reader's *)
(* row and the kinds it has yet to try.                                    *)

AttributeWritten(m) ==
    /\ <<AttributeTable, Pointer(m, "attribute")>> \in sql.attrs
    /\ <<NameTable(Kind[m]), Pointer(m, "attribute")[Sender]>> \in DOMAIN sql.names
QuoteWritten(m) == Pointer(m, "quote") = Nil \/ Pointer(m, "quote") \in sql.quotes

StoreTypes ==
    /\ pc \in [Messages -> {"idle", "insert", "quote", "row", "done", "failed"}]
    /\ backend \in [Messages -> Nat]
    /\ lost \in [Messages -> SUBSET {"attribute", "quote"}]
    /\ DOMAIN sql = {"names", "attrs", "quotes", "rows"}
    /\ DOMAIN rd = Readers

\* The first backend has a message of m's kind under m's key.
FirstHas(m) ==
    /\ order[1] = "leveldb" => Key(m) \in DOMAIN leveldb
    /\ order[1] = "mongodb" => \E n \in mongo : Kind[n] = Kind[m] /\ Key(n) = Key(m)
    /\ order[1] = "sqlite3" => <<Kind[m], Key(m)>> \in DOMAIN sql.rows

Inserting ==
    \A m \in Messages :
        /\ backend[m] >= 1
        /\ backend[m] > 1 => FirstHas(m)
        /\ pc[m] = "done" => backend[m] > 1
        /\ pc[m] \in {"quote", "row"} => Is(m, "sqlite3")
        /\ pc[m] \in {"quote", "row"} /\ "attribute" \notin lost[m] => AttributeWritten(m)
        /\ pc[m] = "row" /\ "quote" \notin lost[m] => QuoteWritten(m)

\* x is the row of a message under a kind and a key.
RowOf(kind, key, x) ==
    /\ x = <<x[1], x[2]>>
    /\ x[1] \in Messages
    /\ pc[x[1]] # "idle" /\ Kind[x[1]] = kind /\ Key(x[1]) = key
    /\ x[2] \subseteq lost[x[1]]
    /\ "attribute" \notin x[2] => AttributeWritten(x[1])
    /\ "quote" \notin x[2] => QuoteWritten(x[1])

LevelDBSound ==
    \A key \in DOMAIN leveldb :
        /\ leveldb[key] \in Messages
        /\ pc[leveldb[key]] # "idle" /\ Key(leveldb[key]) = key
MongoSound == mongo \subseteq {m \in Messages : pc[m] # "idle"}
RowsSound ==
    \A at \in DOMAIN sql.rows : at = <<at[1], at[2]>> /\ RowOf(at[1], at[2], sql.rows[at])
PointersSound ==
    /\ \A e \in sql.attrs : e[1] = AttributeTable /\ e[2] # Nil
    /\ \A x \in DOMAIN sql.names :
          \E n \in Messages : /\ x[2] = Pointer(n, "attribute")[Sender]
                              /\ sql.names[x] = Pointer(n, "attribute")[Name]
TablesSound == LevelDBSound /\ MongoSound /\ RowsSound /\ PointersSound

\* A row as a reader has it, its attribute at a stage of reading.
ReadsRowOf(m, x) ==
    LET a == At(Kind[m], "attribute")
        q == At(Kind[m], "quote")
        c == Width(Kind[m])
    IN /\ pc[m] # "idle" /\ Kind[m] = x.kinds[1] /\ Key(m) = x.q[2]
       /\ DOMAIN x.row = DOMAIN Fields[m]
       /\ \A i \in DOMAIN Fields[m] \ {a, q, c} : x.row[i] = Fields[m][i]
       /\ SameContent(Fields[m][c], x.row[c])
       /\ \/ x.row[q] = Fields[m][q] /\ QuoteWritten(m)
          \/ x.row[q] = Nil /\ "quote" \in lost[m]
       /\ x.at = "attribute" =>
             \/ x.row[a] = Fields[m][a] /\ AttributeWritten(m)
             \/ x.row[a] = Nil /\ "attribute" \in lost[m]
       /\ x.at = "name" => x.row[a] = Fields[m][a] /\ AttributeWritten(m)
       /\ x.at = "quote" => SameAttribute(m, x.row[a])

KindNames == {"group", "private"} \cup {q[1] : q \in Queries}
Wanted(x) ==
    {m \in x.stored : Key(m) = x.q[2] /\ Kind[m] \in Range(Kinds(x.q))}

\* A reader has yet to try the kinds of all that it wants.
ReaderShape(x) ==
    /\ x.at \in {"idle", "get", "attribute", "name", "quote", "found", "missing"}
    /\ x.at # "idle" => DOMAIN x = {"at", "q", "kinds", "found", "row", "stored"}
InStore(x) == x.at # "idle" => \A m \in x.stored : m \in Messages /\ backend[m] > 1
Trying(x) ==
    x.at = "get" => /\ x.kinds \in Seq(KindNames) /\ x.kinds # <<>>
                    /\ \A m \in Wanted(x) : Kind[m] \in Range(x.kinds)
RowSound(x) ==
    x.at \in {"attribute", "name", "quote"} =>
        order[1] = "sqlite3" /\ \E m \in Messages : ReadsRowOf(m, x)
FoundSound(x) ==
    x.at = "found" =>
        \E m \in Messages : pc[m] # "idle" /\ Key(m) = x.q[2] /\ Same(m, x.found)
MissingSound(x) ==
    x.at = "missing" =>
        \A m \in Wanted(x) : /\ order[1] = "leveldb"
                             /\ \E n \in Messages : Key(n) = Key(m) /\ Kind[n] # Kind[m]

ReaderOK(x) ==
    ReaderShape(x) /\ InStore(x) /\ Trying(x) /\ RowSound(x) /\ FoundSound(x) /\ MissingSound(x)
Reads == \A r \in Readers : ReaderOK(rd[r])

StoreInv == StoreTypes /\ Inserting /\ TablesSound /\ Reads
-----------------------------------------------------------------------------
\* What was written stays.
Grows ==
    /\ order' = order
    /\ \A m \in Messages : /\ pc[m] # "idle" => pc'[m] # "idle"
                           /\ backend[m] > 1 => backend'[m] > 1
                           /\ lost[m] \subseteq lost'[m]
    /\ sql.attrs \subseteq sql'.attrs
    /\ sql.quotes \subseteq sql'.quotes
    /\ DOMAIN sql.names \subseteq DOMAIN sql'.names

LEMMA WrittenStays ==
    ASSUME Grows, NEW m \in Messages
    PROVE  /\ AttributeWritten(m) => AttributeWritten(m)'
           /\ QuoteWritten(m) => QuoteWritten(m)'
BY DEF Grows, AttributeWritten, QuoteWritten

LEMMA SameStays ==
    ASSUME Grows, NEW m \in Messages, NEW v
    PROVE  /\ SameAttribute(m, v) => SameAttribute(m, v)'
           /\ SameQuote(m, v) => SameQuote(m, v)'
<1>1. order' = order /\ lost[m] \subseteq lost'[m]
  BY DEF Grows
<1> QED
  BY <1>1 DEF SameAttribute, SameQuote, SameContent

\* What a reader has found of a message remains true.
LEMMA ReaderStays ==
    ASSUME Grows, NEW x, ReaderOK(x)
    PROVE  ReaderOK(x)'
<1>1. order' = order
  BY DEF Grows
<1>2. ReaderShape(x)' /\ Trying(x)'
  BY DEF ReaderOK, ReaderShape, Trying, Wanted
<1>3. InStore(x)'
  BY DEF ReaderOK, InStore, Grows
<1>4. MissingSound(x)'
  BY <1>1 DEF ReaderOK, MissingSound, Wanted
<1>5. FoundSound(x)'
  <2> SUFFICES ASSUME x.at = "found" PROVE FoundSound(x)'
    BY DEF FoundSound
  <2>1. PICK m \in Messages : pc[m] # "idle" /\ Key(m) = x.q[2] /\ Same(m, x.found)
    BY DEF ReaderOK, FoundSound
  <2>2. pc'[m] # "idle"
    BY <2>1 DEF Grows
  <2>3. Same(m, x.found)'
    BY <2>1, <1>1, SameStays DEF Same, SameContent
  <2> QED
    BY <2>1, <2>2, <2>3 DEF FoundSound
<1>6. RowSound(x)'
  <2> SUFFICES ASSUME x.at \in {"attribute", "name", "quote"} PROVE RowSound(x)'
    BY DEF RowSound
  <2>1. order[1] = "sqlite3"
    BY DEF ReaderOK, RowSound
  <2>2. PICK m \in Messages : ReadsRowOf(m, x)
    BY DEF ReaderOK, RowSound
  <2>3. pc'[m] # "idle" /\ lost[m] \subseteq lost'[m]
    BY <2>2 DEF Grows, ReadsRowOf
  <2>4. ReadsRowOf(m, x)'
    BY <2>2, <2>3, <1>1, SameStays, WrittenStays DEF ReadsRowOf, SameContent
  <2> QED
    BY <2>1, <2>4, <1>1 DEF RowSound
<1> QED
  BY <1>2, <1>3, <1>4, <1>5, <1>6 DEF ReaderOK

LEMMA ReadersStay ==
    ASSUME Reads, Grows, rd' = rd
    PROVE  Reads'
<1> SUFFICES ASSUME NEW r \in Readers PROVE ReaderOK(rd[r])'
  BY DEF Reads
<1> DEFINE x == rd[r]
<1>1. ReaderOK(x) /\ x' = x
  BY DEF Reads
<1> HIDE DEF x
<1>2. ReaderOK(x)'
  BY <1>1, ReaderStays
<1> QED
  BY <1>2 DEF x

-----------------------------------------------------------------------------
\* A sound row of a table remains sound.
LEMMA RowStays ==
    ASSUME Grows, NEW kind, NEW key, NEW x, RowOf(kind, key, x)
    PROVE  RowOf(kind, key, x)'
<1>1. x[1] \in Messages
  BY DEF RowOf
<1>2. /\ pc[x[1]] # "idle" => pc'[x[1]] # "idle"
      /\ lost[x[1]] \subseteq lost'[x[1]]
  BY <1>1 DEF Grows
<1>3. /\ AttributeWritten(x[1]) => AttributeWritten(x[1])'
      /\ QuoteWritten(x[1]) => QuoteWritten(x[1])'
  BY <1>1, WrittenStays, Zenon
<1> QED
  BY <1>1, <1>2, <1>3 DEF RowOf

LEMMA LevelDBStays ==
    ASSUME LevelDBSound, Grows, leveldb' = leveldb
    PROVE  LevelDBSound'
BY DEF LevelDBSound, Grows

LEMMA MongoStays ==
    ASSUME MongoSound, Grows, mongo' = mongo
    PROVE  MongoSound'
BY DEF MongoSound, Grows

LEMMA RowsStay ==
    ASSUME RowsSound, Grows, sql'.rows = sql.rows
    PROVE  RowsSound'
<1> SUFFICES ASSUME NEW at \in DOMAIN sql.rows
    PROVE (at = <<at[1], at[2]>> /\ RowOf(at[1], at[2], sql.rows[at]))'
  BY DEF RowsSound
<1> DEFINE row == sql.rows[at]
<1>1. at = <<at[1], at[2]>> /\ RowOf(at[1], at[2], row)
  BY DEF RowsSound
<1>2. row' = row
  OBVIOUS
<1> HIDE DEF row
<1>3. RowOf(at[1], at[2], row)'
  BY <1>1, <1>2, RowStays
<1> QED
  BY <1>1, <1>3 DEF row

\* A step that changes no table.
LEMMA TablesStay ==
    ASSUME TablesSound, Grows, UNCHANGED <<leveldb, mongo, sql>>
    PROVE  TablesSound'
<1>1. LevelDBSound' /\ MongoSound' /\ RowsSound'
  BY LevelDBStays, MongoStays, RowsStay DEF TablesSound
<1>2. PointersSound'
  BY DEF TablesSound, PointersSound
<1> QED
  BY <1>1, <1>2 DEF TablesSound

LEMMA BeginInv ==
    ASSUME StoreInv, NEW m \in Messages, Begin(m)
    PROVE  StoreInv'
<1>1. /\ pc' = [pc EXCEPT ![m] = "insert"] /\ pc[m] = "idle"
      /\ UNCHANGED <<order, backend, lost, leveldb, mongo, sql, rd>>
  BY DEF Begin, tables
<1>2. StoreTypes /\ Inserting /\ TablesSound /\ Reads
  BY DEF StoreInv
<1>3. Grows
  BY <1>1, <1>2 DEF Grows, StoreTypes
<1>4. StoreTypes'
  BY <1>1, <1>2 DEF StoreTypes
<1>5. Inserting'
  BY <1>1, <1>2 DEF Inserting, StoreTypes, FirstHas, Is, AttributeWritten, QuoteWritten
<1>6. TablesSound' /\ Reads'
  BY <1>1, <1>2, <1>3, TablesStay, ReadersStay
<1> QED
  BY <1>4, <1>5, <1>6 DEF StoreInv

LEMMA InsertFailsInv ==
    ASSUME StoreInv, NEW m \in Messages, InsertFails(m)
    PROVE  StoreInv'
<1>1. /\ pc' = [pc EXCEPT ![m] = "failed"]
      /\ UNCHANGED <<order, backend, lost, leveldb, mongo, sql, rd>>
  BY DEF InsertFails, tables
<1>2. StoreTypes /\ Inserting /\ TablesSound /\ Reads
  BY DEF StoreInv
<1>3. Grows
  BY <1>1, <1>2 DEF Grows, StoreTypes
<1>4. StoreTypes'
  BY <1>1, <1>2 DEF StoreTypes
<1>5. Inserting'
  BY <1>1, <1>2 DEF Inserting, StoreTypes, FirstHas, Is, AttributeWritten, QuoteWritten
<1>6. TablesSound' /\ Reads'
  BY <1>1, <1>2, <1>3, TablesStay, ReadersStay
<1> QED
  BY <1>4, <1>5, <1>6 DEF StoreInv

\* After the first backend a message goes on to the next, or is done.
LEMMA NextBackendInv ==
    ASSUME StoreInv, Grows, NEW m \in Messages, NextBackend(m), lost' = lost,
           backend[m] = 1 => FirstHas(m)', \A n \in Messages : FirstHas(n) => FirstHas(n)'
    PROVE  /\ pc' \in [Messages -> {"idle", "insert", "quote", "row", "done", "failed"}]
           /\ backend' \in [Messages -> Nat]
           /\ Inserting'
<1>1. /\ backend' = [backend EXCEPT ![m] = @ + 1]
      /\ pc' = [pc EXCEPT ![m] = IF backend[m] < Len(order) THEN "insert" ELSE "done"]
  BY DEF NextBackend
<1>2. StoreTypes /\ Inserting
  BY DEF StoreInv
<1>3. /\ pc' \in [Messages -> {"idle", "insert", "quote", "row", "done", "failed"}]
      /\ backend' \in [Messages -> Nat]
  BY <1>1, <1>2 DEF StoreTypes
<1>4. SUFFICES ASSUME NEW n \in Messages
      PROVE  /\ backend'[n] >= 1
             /\ backend'[n] > 1 => FirstHas(n)'
             /\ pc'[n] = "done" => backend'[n] > 1
             /\ pc'[n] \in {"quote", "row"} => Is(n, "sqlite3")'
             /\ pc'[n] \in {"quote", "row"} /\ "attribute" \notin lost'[n] => AttributeWritten(n)'
             /\ pc'[n] = "row" /\ "quote" \notin lost'[n] => QuoteWritten(n)'
  BY <1>3 DEF Inserting
<1>5. order' = order /\ (AttributeWritten(n) => AttributeWritten(n)')
      /\ (QuoteWritten(n) => QuoteWritten(n)')
  BY WrittenStays DEF Grows
<1>6. /\ backend[n] \in Nat /\ backend[n] >= 1
      /\ (backend[n] > 1 => FirstHas(n)) /\ (FirstHas(n) => FirstHas(n)')
  BY <1>2 DEF Inserting, StoreTypes
<1>7. CASE n = m
  <2>1. backend'[n] = backend[n] + 1 /\ pc'[n] \in {"insert", "done"}
    BY <1>1, <1>2, <1>7 DEF StoreTypes
  <2>2. FirstHas(n)'
    BY <1>6, <1>7
  <2> QED
    BY <2>1, <2>2, <1>6
<1>8. CASE n # m
  <2>1. backend'[n] = backend[n] /\ pc'[n] = pc[n] /\ lost'[n] = lost[n]
    BY <1>1, <1>2, <1>8 DEF StoreTypes
  <2> QED
    BY <2>1, <1>2, <1>5, <1>6 DEF Inserting, Is
<1> QED
  BY <1>7, <1>8
LEMMA InsertLevelDBInv ==
    ASSUME StoreInv, NEW m \in Messages, InsertLevelDB(m)
    PROVE  StoreInv'
<1>1. /\ pc[m] = "insert" /\ order[backend[m]] = "leveldb" /\ leveldb' = Put(leveldb, Key(m), m)
      /\ NextBackend(m) /\ UNCHANGED <<order, lost, mongo, sql, rd>>
  BY DEF InsertLevelDB, Is
<1>2. StoreTypes /\ Inserting /\ TablesSound /\ Reads
  BY DEF StoreInv
<1>3. /\ backend' = [backend EXCEPT ![m] = @ + 1]
      /\ pc' = [pc EXCEPT ![m] = IF backend[m] < Len(order) THEN "insert" ELSE "done"]
  BY <1>1 DEF NextBackend
<1>4. Grows
  BY <1>1, <1>2, <1>3 DEF Grows, StoreTypes
<1>5. backend[m] = 1 => FirstHas(m)'
  BY <1>1 DEF FirstHas, Put
<1>6. \A n \in Messages : FirstHas(n) => FirstHas(n)'
  BY <1>1 DEF FirstHas, Put
<1>7. StoreTypes' /\ Inserting'
  BY <1>1, <1>2, <1>4, <1>5, <1>6, NextBackendInv DEF StoreTypes
<1>8. LevelDBSound'
  <2> SUFFICES ASSUME NEW key \in DOMAIN leveldb'
      PROVE  /\ leveldb'[key] \in Messages
             /\ pc'[leveldb'[key]] # "idle" /\ Key(leveldb'[key]) = key
    BY DEF LevelDBSound
  <2>1. CASE key = Key(m)
    BY <2>1, <1>1, <1>2, <1>3 DEF Put, StoreTypes
  <2>2. CASE key # Key(m)
    BY <2>2, <1>1, <1>2, <1>4 DEF Put, TablesSound, LevelDBSound, Grows
  <2> QED
    BY <2>1, <2>2
<1>9. MongoSound' /\ RowsSound' /\ PointersSound'
  BY <1>1, <1>2, <1>4, MongoStays, RowsStay DEF TablesSound, PointersSound
<1>10. Reads'
  BY <1>1, <1>2, <1>4, ReadersStay
<1> QED
  BY <1>7, <1>8, <1>9, <1>10 DEF StoreInv, TablesSound

LEMMA InsertMongoInv ==
    ASSUME StoreInv, NEW m \in Messages, InsertMongo(m)
    PROVE  StoreInv'
<1>1. /\ pc[m] = "insert" /\ order[backend[m]] = "mongodb"
      /\ mongo' = {n \in mongo : Kind[n] # Kind[m] \/ Fields[n][1] # Fields[m][1]} \cup {m}
      /\ NextBackend(m) /\ UNCHANGED <<order, lost, leveldb, sql, rd>>
  BY DEF InsertMongo, Is
<1>2. StoreTypes /\ Inserting /\ TablesSound /\ Reads
  BY DEF StoreInv
<1>3. /\ backend' = [backend EXCEPT ![m] = @ + 1]
      /\ pc' = [pc EXCEPT ![m] = IF backend[m] < Len(order) THEN "insert" ELSE "done"]
  BY <1>1 DEF NextBackend
<1>4. Grows
  BY <1>1, <1>2, <1>3 DEF Grows, StoreTypes
<1>5. backend[m] = 1 => FirstHas(m)'
  BY <1>1 DEF FirstHas
\* What the document replaces has its kind and key.
<1>6. ASSUME NEW n \in Messages, FirstHas(n) PROVE FirstHas(n)'
  <2>1. CASE order[1] = "mongodb"
    <3>1. PICK d \in mongo : Kind[d] = Kind[n] /\ Key(d) = Key(n)
      BY <2>1, <1>6 DEF FirstHas
    <3>2. d \in Messages
      BY <1>2 DEF TablesSound, MongoSound
    <3>3. d \in mongo' \/ (Kind[d] = Kind[m] /\ Key(d) = Key(m))
      BY <3>2, <1>1, StoreAssumption
    <3>4. \E e \in mongo' : Kind[e] = Kind[n] /\ Key(e) = Key(n)
      BY <3>1, <3>3, <1>1
    <3> QED
      BY <3>4, <2>1, <1>1 DEF FirstHas
  <2>2. CASE order[1] # "mongodb"
    BY <2>2, <1>1, <1>6 DEF FirstHas
  <2> QED
    BY <2>1, <2>2
<1>7. StoreTypes' /\ Inserting'
  BY <1>1, <1>2, <1>4, <1>5, <1>6, NextBackendInv DEF StoreTypes
<1>8. MongoSound'
  BY <1>1, <1>2, <1>3, <1>4 DEF TablesSound, MongoSound, Grows, StoreTypes
<1>9. LevelDBSound' /\ RowsSound' /\ PointersSound'
  BY <1>1, <1>2, <1>4, LevelDBStays, RowsStay DEF TablesSound, PointersSound
<1>10. Reads'
  BY <1>1, <1>2, <1>4, ReadersStay
<1> QED
  BY <1>7, <1>8, <1>9, <1>10 DEF StoreInv, TablesSound

LEMMA SqlAttributeInv ==
    ASSUME StoreInv, NEW m \in Messages, SqlAttribute(m)
    PROVE  StoreInv'
<1> DEFINE attr == Pointer(m, "attribute")
           at == <<NameTable(Kind[m]), attr[Sender]>>
           named == Put(sql.names, at, attr[Name])
<1>1. /\ pc[m] = "insert" /\ Is(m, "sqlite3") /\ pc' = [pc EXCEPT ![m] = "quote"]
      /\ \/ sql' = [sql EXCEPT !.names = named, !.attrs = @ \cup {<<AttributeTable, attr>>}]
            /\ lost' = lost
         \/ /\ sql' \in {sql, [sql EXCEPT !.names = named]}
            /\ lost' = [lost EXCEPT ![m] = @ \cup {"attribute"}]
      /\ UNCHANGED <<order, backend, leveldb, mongo, rd>>
  BY DEF SqlAttribute
<1>2. StoreTypes /\ Inserting /\ TablesSound /\ Reads
  BY DEF StoreInv
<1> HIDE DEF named
<1>3. /\ DOMAIN sql' = DOMAIN sql
      /\ sql'.rows = sql.rows /\ sql'.quotes = sql.quotes
      /\ sql'.names \in {sql.names, named}
      /\ \/ sql'.names = named /\ sql'.attrs = sql.attrs \cup {<<AttributeTable, attr>>} /\ lost' = lost
         \/ sql'.attrs = sql.attrs /\ lost' = [lost EXCEPT ![m] = @ \cup {"attribute"}]
  BY <1>1, <1>2 DEF StoreTypes
<1>4. /\ DOMAIN named = DOMAIN sql.names \cup {at}
      /\ \A x \in DOMAIN named : named[x] = IF x = at THEN attr[Name] ELSE sql.names[x]
  BY DEF named, Put
<1>5. Grows
  BY <1>1, <1>2, <1>3, <1>4 DEF Grows, StoreTypes
<1>6. StoreTypes'
  BY <1>1, <1>2, <1>3 DEF StoreTypes
<1>7. Inserting'
  <2> SUFFICES ASSUME NEW n \in Messages
      PROVE  /\ backend'[n] >= 1
             /\ backend'[n] > 1 => FirstHas(n)'
             /\ pc'[n] = "done" => backend'[n] > 1
             /\ pc'[n] \in {"quote", "row"} => Is(n, "sqlite3")'
             /\ pc'[n] \in {"quote", "row"} /\ "attribute" \notin lost'[n] => AttributeWritten(n)'
             /\ pc'[n] = "row" /\ "quote" \notin lost'[n] => QuoteWritten(n)'
    BY DEF Inserting
  <2>1. (AttributeWritten(n) => AttributeWritten(n)') /\ (QuoteWritten(n) => QuoteWritten(n)')
    BY <1>5, WrittenStays
  <2>2. /\ backend'[n] >= 1 /\ (backend'[n] > 1 => FirstHas(n)')
    BY <1>1, <1>2, <1>3 DEF Inserting, FirstHas
  <2>3. CASE n = m
    <3>1. pc'[n] = "quote" /\ Is(n, "sqlite3")'
      BY <2>3, <1>1, <1>2 DEF Is, StoreTypes
    <3>2. "attribute" \notin lost'[n] => AttributeWritten(n)'
      BY <2>3, <1>2, <1>3, <1>4 DEF AttributeWritten, StoreTypes
    <3> QED
      BY <3>1, <3>2, <2>2
  <2>4. CASE n # m
    <3>1. pc'[n] = pc[n] /\ lost'[n] = lost[n] /\ backend'[n] = backend[n]
      BY <2>4, <1>1, <1>2 DEF StoreTypes
    <3> QED
      BY <3>1, <2>1, <2>2, <1>1, <1>2 DEF Inserting, Is
  <2> QED
    BY <2>3, <2>4
<1>8. PointersSound'
  <2>1. \A e \in sql'.attrs : e[1] = AttributeTable /\ e[2] # Nil
    <3>1. attr # Nil
      BY StoreAssumption
    <3> QED
      BY <3>1, <1>2, <1>3 DEF TablesSound, PointersSound
  <2>2. ASSUME NEW x \in DOMAIN sql'.names
        PROVE  \E n \in Messages : /\ x[2] = Pointer(n, "attribute")[Sender]
                                   /\ sql'.names[x] = Pointer(n, "attribute")[Name]
    <3>1. CASE sql'.names = sql.names
      BY <3>1, <2>2, <1>2 DEF TablesSound, PointersSound
    <3>2. CASE sql'.names = named
      <4>1. CASE x = at
        BY <4>1, <3>2, <2>2, <1>4
      <4>2. CASE x # at
        BY <4>2, <3>2, <2>2, <1>2, <1>4 DEF TablesSound, PointersSound
      <4> QED
        BY <4>1, <4>2
    <3> QED
      BY <3>1, <3>2, <1>3
  <2> QED
    BY <2>1, <2>2 DEF PointersSound
<1>9. LevelDBSound' /\ MongoSound' /\ RowsSound'
  BY <1>1, <1>2, <1>3, <1>5, LevelDBStays, MongoStays, RowsStay DEF TablesSound
<1>10. Reads'
  BY <1>1, <1>2, <1>5, ReadersStay
<1> QED
  BY <1>6, <1>7, <1>8, <1>9, <1>10 DEF StoreInv, TablesSound

LEMMA SqlQuoteInv ==
    ASSUME StoreInv, NEW m \in Messages, SqlQuote(m)
    PROVE  StoreInv'
<1> DEFINE quote == Pointer(m, "quote")
<1>1. /\ pc[m] = "quote" /\ pc' = [pc EXCEPT ![m] = "row"]
      /\ \/ /\ sql' = [sql EXCEPT !.quotes = @ \cup ({quote} \ {Nil})]
            /\ lost' = lost
         \/ sql' = sql /\ lost' = [lost EXCEPT ![m] = @ \cup {"quote"}]
      /\ UNCHANGED <<order, backend, leveldb, mongo, rd>>
  BY DEF SqlQuote
<1>2. StoreTypes /\ Inserting /\ TablesSound /\ Reads
  BY DEF StoreInv
<1>3. /\ DOMAIN sql' = DOMAIN sql
      /\ sql'.rows = sql.rows /\ sql'.names = sql.names /\ sql'.attrs = sql.attrs
      /\ \/ sql'.quotes = sql.quotes \cup ({quote} \ {Nil}) /\ lost' = lost
         \/ sql'.quotes = sql.quotes /\ lost' = [lost EXCEPT ![m] = @ \cup {"quote"}]
  BY <1>1, <1>2 DEF StoreTypes
<1>5. Grows
  BY <1>1, <1>2, <1>3 DEF Grows, StoreTypes
<1>6. StoreTypes'
  BY <1>1, <1>2, <1>3 DEF StoreTypes
<1>7. Inserting'
  <2> SUFFICES ASSUME NEW n \in Messages
      PROVE  /\ backend'[n] >= 1
             /\ backend'[n] > 1 => FirstHas(n)'
             /\ pc'[n] = "done" => backend'[n] > 1
             /\ pc'[n] \in {"quote", "row"} => Is(n, "sqlite3")'
             /\ pc'[n] \in {"quote", "row"} /\ "attribute" \notin lost'[n] => AttributeWritten(n)'
             /\ pc'[n] = "row" /\ "quote" \notin lost'[n] => QuoteWritten(n)'
    BY DEF Inserting
  <2>1. (AttributeWritten(n) => AttributeWritten(n)') /\ (QuoteWritten(n) => QuoteWritten(n)')
    BY <1>5, WrittenStays
  <2>2. /\ backend'[n] >= 1 /\ (backend'[n] > 1 => FirstHas(n)')
    BY <1>1, <1>2, <1>3 DEF Inserting, FirstHas
  <2>3. CASE n = m
    <3>1. pc'[n] = "row" /\ Is(n, "sqlite3")'
      BY <2>3, <1>1, <1>2 DEF Is, StoreTypes, Inserting
    <3>2. "attribute" \notin lost'[n] => AttributeWritten(n)'
      <4>1. lost[n] \subseteq lost'[n] /\ ("attribute" \notin lost[n] => AttributeWritten(n))
        BY <2>3, <1>1, <1>2, <1>5 DEF Inserting, Grows
      <4> QED
        BY <4>1, <2>1
    <3>3. "quote" \notin lost'[n] => QuoteWritten(n)'
      BY <2>3, <1>2, <1>3 DEF QuoteWritten, StoreTypes
    <3> QED
      BY <3>1, <3>2, <3>3, <2>2
  <2>4. CASE n # m
    <3>1. pc'[n] = pc[n] /\ lost'[n] = lost[n] /\ backend'[n] = backend[n]
      BY <2>4, <1>1, <1>2 DEF StoreTypes
    <3> QED
      BY <3>1, <2>1, <2>2, <1>1, <1>2 DEF Inserting, Is
  <2> QED
    BY <2>3, <2>4
<1>8. PointersSound'
  BY <1>2, <1>3 DEF TablesSound, PointersSound
<1>9. LevelDBSound' /\ MongoSound' /\ RowsSound'
  BY <1>1, <1>2, <1>3, <1>5, LevelDBStays, MongoStays, RowsStay DEF TablesSound
<1>10. Reads'
  BY <1>1, <1>2, <1>5, ReadersStay
<1> QED
  BY <1>6, <1>7, <1>8, <1>9, <1>10 DEF StoreInv, TablesSound

LEMMA SqlRowInv ==
    ASSUME StoreInv, NEW m \in Messages, SqlRow(m)
    PROVE  StoreInv'
<1> DEFINE at == <<Kind[m], Key(m)>>
           row == <<m, lost[m]>>
<1>1. /\ pc[m] = "row" /\ sql' = [sql EXCEPT !.rows = Put(@, at, row)]
      /\ NextBackend(m) /\ UNCHANGED <<order, lost, leveldb, mongo, rd>>
  BY DEF SqlRow
<1>2. StoreTypes /\ Inserting /\ TablesSound /\ Reads
  BY DEF StoreInv
<1>3. /\ backend' = [backend EXCEPT ![m] = @ + 1]
      /\ pc' = [pc EXCEPT ![m] = IF backend[m] < Len(order) THEN "insert" ELSE "done"]
  BY <1>1 DEF NextBackend
<1>4. /\ DOMAIN sql' = DOMAIN sql
      /\ sql'.names = sql.names /\ sql'.attrs = sql.attrs /\ sql'.quotes = sql.quotes
      /\ sql'.rows = Put(sql.rows, at, row)
  BY <1>1, <1>2 DEF StoreTypes
<1>5. /\ DOMAIN sql'.rows = DOMAIN sql.rows \cup {at}
      /\ \A x \in DOMAIN sql'.rows : sql'.rows[x] = IF x = at THEN row ELSE sql.rows[x]
  BY <1>4 DEF Put
<1>6. Grows
  BY <1>1, <1>2, <1>3, <1>4 DEF Grows, StoreTypes
<1>7. Is(m, "sqlite3")
  BY <1>1, <1>2 DEF Inserting
<1>8. backend[m] = 1 => FirstHas(m)'
  BY <1>1, <1>5, <1>7 DEF FirstHas, Is
<1>9. \A n \in Messages : FirstHas(n) => FirstHas(n)'
  BY <1>1, <1>5 DEF FirstHas
<1>10. StoreTypes' /\ Inserting'
  BY <1>1, <1>2, <1>4, <1>6, <1>8, <1>9, NextBackendInv DEF StoreTypes
<1>11. RowsSound'
  <2> SUFFICES ASSUME NEW x \in DOMAIN sql'.rows
      PROVE x = <<x[1], x[2]>> /\ RowOf(x[1], x[2], sql.rows[x])'
    BY DEF RowsSound
  <2>1. CASE x = at
    <3>1. RowOf(Kind[m], Key(m), row)
      BY <1>1, <1>2 DEF Inserting, RowOf
    <3>2. row' = row
      BY <1>1
    <3> HIDE DEF row
    <3>3. RowOf(Kind[m], Key(m), row)'
      BY <3>1, <3>2, <1>6, RowStays
    <3>4. sql'.rows[x] = row
      BY <2>1, <1>5
    <3> QED
      BY <2>1, <3>2, <3>3, <3>4
  <2>2. CASE x # at
    <3> DEFINE y == sql.rows[x]
    <3>1. x \in DOMAIN sql.rows /\ y' = y
      BY <2>2, <1>5
    <3>2. x = <<x[1], x[2]>> /\ RowOf(x[1], x[2], y)
      BY <3>1, <1>2 DEF TablesSound, RowsSound
    <3> HIDE DEF y
    <3>3. RowOf(x[1], x[2], y)'
      BY <3>1, <3>2, <1>6, RowStays
    <3> QED
      BY <3>2, <3>3 DEF y
  <2> QED
    BY <2>1, <2>2
<1>12. LevelDBSound' /\ MongoSound' /\ PointersSound'
  BY <1>1, <1>2, <1>4, <1>6, LevelDBStays, MongoStays DEF TablesSound, PointersSound
<1>13. Reads'
  BY <1>1, <1>2, <1>6, ReadersStay
<1> QED
  BY <1>10, <1>11, <1>12, <1>13 DEF StoreInv, TablesSound
-----------------------------------------------------------------------------
\* A read's step moves one reader only.
LEMMA ReadStep ==
    ASSUME StoreInv, UNCHANGED <<order, pc, backend, lost, tables>>,
           NEW r \in Readers, NEW x, rd' = [rd EXCEPT ![r] = x], ReaderOK(x)
    PROVE  StoreInv'
<1>1. UNCHANGED <<order, pc, backend, lost, leveldb, mongo, sql>>
  BY DEF tables
<1>2. StoreTypes /\ Inserting /\ TablesSound /\ Reads
  BY DEF StoreInv
<1>3. Grows
  BY <1>1 DEF Grows
<1>4. StoreTypes'
  BY <1>1, <1>2 DEF StoreTypes
<1>5. Inserting'
  BY <1>1, <1>2 DEF Inserting, FirstHas, Is, AttributeWritten, QuoteWritten
<1>6. TablesSound'
  BY <1>1, <1>2, <1>3, TablesStay
<1>7. ASSUME NEW s \in Readers PROVE ReaderOK(rd[s])'
  <2> DEFINE y == IF s = r THEN x ELSE rd[s]
  <2>1. rd'[s] = y /\ y' = y
    BY <1>2 DEF StoreTypes
  <2>2. ReaderOK(y)
    BY <1>2 DEF Reads
  <2> HIDE DEF y
  <2>3. ReaderOK(y)'
    BY <2>1, <2>2, <1>3, ReaderStays
  <2> QED
    BY <2>1, <2>3
<1> QED
  BY <1>4, <1>5, <1>6, <1>7 DEF StoreInv, Reads

LEMMA AskInv ==
    ASSUME StoreInv, NEW r \in Readers, NEW q \in Queries, Ask(r, q)
    PROVE  StoreInv'
<1> DEFINE x == [at |-> "get", q |-> q, kinds |-> Kinds(q), found |-> Nil, row |-> Nil,
                 stored |-> {m \in Messages : pc[m] = "done"}]
<1>1. UNCHANGED <<order, pc, backend, lost, tables>> /\ rd' = [rd EXCEPT ![r] = x]
  BY DEF Ask, Stage
<1>2. ReaderShape(x) /\ RowSound(x) /\ FoundSound(x) /\ MissingSound(x)
  BY DEF ReaderShape, RowSound, FoundSound, MissingSound
<1>3. InStore(x)
  BY DEF InStore, StoreInv, Inserting
<1>4. Trying(x)
  <2>1. Kinds(q) \in Seq(KindNames) /\ Kinds(q) # <<>>
    <3>1. /\ <<"group", "private">> \in Seq({"group", "private"})
          /\ <<q[1]>> \in Seq({q[1]})
      OBVIOUS
    <3>2. {"group", "private"} \subseteq KindNames /\ {q[1]} \subseteq KindNames
      BY DEF KindNames
    <3>3. <<"group", "private">> \in Seq(KindNames) /\ <<q[1]>> \in Seq(KindNames)
      BY <3>2
    <3> QED
      BY <3>3 DEF Kinds
  <2> QED
    BY <2>1 DEF Trying, Wanted
<1> QED
  BY <1>1, <1>2, <1>3, <1>4, ReadStep DEF ReaderOK
LEMMA HasAPlace ==
    ASSUME NEW s, NEW i \in DOMAIN s
    PROVE  s # <<>>
OBVIOUS

\* What a reader wants and does not find under a kind, it has yet to try.
LEMMA RestOfKinds ==
    ASSUME NEW S, NEW kinds \in Seq(S), NEW v \in Range(kinds), v # kinds[1]
    PROVE  /\ Len(kinds) > 1 /\ v \in Range(Tail(kinds))
           /\ Tail(kinds) \in Seq(S) /\ Tail(kinds) # <<>>
<1>1. PICK i \in 1..Len(kinds) : v = kinds[i]
  BY DEF Range
<1>2. Len(kinds) \in Nat /\ i \in Nat /\ i > 1 /\ kinds # <<>>
  BY <1>1
<1>3. /\ Tail(kinds) \in Seq(S) /\ Len(Tail(kinds)) = Len(kinds) - 1
      /\ \A j \in 1..Len(Tail(kinds)) : Tail(kinds)[j] = kinds[j + 1]
  BY <1>2, HeadTailProperties
<1>4. i - 1 \in DOMAIN Tail(kinds) /\ Tail(kinds)[i - 1] = v
  BY <1>1, <1>2, <1>3
<1>5. Tail(kinds) # <<>>
  BY <1>4, HasAPlace, Zenon
<1>6. Tail(kinds)[i - 1] \in Range(Tail(kinds))
  BY <1>4 DEF Range
<1> QED
  BY <1>1, <1>2, <1>3, <1>4, <1>5, <1>6

\* The next kind, when the backend has nothing under this one.
LEMMA TryNextInv ==
    ASSUME StoreInv, NEW r \in Readers, TryNext(r), UNCHANGED <<order, pc, backend, lost, tables>>,
           rd[r].at = "get",
           \A m \in Messages : FirstHas(m) /\ Key(m) = rd[r].q[2] => Kind[m] # rd[r].kinds[1]
    PROVE  StoreInv'
<1> DEFINE x == rd[r]
<1>1. ReaderShape(x) /\ InStore(x) /\ Trying(x)
  BY DEF StoreInv, Reads, ReaderOK
<1>2. /\ DOMAIN x = {"at", "q", "kinds", "found", "row", "stored"}
      /\ x.kinds \in Seq(KindNames) /\ x.kinds # <<>>
      /\ \A m \in Wanted(x) : Kind[m] \in Range(x.kinds) /\ Kind[m] # x.kinds[1]
  BY <1>1 DEF ReaderShape, InStore, Trying, Wanted, StoreInv, Inserting
<1>3. CASE Len(x.kinds) > 1
  <2> DEFINE y == [x EXCEPT !.kinds = Tail(@)]
  <2>1. rd' = [rd EXCEPT ![r] = y]
    BY <1>3 DEF TryNext, Stage
  <2>2. /\ y.at = "get" /\ y.q = x.q /\ y.stored = x.stored /\ y.kinds = Tail(x.kinds)
        /\ DOMAIN y = DOMAIN x
    BY <1>2
  <2>3. y.kinds \in Seq(KindNames) /\ y.kinds # <<>>
    <3>1. Tail(x.kinds) \in Seq(KindNames) /\ Len(Tail(x.kinds)) = Len(x.kinds) - 1
      BY <1>2, HeadTailProperties
    <3>2. 1 \in DOMAIN Tail(x.kinds)
      BY <3>1, <1>2, <1>3
    <3>3. Tail(x.kinds) # <<>>
      BY <3>2, HasAPlace, Zenon
    <3> QED
      BY <3>1, <3>3, <2>2
  <2>4. Wanted(y) = Wanted(x)
    BY <2>2 DEF Wanted
  <2> HIDE DEF y
  <2>5. Trying(y)
    BY <1>2, <2>2, <2>3, <2>4, RestOfKinds DEF Trying
  <2>6. ReaderShape(y) /\ InStore(y) /\ RowSound(y) /\ FoundSound(y) /\ MissingSound(y)
    BY <1>1, <1>2, <2>2 DEF ReaderShape, InStore, RowSound, FoundSound, MissingSound
  <2> QED
    BY <2>1, <2>5, <2>6, ReadStep DEF ReaderOK
<1>4. CASE ~(Len(x.kinds) > 1)
  <2> DEFINE y == [x EXCEPT !.at = "missing"]
  <2>1. rd' = [rd EXCEPT ![r] = y]
    BY <1>4 DEF TryNext, NotFound, Stage
  <2>2. y.at = "missing" /\ y.q = x.q /\ y.stored = x.stored /\ DOMAIN y = DOMAIN x
    BY <1>2
  <2>3. Wanted(y) = Wanted(x)
    BY <2>2 DEF Wanted
  <2>4. Wanted(x) = {}
    BY <1>2, <1>4, RestOfKinds
  <2> HIDE DEF y
  <2>5. MissingSound(y)
    BY <2>3, <2>4 DEF MissingSound
  <2>6. ReaderShape(y) /\ InStore(y) /\ Trying(y) /\ RowSound(y) /\ FoundSound(y)
    BY <1>1, <1>2, <2>2 DEF ReaderShape, InStore, Trying, RowSound, FoundSound
  <2> QED
    BY <2>1, <2>5, <2>6, ReadStep DEF ReaderOK
<1> QED
  BY <1>3, <1>4

\* What is found as it was inserted.
LEMMA FoundInv ==
    ASSUME StoreInv, NEW r \in Readers, NEW kind, NEW fields, Found(r, kind, fields),
           UNCHANGED <<order, pc, backend, lost, tables>>, rd[r].at # "idle",
           \E m \in Messages : /\ pc[m] # "idle" /\ Key(m) = rd[r].q[2]
                               /\ Same(m, [kind |-> kind, fields |-> fields])
    PROVE  StoreInv'
<1> DEFINE x == rd[r]
           y == [x EXCEPT !.at = "found", !.found = [kind |-> kind, fields |-> fields]]
<1>1. rd' = [rd EXCEPT ![r] = y]
  BY DEF Found, Stage
<1>2. ReaderShape(x) /\ InStore(x)
  BY DEF StoreInv, Reads, ReaderOK
<1>3. /\ y.at = "found" /\ y.q = x.q /\ y.stored = x.stored /\ DOMAIN y = DOMAIN x
      /\ y.found = [kind |-> kind, fields |-> fields]
  BY <1>2 DEF ReaderShape
<1> HIDE DEF y
<1>4. FoundSound(y)
  BY <1>3 DEF FoundSound
<1>5. ReaderShape(y) /\ InStore(y) /\ Trying(y) /\ RowSound(y) /\ MissingSound(y)
  BY <1>2, <1>3 DEF ReaderShape, InStore, Trying, RowSound, MissingSound
<1> QED
  BY <1>1, <1>4, <1>5, ReadStep DEF ReaderOK

\* A message's own fields are the same.
LEMMA SameAsInserted ==
    ASSUME NEW m \in Messages
    PROVE  Same(m, [kind |-> Kind[m], fields |-> Fields[m]])
BY DEF Same, SameAttribute, SameQuote, SameContent, Pointer

\* The positions of the pointers and of the content in a message, which has
\* other fields beside.
LEMMA PointerPositions ==
    ASSUME NEW m \in Messages
    PROVE  /\ At(Kind[m], "attribute") \in DOMAIN Fields[m]
           /\ At(Kind[m], "quote") \in DOMAIN Fields[m]
           /\ Width(Kind[m]) \in DOMAIN Fields[m]
           /\ At(Kind[m], "attribute") # At(Kind[m], "quote")
           /\ Width(Kind[m]) # At(Kind[m], "attribute")
           /\ Width(Kind[m]) # At(Kind[m], "quote")
BY StoreAssumption DEF At, Width

-----------------------------------------------------------------------------
\* YAML and BSON keep what is read of a content.
LEMMA ValueTextKept ==
    ASSUME NEW b, NEW v
    PROVE  /\ ValueText(ValueFrom(b, v)) = ValueText(v)
           /\ ValueFrom(b, v)[1] = "msg" <=> v[1] = "msg"
<1>1. CASE v[1] \in Numbers
  <2>1. /\ ValueFrom(b, v) = v
           \/ /\ ValueFrom(b, v)[1] \in Numbers
              /\ ValueFrom(b, v)[2] = v[2]
    BY <1>1 DEF ValueFrom, YamlValue, BsonValue, Numbers
  <2> QED
    BY <1>1, <2>1 DEF ValueText, Numbers
<1>2. CASE v[1] \notin Numbers
  BY <1>2 DEF ValueFrom, YamlValue, BsonValue, Numbers
<1> QED
  BY <1>1, <1>2

LEMMA ElementTextKept ==
    ASSUME NEW b, NEW e
    PROVE  ElementText(ElementFrom(b, e)) = ElementText(e)
<1> DEFINE g == ElementFrom(b, e)
           textOf(d) == [j \in DOMAIN d |-> ValueText(d[j])]
<1>1. /\ DOMAIN g = DOMAIN e
      /\ \A k \in DOMAIN e : g[k] = IF e[k][1] = "msg" THEN <<"msg", DataFrom(b, e[k][2])>>
                                   ELSE ValueFrom(b, e[k])
  BY DEF ElementFrom
<1>2. ASSUME NEW k \in DOMAIN e, e[k][1] = "msg"
      PROVE  g[k][1] = "msg" /\ textOf(g[k][2]) = textOf(e[k][2])
  <2> DEFINE d == e[k][2]
  <2>1. g[k] = <<"msg", DataFrom(b, d)>>
    BY <1>1, <1>2
  <2>2. /\ DOMAIN DataFrom(b, d) = DOMAIN d
        /\ \A j \in DOMAIN d : DataFrom(b, d)[j] = ValueFrom(b, d[j])
    BY DEF DataFrom
  <2> HIDE DEF d
  <2>3. textOf(DataFrom(b, d)) = textOf(d)
    BY <2>2, ValueTextKept
  <2> QED
    BY <2>1, <2>3 DEF d
<1>3. ASSUME NEW k \in DOMAIN e, e[k][1] # "msg"
      PROVE  g[k][1] # "msg" /\ ValueText(g[k]) = ValueText(e[k])
  BY <1>1, <1>3, ValueTextKept
<1>4. /\ ElementText(g) = [k \in DOMAIN g |-> IF g[k][1] = "msg" THEN <<"msg", textOf(g[k][2])>>
                                             ELSE ValueText(g[k])]
      /\ ElementText(e) = [k \in DOMAIN e |-> IF e[k][1] = "msg" THEN <<"msg", textOf(e[k][2])>>
                                             ELSE ValueText(e[k])]
  BY DEF ElementText
<1> HIDE DEF g, textOf
<1>5. ElementText(g) = ElementText(e)
  BY <1>1, <1>2, <1>3, <1>4
<1> QED
  BY <1>5 DEF g

LEMMA ContentTextKept ==
    ASSUME NEW b, NEW c
    PROVE  ContentText(ContentFrom(b, c)) = ContentText(c)
BY ElementTextKept DEF ContentText, ContentFrom

LEMMA ContentKept ==
    ASSUME NEW b, NEW c, order[1] # "leveldb"
    PROVE  SameContent(c, ContentFrom(b, c))
BY ContentTextKept DEF SameContent

LEMMA QuoteKept ==
    ASSUME NEW b, NEW m \in Messages, order[1] # "leveldb"
    PROVE  SameQuote(m, QuoteFrom(b, Pointer(m, "quote")))
<1> DEFINE quote == Pointer(m, "quote")
           v == QuoteFrom(b, quote)
<1>1. CASE quote = Nil
  BY <1>1 DEF SameQuote, QuoteFrom
<1>2. CASE quote # Nil
  <2>1. DOMAIN quote = 1..3
    BY <1>2, StoreAssumption
  <2>2. v = [quote EXCEPT ![QuotedContent] = ContentFrom(b, quote[QuotedContent])]
    BY <1>2 DEF QuoteFrom
  <2>3. /\ DOMAIN v = DOMAIN quote
        /\ \A i \in DOMAIN quote \ {QuotedContent} : v[i] = quote[i]
        /\ v[QuotedContent] = ContentFrom(b, quote[QuotedContent])
    BY <2>1, <2>2 DEF QuotedContent
  <2>4. SameContent(quote[QuotedContent], v[QuotedContent])
    BY <2>3, ContentKept
  <2> HIDE DEF v
  <2>5. SameQuote(m, v)
    BY <1>2, <2>3, <2>4 DEF SameQuote
  <2> QED
    BY <2>5 DEF v
<1> QED
  BY <1>1, <1>2

\* A document's fields are the same.
LEMMA SameAsTheDocument ==
    ASSUME NEW m \in Messages, order[1] = "mongodb"
    PROVE  Same(m, [kind |-> Kind[m], fields |-> DocumentFields(m)])
<1> DEFINE fields == DocumentFields(m)
           a == At(Kind[m], "attribute")
           q == At(Kind[m], "quote")
           c == Width(Kind[m])
<1>1. /\ a \in DOMAIN Fields[m] /\ q \in DOMAIN Fields[m] /\ c \in DOMAIN Fields[m]
      /\ a # q /\ c # a /\ c # q
  BY PointerPositions
<1>2. \A i \in DOMAIN Fields[m] :
         fields[i] = IF i = q THEN QuoteFrom("mongodb", Fields[m][i])
                     ELSE IF i = c THEN ContentFrom("mongodb", Fields[m][i])
                     ELSE Fields[m][i]
  BY DEF DocumentFields
<1> HIDE DEF fields
<1>3. SameQuote(m, fields[q])
  BY <1>1, <1>2, QuoteKept DEF Pointer
<1>4. SameContent(Fields[m][c], fields[c])
  BY <1>1, <1>2, ContentKept
<1>5. SameAttribute(m, fields[a])
  BY <1>1, <1>2 DEF SameAttribute, Pointer
<1>6. \A i \in DOMAIN Fields[m] \ {a, q, c} : fields[i] = Fields[m][i]
  BY <1>2
<1>7. Same(m, [kind |-> Kind[m], fields |-> fields])
  BY <1>3, <1>4, <1>5, <1>6 DEF Same
<1> QED
  BY <1>7 DEF fields

LEMMA GetLevelDBInv ==
    ASSUME StoreInv, DecodesWhatWasEncoded, NEW r \in Readers, GetLevelDB(r)
    PROVE  StoreInv'
<1> DEFINE x == rd[r]
           key == x.q[2]
           m == leveldb[key]
<1>1. x.at = "get" /\ order[1] = "leveldb" /\ UNCHANGED <<order, pc, backend, lost, tables>>
  BY DEF GetLevelDB
<1>2. ReaderShape(x) /\ InStore(x) /\ Trying(x) /\ LevelDBSound /\ Inserting
  BY DEF StoreInv, Reads, ReaderOK, TablesSound
<1>3. key \in DOMAIN leveldb =>
         /\ m \in Messages /\ pc[m] # "idle" /\ Key(m) = key
         /\ Decoded[m] = [kind |-> Kind[m], fields |-> Fields[m]]
  BY <1>2 DEF LevelDBSound, DecodesWhatWasEncoded
<1>4. CASE key \in DOMAIN leveldb /\ Decoded[m].kind \in Range(x.kinds)
  <2>1. Found(r, Decoded[m].kind, Decoded[m].fields)
    BY <1>4 DEF GetLevelDB
  <2>2. Found(r, Kind[m], Fields[m])
    BY <2>1, <1>3, <1>4
  <2>3. /\ m \in Messages /\ pc[m] # "idle" /\ Key(m) = key
        /\ Same(m, [kind |-> Kind[m], fields |-> Fields[m]])
    BY <1>3, <1>4, SameAsInserted
  <2> QED
    BY <2>2, <2>3, <1>1, FoundInv
<1>5. CASE ~(key \in DOMAIN leveldb /\ Decoded[m].kind \in Range(x.kinds))
  <2> DEFINE y == [x EXCEPT !.at = "missing"]
  <2>1. rd' = [rd EXCEPT ![r] = y]
    BY <1>5 DEF GetLevelDB, NotFound, Stage
  <2>2. y.at = "missing" /\ y.q = x.q /\ y.stored = x.stored /\ DOMAIN y = DOMAIN x
    BY <1>1, <1>2 DEF ReaderShape
  <2>3. Wanted(y) = Wanted(x)
    BY <2>2 DEF Wanted
  <2>4. ASSUME NEW n \in Wanted(x) PROVE \E o \in Messages : Key(o) = Key(n) /\ Kind[o] # Kind[n]
    <3>1. n \in Messages /\ backend[n] > 1 /\ Key(n) = key /\ Kind[n] \in Range(x.kinds)
      BY <1>1, <1>2 DEF InStore, Wanted, Trying
    <3>2. key \in DOMAIN leveldb
      BY <3>1, <1>1, <1>2 DEF Inserting, FirstHas
    <3>3. m \in Messages /\ Key(m) = key /\ Kind[m] \notin Range(x.kinds)
      BY <3>2, <1>3, <1>5
    <3> QED
      BY <3>1, <3>3
  <2> HIDE DEF y
  <2>5. MissingSound(y)
    BY <2>3, <2>4, <1>1 DEF MissingSound
  <2>6. ReaderShape(y) /\ InStore(y) /\ Trying(y) /\ RowSound(y) /\ FoundSound(y)
    BY <1>1, <1>2, <2>2 DEF ReaderShape, InStore, Trying, RowSound, FoundSound
  <2> QED
    BY <2>1, <2>5, <2>6, <1>1, ReadStep DEF ReaderOK
<1> QED
  BY <1>4, <1>5

LEMMA GetMongoInv ==
    ASSUME StoreInv, NEW r \in Readers, GetMongo(r)
    PROVE  StoreInv'
<1> DEFINE kind == rd[r].kinds[1]
           docs == {m \in mongo : Kind[m] = kind /\ Key(m) = rd[r].q[2]}
<1>1. rd[r].at = "get" /\ order[1] = "mongodb" /\ UNCHANGED <<order, pc, backend, lost, tables>>
  BY DEF GetMongo
<1>2. CASE docs # {}
  <2>1. PICK m \in docs : Found(r, kind, DocumentFields(m))
    BY <1>2 DEF GetMongo
  <2>2. m \in Messages /\ pc[m] # "idle" /\ Kind[m] = kind /\ Key(m) = rd[r].q[2]
    BY DEF StoreInv, TablesSound, MongoSound
  <2> QED
    BY <1>1, <2>1, <2>2, SameAsTheDocument, FoundInv
<1>3. CASE docs = {}
  <2>1. TryNext(r)
    BY <1>3 DEF GetMongo
  <2>2. \A m \in Messages : FirstHas(m) /\ Key(m) = rd[r].q[2] => Kind[m] # rd[r].kinds[1]
    BY <1>1, <1>3 DEF FirstHas
  <2> QED
    BY <1>1, <2>1, <2>2, TryNextInv
<1> QED
  BY <1>2, <1>3

LEMMA GetSqlRowInv ==
    ASSUME StoreInv, NEW r \in Readers, GetSqlRow(r)
    PROVE  StoreInv'
<1> DEFINE x == rd[r]
           at == <<x.kinds[1], x.q[2]>>
<1>1. x.at = "get" /\ order[1] = "sqlite3" /\ UNCHANGED <<order, pc, backend, lost, tables>>
  BY DEF GetSqlRow
<1>2. ReaderShape(x) /\ InStore(x) /\ StoreTypes
  BY DEF StoreInv, Reads, ReaderOK
<1>3. CASE at \in DOMAIN sql.rows
  <2> DEFINE m == sql.rows[at][1]
             L == sql.rows[at][2]
             a == At(Kind[m], "attribute")
             q == At(Kind[m], "quote")
             c == Width(Kind[m])
             row == RowFields(sql.rows[at])
             y == [x EXCEPT !.at = "attribute", !.row = row]
  <2>1. rd' = [rd EXCEPT ![r] = y]
    BY <1>3 DEF GetSqlRow, Stage
  <2>2. /\ y.at = "attribute" /\ y.q = x.q /\ y.stored = x.stored /\ y.kinds = x.kinds
        /\ y.row = row /\ DOMAIN y = DOMAIN x
    BY <1>1, <1>2 DEF ReaderShape
  <2>3. RowOf(x.kinds[1], x.q[2], sql.rows[at])
    BY <1>3 DEF StoreInv, TablesSound, RowsSound
  <2>4. /\ m \in Messages /\ pc[m] # "idle" /\ Kind[m] = x.kinds[1] /\ Key(m) = x.q[2]
        /\ L \subseteq lost[m] /\ L \subseteq {"attribute", "quote"}
        /\ "attribute" \notin L => AttributeWritten(m)
        /\ "quote" \notin L => QuoteWritten(m)
    BY <2>3, <1>2 DEF RowOf, StoreTypes
  <2> HIDE DEF y, m, L
  <2>5. /\ DOMAIN row = DOMAIN Fields[m]
        /\ \A i \in DOMAIN Fields[m] :
              row[i] = IF \E type \in L : i = At(Kind[m], type) THEN Nil
                       ELSE IF i = c THEN ContentFrom("sqlite3", Fields[m][i])
                       ELSE Fields[m][i]
    BY DEF RowFields, m, L
  <2> HIDE DEF row
  <2>6. /\ a \in DOMAIN Fields[m] /\ q \in DOMAIN Fields[m] /\ c \in DOMAIN Fields[m]
        /\ a # q /\ c # a /\ c # q
    BY <2>4, PointerPositions
  <2>7. \A i \in DOMAIN Fields[m] \ {a, q, c} : row[i] = Fields[m][i]
    BY <2>4, <2>5
  <2>13. SameContent(Fields[m][c], row[c])
    <3>1. row[c] = ContentFrom("sqlite3", Fields[m][c])
      BY <2>4, <2>5, <2>6
    <3> QED
      BY <3>1, <1>1, ContentKept
  <2>8. row[a] = IF "attribute" \in L THEN Nil ELSE Fields[m][a]
    BY <2>4, <2>5, <2>6
  <2>9. row[q] = IF "quote" \in L THEN Nil ELSE Fields[m][q]
    BY <2>4, <2>5, <2>6
  <2>10. ReadsRowOf(m, y)
    BY <2>2, <2>4, <2>5, <2>7, <2>8, <2>9, <2>13 DEF ReadsRowOf
  <2>11. RowSound(y)
    BY <1>1, <2>4, <2>10 DEF RowSound
  <2>12. ReaderShape(y) /\ InStore(y) /\ Trying(y) /\ FoundSound(y) /\ MissingSound(y)
    BY <1>1, <1>2, <2>2 DEF ReaderShape, InStore, Trying, FoundSound, MissingSound
  <2> QED
    BY <1>1, <2>1, <2>11, <2>12, ReadStep DEF ReaderOK
<1>4. CASE at \notin DOMAIN sql.rows
  <2>1. TryNext(r)
    BY <1>4 DEF GetSqlRow
  <2>2. \A m \in Messages : FirstHas(m) /\ Key(m) = rd[r].q[2] => Kind[m] # rd[r].kinds[1]
    BY <1>1, <1>4 DEF FirstHas
  <2> QED
    BY <1>1, <2>1, <2>2, TryNextInv
<1> QED
  BY <1>3, <1>4

\* A step of reading a row that changes its attribute at most.
LEMMA RowStepInv ==
    ASSUME StoreInv, UNCHANGED <<order, pc, backend, lost, tables>>,
           NEW r \in Readers, rd[r].at \in {"attribute", "name"},
           NEW y, rd' = [rd EXCEPT ![r] = y], DOMAIN y = DOMAIN rd[r],
           y.at \in {"name", "quote"}, y.stored = rd[r].stored,
           \E m \in Messages : ReadsRowOf(m, y)
    PROVE  StoreInv'
<1>1. ReaderShape(rd[r]) /\ InStore(rd[r]) /\ RowSound(rd[r])
  BY DEF StoreInv, Reads, ReaderOK
<1>2. RowSound(y)
  BY <1>1 DEF RowSound
<1>3. ReaderShape(y) /\ InStore(y) /\ Trying(y) /\ FoundSound(y) /\ MissingSound(y)
  BY <1>1 DEF ReaderShape, InStore, Trying, FoundSound, MissingSound
<1> QED
  BY <1>2, <1>3, ReadStep DEF ReaderOK

LEMMA GetSqlAttributeInv ==
    ASSUME StoreInv, NEW r \in Readers, GetSqlAttribute(r)
    PROVE  StoreInv'
<1> DEFINE x == rd[r]
           at == At(x.kinds[1], "attribute")
           q == At(x.kinds[1], "quote")
           c == Width(x.kinds[1])
           table == ReadAttributeTable(x.kinds[1])
<1>1. x.at = "attribute" /\ UNCHANGED <<order, pc, backend, lost, tables>>
  BY DEF GetSqlAttribute
<1>2. ReaderShape(x) /\ RowSound(x) /\ PointersSound
  BY DEF StoreInv, Reads, ReaderOK, TablesSound
<1>3. PICK m \in Messages : ReadsRowOf(m, x)
  BY <1>1, <1>2 DEF RowSound
<1>4. /\ pc[m] # "idle" /\ Kind[m] = x.kinds[1] /\ Key(m) = x.q[2]
      /\ DOMAIN x.row = DOMAIN Fields[m]
      /\ \A i \in DOMAIN Fields[m] \ {at, q, c} : x.row[i] = Fields[m][i]
      /\ SameContent(Fields[m][c], x.row[c])
      /\ \/ x.row[q] = Fields[m][q] /\ QuoteWritten(m)
         \/ x.row[q] = Nil /\ "quote" \in lost[m]
      /\ \/ x.row[at] = Fields[m][at] /\ AttributeWritten(m)
         \/ x.row[at] = Nil /\ "attribute" \in lost[m]
  BY <1>1, <1>3 DEF ReadsRowOf
<1>5. /\ at \in DOMAIN x.row /\ q \in DOMAIN x.row /\ c \in DOMAIN x.row
      /\ at # q /\ c # at /\ c # q
  BY <1>4, PointerPositions
<1>6. DOMAIN x = {"at", "q", "kinds", "found", "row", "stored"} /\ order[1] = "sqlite3"
  BY <1>1, <1>2 DEF ReaderShape, RowSound
<1>7. CASE <<table, x.row[at]>> \in sql.attrs
  <2> DEFINE y == [x EXCEPT !.at = "name"]
  <2>1. rd' = [rd EXCEPT ![r] = y]
    BY <1>7 DEF GetSqlAttribute, Stage
  <2>2. /\ y.at = "name" /\ y.q = x.q /\ y.stored = x.stored /\ y.kinds = x.kinds
        /\ y.row = x.row /\ DOMAIN y = DOMAIN x
    BY <1>6
  <2>3. x.row[at] # Nil
    BY <1>2, <1>7 DEF PointersSound
  <2> HIDE DEF y
  <2>4. ReadsRowOf(m, y)
    BY <1>4, <2>2, <2>3 DEF ReadsRowOf
  <2> QED
    BY <1>1, <2>1, <2>2, <2>4, RowStepInv
<1>8. CASE <<table, x.row[at]>> \notin sql.attrs
  <2> DEFINE y == [x EXCEPT !.at = "quote", !.row[at] = Nil]
  <2>1. rd' = [rd EXCEPT ![r] = y]
    BY <1>8 DEF GetSqlAttribute, Stage
  <2>2. /\ y.at = "quote" /\ y.q = x.q /\ y.stored = x.stored /\ y.kinds = x.kinds
        /\ y.row = [x.row EXCEPT ![at] = Nil] /\ DOMAIN y = DOMAIN x
    BY <1>6
  <2>3. /\ DOMAIN y.row = DOMAIN x.row /\ y.row[at] = Nil
        /\ \A i \in DOMAIN x.row : i # at => y.row[i] = x.row[i]
    BY <2>2, <1>5
  <2> HIDE DEF y
  <2>4. SameAttribute(m, Nil)
    <3>1. CASE Kind[m] = "guild" \/ "attribute" \in lost[m]
      BY <3>1, <1>6 DEF SameAttribute
    <3>2. CASE ~(Kind[m] = "guild" \/ "attribute" \in lost[m])
      <4>1. x.row[at] = Fields[m][at] /\ <<AttributeTable, Fields[m][at]>> \in sql.attrs
        BY <3>2, <1>4 DEF AttributeWritten, Pointer
      <4>2. table = AttributeTable
        BY <3>2, <1>4 DEF ReadAttributeTable, AttributeTable
      <4> QED
        BY <4>1, <4>2, <1>8
    <3> QED
      BY <3>1, <3>2
  <2>5. ReadsRowOf(m, y)
    BY <1>4, <1>5, <2>2, <2>3, <2>4 DEF ReadsRowOf
  <2> QED
    BY <1>1, <2>1, <2>2, <2>5, RowStepInv
<1> QED
  BY <1>7, <1>8

LEMMA GetSqlNameInv ==
    ASSUME StoreInv, NEW r \in Readers, GetSqlName(r)
    PROVE  StoreInv'
<1> DEFINE x == rd[r]
           at == At(x.kinds[1], "attribute")
           q == At(x.kinds[1], "quote")
           c == Width(x.kinds[1])
           name == sql.names[<<NameTable(x.kinds[1]), x.row[at][Sender]>>]
           attr == [x.row[at] EXCEPT ![Name] = name]
           y == [x EXCEPT !.at = "quote", !.row[at] = attr]
<1>1. x.at = "name" /\ UNCHANGED <<order, pc, backend, lost, tables>>
  BY DEF GetSqlName
<1>2. ReaderShape(x) /\ RowSound(x) /\ PointersSound
  BY DEF StoreInv, Reads, ReaderOK, TablesSound
<1>3. PICK m \in Messages : ReadsRowOf(m, x)
  BY <1>1, <1>2 DEF RowSound
<1>4. /\ pc[m] # "idle" /\ Kind[m] = x.kinds[1] /\ Key(m) = x.q[2]
      /\ DOMAIN x.row = DOMAIN Fields[m]
      /\ \A i \in DOMAIN Fields[m] \ {at, q, c} : x.row[i] = Fields[m][i]
      /\ SameContent(Fields[m][c], x.row[c])
      /\ \/ x.row[q] = Fields[m][q] /\ QuoteWritten(m)
         \/ x.row[q] = Nil /\ "quote" \in lost[m]
      /\ x.row[at] = Fields[m][at] /\ AttributeWritten(m)
  BY <1>1, <1>3 DEF ReadsRowOf
<1>5. /\ at \in DOMAIN x.row /\ q \in DOMAIN x.row /\ c \in DOMAIN x.row
      /\ at # q /\ c # at /\ c # q
  BY <1>4, PointerPositions
<1>6. DOMAIN x = {"at", "q", "kinds", "found", "row", "stored"} /\ order[1] = "sqlite3"
  BY <1>1, <1>2 DEF ReaderShape, RowSound
<1>7. rd' = [rd EXCEPT ![r] = y]
  BY DEF GetSqlName, Stage
<1> HIDE DEF attr
<1>8. /\ y.at = "quote" /\ y.q = x.q /\ y.stored = x.stored /\ y.kinds = x.kinds
      /\ y.row = [x.row EXCEPT ![at] = attr] /\ DOMAIN y = DOMAIN x
  BY <1>6
<1> HIDE DEF y
<1>9. /\ DOMAIN y.row = DOMAIN x.row /\ y.row[at] = attr
      /\ \A i \in DOMAIN x.row : i # at => y.row[i] = x.row[i]
  BY <1>8, <1>5
<1>10. SameAttribute(m, attr)
  <2>1. Fields[m][at] = Pointer(m, "attribute") /\ attr = [Pointer(m, "attribute") EXCEPT ![Name] = name]
    BY <1>4 DEF Pointer, attr
  <2>2. <<NameTable(x.kinds[1]), x.row[at][Sender]>> \in DOMAIN sql.names
    BY <1>4, <2>1 DEF AttributeWritten
  <2>3. PICK n \in Messages : /\ x.row[at][Sender] = Pointer(n, "attribute")[Sender]
                              /\ name = Pointer(n, "attribute")[Name]
    BY <2>2, <1>2 DEF PointersSound
  <2> QED
    BY <1>4, <1>6, <2>1, <2>3 DEF SameAttribute
<1>11. ReadsRowOf(m, y)
  BY <1>4, <1>5, <1>8, <1>9, <1>10 DEF ReadsRowOf
<1> QED
  BY <1>1, <1>7, <1>8, <1>11, RowStepInv

LEMMA GetSqlQuoteInv ==
    ASSUME StoreInv, NEW r \in Readers, GetSqlQuote(r)
    PROVE  StoreInv'
<1> DEFINE x == rd[r]
           kind == x.kinds[1]
           at == At(kind, "attribute")
           q == At(kind, "quote")
           c == Width(kind)
           fields == IF x.row[q] \in sql.quotes
                     THEN [x.row EXCEPT ![q] = QuoteFrom("sqlite3", x.row[q])]
                     ELSE [x.row EXCEPT ![q] = Nil]
<1>1. x.at = "quote" /\ UNCHANGED <<order, pc, backend, lost, tables>> /\ Found(r, kind, fields)
  BY DEF GetSqlQuote
<1>2. RowSound(x)
  BY DEF StoreInv, Reads, ReaderOK
<1>3. PICK m \in Messages : ReadsRowOf(m, x)
  BY <1>1, <1>2 DEF RowSound
<1>4. /\ pc[m] # "idle" /\ Kind[m] = x.kinds[1] /\ Key(m) = x.q[2]
      /\ DOMAIN x.row = DOMAIN Fields[m]
      /\ \A i \in DOMAIN Fields[m] \ {at, q, c} : x.row[i] = Fields[m][i]
      /\ SameContent(Fields[m][c], x.row[c])
      /\ \/ x.row[q] = Fields[m][q] /\ QuoteWritten(m)
         \/ x.row[q] = Nil /\ "quote" \in lost[m]
      /\ SameAttribute(m, x.row[at])
  BY <1>1, <1>3 DEF ReadsRowOf
<1>5. /\ at \in DOMAIN x.row /\ q \in DOMAIN x.row /\ c \in DOMAIN x.row
      /\ at # q /\ c # at /\ c # q
  BY <1>4, PointerPositions
<1>6. /\ \A i \in DOMAIN x.row : i # q => fields[i] = x.row[i]
      /\ fields[q] = IF x.row[q] \in sql.quotes THEN QuoteFrom("sqlite3", x.row[q]) ELSE Nil
  BY <1>5
<1> HIDE DEF fields
<1>7. SameQuote(m, fields[q])
  <2>1. CASE x.row[q] \in sql.quotes
    <3>1. fields[q] = QuoteFrom("sqlite3", x.row[q])
      BY <2>1, <1>6
    <3>2. CASE x.row[q] = Fields[m][q]
      BY <3>1, <3>2, <1>2, <1>1, <1>4, QuoteKept DEF Pointer, RowSound
    <3>3. CASE x.row[q] = Nil /\ "quote" \in lost[m]
      BY <3>1, <3>3 DEF QuoteFrom, SameQuote
    <3> QED
      BY <3>2, <3>3, <1>4
  <2>2. CASE x.row[q] \notin sql.quotes
    BY <2>2, <1>4, <1>6 DEF SameQuote, QuoteWritten, Pointer
  <2> QED
    BY <2>1, <2>2
<1>8. Same(m, [kind |-> kind, fields |-> fields])
  BY <1>4, <1>5, <1>6, <1>7 DEF Same
<1> QED
  BY <1>1, <1>4, <1>8, FoundInv
LEMMA InitStoreInv == Init => StoreInv
<1> SUFFICES ASSUME Init PROVE StoreInv
  OBVIOUS
<1>1. StoreTypes /\ Inserting /\ TablesSound
  BY DEF Init, NoTables, StoreTypes, Inserting, TablesSound, LevelDBSound, MongoSound,
         RowsSound, PointersSound
<1>2. Reads
  BY DEF Init, Reads, ReaderOK, ReaderShape, InStore, Trying, RowSound, FoundSound, MissingSound
<1> QED
  BY <1>1, <1>2 DEF StoreInv

LEMMA NextStoreInv ==
    ASSUME StoreInv, DecodesWhatWasEncoded, [Next]_vars
    PROVE  StoreInv'
<1>1. CASE UNCHANGED vars
  <2>1. UNCHANGED <<order, pc, backend, lost, leveldb, mongo, sql, rd>>
    BY <1>1 DEF vars, tables
  <2>2. Grows
    BY <2>1 DEF Grows
  <2>3. StoreTypes' /\ Inserting'
    BY <2>1 DEF StoreInv, StoreTypes, Inserting, FirstHas, Is, AttributeWritten, QuoteWritten
  <2>4. TablesSound' /\ Reads'
    BY <2>1, <2>2, TablesStay, ReadersStay DEF StoreInv
  <2> QED
    BY <2>3, <2>4 DEF StoreInv
<1>2. ASSUME NEW m \in Messages, Begin(m) PROVE StoreInv'
  BY <1>2, BeginInv
<1>3. ASSUME NEW m \in Messages, InsertFails(m) PROVE StoreInv'
  BY <1>3, InsertFailsInv
<1>4. ASSUME NEW m \in Messages, InsertLevelDB(m) PROVE StoreInv'
  BY <1>4, InsertLevelDBInv
<1>5. ASSUME NEW m \in Messages, InsertMongo(m) PROVE StoreInv'
  BY <1>5, InsertMongoInv
<1>6. ASSUME NEW m \in Messages, SqlStep(m) PROVE StoreInv'
  BY <1>6, SqlAttributeInv, SqlQuoteInv, SqlRowInv DEF SqlStep
<1>7. ASSUME NEW r \in Readers, NEW q \in Queries, Ask(r, q) PROVE StoreInv'
  BY <1>7, AskInv
<1>8. ASSUME NEW r \in Readers, GetLevelDB(r) PROVE StoreInv'
  BY <1>8, GetLevelDBInv
<1>9. ASSUME NEW r \in Readers, GetMongo(r) PROVE StoreInv'
  BY <1>9, GetMongoInv
<1>10. ASSUME NEW r \in Readers, SqlRead(r) PROVE StoreInv'
  BY <1>10, GetSqlRowInv, GetSqlAttributeInv, GetSqlNameInv, GetSqlQuoteInv DEF SqlRead
<1> QED
  BY <1>1, <1>2, <1>3, <1>4, <1>5, <1>6, <1>7, <1>8, <1>9, <1>10
  DEF Next, InsertGroupMessage, InsertPrivateMessage, InsertGuildChannelMessage,
      GetGroupMessage, GetPrivateMessage, GetGuildChannelMessage

\* What a read finds is a message as it was inserted, but for the types of the
\* numbers in its content, which YAML and BSON change, and for what SQLite is
\* known to lose, and what was stored when it began is found, if LevelDB's
\* values are decoded to what was encoded (db/).
THEOREM StoreKeepsMessages ==
    ASSUME DecodesWhatWasEncoded
    PROVE  Spec => []StoreKeeps
<1>1. StoreInv => StoreKeeps
  BY DEF StoreInv, Reads, ReaderOK, FoundSound, MissingSound, Wanted, StoreKeeps
<1> QED
  BY <1>1, InitStoreInv, NextStoreInv, PTL DEF Spec
=============================================================================
