------------------------------ MODULE Download ------------------------------
(***************************************************************************)
(* The cache file of one URL: download_file (coolq/api.go) removes it and  *)
(* fetches it in blocks (internal/download), FindFile (global/fs.go) uses  *)
(* it or fetches it whole.  Nothing keeps two of them apart.               *)
(*                                                                         *)
(* The resource has versions; the content of a file is the version each    *)
(* byte is from, 0 if it is not the resource's byte of that place: a hole, *)
(* an error page, another part.  A file that is removed lives on for those *)
(* who have it open.                                                       *)
(***************************************************************************)
EXTENDS Integers, FiniteSets

CONSTANTS Ops,       \* calls, each made once
          Size,      \* length of each version of the resource
          Threads,   \* values of thread_count
          MinSplit,  \* length up to which there is one block (1 MiB)
          Margin,    \* what a block is shorter by (10)
          Cuts,      \* lengths at which an answer or a write may stop short
          MaxFaults  \* bound: blocks of one call that go wrong

DownloadAssumption ==
    /\ MinSplit \in Nat /\ Margin \in Nat /\ Threads \subseteq Nat /\ Cuts \subseteq Nat
    /\ MaxFaults \in Nat
    /\ 1 \in DOMAIN Size
    /\ \A v \in DOMAIN Size : Size[v] \in Nat \ {0}

Versions == DOMAIN Size

VARIABLES
    resource,  \* its current version
    path,      \* the file under the cache name, 0 if there is none
    content,   \* of each file made so far
    call,      \* each call: kind, thread, phase, what is left of it, and the
               \* history whether it was misled: took something else for what
               \* it had asked for, or lost a write that it did not check
    disturbed, \* history: calls that ran beside another call or a new version
    soiled,    \* history: since the file was last fetched whole, a call broke
               \* off or was misled, two ran at a time, or the resource changed
    result     \* history: what each call returned, and whether it was whole

vars == <<resource, path, content, call, disturbed, soiled, result>>

Files == DOMAIN content
Length == Size[resource]
Fresh == [k \in 0..(Length - 1) |-> resource]
Whole == path # 0 /\ content[path] = Fresh

Active(o) == call[o].phase \notin {"off", "returned"}

\* A call that starts disturbs those under way and is disturbed by them.
Starting(o) ==
    LET others == {p \in Ops \ {o} : Active(p)} IN
    /\ disturbed' = IF others = {} THEN disturbed ELSE disturbed \cup others \cup {o}
    /\ soiled' = (soiled \/ others # {})

Return(o, outcome, kept, misled) ==
    /\ call' = [call EXCEPT ![o].phase = "returned", ![o].misled = misled]
    /\ result' = [result EXCEPT ![o] = [outcome |-> outcome, whole |-> kept,
               soiled |-> soiled \/ misled \/ \E p \in Ops \ {o} : Active(p)]]

\* nil is returned, whatever the file has become.
Succeed(o, misled) ==
    LET whole == path # 0 /\ content'[path] = Fresh IN
    /\ Return(o, "ok", whole, misled)
    /\ soiled' = ((soiled \/ misled) /\ ~(o \notin disturbed /\ whole))
    /\ UNCHANGED <<resource, path, disturbed>>

\* An error is returned; what was written stays.
Break(o) ==
    /\ Return(o, "error", FALSE, call[o].misled)
    /\ soiled' = TRUE
    /\ UNCHANGED <<resource, path, disturbed>>

\* n bytes written at an offset: the rest stays, with a hole up to there.
Written(f, at, n, v) ==
    LET length == Cardinality(DOMAIN f)
        reach == IF n > 0 /\ at + n > length THEN at + n ELSE length
    IN [k \in 0..(reach - 1) |->
           IF k \in at..(at + n - 1) THEN v ELSE IF k < length THEN f[k] ELSE 0]

\* os.OpenFile with O_CREATE and without O_TRUNC.
Opened == IF path = 0 THEN Cardinality(Files) + 1 ELSE path
OpenFile ==
    /\ path' = Opened
    /\ content' = [f \in Files \cup {Opened} |->
                      IF f \in Files THEN content[f] ELSE [k \in {} |-> 0]]

-----------------------------------------------------------------------------
(* Starting.                                                               *)

\* Environment: the server has another version.
Publish ==
    /\ resource + 1 \in Versions
    /\ resource' = resource + 1
    /\ disturbed' = disturbed \cup {o \in Ops : Active(o)}
    /\ soiled' = TRUE
    /\ UNCHANGED <<path, content, call, result>>

\* CQDownloadFile removes what is there.
DownloadFile(o, thread) ==
    /\ call[o].phase = "off"
    /\ call' = [call EXCEPT ![o] = [@ EXCEPT !.phase = "request", !.kind = "download",
                                        !.thread = thread]]
    /\ path' = 0
    /\ Starting(o)
    /\ UNCHANGED <<resource, content, result>>

\* FindFile with the cache allowed and the file there.
FindCached(o) ==
    /\ call[o].phase = "off"
    /\ path # 0
    /\ Return(o, "cached", content[path] = Fresh, FALSE)
    /\ UNCHANGED <<resource, path, content, disturbed, soiled>>

\* FindFile otherwise; what is there stays.
FindFresh(o) ==
    /\ call[o].phase = "off"
    /\ call' = [call EXCEPT ![o] = [@ EXCEPT !.phase = "request"]]
    /\ Starting(o)
    /\ UNCHANGED <<resource, path, content, result>>

-----------------------------------------------------------------------------
(* The first request.                                                      *)

\* Nothing has been written.
RequestFails(o) ==
    /\ call[o].phase = "request"
    /\ Return(o, "error", FALSE, FALSE)
    /\ UNCHANGED <<resource, path, content, disturbed, soiled>>

BlockSize(length, thread) ==
    IF length > MinSplit THEN length \div thread - Margin ELSE length

\* Answered in whole: one thread, no ranges, or a single block.  WriteToFile
\* does not look at the status: an error page is taken for the resource.
AnsweredWhole(o) ==
    /\ call[o].phase = "request"
    /\ OpenFile
    /\ \E page \in BOOLEAN :
          /\ page => call[o].thread < 2
          /\ call' = [call EXCEPT ![o] =
                 [@ EXCEPT !.phase = "body", !.handle = Opened, !.misled = page]]
    /\ UNCHANGED <<resource, disturbed, soiled, result>>

\* Mutant: the last block is as long as the others.
BlocksCut(length, size) ==
    {<<b * size, b * size + size - 1>> : b \in 0..(length \div size - 1)}

\* The blocks of a resource, for a positive block size.
Blocks(length, size) ==
    {<<b * size, IF (b + 1) * size < length THEN (b + 1) * size - 1 ELSE length - 1>> :
        b \in 0..((length - 1) \div size)}

\* 206: the blocks are planned.  A block size that is not positive makes the
\* loop add blocks for ever.
AnsweredPartial(o) ==
    /\ call[o].phase = "request"
    /\ call[o].thread >= 2
    /\ BlockSize(Length, call[o].thread) # Length
    /\ LET size == BlockSize(Length, call[o].thread) IN
       call' = [call EXCEPT ![o] =
           IF size <= 0 THEN [@ EXCEPT !.phase = "hangs"]
           ELSE [@ EXCEPT !.phase = "blocks", !.todo = Blocks(Length, size)]]
    /\ UNCHANGED <<resource, path, content, disturbed, soiled, result>>

-----------------------------------------------------------------------------
(* Writing.                                                                *)

\* n bytes of the body, which is an error page if the call is misled.
Body(o, n) ==
    content' = [content EXCEPT ![call[o].handle] =
                   Written(@, 0, n, IF call[o].misled THEN 0 ELSE resource)]

BodyEnds(o) ==
    /\ call[o].phase = "body"
    /\ Body(o, Length)
    /\ Succeed(o, call[o].misled)

\* A body without a length that ends early looks complete.
BodyEndsEarly(o) ==
    /\ call[o].phase = "body"
    /\ \E n \in Cuts : n < Length /\ Body(o, n)
    /\ Succeed(o, TRUE)

\* The connection breaks, or the disk is full.
BodyBreaks(o) ==
    /\ call[o].phase = "body"
    /\ \E n \in Cuts : n < Length /\ Body(o, n)
    /\ Break(o)

\* A block worker opens the file by its path; the workers run side by side.
OpenBlock(o, b) ==
    /\ b \in call[o].todo
    /\ OpenFile
    /\ call' = [call EXCEPT ![o].todo = @ \ {b}, ![o].opened = @ \cup {<<b, Opened>>}]
    /\ UNCHANGED <<resource, disturbed, soiled, result>>

\* The worker w has written n bytes v at an offset, and is done.
Worked(o, w, at, n, v) ==
    /\ w \in call[o].opened
    /\ content' = [content EXCEPT ![w[2]] = Written(@, at, n, v)]
    /\ UNCHANGED <<resource, path, disturbed, soiled, result>>

BlockLength(w) == w[1][2] + 1 - w[1][1]

WriteBlock(o, w) ==
    /\ Worked(o, w, w[1][1], BlockLength(w), resource)
    /\ call' = [call EXCEPT ![o].opened = @ \ {w}]

Fault(o) == call[o].faults < MaxFaults

\* An answer that ends before EndOffset, or the deferred Flush fails: no error.
BlockEndsEarly(o, w) ==
    /\ Fault(o)
    /\ \E n \in Cuts : n < BlockLength(w) /\ Worked(o, w, w[1][1], n, resource)
    /\ call' = [call EXCEPT ![o].opened = @ \ {w}, ![o].misled = TRUE, ![o].faults = @ + 1]

\* Any 2xx will do: the range is ignored and what comes is the beginning.  Or
\* Seek has failed, and the block goes to the beginning.
BlockMisplaced(o, w) ==
    /\ Fault(o)
    /\ w[1][1] > 0
    /\ \E at \in {0, w[1][1]} : Worked(o, w, at, BlockLength(w), 0)
    /\ call' = [call EXCEPT ![o].opened = @ \ {w}, ![o].misled = TRUE, ![o].faults = @ + 1]

\* Mutant: the worker's error is lost.
BlockFailsUnnoticed(o, w) ==
    /\ Fault(o)
    /\ \E n \in Cuts : n < BlockLength(w) /\ Worked(o, w, w[1][1], n, resource)
    /\ call' = [call EXCEPT ![o].opened = @ \ {w}, ![o].faults = @ + 1]

\* lastErr, after a part of the block; several workers may set it, none clears
\* it.
BlockFails(o, w) ==
    /\ Fault(o)
    /\ \E n \in Cuts : n < BlockLength(w) /\ Worked(o, w, w[1][1], n, resource)
    /\ call' = [call EXCEPT ![o].opened = @ \ {w}, ![o].lastErr = TRUE, ![o].faults = @ + 1]

\* wg.Wait returns.
Join(o) ==
    /\ call[o].phase = "blocks"
    /\ call[o].todo = {} /\ call[o].opened = {}
    /\ UNCHANGED content
    /\ IF call[o].lastErr THEN Break(o) ELSE Succeed(o, call[o].misled)

-----------------------------------------------------------------------------
Init ==
    /\ resource = 1
    /\ path = 0
    /\ content = [f \in {} |-> 0]
    /\ call = [o \in Ops |-> [phase |-> "off", kind |-> "find", thread |-> 1, handle |-> 0,
                              todo |-> {}, opened |-> {}, lastErr |-> FALSE, misled |-> FALSE,
                              faults |-> 0]]
    /\ disturbed = {}
    /\ soiled = FALSE
    /\ result = [o \in Ops |-> [outcome |-> "none", whole |-> FALSE, soiled |-> FALSE]]

Next ==
    \/ Publish
    \/ \E o \in Ops :
          \/ \E t \in Threads : DownloadFile(o, t)
          \/ FindCached(o) \/ FindFresh(o)
          \/ RequestFails(o) \/ AnsweredWhole(o) \/ AnsweredPartial(o)
          \/ BodyEnds(o) \/ BodyEndsEarly(o) \/ BodyBreaks(o) \/ Join(o)
          \/ \E b \in call[o].todo : OpenBlock(o, b)
          \/ \E w \in call[o].opened :
                \/ WriteBlock(o, w) \/ BlockFails(o, w)
                \/ BlockEndsEarly(o, w) \/ BlockMisplaced(o, w)

Spec == Init /\ [][Next]_vars

-----------------------------------------------------------------------------
(* Properties.                                                             *)

\* download_file that ran undisturbed and was not misled has left exactly the
\* resource when it reports success, whatever was there and however it was
\* split; a file is whole whenever a call hands it out, unless one of these
\* has happened since it was last fetched whole: a call broke off while it
\* wrote; two ran at a time; the resource changed; or a call was misled, that
\* is took an error page, a part that ended early or another part for what it
\* had asked for, or lost a write whose error is not checked.
FetchedIsWhole ==
    \A o \in Ops :
        /\ call[o].kind = "download" /\ o \notin disturbed /\ ~call[o].misled
               => (result[o].outcome = "ok" => result[o].whole)
        /\ result[o].outcome \in {"ok", "cached"} => result[o].whole \/ result[o].soiled
=============================================================================
