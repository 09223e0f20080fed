------------------------------- MODULE Media -------------------------------
(***************************************************************************)
(* Media of inbound private messages (internal/weixin/client.go): an item  *)
(* is downloaded from the CDN, decrypted and saved under inbound/<kind>,   *)
(* the message is reported with the paths.  The peer encrypts as this      *)
(* client does when it sends.                                              *)
(*                                                                         *)
(* Of a cipher only the padding and the limit on what is read are          *)
(* modelled; with the right key decryption is the inverse of encryption.   *)
(***************************************************************************)
EXTENDS Naturals, Sequences

CONSTANTS Messages,   \* items of each message, by message id
          Block,      \* cipher block size (16)
          Limit,      \* bytes read from the CDN (64 MiB)
          MaxReports, \* bound: messages reported
          Nobody

\* Each message is a sequence of items whose data are bytes.
MediaAssumption ==
    /\ Block \in Nat \ {0} /\ Limit \in Nat
    /\ Nobody \notin DOMAIN Messages
    /\ \A m \in DOMAIN Messages :
          /\ Len(Messages[m]) \in Nat
          /\ \A i \in 1..Len(Messages[m]) : Messages[m][i].data \in Seq(Nat)

VARIABLES
    current,  \* message being normalised, Nobody between messages
    next,     \* its next item
    segments, \* its segments so far
    disk,     \* inbound files: under each path the item written last, of which
              \* message, the data, and whether that write failed
    reported  \* history: segments reported

vars == <<current, next, segments, disk, reported>>

-----------------------------------------------------------------------------
(* Padding and keys.                                                       *)

Padding(n) == Block - (n % Block)

\* Mutant: a full last block is not padded.
PadUnlessFull(s) == s \o [i \in 1..(Padding(Len(s)) % Block) |-> Padding(Len(s))]

\* pkcs7Pad.
Pad(s) == s \o [i \in 1..Padding(Len(s)) |-> Padding(Len(s))]

\* aesECBSize, announced before the upload.
AnnouncedSize(n) == n + Padding(n)

\* pkcs7Unpad, FALSE for an error.
UnpadFails(s) ==
    LET n == Len(s)  p == s[n] IN
    \/ n = 0 \/ n % Block # 0
    \/ p = 0 \/ p > Block \/ p > n
    \/ \E i \in (n - p + 1)..n : s[i] # p
Unpad(s) == SubSeq(s, 1, Len(s) - s[Len(s)])

Read(s) == IF Len(s) > Limit THEN SubSeq(s, 1, Limit) ELSE s

\* An item without a key in its media: "none", or "bad hex" if an image's other
\* field has one that is no hexadecimal, which normalizeMessage ignores.
Keyless(item) == item.key \in {"none", "bad hex"}

\* What the CDN has: the ciphertext, but of an item that has no key at all.
Uploaded(item) == IF item.key = "none" THEN item.data ELSE Pad(item.data)

\* downloadBuffer.  parseAesKey takes the key's 16 bytes and the 32 characters
\* of their hexadecimal form.
DownloadFails(item) ==
    /\ ~Keyless(item)
    /\ \/ item.key = "malformed"
       \/ Len(Read(Uploaded(item))) % Block # 0
       \/ UnpadFails(Read(Uploaded(item)))

Downloaded(item) ==
    IF Keyless(item) THEN Read(Uploaded(item)) ELSE Unpad(Read(Uploaded(item)))

-----------------------------------------------------------------------------
(* normalizeMessage.                                                       *)

\* All but images need a key.
NeedsKey(item) == item.kind # "image"
Skipped(item) ==
    \/ item.kind = "text"
    \/ ~item.query
    \/ NeedsKey(item) /\ Keyless(item)

\* Mutant: one directory for all kinds.
PathFlat(m, item) == <<"inbound", IF item.kind = "file" THEN item.name ELSE m>>

\* Images, voices and videos are named after the message, files as the peer
\* named them.
Path(m, item) == <<item.kind, IF item.kind = "file" THEN item.name ELSE m>>

\* A batch holds the message; its texts, joined, are the first segment.
Begin(m) ==
    /\ current = Nobody
    /\ Len(reported) < MaxReports
    /\ current' = m
    /\ next' = 1
    /\ segments' = IF \E i \in 1..Len(Messages[m]) : Messages[m][i].kind = "text"
                   THEN <<[kind |-> "text"]>> ELSE <<>>
    /\ UNCHANGED <<disk, reported>>

Item == Messages[current][next]
AtItem == current # Nobody /\ next <= Len(Messages[current])

Skip ==
    /\ AtItem
    /\ Skipped(Item)
    /\ next' = next + 1
    /\ UNCHANGED <<current, segments, disk, reported>>

\* saveInboundBuffer, whose os.WriteFile truncates what is under the path.
WriteFile(data, failed) ==
    LET path == Path(current, Item)
        copy == [message |-> current, item |-> Item, data |-> data, failed |-> failed]
    IN disk' = [p \in DOMAIN disk \cup {path} |-> IF p = path THEN copy ELSE disk[p]]

\* Downloaded and saved.
Save ==
    /\ AtItem
    /\ ~Skipped(Item)
    /\ ~DownloadFails(Item)
    /\ WriteFile(Downloaded(Item), FALSE)
    /\ segments' = Append(segments, [kind |-> Item.kind, message |-> current,
                                     path |-> Path(current, Item), item |-> Item])
    /\ next' = next + 1
    /\ UNCHANGED <<current, reported>>

\* normalizeMessage fails: the message is dropped with a warning; the files
\* saved so far stay.
Dropped ==
    /\ AtItem
    /\ ~Skipped(Item)
    /\ current' = Nobody
    /\ segments' = <<>>
    /\ UNCHANGED <<next, reported>>

\* The download or the decryption fails, or the file cannot be opened.
Drop == Dropped /\ UNCHANGED disk

\* Writing fails after the file was truncated, at any byte.
DropTorn ==
    /\ Dropped
    /\ ~DownloadFails(Item)
    /\ \E n \in 0..Len(Downloaded(Item)) : WriteFile(SubSeq(Downloaded(Item), 1, n), TRUE)

\* A message without segments is no event.
End ==
    /\ current # Nobody
    /\ next > Len(Messages[current])
    /\ reported' = IF segments = <<>> THEN reported ELSE Append(reported, segments)
    /\ current' = Nobody
    /\ segments' = <<>>
    /\ UNCHANGED <<next, disk>>

Init ==
    /\ current = Nobody
    /\ next = 1
    /\ segments = <<>>
    /\ disk = [p \in {} |-> 0]
    /\ reported = <<>>

Next == (\E m \in DOMAIN Messages : Begin(m)) \/ Skip \/ Save \/ Drop \/ DropTorn \/ End

Spec == Init /\ [][Next]_vars

-----------------------------------------------------------------------------
(* Properties.                                                             *)

Namesakes(s, file) ==
    /\ file.item.kind = s.kind
    /\ IF s.kind = "file" THEN file.item.name = s.item.name ELSE file.message = s.message

\* The file a reported segment points to is of its item, or of another of
\* the same kind in the same message, or of a file of the same name in any; and
\* it holds what the peer sent.  Excepted by name: what does not fit
\* into the read limit, an image whose key is no hexadecimal, which is kept
\* encrypted, and a file that the failed save of such a namesake tore.  And the
\* size announced for an upload is the size sent.
MediaIsWhatWasSent ==
    /\ \A k \in 1..Len(reported) : \A i \in 1..Len(reported[k]) :
          LET s == reported[k][i] IN
          s.kind # "text" =>
              /\ s.path \in DOMAIN disk
              /\ Namesakes(s, disk[s.path])
              /\ LET f == disk[s.path] IN
                 \/ f.data = IF f.item.key = "bad hex" THEN Pad(f.item.data) ELSE f.item.data
                 \/ Len(Pad(f.item.data)) > Limit
                 \/ f.failed
    /\ AtItem => AnnouncedSize(Len(Item.data)) = Len(Pad(Item.data))
=============================================================================
