---------------------------- MODULE AtomicUpload ----------------------------
(***************************************************************************)
(* Uploading files to one destination path: Upload and sendUploadChunk of  *)
(* control-center/backend/transfer/transfer.go on one side,                *)
(* WriteAtomicUploadChunk and CancelAtomicUpload of                        *)
(* agent/internal/filesystem/fs.go (called by the handlers of              *)
(* agent/internal/server/handlers.go) on the other, over connections that  *)
(* can break, be replaced, and lose answers, and on an agent whose disk    *)
(* can fail and which can crash.                                           *)
(*                                                                         *)
(* Sizes are counted in chunks.  The bytes of a file are abstracted to     *)
(* whose they are and how many: a temporary file holds the first n chunks  *)
(* of its transfer.  An agent runs the handlers of one connection one      *)
(* after the other and those of different connections concurrently; a step *)
(* of a handler is one operation on the file system.                       *)
(***************************************************************************)
EXTENDS Integers, Sequences, FiniteSets

CONSTANTS
    Transfers,   \* Upload calls, each with its own transferID
    Size,        \* info.Size() of each source, when Upload opens it
    MaxReadable, \* bound of the model: how much of a source can be read
    MaxLinks,    \* bound of the model: successive connections to the agent
    Old, Absent

ASSUME UploadAssumption ==
    /\ Size \in [Transfers -> Nat]
    /\ MaxReadable \in Nat
    /\ MaxLinks \in Nat \ {0}
    /\ Old \notin Transfers /\ Old \notin Transfers \X Int
    /\ Absent \notin Int

Links == 1 .. MaxLinks

VARIABLES
    readable,    \* what is found of a source: less or more than Size if it changes
    upc,         \* Upload: its step, per transfer
    offset,      \* Upload: offset
    sentChunk,   \* Upload: sentChunk
    reply,       \* the answer on its way to a transfer: "none", "ack" or "error"
    link,        \* the connection requests go out on; 0 while there is none
    lost,        \* the highest connection that has broken
    inbox,       \* frames sent on a connection the agent has not read yet
    wpc, frame,  \* the handler running for a connection, and its request
    part, meta,  \* the .part and .meta files of a transfer
    dest,        \* the destination: Old, or <<transfer, chunks>>
    commits,     \* transfers that were renamed into place
    staleMeta    \* those of them whose .meta file could not be removed, history

client == <<readable, upc, offset, sentChunk>>
network == <<link, lost>>
disk == <<part, meta, dest, commits, staleMeta>>
vars == <<client, reply, network, inbox, wpc, frame, disk>>

Chunk(t, off, len, final) ==
    [kind |-> "chunk", t |-> t, off |-> off, len |-> len, final |-> final]
Cancel(t) == [kind |-> "cancel", t |-> t, off |-> 0, len |-> 0, final |-> FALSE]
Frames ==
    [kind : {"chunk", "cancel"}, t : Transfers, off : Nat, len : Nat, final : BOOLEAN]

(* A temporary file written anywhere but at its end holds no prefix of its *)
(* source any more.                                                        *)
Torn == -1

Returned == {"ok", "failed"}

TypeOK ==
    /\ readable \in [Transfers -> 0 .. MaxReadable]
    /\ upc \in [Transfers -> {"reading", "waiting", "cancel", "cancelling"} \cup Returned]
    /\ offset \in [Transfers -> Nat]
    /\ sentChunk \in [Transfers -> BOOLEAN]
    /\ reply \in [Transfers -> {"none", "ack", "error"}]
    /\ link \in 0 .. MaxLinks
    /\ lost \in 0 .. MaxLinks
    /\ inbox \in [Links -> Seq(Frames)]
    /\ wpc \in [Links -> {"idle", "createPart", "createMeta", "checkMeta", "checkPart",
                          "write", "checksum", "rename", "removeMeta", "cleanup",
                          "cancelPart", "cancelMeta", "ack"}]
    /\ \A k \in Links : wpc[k] # "idle" => frame[k] \in Frames
    /\ part \in [Transfers -> Nat \cup {Absent, Torn}]
    /\ \A t \in Transfers : part[t] \notin {Absent, Torn} => part[t] <= Size[t]
    /\ meta \in [Transfers -> Nat \cup {Absent}]
    /\ dest \in {Old} \cup (Transfers \X (Nat \cup {Torn}))
    /\ commits \subseteq Transfers
    /\ staleMeta \subseteq Transfers

Init ==
    /\ readable \in [Transfers -> 0 .. MaxReadable]
    /\ upc = [t \in Transfers |-> "reading"]
    /\ offset = [t \in Transfers |-> 0]
    /\ sentChunk = [t \in Transfers |-> FALSE]
    /\ reply = [t \in Transfers |-> "none"]
    /\ link = 1
    /\ lost = 0
    /\ inbox = [k \in Links |-> <<>>]
    /\ wpc = [k \in Links |-> "idle"]
    /\ frame = [k \in Links |-> Absent]
    /\ part = [t \in Transfers |-> Absent]
    /\ meta = [t \in Transfers |-> Absent]
    /\ dest = Old
    /\ commits = {}
    /\ staleMeta = {}

----------------------------------------------------------------------------
(* Upload                                                                  *)

(* source.Read: a chunk, or at the end of the stated size whatever the     *)
(* source has grown by as well.  (Growth that begins exactly at a chunk    *)
(* boundary is never read: readable then equals Size.)                     *)
ReadLen(t) ==
    IF readable[t] > Size[t] /\ offset[t] + 1 >= Size[t] THEN readable[t] - offset[t] ELSE 1

(* The next chunk.  An empty source is one final chunk without data.       *)
NextChunk(t) ==
    IF Size[t] = 0 /\ readable[t] = 0
    THEN Chunk(t, 0, 0, TRUE)
    ELSE Chunk(t, offset[t], ReadLen(t), offset[t] + ReadLen(t) = Size[t])

SourceEnded(t) == readable[t] <= offset[t] /\ Size[t] > 0

(* A request that finds no connection fails at once.                       *)
SendFrame(f) ==
    /\ link # 0
    /\ inbox' = [inbox EXCEPT ![link] = Append(@, f)]

SendChunk(t) ==
    /\ upc[t] = "reading"
    /\ ~SourceEnded(t)
    /\ SendFrame(NextChunk(t))
    /\ upc' = [upc EXCEPT ![t] = "waiting"]
    /\ sentChunk' = [sentChunk EXCEPT ![t] = TRUE]
    /\ reply' = [reply EXCEPT ![t] = "none"]
    /\ UNCHANGED <<readable, offset, network, wpc, frame, disk>>

(* The deferred function: tell the agent, if it may have something.        *)
Fail(t, sent) == upc' = [upc EXCEPT ![t] = IF sent THEN "cancel" ELSE "failed"]

SendChunkFails(t) ==
    /\ upc[t] = "reading"
    /\ ~SourceEnded(t)
    /\ link = 0
    /\ sentChunk' = [sentChunk EXCEPT ![t] = TRUE]
    /\ Fail(t, TRUE)
    /\ UNCHANGED <<readable, offset, reply, network, inbox, wpc, frame, disk>>

(* Mutant: the end of a source that became shorter counts as success.      *)
AbortMutant(t) ==
    /\ upc[t] = "reading"
    /\ IF SourceEnded(t) THEN upc' = [upc EXCEPT ![t] = "ok"] ELSE Fail(t, sentChunk[t])
    /\ UNCHANGED <<readable, offset, sentChunk, reply, network, inbox, wpc, frame, disk>>

(* The context is cancelled, the source cannot be read, or it is shorter   *)
(* than it was.                                                            *)
Abort(t) ==
    /\ upc[t] = "reading"
    /\ Fail(t, sentChunk[t])
    /\ UNCHANGED <<readable, offset, sentChunk, reply, network, inbox, wpc, frame, disk>>

(* SendRequest returns an error: it timed out, or the manager shuts down.  *)
RequestTimesOut(t) ==
    /\ upc[t] \in {"waiting", "cancelling"}
    /\ upc' = [upc EXCEPT ![t] = IF @ = "waiting" THEN "cancel" ELSE "failed"]
    /\ UNCHANGED <<readable, offset, sentChunk, reply, network, inbox, wpc, frame, disk>>

ChunkAcked(t) ==
    /\ upc[t] = "waiting"
    /\ reply[t] = "ack"
    /\ reply' = [reply EXCEPT ![t] = "none"]
    /\ offset' = [offset EXCEPT ![t] = @ + NextChunk(t).len]
    /\ upc' = [upc EXCEPT ![t] = IF NextChunk(t).final THEN "ok" ELSE "reading"]
    /\ UNCHANGED <<readable, sentChunk, network, inbox, wpc, frame, disk>>

ChunkRefused(t) ==
    /\ upc[t] = "waiting"
    /\ reply[t] = "error"
    /\ reply' = [reply EXCEPT ![t] = "none"]
    /\ Fail(t, TRUE)
    /\ UNCHANGED <<readable, offset, sentChunk, network, inbox, wpc, frame, disk>>

SendCancel(t) ==
    /\ upc[t] = "cancel"
    /\ SendFrame(Cancel(t))
    /\ upc' = [upc EXCEPT ![t] = "cancelling"]
    /\ reply' = [reply EXCEPT ![t] = "none"]
    /\ UNCHANGED <<readable, offset, sentChunk, network, wpc, frame, disk>>

SendCancelFails(t) ==
    /\ upc[t] = "cancel"
    /\ link = 0
    /\ upc' = [upc EXCEPT ![t] = "failed"]
    /\ UNCHANGED <<readable, offset, sentChunk, reply, network, inbox, wpc, frame, disk>>

CancelAnswered(t) ==
    /\ upc[t] = "cancelling"
    /\ reply[t] # "none"
    /\ upc' = [upc EXCEPT ![t] = "failed"]
    /\ UNCHANGED <<readable, offset, sentChunk, reply, network, inbox, wpc, frame, disk>>

----------------------------------------------------------------------------
(* The agent: handleSendFile and handleCancelFile for connection k         *)

(* Mutant: the announced size is only looked at when the transfer ends.    *)
ValidMutant(f) == f.final => f.off + f.len = Size[f.t]

(* What a chunk announces of itself: it does not reach beyond the size of  *)
(* the transfer, and reaches it exactly if it is the last.                 *)
Valid(f) ==
    LET end == f.off + f.len IN
    /\ end <= Size[f.t]
    /\ IF f.final THEN end = Size[f.t] ELSE f.len > 0 /\ end < Size[f.t]

FirstStep(f) ==
    CASE f.kind = "cancel"                              -> "cancelPart"
      [] f.kind = "chunk" /\ ~Valid(f)                  -> "cleanup"
      [] f.kind = "chunk" /\ Valid(f) /\ f.off = 0      -> "createPart"
      [] f.kind = "chunk" /\ Valid(f) /\ f.off # 0      -> "checkMeta"

Take(k) ==
    /\ wpc[k] = "idle"
    /\ inbox[k] # <<>>
    /\ inbox' = [inbox EXCEPT ![k] = Tail(@)]
    /\ frame' = [frame EXCEPT ![k] = Head(inbox[k])]
    /\ wpc' = [wpc EXCEPT ![k] = FirstStep(Head(inbox[k]))]
    /\ UNCHANGED <<client, reply, network, disk>>

At(k, from, to) == wpc[k] = from /\ wpc' = [wpc EXCEPT ![k] = to]

handlerRest == <<client, reply, network, inbox, frame>>

CreatePart(k) ==
    /\ At(k, "createPart", "createMeta")
    /\ part' = [part EXCEPT ![frame[k].t] = 0]
    /\ UNCHANGED <<handlerRest, meta, dest, commits, staleMeta>>

CreateMeta(k) ==
    /\ At(k, "createMeta", "write")
    /\ meta' = [meta EXCEPT ![frame[k].t] = Size[frame[k].t]]
    /\ UNCHANGED <<handlerRest, part, dest, commits, staleMeta>>

CheckMeta(k) ==
    /\ At(k, "checkMeta", IF meta[frame[k].t] = Size[frame[k].t] THEN "checkPart" ELSE "cleanup")
    /\ UNCHANGED <<handlerRest, disk>>

CheckPart(k) ==
    /\ At(k, "checkPart", IF part[frame[k].t] = frame[k].off THEN "write" ELSE "cleanup")
    /\ UNCHANGED <<handlerRest, disk>>

(* OpenFile without O_CREATE, WriteAt, Sync, Close.                        *)
Write(k) ==
    LET f == frame[k] IN
    /\ wpc[k] = "write"
    /\ \/ /\ part[f.t] = Absent
          /\ wpc' = [wpc EXCEPT ![k] = "cleanup"]
          /\ UNCHANGED part
       \/ /\ part[f.t] # Absent
          /\ part' = [part EXCEPT ![f.t] = IF @ = f.off THEN f.off + f.len ELSE Torn]
          /\ wpc' = [wpc EXCEPT ![k] = IF f.final THEN "checksum" ELSE "ack"]
    /\ UNCHANGED <<handlerRest, meta, dest, commits, staleMeta>>

(* FileSHA256 of the temporary file against the checksum of the source.    *)
Checksum(k) ==
    /\ At(k, "checksum", IF part[frame[k].t] = Size[frame[k].t] THEN "rename" ELSE "cleanup")
    /\ UNCHANGED <<handlerRest, disk>>

Rename(k) ==
    LET t == frame[k].t IN
    /\ At(k, "rename", IF part[t] = Absent THEN "cleanup" ELSE "removeMeta")
    /\ dest' = IF part[t] = Absent THEN dest ELSE <<t, part[t]>>
    /\ commits' = IF part[t] = Absent THEN commits ELSE commits \cup {t}
    /\ part' = [part EXCEPT ![t] = Absent]
    /\ UNCHANGED <<handlerRest, meta, staleMeta>>

(* Mutant: the commit leaves the metadata behind.                          *)
RemoveMetaMutant(k) ==
    /\ At(k, "removeMeta", "ack")
    /\ UNCHANGED <<handlerRest, disk>>

(* The transfer is committed whether or not its metadata can be removed.   *)
RemoveMeta(k) ==
    /\ At(k, "removeMeta", "ack")
    /\ \/ /\ meta' = [meta EXCEPT ![frame[k].t] = Absent]
          /\ UNCHANGED staleMeta
       \/ /\ staleMeta' = staleMeta \cup {frame[k].t}
          /\ UNCHANGED meta
    /\ UNCHANGED <<handlerRest, part, dest, commits>>

(* The answer reaches the request that waits for it, by its ID, if the     *)
(* connection still stands; any other is dropped.                          *)
Awaited(k) ==
    LET f == frame[k] IN
    /\ k > lost
    /\ \/ f.kind = "chunk" /\ upc[f.t] = "waiting" /\ offset[f.t] = f.off
       \/ f.kind = "cancel" /\ upc[f.t] = "cancelling"

Answer(k, verdict) ==
    reply' = IF Awaited(k) THEN [reply EXCEPT ![frame[k].t] = verdict] ELSE reply

Ack(k) ==
    /\ At(k, "ack", "idle")
    /\ Answer(k, "ack")
    /\ UNCHANGED <<client, network, inbox, frame, disk>>

(* cleanup() and the error answer: either file stays if it cannot be       *)
(* removed.                                                                *)
Cleanup(k) ==
    LET t == frame[k].t IN
    /\ At(k, "cleanup", "idle")
    /\ \E left \in {part[t], Absent} : part' = [part EXCEPT ![t] = left]
    /\ \E left \in {meta[t], Absent} : meta' = [meta EXCEPT ![t] = left]
    /\ Answer(k, "error")
    /\ UNCHANGED <<client, network, inbox, frame, dest, commits, staleMeta>>

CancelPart(k) ==
    /\ At(k, "cancelPart", "cancelMeta")
    /\ part' = [part EXCEPT ![frame[k].t] = Absent]
    /\ UNCHANGED <<handlerRest, meta, dest, commits, staleMeta>>

CancelMeta(k) ==
    /\ At(k, "cancelMeta", "ack")
    /\ meta' = [meta EXCEPT ![frame[k].t] = Absent]
    /\ UNCHANGED <<handlerRest, part, dest, commits, staleMeta>>

(* An operation on the disk fails whose error the code looks at; those of  *)
(* the removals it ignores are in Cleanup and RemoveMeta.                  *)
DiskFails(k) ==
    /\ wpc[k] \in {"createPart", "createMeta", "checkMeta", "checkPart", "write", "checksum", "rename"}
    /\ wpc' = [wpc EXCEPT ![k] = "cleanup"]
    /\ UNCHANGED <<handlerRest, disk>>

CancelFails(k) ==
    /\ wpc[k] \in {"cancelPart", "cancelMeta"}
    /\ wpc' = [wpc EXCEPT ![k] = "idle"]
    /\ Answer(k, "error")
    /\ UNCHANGED <<client, network, inbox, frame, disk>>

----------------------------------------------------------------------------
(* The connection and the agent process.                                   *)

Break ==
    /\ link # 0
    /\ lost' = link
    /\ link' = 0
    /\ UNCHANGED <<client, reply, inbox, wpc, frame, disk>>

Reconnect ==
    /\ link = 0
    /\ lost < MaxLinks
    /\ link' = lost + 1
    /\ UNCHANGED <<client, reply, lost, inbox, wpc, frame, disk>>

(* The agent's read pump meets the end of a broken connection, having read *)
(* only some of what was sent on it.                                       *)
DropInbox(k) ==
    /\ k <= lost
    /\ wpc[k] = "idle"
    /\ inbox[k] # <<>>
    /\ inbox' = [inbox EXCEPT ![k] = <<>>]
    /\ UNCHANGED <<client, reply, network, wpc, frame, disk>>

(* The agent dies and is started again; only its disk survives.            *)
Crash ==
    /\ link # 0
    /\ lost' = link
    /\ link' = 0
    /\ inbox' = [k \in Links |-> <<>>]
    /\ wpc' = [k \in Links |-> "idle"]
    /\ UNCHANGED <<client, reply, frame, disk>>

----------------------------------------------------------------------------

Upload(t) ==
    \/ SendChunk(t) \/ SendChunkFails(t) \/ Abort(t) \/ RequestTimesOut(t)
    \/ ChunkAcked(t) \/ ChunkRefused(t)
    \/ SendCancel(t) \/ SendCancelFails(t) \/ CancelAnswered(t)

Handle(k) ==
    \/ Take(k)
    \/ CreatePart(k) \/ CreateMeta(k) \/ CheckMeta(k) \/ CheckPart(k)
    \/ Write(k) \/ Checksum(k) \/ Rename(k) \/ RemoveMeta(k)
    \/ Ack(k) \/ Cleanup(k) \/ DiskFails(k)
    \/ CancelPart(k) \/ CancelMeta(k) \/ CancelFails(k)

Next ==
    \/ \E t \in Transfers : Upload(t)
    \/ \E k \in Links : Handle(k) \/ DropInbox(k)
    \/ Break
    \/ Reconnect
    \/ Crash

Spec == Init /\ [][Next]_vars

----------------------------------------------------------------------------

Result(t) == IF upc[t] \in Returned THEN upc[t] ELSE "pending"

(* Whose complete content the destination has, if it has one.              *)
Owner == IF dest = Old THEN Old ELSE IF dest[2] = Size[dest[1]] THEN dest[1] ELSE Absent

Abstract ==
    INSTANCE AtomicFile WITH file <- Owner, committed <- commits, result <- [t \in Transfers |-> Result(t)]

(* "The final path is replaced only after the final chunk has the expected *)
(* size and SHA-256 checksum" (fs.go:224-226), whatever breaks, fails or   *)
(* overtakes: the uploads implement AtomicFile, so that a torn file is     *)
(* never visible and an Upload that returns nil was committed.             *)
ImplementsAtomicFile == Abstract!Spec

(* Nothing temporary is left on the agent by a transfer that succeeded,    *)
(* but for metadata that the commit could not remove (its error is ignored *)
(* at fs.go:348), and nothing at all by one that failed on a connection    *)
(* that never broke and whose cancel_file was acknowledged, whatever       *)
(* cleanup() had left: transfer.go:189-199, fs.go:352-373.                 *)
NoLeftovers ==
    \A t \in Transfers :
        /\ upc[t] = "ok" => part[t] = Absent /\ (meta[t] = Absent \/ t \in staleMeta)
        /\ upc[t] = "failed" /\ reply[t] = "ack" /\ lost = 0 =>
             part[t] = Absent /\ meta[t] = Absent

============================================================================
