------------------------- MODULE AtomicUploadProofs -------------------------
(***************************************************************************)
(* Uploads to one destination for any number of transfers of any sizes,    *)
(* any sources that grow or shrink, and any number of broken connections,  *)
(* lost answers, failures of the disk and crashes of the agent: they       *)
(* implement AtomicFile, and leave nothing behind.                         *)
(***************************************************************************)
EXTENDS AtomicUpload, TLAPS

(* A connection as a line of frames: the one its handler works on is at    *)
(* position 0, those the agent has not read yet follow in order.           *)
Present(k, i) ==
    \/ i = 0 /\ wpc[k] # "idle"
    \/ i \in 1 .. Len(inbox[k])

FrameAt(k, i) == IF i = 0 THEN frame[k] ELSE inbox[k][i]

ChunkAt(k, i, t) == Present(k, i) /\ FrameAt(k, i).kind = "chunk" /\ FrameAt(k, i).t = t
CancelAt(k, i, t) == Present(k, i) /\ FrameAt(k, i).kind = "cancel" /\ FrameAt(k, i).t = t

CancelSteps == {"cancelPart", "cancelMeta"}
WriteSteps == {"createPart", "createMeta", "checkMeta", "checkPart", "write", "checksum",
               "rename", "removeMeta"}

(* Upload waits for the answer to a chunk before it sends the next one, on *)
(* whatever connection: a transfer has one chunk under way at most.        *)
OneChunk ==
    \A t \in Transfers, k, j \in Links, i, l \in Nat :
        ChunkAt(k, i, t) /\ ChunkAt(j, l, t) => k = j /\ i = l

(* The chunk under way is the one Upload waits for, or Upload has given up.*)
ChunkIsAwaited ==
    \A t \in Transfers, k \in Links, i \in Nat :
        ChunkAt(k, i, t) =>
            /\ upc[t] \notin {"reading", "ok"}
            /\ upc[t] = "waiting" => reply[t] # "ack" /\ FrameAt(k, i) = NextChunk(t)

(* A transfer that is committed sends no further chunk, and the handler    *)
(* that committed it is past the rename.                                   *)
CommitIsLast ==
    \A t \in commits :
        /\ upc[t] # "reading"
        /\ upc[t] = "waiting" => NextChunk(t).final
        /\ part[t] = Absent
        /\ \A k \in Links, i \in Nat :
             ChunkAt(k, i, t) => i = 0 /\ wpc[k] \in {"removeMeta", "ack"}

(* Committed, and rid of its metadata if it could be removed.              *)
Gone(t) == t \in commits /\ (meta[t] = Absent \/ t \in staleMeta)

(* What a handler knows in each of its steps.                              *)
HandlerAt(k) ==
    LET f == frame[k] IN
    /\ wpc[k] \in CancelSteps => f.kind = "cancel"
    /\ wpc[k] \in WriteSteps \cup {"cleanup"} => f.kind = "chunk"
    /\ wpc[k] \in WriteSteps => Valid(f)
    /\ wpc[k] \in {"checksum", "rename", "removeMeta"} => f.final
    /\ wpc[k] = "rename" => part[f.t] \in {Size[f.t], Absent}
    /\ wpc[k] = "removeMeta" => f.t \in commits
    /\ wpc[k] = "ack" /\ f.kind = "chunk" /\ f.final => Gone(f.t)

(* The answer to the last chunk comes after the commit.                    *)
AckMeansCommitted ==
    \A t \in Transfers :
        \/ upc[t] = "waiting" /\ reply[t] = "ack" /\ NextChunk(t).final
        \/ upc[t] = "ok"
        => Gone(t)

(* Upload never reads beyond what there is of its source.                  *)
OffsetsInSource ==
    \A t \in Transfers :
        /\ offset[t] <= readable[t]
        /\ upc[t] = "waiting" => ~SourceEnded(t)

(* On a connection that never broke a cancellation follows the chunk it    *)
(* cancels, so that nothing is created after it.                           *)
CancelIsLast ==
    /\ lost = 0 => link = 1 /\ \A k \in Links, i \in Nat : Present(k, i) => k = 1
    /\ \A t \in Transfers : upc[t] = "reading" => reply[t] = "none"
    /\ \A t \in Transfers, k \in Links, i \in Nat :
         CancelAt(k, i, t) =>
             /\ upc[t] \in {"cancelling", "failed"}
             /\ lost = 0 => \A j \in Nat : ChunkAt(k, j, t) => j < i
    /\ lost = 0 =>
         /\ \A k \in Links :
              /\ wpc[k] = "cancelMeta" => part[frame[k].t] = Absent
              /\ wpc[k] = "ack" /\ frame[k].kind = "cancel" =>
                   part[frame[k].t] = Absent /\ meta[frame[k].t] = Absent
         /\ \A t \in Transfers :
              upc[t] \in {"cancelling", "failed"} /\ reply[t] = "ack" =>
                  /\ part[t] = Absent /\ meta[t] = Absent
                  /\ \A k \in Links, i \in Nat : ~ChunkAt(k, i, t)

(* The inductive invariant.                                                *)
UploadInv ==
    /\ TypeOK /\ OneChunk /\ ChunkIsAwaited /\ CommitIsLast /\ AckMeansCommitted
    /\ OffsetsInSource /\ CancelIsLast
    /\ \A k \in Links : HandlerAt(k)
    /\ frame \in [Links -> Frames \cup {Absent}]

----------------------------------------------------------------------------
(* Facts about the operators of the model.                                 *)

LEMMA NextChunkSame ==
  ASSUME NEW t, readable'[t] = readable[t], offset'[t] = offset[t]
  PROVE  NextChunk(t)' = NextChunk(t) /\ (SourceEnded(t)' <=> SourceEnded(t))
  BY DEF NextChunk, ReadLen, Chunk, SourceEnded

(* A chunk of a source that has not ended stays within the source.         *)
LEMMA NextChunkInSource ==
  ASSUME TypeOK, OffsetsInSource, NEW t \in Transfers, ~SourceEnded(t)
  PROVE  /\ NextChunk(t) \in Frames
         /\ NextChunk(t).kind = "chunk" /\ NextChunk(t).t = t
         /\ NextChunk(t).len \in Nat
         /\ offset[t] + NextChunk(t).len <= readable[t]
  <1>1. /\ Size[t] \in Nat /\ readable[t] \in Nat /\ offset[t] \in Nat
        /\ offset[t] <= readable[t]
        /\ readable[t] > offset[t] \/ Size[t] = 0
    BY UploadAssumption DEF TypeOK, OffsetsInSource, SourceEnded
  <1>2. CASE Size[t] = 0 /\ readable[t] = 0
    <2>1. NextChunk(t) = Chunk(t, 0, 0, TRUE)
      BY <1>2 DEF NextChunk
    <2> QED
      BY <1>1, <1>2, <2>1 DEF Chunk, Frames
  <1>3. CASE ~(Size[t] = 0 /\ readable[t] = 0)
    <2>1. NextChunk(t) = Chunk(t, offset[t], ReadLen(t), offset[t] + ReadLen(t) = Size[t])
      BY <1>3 DEF NextChunk
    <2>2. ReadLen(t) \in Nat /\ offset[t] + ReadLen(t) <= readable[t]
      BY <1>1, <1>3 DEF ReadLen
    <2> QED
      BY <1>1, <2>1, <2>2 DEF Chunk, Frames
  <1> QED
    BY <1>2, <1>3

LEMMA NextChunkFinal ==
  ASSUME NEW t
  PROVE  NextChunk(t).final \in BOOLEAN
  BY DEF NextChunk, Chunk

(* A step that moves no frame.                                             *)
LEMMA SameLines ==
  ASSUME inbox' = inbox, frame' = frame,
         \A k \in Links : wpc'[k] = "idle" <=> wpc[k] = "idle"
  PROVE  \A k \in Links, i \in Nat :
           /\ Present(k, i)' <=> Present(k, i)
           /\ FrameAt(k, i)' = FrameAt(k, i)
           /\ \A t \in Transfers : /\ ChunkAt(k, i, t)' <=> ChunkAt(k, i, t)
                                   /\ CancelAt(k, i, t)' <=> CancelAt(k, i, t)
  <1> SUFFICES ASSUME NEW k \in Links, NEW i \in Nat
               PROVE  /\ Present(k, i)' <=> Present(k, i)
                      /\ FrameAt(k, i)' = FrameAt(k, i)
                      /\ \A t \in Transfers : /\ ChunkAt(k, i, t)' <=> ChunkAt(k, i, t)
                                              /\ CancelAt(k, i, t)' <=> CancelAt(k, i, t)
    OBVIOUS
  <1>1. /\ Present(k, i)' <=> Present(k, i)
        /\ FrameAt(k, i)' = FrameAt(k, i)
    BY DEF Present, FrameAt
  <1> QED
    BY <1>1 DEF ChunkAt, CancelAt

(* A frame of a transfer is found where its handler is.                    *)
LEMMA HandlerFrame ==
  ASSUME UploadInv, NEW k \in Links, wpc[k] # "idle"
  PROVE  /\ frame[k] \in Frames /\ frame[k].t \in Transfers
         /\ frame[k].kind \in {"chunk", "cancel"} /\ frame[k].final \in BOOLEAN
         /\ frame[k].off \in Nat /\ frame[k].len \in Nat
         /\ frame[k].kind = "chunk" => ChunkAt(k, 0, frame[k].t)
         /\ frame[k].kind = "cancel" => CancelAt(k, 0, frame[k].t)
  <1>1. frame[k] \in Frames
    BY DEF UploadInv, TypeOK
  <1>2. Present(k, 0) /\ FrameAt(k, 0) = frame[k]
    BY DEF Present, FrameAt
  <1> QED
    BY <1>1, <1>2 DEF Frames, ChunkAt, CancelAt

----------------------------------------------------------------------------
(* The connection breaks or is replaced, or frames on it are lost.         *)

LEMMA NetworkStep ==
  ASSUME UploadInv, Break \/ Reconnect \/ Crash \/ \E k \in Links : DropInbox(k)
  PROVE  UploadInv'
  <1>1. /\ UNCHANGED <<client, reply, frame, disk>>
        /\ lost' \in 0 .. MaxLinks /\ link' \in 0 .. MaxLinks /\ lost' # 0
    <2>1. lost \in 0 .. MaxLinks /\ link \in 0 .. MaxLinks /\ (lost = 0 => link = 1)
      BY DEF UploadInv, TypeOK, CancelIsLast
    <2>2. MaxLinks \in Nat
      BY UploadAssumption
    <2> QED
      BY <2>1, <2>2 DEF Break, Reconnect, Crash, DropInbox, network, Links
  <1>2. /\ \A k \in Links : wpc'[k] = wpc[k] \/ wpc'[k] = "idle"
        /\ \A k \in Links : inbox'[k] = inbox[k] \/ inbox'[k] = <<>>
        /\ wpc' = wpc \/ wpc' = [k \in Links |-> "idle"]
        /\ inbox' \in [Links -> Seq(Frames)]
    <2>1. inbox \in [Links -> Seq(Frames)] /\ <<>> \in Seq(Frames)
      BY DEF UploadInv, TypeOK
    <2>2. CASE Break \/ Reconnect
      BY <2>1, <2>2 DEF Break, Reconnect
    <2>3. CASE Crash
      BY <2>1, <2>3 DEF Crash
    <2>4. CASE \E k \in Links : DropInbox(k)
      BY <2>1, <2>4 DEF DropInbox
    <2> QED
      BY <2>2, <2>3, <2>4
  <1>3. ASSUME NEW k \in Links, NEW i \in Nat, Present(k, i)'
        PROVE  Present(k, i) /\ FrameAt(k, i)' = FrameAt(k, i)
    BY <1>1, <1>2, <1>3 DEF Present, FrameAt
  <1>4. \A k \in Links, i \in Nat, t \in Transfers :
          /\ ChunkAt(k, i, t)' => ChunkAt(k, i, t) /\ FrameAt(k, i)' = FrameAt(k, i)
          /\ CancelAt(k, i, t)' => CancelAt(k, i, t)
    BY <1>3 DEF ChunkAt, CancelAt
  <1>5. \A t \in Transfers : NextChunk(t)' = NextChunk(t) /\ (SourceEnded(t)' <=> SourceEnded(t))
    BY <1>1, NextChunkSame DEF client
  <1>6. TypeOK'
    BY <1>1, <1>2 DEF UploadInv, TypeOK, client, disk
  <1>7. OneChunk' /\ ChunkIsAwaited'
    <2>1. OneChunk'
      BY <1>4 DEF UploadInv, OneChunk
    <2>2. upc' = upc /\ reply' = reply
      BY <1>1 DEF client
    <2>3. ChunkIsAwaited'
      BY <1>4, <1>5, <2>2 DEF UploadInv, ChunkIsAwaited
    <2> QED
      BY <2>1, <2>3
  <1>8. CommitIsLast'
    <2> SUFFICES ASSUME NEW t \in commits
                 PROVE  /\ upc[t] # "reading"
                        /\ upc[t] = "waiting" => NextChunk(t).final
                        /\ part[t] = Absent
                        /\ \A k \in Links, i \in Nat :
                             ChunkAt(k, i, t)' => i = 0 /\ wpc'[k] \in {"removeMeta", "ack"}
      BY <1>1, <1>5, <1>6 DEF CommitIsLast, client, disk, TypeOK
    <2>1. t \in Transfers
      BY DEF UploadInv, TypeOK
    <2>2. ASSUME NEW k \in Links, NEW i \in Nat, ChunkAt(k, i, t)'
          PROVE  i = 0 /\ wpc'[k] \in {"removeMeta", "ack"}
      <3>1. i = 0 /\ wpc[k] \in {"removeMeta", "ack"}
        BY <1>4, <2>1, <2>2 DEF UploadInv, CommitIsLast
      <3>2. wpc'[k] # "idle"
        BY <2>2, <3>1 DEF ChunkAt, Present
      <3> QED
        BY <1>2, <3>1, <3>2
    <2> QED
      BY <2>2 DEF UploadInv, CommitIsLast
  <1>9. AckMeansCommitted' /\ OffsetsInSource'
    BY <1>1, <1>5 DEF UploadInv, AckMeansCommitted, Gone, OffsetsInSource, client, disk
  <1>10. CancelIsLast'
    BY <1>1, <1>4 DEF UploadInv, CancelIsLast, client
  <1>11. \A k \in Links : HandlerAt(k)'
    BY <1>1, <1>2 DEF UploadInv, HandlerAt, Gone, Valid, CancelSteps, WriteSteps, disk
  <1> QED
    BY <1>1, <1>6, <1>7, <1>8, <1>9, <1>10, <1>11 DEF UploadInv

----------------------------------------------------------------------------
(* Upload                                                                  *)

(* A step of Upload that sends nothing: its transfer either ends, or turns *)
(* to the cancellation, or its chunk was acknowledged.                     *)
LEMMA UploadOnlyStep ==
  ASSUME UploadInv, NEW t \in Transfers,
         \/ SendChunkFails(t) \/ Abort(t) \/ RequestTimesOut(t) \/ ChunkAcked(t)
         \/ ChunkRefused(t) \/ SendCancelFails(t) \/ CancelAnswered(t)
  PROVE  UploadInv'
  <1>1. /\ UNCHANGED <<readable, network, inbox, wpc, frame, disk>>
        /\ upc[t] \notin {"ok", "failed"}
    BY DEF SendChunkFails, Abort, RequestTimesOut, ChunkAcked, ChunkRefused, SendCancelFails,
           CancelAnswered, Returned
  <1>2. /\ upc \in [Transfers -> {"reading", "waiting", "cancel", "cancelling"} \cup Returned]
        /\ reply \in [Transfers -> {"none", "ack", "error"}]
        /\ offset \in [Transfers -> Nat]
        /\ sentChunk \in [Transfers -> BOOLEAN]
    BY DEF UploadInv, TypeOK
  <1>3. /\ upc' \in [Transfers -> {"reading", "waiting", "cancel", "cancelling"} \cup Returned]
        /\ reply' \in [Transfers -> {"none", "ack", "error"}]
        /\ sentChunk' \in [Transfers -> BOOLEAN]
        /\ \A u \in Transfers \ {t} : upc'[u] = upc[u] /\ reply'[u] = reply[u]
    BY <1>2 DEF SendChunkFails, Abort, RequestTimesOut, ChunkAcked, ChunkRefused, SendCancelFails,
                CancelAnswered, Fail, Returned
  <1>4. /\ offset' \in [Transfers -> Nat]
        /\ \A u \in Transfers \ {t} : offset'[u] = offset[u]
        /\ offset'[t] = offset[t] \/ ChunkAcked(t)
        /\ offset'[t] <= readable[t]
    <2>1. CASE ChunkAcked(t)
      <3>1. ~SourceEnded(t)
        BY <2>1 DEF ChunkAcked, UploadInv, OffsetsInSource
      <3>2. NextChunk(t).len \in Nat /\ offset[t] + NextChunk(t).len <= readable[t]
        BY <3>1, NextChunkInSource DEF UploadInv
      <3>3. offset' = [offset EXCEPT ![t] = @ + NextChunk(t).len]
        BY <2>1 DEF ChunkAcked
      <3> QED
        BY <1>2, <2>1, <3>2, <3>3
    <2>2. CASE ~ChunkAcked(t)
      <3>1. offset' = offset
        BY <2>2 DEF SendChunkFails, Abort, RequestTimesOut, ChunkRefused, SendCancelFails, CancelAnswered
      <3> QED
        BY <1>2, <2>2, <3>1 DEF UploadInv, OffsetsInSource
    <2> QED
      BY <2>1, <2>2
  <1>5. \/ /\ upc'[t] = "cancel" /\ upc[t] \in {"reading", "waiting"}
        \/ /\ upc'[t] = "failed" /\ upc[t] = "reading" /\ reply'[t] = reply[t]
        \/ /\ upc'[t] = "failed" /\ upc[t] = "cancelling" /\ reply'[t] = reply[t]
        \/ /\ upc'[t] = "failed" /\ upc[t] = "cancel" /\ link = 0
        \/ /\ upc[t] = "waiting" /\ reply[t] = "ack" /\ reply'[t] = "none"
           /\ upc'[t] = IF NextChunk(t).final THEN "ok" ELSE "reading"
    BY <1>2 DEF SendChunkFails, Abort, RequestTimesOut, ChunkAcked, ChunkRefused, SendCancelFails,
                CancelAnswered, Fail
  <1>6. \A k \in Links, i \in Nat :
          /\ Present(k, i)' <=> Present(k, i)
          /\ FrameAt(k, i)' = FrameAt(k, i)
          /\ \A u \in Transfers : /\ ChunkAt(k, i, u)' <=> ChunkAt(k, i, u)
                                  /\ CancelAt(k, i, u)' <=> CancelAt(k, i, u)
    BY <1>1, SameLines
  <1>7. \A u \in Transfers \ {t} : NextChunk(u)' = NextChunk(u) /\ (SourceEnded(u)' <=> SourceEnded(u))
    BY <1>1, <1>4, NextChunkSame
  <1>8. upc'[t] # "waiting"
    BY <1>5
  <1>9. TypeOK'
    BY <1>1, <1>3, <1>4 DEF UploadInv, TypeOK, network, disk
  <1>10. OneChunk'
    BY <1>6 DEF UploadInv, OneChunk
  <1>11. ChunkIsAwaited'
    <2> SUFFICES ASSUME NEW u \in Transfers, NEW k \in Links, NEW i \in Nat, ChunkAt(k, i, u)
                 PROVE  /\ upc'[u] \notin {"reading", "ok"}
                        /\ upc'[u] = "waiting" => reply'[u] # "ack" /\ FrameAt(k, i)' = NextChunk(u)'
      BY <1>6 DEF ChunkIsAwaited
    <2>1. /\ upc[u] \notin {"reading", "ok"}
          /\ upc[u] = "waiting" => reply[u] # "ack" /\ FrameAt(k, i) = NextChunk(u)
      BY DEF UploadInv, ChunkIsAwaited
    <2>2. CASE u = t
      BY <1>5, <1>8, <2>1, <2>2
    <2>3. CASE u # t
      BY <1>3, <1>6, <1>7, <2>1, <2>3
    <2> QED
      BY <2>2, <2>3
  <1>12. CommitIsLast'
    <2> SUFFICES ASSUME NEW u \in commits
                 PROVE  /\ upc'[u] # "reading"
                        /\ upc'[u] = "waiting" => NextChunk(u)'.final
      BY <1>1, <1>6 DEF UploadInv, TypeOK, CommitIsLast, disk
    <2>1. /\ u \in Transfers /\ upc[u] # "reading"
          /\ upc[u] = "waiting" => NextChunk(u).final
      BY DEF UploadInv, TypeOK, CommitIsLast
    <2>2. CASE u = t
      BY <1>5, <1>8, <2>1, <2>2
    <2>3. CASE u # t
      BY <1>3, <1>7, <2>1, <2>3
    <2> QED
      BY <2>2, <2>3
  <1>13. AckMeansCommitted'
    <2> SUFFICES ASSUME NEW u \in Transfers,
                        \/ upc'[u] = "waiting" /\ reply'[u] = "ack" /\ NextChunk(u)'.final
                        \/ upc'[u] = "ok"
                 PROVE  Gone(u)
      BY <1>1 DEF AckMeansCommitted, Gone, disk
    <2>1. CASE u = t
      <3>1. upc[t] = "waiting" /\ reply[t] = "ack" /\ NextChunk(t).final
        BY <1>5, <1>8, <2>1
      <3> QED
        BY <2>1, <3>1 DEF UploadInv, AckMeansCommitted
    <2>2. CASE u # t
      BY <1>3, <1>7, <2>2 DEF UploadInv, AckMeansCommitted
    <2> QED
      BY <2>1, <2>2
  <1>14. OffsetsInSource'
    BY <1>1, <1>3, <1>4, <1>7, <1>8 DEF UploadInv, OffsetsInSource
  <1>15. CancelIsLast'
    <2>1. lost' = lost /\ link' = link /\ part' = part /\ meta' = meta
      BY <1>1 DEF network, disk
    <2>2. \A u \in Transfers : upc'[u] = "reading" => reply'[u] = "none"
      BY <1>3, <1>5 DEF UploadInv, CancelIsLast
    <2>3. \A u \in Transfers : upc[u] \in {"cancelling", "failed"} => upc'[u] \in {"cancelling", "failed"}
      BY <1>1, <1>3, <1>5
    <2>4. ASSUME NEW u \in Transfers, lost = 0, upc'[u] \in {"cancelling", "failed"}, reply'[u] = "ack"
          PROVE  upc[u] \in {"cancelling", "failed"} /\ reply[u] = "ack"
      <3>1. link # 0 /\ (upc[u] = "reading" => reply[u] = "none")
        BY <2>4 DEF UploadInv, CancelIsLast
      <3> QED
        BY <1>3, <1>5, <2>4, <3>1
    <2> QED
      BY <1>1, <1>6, <2>1, <2>2, <2>3, <2>4 DEF UploadInv, CancelIsLast
  <1>16. \A k \in Links : HandlerAt(k)'
    BY <1>1 DEF UploadInv, HandlerAt, Gone, Valid, disk
  <1> QED
    BY <1>1, <1>9, <1>10, <1>11, <1>12, <1>13, <1>14, <1>15, <1>16 DEF UploadInv

(* A step of Upload that sends a frame: it joins the end of the line.      *)
LEMMA SendStep ==
  ASSUME UploadInv, NEW t \in Transfers, SendChunk(t) \/ SendCancel(t)
  PROVE  UploadInv'
  <1>1. /\ UNCHANGED <<readable, offset, network, wpc, frame, disk>>
        /\ link \in Links
    <2>1. link \in 0 .. MaxLinks /\ MaxLinks \in Nat
      BY UploadAssumption DEF UploadInv, TypeOK
    <2> QED
      BY <2>1 DEF SendChunk, SendCancel, SendFrame, Links
  <1>2. /\ upc \in [Transfers -> {"reading", "waiting", "cancel", "cancelling"} \cup Returned]
        /\ reply \in [Transfers -> {"none", "ack", "error"}]
        /\ sentChunk \in [Transfers -> BOOLEAN]
        /\ inbox \in [Links -> Seq(Frames)]
    BY DEF UploadInv, TypeOK
  <1>3. PICK f \in Frames :
          /\ f.t = t
          /\ inbox' = [inbox EXCEPT ![link] = Append(inbox[link], f)]
          /\ \/ /\ f.kind = "chunk" /\ f = NextChunk(t) /\ ~SourceEnded(t)
                /\ upc[t] = "reading" /\ upc' = [upc EXCEPT ![t] = "waiting"]
             \/ /\ f.kind = "cancel"
                /\ upc[t] = "cancel" /\ upc' = [upc EXCEPT ![t] = "cancelling"]
    <2>1. CASE SendChunk(t)
      <3>1. ~SourceEnded(t)
        BY <2>1 DEF SendChunk
      <3>2. NextChunk(t) \in Frames /\ NextChunk(t).kind = "chunk" /\ NextChunk(t).t = t
        BY <3>1, NextChunkInSource DEF UploadInv
      <3> QED
        BY <2>1, <3>1, <3>2 DEF SendChunk, SendFrame
    <2>2. CASE SendCancel(t)
      <3>1. Cancel(t) \in Frames /\ Cancel(t).kind = "cancel" /\ Cancel(t).t = t
        BY DEF Cancel, Frames
      <3> QED
        BY <2>2, <3>1 DEF SendCancel, SendFrame
    <2> QED
      BY <2>1, <2>2
  <1>4. /\ upc' \in [Transfers -> {"reading", "waiting", "cancel", "cancelling"} \cup Returned]
        /\ reply' \in [Transfers -> {"none", "ack", "error"}]
        /\ sentChunk' \in [Transfers -> BOOLEAN]
        /\ \A u \in Transfers \ {t} : upc'[u] = upc[u] /\ reply'[u] = reply[u]
        /\ reply'[t] = "none"
    BY <1>2 DEF SendChunk, SendCancel
  <1>5. \/ /\ f.kind = "chunk" /\ f = NextChunk(t) /\ ~SourceEnded(t)
           /\ upc[t] = "reading" /\ upc'[t] = "waiting"
        \/ /\ f.kind = "cancel"
           /\ upc[t] = "cancel" /\ upc'[t] = "cancelling"
    BY <1>2, <1>3
  <1>6. PICK c \in Links, n \in Nat : c = link /\ n = Len(inbox[c]) + 1
    BY <1>1, <1>2
  <1>7. inbox' \in [Links -> Seq(Frames)]
    BY <1>1, <1>2, <1>3
  <1>8. /\ \A k \in Links \ {c} : inbox'[k] = inbox[k]
        /\ Len(inbox'[c]) = n
        /\ inbox'[c][n] = f
        /\ \A i \in 1 .. Len(inbox[c]) : inbox'[c][i] = inbox[c][i]
    BY <1>1, <1>2, <1>3, <1>6
  <1>9. ~Present(c, n) /\ FrameAt(c, n)' = f /\ Present(c, n)'
    BY <1>1, <1>2, <1>6, <1>8 DEF Present, FrameAt
  <1>10. ASSUME NEW k \in Links, NEW i \in Nat
         PROVE  /\ Present(k, i)' <=> Present(k, i) \/ (k = c /\ i = n)
                /\ Present(k, i) => FrameAt(k, i)' = FrameAt(k, i)
    <2>1. CASE k # c \/ i = 0
      BY <1>1, <1>6, <1>8, <2>1 DEF Present, FrameAt
    <2>2. CASE k = c /\ i # 0
      <3>1. Len(inbox[c]) \in Nat
        BY <1>2
      <3> QED
        BY <1>6, <1>8, <2>2, <3>1 DEF Present, FrameAt
    <2> QED
      BY <2>1, <2>2
  <1>11. ASSUME NEW k \in Links, NEW i \in Nat, NEW u \in Transfers
         PROVE  /\ ChunkAt(k, i, u)' <=>
                     ChunkAt(k, i, u) \/ (k = c /\ i = n /\ u = t /\ f.kind = "chunk")
                /\ CancelAt(k, i, u)' <=>
                     CancelAt(k, i, u) \/ (k = c /\ i = n /\ u = t /\ f.kind = "cancel")
                /\ ChunkAt(k, i, u) => FrameAt(k, i)' = FrameAt(k, i)
    BY <1>3, <1>9, <1>10 DEF ChunkAt, CancelAt
  <1>12. /\ f.kind = "chunk" => \A k \in Links, i \in Nat : ~ChunkAt(k, i, t) /\ ~CancelAt(k, i, t)
         /\ f.kind = "chunk" => t \notin commits
    BY <1>5 DEF UploadInv, ChunkIsAwaited, CancelIsLast, CommitIsLast
  <1>13. \A u \in Transfers : NextChunk(u)' = NextChunk(u) /\ (SourceEnded(u)' <=> SourceEnded(u))
    BY <1>1, NextChunkSame
  <1>14. TypeOK'
    BY <1>1, <1>4, <1>7 DEF UploadInv, TypeOK, network, disk
  <1>15. OneChunk'
    BY <1>11, <1>12 DEF UploadInv, OneChunk
  <1>16. ChunkIsAwaited'
    <2> SUFFICES ASSUME NEW u \in Transfers, NEW k \in Links, NEW i \in Nat, ChunkAt(k, i, u)'
                 PROVE  /\ upc'[u] \notin {"reading", "ok"}
                        /\ upc'[u] = "waiting" => reply'[u] # "ack" /\ FrameAt(k, i)' = NextChunk(u)'
      BY DEF ChunkIsAwaited
    <2>1. CASE u = t
      BY <1>4, <1>5, <1>9, <1>11, <1>12, <1>13, <2>1
    <2>2. CASE u # t
      <3>1. ChunkAt(k, i, u) /\ FrameAt(k, i)' = FrameAt(k, i)
        BY <1>11, <2>2
      <3> QED
        BY <1>4, <1>13, <2>2, <3>1 DEF UploadInv, ChunkIsAwaited
    <2> QED
      BY <2>1, <2>2
  <1>17. CommitIsLast'
    <2> SUFFICES ASSUME NEW u \in commits
                 PROVE  /\ upc'[u] # "reading"
                        /\ upc'[u] = "waiting" => NextChunk(u)'.final
                        /\ \A k \in Links, i \in Nat :
                             ChunkAt(k, i, u)' => i = 0 /\ wpc[k] \in {"removeMeta", "ack"}
      BY <1>1 DEF UploadInv, CommitIsLast, disk
    <2>1. u \in Transfers
      BY DEF UploadInv, TypeOK
    <2>2. /\ upc[u] # "reading"
          /\ upc[u] = "waiting" => NextChunk(u).final
          /\ \A k \in Links, i \in Nat :
               ChunkAt(k, i, u) => i = 0 /\ wpc[k] \in {"removeMeta", "ack"}
      BY DEF UploadInv, CommitIsLast
    <2>3. u = t => f.kind = "cancel" /\ upc'[u] = "cancelling"
      BY <1>5, <1>12
    <2>4. f.kind = "cancel" => f.kind # "chunk"
      OBVIOUS
    <2>5. \A k \in Links, i \in Nat : ChunkAt(k, i, u)' => ChunkAt(k, i, u)
      BY <1>11, <2>1, <2>3, <2>4
    <2> QED
      BY <1>4, <1>13, <2>1, <2>2, <2>3, <2>5
  <1>18. AckMeansCommitted'
    <2> SUFFICES ASSUME NEW u \in Transfers,
                        \/ upc'[u] = "waiting" /\ reply'[u] = "ack" /\ NextChunk(u)'.final
                        \/ upc'[u] = "ok"
                 PROVE  Gone(u)
      BY <1>1 DEF AckMeansCommitted, Gone, disk
    <2>1. u # t
      BY <1>4, <1>5
    <2> QED
      BY <1>4, <1>13, <2>1 DEF UploadInv, AckMeansCommitted
  <1>19. OffsetsInSource'
    BY <1>1, <1>4, <1>5, <1>13 DEF UploadInv, OffsetsInSource
  <1>20. CancelIsLast'
    <2>1. lost' = lost /\ link' = link /\ part' = part /\ meta' = meta
      BY <1>1 DEF network, disk
    <2>2. lost = 0 => link = 1 /\ \A k \in Links, i \in Nat : Present(k, i)' => k = 1
      BY <1>6, <1>10 DEF UploadInv, CancelIsLast
    <2>3. \A u \in Transfers : upc'[u] = "reading" => reply'[u] = "none"
      BY <1>4, <1>5 DEF UploadInv, CancelIsLast
    <2>4. ASSUME NEW u \in Transfers, NEW k \in Links, NEW i \in Nat, CancelAt(k, i, u)'
          PROVE  /\ upc'[u] \in {"cancelling", "failed"}
                 /\ lost = 0 => \A j \in Nat : ChunkAt(k, j, u)' => j < i
      <3>1. CASE CancelAt(k, i, u)
        <4>1. /\ upc[u] \in {"cancelling", "failed"}
              /\ lost = 0 => \A j \in Nat : ChunkAt(k, j, u) => j < i
          BY <3>1 DEF UploadInv, CancelIsLast
        <4>2. u # t
          BY <1>5, <4>1
        <4> QED
          BY <1>4, <1>11, <4>1, <4>2
      <3>2. CASE k = c /\ i = n /\ u = t /\ f.kind = "cancel"
        <4>1. ASSUME NEW j \in Nat, ChunkAt(c, j, t)
              PROVE  j < n
          BY <1>2, <1>6, <4>1 DEF ChunkAt, Present
        <4> QED
          BY <1>5, <1>11, <3>2, <4>1
      <3> QED
        BY <1>11, <2>4, <3>1, <3>2
    <2>5. ASSUME NEW u \in Transfers, lost = 0, upc'[u] \in {"cancelling", "failed"}, reply'[u] = "ack"
          PROVE  /\ part[u] = Absent /\ meta[u] = Absent
                 /\ \A k \in Links, i \in Nat : ~ChunkAt(k, i, u)'
      <3>1. u # t
        BY <1>4, <2>5
      <3>2. upc[u] \in {"cancelling", "failed"} /\ reply[u] = "ack"
        BY <1>4, <2>5, <3>1
      <3> QED
        BY <1>11, <2>5, <3>1, <3>2 DEF UploadInv, CancelIsLast
    <2>6. lost = 0 =>
            \A k \in Links :
              /\ wpc[k] = "cancelMeta" => part[frame[k].t] = Absent
              /\ wpc[k] = "ack" /\ frame[k].kind = "cancel" =>
                   part[frame[k].t] = Absent /\ meta[frame[k].t] = Absent
      BY DEF UploadInv, CancelIsLast
    <2> QED
      BY <1>1, <2>1, <2>2, <2>3, <2>4, <2>5, <2>6 DEF CancelIsLast
  <1>21. \A k \in Links : HandlerAt(k)'
    BY <1>1 DEF UploadInv, HandlerAt, Gone, Valid, disk
  <1> QED
    BY <1>1, <1>14, <1>15, <1>16, <1>17, <1>18, <1>19, <1>20, <1>21 DEF UploadInv

----------------------------------------------------------------------------
(* The handlers of the agent                                               *)

LEMMA FirstSteps ==
  ASSUME NEW f \in Frames
  PROVE  /\ FirstStep(f) \in {"cancelPart", "cleanup", "createPart", "checkMeta"}
         /\ FirstStep(f) = "cancelPart" => f.kind = "cancel"
         /\ FirstStep(f) # "cancelPart" => f.kind = "chunk"
         /\ FirstStep(f) \in {"createPart", "checkMeta"} => Valid(f)
  <1>1. f.kind \in {"chunk", "cancel"}
    BY DEF Frames
  <1>2. CASE f.kind = "cancel"
    BY <1>2 DEF FirstStep
  <1>3. CASE f.kind = "chunk" /\ ~Valid(f)
    BY <1>3 DEF FirstStep
  <1>4. CASE f.kind = "chunk" /\ Valid(f) /\ f.off = 0
    BY <1>4 DEF FirstStep
  <1>5. CASE f.kind = "chunk" /\ Valid(f) /\ f.off # 0
    BY <1>5 DEF FirstStep
  <1> QED
    BY <1>1, <1>2, <1>3, <1>4, <1>5

(* The first frame of a line becomes the handler's: all move up by one.    *)
LEMMA TakeStep ==
  ASSUME UploadInv, NEW k \in Links, Take(k)
  PROVE  UploadInv'
  <1>1. /\ UNCHANGED <<client, reply, network, disk>>
        /\ wpc[k] = "idle" /\ inbox[k] # <<>>
    BY DEF Take
  <1>2. /\ inbox \in [Links -> Seq(Frames)]
        /\ wpc \in [Links -> {"idle", "createPart", "createMeta", "checkMeta", "checkPart",
                              "write", "checksum", "rename", "removeMeta", "cleanup",
                              "cancelPart", "cancelMeta", "ack"}]
        /\ frame \in [Links -> Frames \cup {Absent}]
    BY DEF UploadInv, TypeOK
  <1>3. PICK f \in Frames : f = Head(inbox[k])
    BY <1>1, <1>2
  <1>4. PICK s : s = FirstStep(f)
    OBVIOUS
  <1>5. /\ s \in {"cancelPart", "cleanup", "createPart", "checkMeta"}
        /\ s = "cancelPart" => f.kind = "cancel"
        /\ s # "cancelPart" => f.kind = "chunk"
        /\ s \in {"createPart", "checkMeta"} => Valid(f)
    BY <1>4, FirstSteps
  <1>6. /\ inbox' = [inbox EXCEPT ![k] = Tail(inbox[k])]
        /\ frame' = [frame EXCEPT ![k] = f]
        /\ wpc' = [wpc EXCEPT ![k] = s]
    BY <1>3, <1>4 DEF Take
  <1>7. /\ frame'[k] = f /\ wpc'[k] = s /\ inbox'[k] = Tail(inbox[k])
        /\ \A l \in Links \ {k} : frame'[l] = frame[l] /\ wpc'[l] = wpc[l] /\ inbox'[l] = inbox[l]
    BY <1>2, <1>6
  <1>8. frame' \in [Links -> Frames \cup {Absent}]
    BY <1>2, <1>6
  <1>9. inbox' \in [Links -> Seq(Frames)]
    BY <1>1, <1>2, <1>6
  <1>10. wpc' \in [Links -> {"idle", "createPart", "createMeta", "checkMeta", "checkPart",
                             "write", "checksum", "rename", "removeMeta", "cleanup",
                             "cancelPart", "cancelMeta", "ack"}]
    BY <1>2, <1>5, <1>6
  <1> DEFINE from(l, i) == IF l = k THEN i + 1 ELSE i
  <1>11. ASSUME NEW l \in Links, NEW i \in Nat
         PROVE  /\ Present(l, i)' <=> Present(l, from(l, i))
                /\ Present(l, i)' => FrameAt(l, i)' = FrameAt(l, from(l, i))
    <2>1. CASE l # k
      BY <1>7, <2>1 DEF Present, FrameAt
    <2>2. CASE l = k /\ i = 0
      <3>1. 1 \in 1 .. Len(inbox[k]) /\ inbox[k][1] = f
        BY <1>1, <1>2, <1>3
      <3>2. s # "idle"
        BY <1>5
      <3> QED
        BY <1>7, <2>2, <3>1, <3>2 DEF Present, FrameAt
    <2>3. CASE l = k /\ i # 0
      <3>1. /\ Len(inbox[k]) \in Nat /\ Len(Tail(inbox[k])) = Len(inbox[k]) - 1
            /\ \A m \in 1 .. Len(inbox[k]) - 1 : Tail(inbox[k])[m] = inbox[k][m + 1]
        BY <1>1, <1>2
      <3>2. /\ i + 1 # 0 /\ from(l, i) = i + 1
            /\ i \in 1 .. Len(inbox'[k]) <=> i + 1 \in 1 .. Len(inbox[k])
            /\ i \in 1 .. Len(inbox'[k]) => inbox'[k][i] = inbox[k][i + 1]
        BY <1>7, <2>3, <3>1
      <3> HIDE DEF from
      <3>3. Present(k, i)' <=> Present(k, i + 1)
        BY <2>3, <3>2 DEF Present
      <3>4. Present(k, i)' => FrameAt(k, i)' = FrameAt(k, i + 1)
        BY <2>3, <3>2 DEF Present, FrameAt
      <3> QED
        BY <2>3, <3>2, <3>3, <3>4
    <2> QED
      BY <2>1, <2>2, <2>3
  <1>12. \A l \in Links, i \in Nat : from(l, i) \in Nat /\ (from(l, i) = 0 => i = 0 /\ l # k)
    OBVIOUS
  <1>13. \A l \in Links, i, j \in Nat : /\ from(l, i) < from(l, j) => i < j
                                        /\ from(l, i) = from(l, j) => i = j
    OBVIOUS
  <1> HIDE DEF from
  <1>14. ASSUME NEW l \in Links, NEW i \in Nat, NEW u \in Transfers
         PROVE  /\ ChunkAt(l, i, u)' =>
                     ChunkAt(l, from(l, i), u) /\ FrameAt(l, i)' = FrameAt(l, from(l, i))
                /\ CancelAt(l, i, u)' => CancelAt(l, from(l, i), u)
    BY <1>11 DEF ChunkAt, CancelAt
  <1>15. \A u \in Transfers : NextChunk(u)' = NextChunk(u) /\ (SourceEnded(u)' <=> SourceEnded(u))
    BY <1>1, NextChunkSame DEF client
  <1>16. TypeOK'
    <2>1. \A l \in Links : wpc'[l] # "idle" => frame'[l] \in Frames
      BY <1>7 DEF UploadInv, TypeOK
    <2> QED
      BY <1>1, <1>9, <1>10, <2>1 DEF UploadInv, TypeOK, client, network, disk
  <1>17. OneChunk'
    <2> SUFFICES ASSUME NEW u \in Transfers, NEW l \in Links, NEW j \in Links, NEW i \in Nat, NEW m \in Nat,
                        ChunkAt(l, i, u)', ChunkAt(j, m, u)'
                 PROVE  l = j /\ i = m
      BY DEF OneChunk
    <2>1. ChunkAt(l, from(l, i), u) /\ ChunkAt(j, from(j, m), u)
      BY <1>14
    <2>2. l = j /\ from(l, i) = from(j, m)
      BY <1>12, <2>1 DEF UploadInv, OneChunk
    <2> QED
      BY <1>13, <2>2
  <1>18. ChunkIsAwaited'
    <2> SUFFICES ASSUME NEW u \in Transfers, NEW l \in Links, NEW i \in Nat, ChunkAt(l, i, u)'
                 PROVE  /\ upc[u] \notin {"reading", "ok"}
                        /\ upc[u] = "waiting" => reply[u] # "ack" /\ FrameAt(l, i)' = NextChunk(u)
      BY <1>1, <1>15 DEF ChunkIsAwaited, client
    <2>1. ChunkAt(l, from(l, i), u) /\ FrameAt(l, i)' = FrameAt(l, from(l, i)) /\ from(l, i) \in Nat
      BY <1>12, <1>14
    <2> QED
      BY <2>1 DEF UploadInv, ChunkIsAwaited
  <1>19. CommitIsLast'
    <2> SUFFICES ASSUME NEW u \in commits, NEW l \in Links, NEW i \in Nat, ChunkAt(l, i, u)'
                 PROVE  i = 0 /\ wpc'[l] \in {"removeMeta", "ack"}
      <3>1. \A u \in commits : u \in Transfers
        BY DEF UploadInv, TypeOK
      <3> QED
        BY <1>1, <1>15, <3>1 DEF UploadInv, CommitIsLast, client, disk
    <2>1. u \in Transfers
      BY DEF UploadInv, TypeOK
    <2>2. ChunkAt(l, from(l, i), u) /\ from(l, i) \in Nat
      BY <1>12, <1>14, <2>1
    <2>3. from(l, i) = 0 /\ wpc[l] \in {"removeMeta", "ack"}
      BY <2>2 DEF UploadInv, CommitIsLast
    <2> QED
      BY <1>7, <1>12, <2>3
  <1>20. AckMeansCommitted' /\ OffsetsInSource'
    BY <1>1, <1>15 DEF UploadInv, AckMeansCommitted, Gone, OffsetsInSource, client, disk
  <1>21. CancelIsLast'
    <2>1. lost' = lost /\ link' = link /\ part' = part /\ meta' = meta /\ upc' = upc /\ reply' = reply
      BY <1>1 DEF network, disk, client
    <2>2. lost = 0 => link = 1 /\ \A l \in Links, i \in Nat : Present(l, i)' => l = 1
      BY <1>11, <1>12 DEF UploadInv, CancelIsLast
    <2>3. ASSUME NEW u \in Transfers, NEW l \in Links, NEW i \in Nat, CancelAt(l, i, u)'
          PROVE  /\ upc[u] \in {"cancelling", "failed"}
                 /\ lost = 0 => \A j \in Nat : ChunkAt(l, j, u)' => j < i
      <3>1. CancelAt(l, from(l, i), u) /\ from(l, i) \in Nat
        BY <1>12, <1>14, <2>3
      <3>2. /\ upc[u] \in {"cancelling", "failed"}
            /\ lost = 0 => \A j \in Nat : ChunkAt(l, j, u) => j < from(l, i)
        BY <3>1 DEF UploadInv, CancelIsLast
      <3>3. ASSUME NEW j \in Nat, ChunkAt(l, j, u)', lost = 0
            PROVE  j < i
        <4>1. ChunkAt(l, from(l, j), u) /\ from(l, j) \in Nat
          BY <1>12, <1>14, <3>3
        <4>2. from(l, j) < from(l, i)
          BY <3>2, <3>3, <4>1
        <4> QED
          BY <1>13, <4>2
      <3> QED
        BY <3>2, <3>3
    <2>4. lost = 0 =>
            \A l \in Links :
              /\ wpc'[l] = "cancelMeta" => part[frame'[l].t] = Absent
              /\ wpc'[l] = "ack" /\ frame'[l].kind = "cancel" =>
                   part[frame'[l].t] = Absent /\ meta[frame'[l].t] = Absent
      BY <1>5, <1>7 DEF UploadInv, CancelIsLast
    <2>5. ASSUME NEW u \in Transfers, lost = 0, upc[u] \in {"cancelling", "failed"}, reply[u] = "ack"
          PROVE  /\ part[u] = Absent /\ meta[u] = Absent
                 /\ \A l \in Links, i \in Nat : ~ChunkAt(l, i, u)'
      <3>1. /\ part[u] = Absent /\ meta[u] = Absent
            /\ \A l \in Links, i \in Nat : ~ChunkAt(l, i, u)
        BY <2>5 DEF UploadInv, CancelIsLast
      <3> QED
        BY <1>12, <1>14, <3>1
    <2>6. \A u \in Transfers : upc[u] = "reading" => reply[u] = "none"
      BY DEF UploadInv, CancelIsLast
    <2> QED
      BY <2>1, <2>2, <2>3, <2>4, <2>5, <2>6 DEF CancelIsLast
  <1>22. ASSUME NEW l \in Links
         PROVE  HandlerAt(l)'
    <2>1. CASE l = k
      BY <1>5, <1>7, <2>1 DEF HandlerAt, CancelSteps, WriteSteps, Valid
    <2>2. CASE l # k
      <3>1. HandlerAt(l)
        BY DEF UploadInv
      <3> QED
        BY <1>1, <1>7, <2>2, <3>1 DEF HandlerAt, Gone, Valid, disk
    <2> QED
      BY <2>1, <2>2
  <1> QED
    BY <1>8, <1>16, <1>17, <1>18, <1>19, <1>20, <1>21, <1>22 DEF UploadInv

(* A handler's step on a chunk.  It concerns the files of its own transfer *)
(* only, which no other handler writes: it is the chunk under way.         *)
LEMMA ChunkInner ==
  ASSUME UploadInv, NEW k \in Links, NEW t \in Transfers, t = frame[k].t,
         frame[k].kind = "chunk", wpc[k] # "idle", wpc'[k] # "idle",
         \A l \in Links \ {k} : wpc'[l] = wpc[l],
         UNCHANGED <<client, reply, network, inbox, frame>>,
         TypeOK', HandlerAt(k)',
         \A u \in Transfers \ {t} :
             /\ part'[u] = part[u] /\ meta'[u] = meta[u]
             /\ u \in commits' <=> u \in commits
             /\ u \in staleMeta' <=> u \in staleMeta,
         t \in commits' => /\ part'[t] = Absent /\ wpc'[k] \in {"removeMeta", "ack"}
                           /\ t \in commits \/ frame[k].final
  PROVE  UploadInv'
  <1>1. ChunkAt(k, 0, t)
    BY HandlerFrame
  <1>2. \A l \in Links, i \in Nat :
          /\ Present(l, i)' <=> Present(l, i)
          /\ FrameAt(l, i)' = FrameAt(l, i)
          /\ \A u \in Transfers : /\ ChunkAt(l, i, u)' <=> ChunkAt(l, i, u)
                                  /\ CancelAt(l, i, u)' <=> CancelAt(l, i, u)
    BY SameLines
  <1>3. \A l \in Links, i \in Nat : ChunkAt(l, i, t) => l = k /\ i = 0
    BY <1>1 DEF UploadInv, OneChunk
  <1>4. \A u \in Transfers : NextChunk(u)' = NextChunk(u) /\ (SourceEnded(u)' <=> SourceEnded(u))
    BY NextChunkSame DEF client
  <1>5. /\ upc[t] \notin {"reading", "ok"}
        /\ upc[t] = "waiting" => reply[t] # "ack" /\ frame[k] = NextChunk(t)
    BY <1>1 DEF UploadInv, ChunkIsAwaited, FrameAt
  <1>6. upc' = upc /\ reply' = reply /\ lost' = lost /\ link' = link /\ frame' = frame
    BY DEF client, network
  <1>7. OneChunk' /\ ChunkIsAwaited'
    BY <1>2, <1>4, <1>6 DEF UploadInv, OneChunk, ChunkIsAwaited
  <1>8. CommitIsLast'
    <2> SUFFICES ASSUME NEW u \in commits'
                 PROVE  /\ upc[u] # "reading"
                        /\ upc[u] = "waiting" => NextChunk(u).final
                        /\ part'[u] = Absent
                        /\ \A l \in Links, i \in Nat :
                             ChunkAt(l, i, u) => i = 0 /\ wpc'[l] \in {"removeMeta", "ack"}
      <3>1. \A u \in commits' : u \in Transfers
        BY DEF TypeOK
      <3> QED
        BY <1>2, <1>4, <1>6, <3>1 DEF CommitIsLast
    <2>1. u \in Transfers
      BY DEF TypeOK
    <2>2. CASE u = t
      <3>1. t \in commits /\ upc[t] = "waiting" => NextChunk(t).final
        BY DEF UploadInv, CommitIsLast
      <3> QED
        BY <1>3, <1>5, <2>2, <3>1
    <2>3. CASE u # t
      <3>1. /\ upc[u] # "reading"
            /\ upc[u] = "waiting" => NextChunk(u).final
            /\ part[u] = Absent
            /\ \A l \in Links, i \in Nat :
                 ChunkAt(l, i, u) => i = 0 /\ wpc[l] \in {"removeMeta", "ack"}
        BY <2>1, <2>3 DEF UploadInv, CommitIsLast
      <3>2. ASSUME NEW l \in Links, NEW i \in Nat, ChunkAt(l, i, u)
            PROVE  i = 0 /\ wpc'[l] \in {"removeMeta", "ack"}
        <4>1. i = 0 /\ wpc[l] \in {"removeMeta", "ack"}
          BY <3>1, <3>2
        <4>2. l # k
          BY <2>3, <3>2, <4>1 DEF ChunkAt, FrameAt
        <4> QED
          BY <4>1, <4>2
      <3> QED
        BY <2>1, <2>3, <3>1, <3>2
    <2> QED
      BY <2>2, <2>3
  <1>9. AckMeansCommitted'
    <2> SUFFICES ASSUME NEW u \in Transfers,
                        \/ upc[u] = "waiting" /\ reply[u] = "ack" /\ NextChunk(u).final
                        \/ upc[u] = "ok"
                 PROVE  Gone(u)'
      BY <1>4, <1>6 DEF AckMeansCommitted
    <2>1. u # t
      BY <1>5
    <2>2. Gone(u)
      BY DEF UploadInv, AckMeansCommitted
    <2> QED
      BY <2>1, <2>2 DEF Gone
  <1>10. OffsetsInSource'
    BY <1>4 DEF UploadInv, OffsetsInSource, client
  <1>11. CancelIsLast'
    <2>1. ASSUME lost = 0, NEW l \in Links, wpc'[l] # "idle"
          PROVE  l = k
      <3>1. Present(l, 0) /\ Present(k, 0)
        BY <2>1 DEF Present
      <3> QED
        BY <2>1, <3>1 DEF UploadInv, CancelIsLast
    <2>2. ASSUME lost = 0, NEW l \in Links
          PROVE  /\ wpc'[l] # "cancelMeta"
                 /\ wpc'[l] = "ack" => frame[l].kind # "cancel"
      <3>1. wpc'[k] # "cancelMeta"
        BY <1>6 DEF HandlerAt, CancelSteps
      <3> QED
        BY <2>1, <2>2, <3>1
    <2>3. ASSUME NEW u \in Transfers, lost = 0, upc[u] \in {"cancelling", "failed"}, reply[u] = "ack"
          PROVE  /\ part'[u] = Absent /\ meta'[u] = Absent
                 /\ \A l \in Links, i \in Nat : ~ChunkAt(l, i, u)
      <3>1. /\ part[u] = Absent /\ meta[u] = Absent
            /\ \A l \in Links, i \in Nat : ~ChunkAt(l, i, u)
        BY <2>3 DEF UploadInv, CancelIsLast
      <3>2. u # t
        BY <1>1, <3>1
      <3> QED
        BY <3>1, <3>2
    <2>4. /\ lost = 0 => link = 1 /\ \A l \in Links, i \in Nat : Present(l, i) => l = 1
          /\ \A u \in Transfers : upc[u] = "reading" => reply[u] = "none"
          /\ \A u \in Transfers, l \in Links, i \in Nat :
               CancelAt(l, i, u) =>
                   /\ upc[u] \in {"cancelling", "failed"}
                   /\ lost = 0 => \A j \in Nat : ChunkAt(l, j, u) => j < i
      BY DEF UploadInv, CancelIsLast
    <2> QED
      BY <1>2, <1>6, <2>2, <2>3, <2>4 DEF CancelIsLast
  <1>12. ASSUME NEW l \in Links
         PROVE  HandlerAt(l)'
    <2>1. CASE l = k
      BY <2>1
    <2>2. CASE l # k
      <3>1. HandlerAt(l)
        BY DEF UploadInv
      <3>2. ASSUME wpc[l] # "idle", frame[l].kind = "chunk"
            PROVE  frame[l].t \in Transfers \ {t}
        <4>1. frame[l].t \in Transfers /\ ChunkAt(l, 0, frame[l].t)
          BY <3>2, HandlerFrame
        <4> QED
          BY <1>3, <2>2, <4>1
      <3>3. wpc'[l] = wpc[l]
        BY <2>2
      <3> QED
        BY <1>6, <3>1, <3>2, <3>3 DEF HandlerAt, Gone, Valid, WriteSteps
    <2> QED
      BY <2>1, <2>2
  <1>13. frame' \in [Links -> Frames \cup {Absent}]
    BY <1>6 DEF UploadInv
  <1> QED
    BY <1>7, <1>8, <1>9, <1>10, <1>11, <1>12, <1>13 DEF UploadInv

(* A handler's step on a cancellation: it only removes files.              *)
LEMMA CancelInner ==
  ASSUME UploadInv, NEW k \in Links, CancelPart(k) \/ CancelMeta(k)
  PROVE  UploadInv'
  <1>1. /\ UNCHANGED <<client, reply, network, inbox, frame, dest, commits, staleMeta>>
        /\ wpc[k] # "idle" /\ wpc[k] \in CancelSteps
    BY DEF CancelPart, CancelMeta, At, handlerRest, CancelSteps
  <1>2. /\ wpc \in [Links -> {"idle", "createPart", "createMeta", "checkMeta", "checkPart",
                              "write", "checksum", "rename", "removeMeta", "cleanup",
                              "cancelPart", "cancelMeta", "ack"}]
        /\ part \in [Transfers -> Nat \cup {Absent, Torn}]
        /\ meta \in [Transfers -> Nat \cup {Absent}]
    BY DEF UploadInv, TypeOK
  <1>3. PICK t \in Transfers : t = frame[k].t /\ frame[k].kind = "cancel" /\ CancelAt(k, 0, t)
    BY <1>1, HandlerFrame DEF UploadInv, HandlerAt
  <1>4. \A l \in Links \ {k} : wpc'[l] = wpc[l]
    BY <1>2 DEF CancelPart, CancelMeta, At
  <1>5. /\ \A u \in Transfers \ {t} : part'[u] = part[u] /\ meta'[u] = meta[u]
        /\ part'[t] \in {part[t], Absent} /\ meta'[t] \in {meta[t], Absent}
        /\ part' \in [Transfers -> Nat \cup {Absent, Torn}]
        /\ meta' \in [Transfers -> Nat \cup {Absent}]
    BY <1>2, <1>3 DEF CancelPart, CancelMeta
  <1>6. /\ wpc'[k] \in {"cancelMeta", "ack"}
        /\ wpc'[k] = "cancelMeta" => part'[t] = Absent
        /\ wpc'[k] = "ack" => wpc[k] = "cancelMeta" /\ part'[t] = part[t] /\ meta'[t] = Absent
    BY <1>2, <1>3 DEF CancelPart, CancelMeta, At
  <1>7. wpc' \in [Links -> {"idle", "createPart", "createMeta", "checkMeta", "checkPart",
                            "write", "checksum", "rename", "removeMeta", "cleanup",
                            "cancelPart", "cancelMeta", "ack"}]
    BY <1>2 DEF CancelPart, CancelMeta, At
  <1>8. \A l \in Links : wpc'[l] = "idle" <=> wpc[l] = "idle"
    BY <1>1, <1>4, <1>6
  <1>9. \A l \in Links, i \in Nat :
          /\ Present(l, i)' <=> Present(l, i)
          /\ FrameAt(l, i)' = FrameAt(l, i)
          /\ \A u \in Transfers : /\ ChunkAt(l, i, u)' <=> ChunkAt(l, i, u)
                                  /\ CancelAt(l, i, u)' <=> CancelAt(l, i, u)
    BY <1>1, <1>8, SameLines
  <1>10. \A u \in Transfers : NextChunk(u)' = NextChunk(u) /\ (SourceEnded(u)' <=> SourceEnded(u))
    BY <1>1, NextChunkSame DEF client
  <1>11. /\ upc' = upc /\ reply' = reply /\ lost' = lost /\ link' = link /\ frame' = frame
         /\ commits' = commits /\ staleMeta' = staleMeta
    BY <1>1 DEF client, network
  <1>12. TypeOK'
    <2>1. \A u \in Transfers : part'[u] \notin {Absent, Torn} => part'[u] <= Size[u]
      BY <1>5 DEF UploadInv, TypeOK
    <2>2. \A l \in Links : wpc'[l] # "idle" => frame'[l] \in Frames
      BY <1>8, <1>11 DEF UploadInv, TypeOK
    <2> QED
      BY <1>1, <1>5, <1>7, <2>1, <2>2 DEF UploadInv, TypeOK, client, network
  <1>13. OneChunk' /\ ChunkIsAwaited'
    BY <1>9, <1>10, <1>11 DEF UploadInv, OneChunk, ChunkIsAwaited
  <1>14. CommitIsLast'
    <2> SUFFICES ASSUME NEW u \in commits
                 PROVE  /\ upc[u] # "reading"
                        /\ upc[u] = "waiting" => NextChunk(u).final
                        /\ part'[u] = Absent
                        /\ \A l \in Links, i \in Nat :
                             ChunkAt(l, i, u) => i = 0 /\ wpc'[l] \in {"removeMeta", "ack"}
      <3>1. \A u \in commits : u \in Transfers
        BY DEF UploadInv, TypeOK
      <3> QED
        BY <1>9, <1>10, <1>11, <3>1 DEF CommitIsLast
    <2>1. u \in Transfers
      BY DEF UploadInv, TypeOK
    <2>2. /\ upc[u] # "reading"
          /\ upc[u] = "waiting" => NextChunk(u).final
          /\ part[u] = Absent
          /\ \A l \in Links, i \in Nat :
               ChunkAt(l, i, u) => i = 0 /\ wpc[l] \in {"removeMeta", "ack"}
      BY DEF UploadInv, CommitIsLast
    <2>3. wpc[k] \notin {"removeMeta", "ack"}
      BY <1>1 DEF CancelSteps
    <2> QED
      BY <1>4, <1>5, <2>1, <2>2, <2>3
  <1>15. AckMeansCommitted' /\ OffsetsInSource'
    <2>1. \A u \in Transfers : Gone(u) => Gone(u)'
      BY <1>5, <1>11 DEF Gone
    <2> QED
      BY <1>1, <1>10, <2>1 DEF UploadInv, AckMeansCommitted, OffsetsInSource, client
  <1>16. CancelIsLast'
    <2>1. ASSUME lost = 0, NEW l \in Links
          PROVE  /\ wpc'[l] = "cancelMeta" => part'[frame[l].t] = Absent
                 /\ wpc'[l] = "ack" /\ frame[l].kind = "cancel" =>
                      part'[frame[l].t] = Absent /\ meta'[frame[l].t] = Absent
      <3>1. CASE l = k
        <4>1. wpc[k] = "cancelMeta" => part[t] = Absent
          BY <1>3, <2>1 DEF UploadInv, CancelIsLast
        <4> QED
          BY <1>3, <1>6, <3>1, <4>1
      <3>2. CASE l # k
        <4>1. wpc'[l] = "idle"
          <5>1. Present(k, 0) /\ (wpc[l] # "idle" => Present(l, 0))
            BY <1>1 DEF Present
          <5>2. wpc[l] # "idle" => l = k
            BY <2>1, <5>1 DEF UploadInv, CancelIsLast
          <5> QED
            BY <1>4, <3>2, <5>2
        <4> QED
          BY <4>1
      <3> QED
        BY <3>1, <3>2
    <2>2. ASSUME NEW u \in Transfers, lost = 0, upc[u] \in {"cancelling", "failed"}, reply[u] = "ack"
          PROVE  /\ part'[u] = Absent /\ meta'[u] = Absent
                 /\ \A l \in Links, i \in Nat : ~ChunkAt(l, i, u)
      BY <1>5, <2>2 DEF UploadInv, CancelIsLast
    <2>3. /\ lost = 0 => link = 1 /\ \A l \in Links, i \in Nat : Present(l, i) => l = 1
          /\ \A u \in Transfers : upc[u] = "reading" => reply[u] = "none"
          /\ \A u \in Transfers, l \in Links, i \in Nat :
               CancelAt(l, i, u) =>
                   /\ upc[u] \in {"cancelling", "failed"}
                   /\ lost = 0 => \A j \in Nat : ChunkAt(l, j, u) => j < i
      BY DEF UploadInv, CancelIsLast
    <2> QED
      BY <1>9, <1>11, <2>1, <2>2, <2>3 DEF CancelIsLast
  <1>17. ASSUME NEW l \in Links
         PROVE  HandlerAt(l)'
    <2>1. CASE l = k
      BY <1>3, <1>6, <1>11, <2>1 DEF HandlerAt, CancelSteps, WriteSteps
    <2>2. CASE l # k
      <3>1. HandlerAt(l) /\ wpc'[l] = wpc[l]
        BY <1>4, <2>2 DEF UploadInv
      <3>2. wpc[l] # "idle" => frame[l].t \in Transfers
        BY HandlerFrame
      <3>3. /\ \A u \in Transfers : Gone(u) => Gone(u)'
            /\ \A u \in Transfers : part'[u] \in {part[u], Absent}
        BY <1>5, <1>11 DEF Gone
      <3> QED
        BY <1>11, <3>1, <3>2, <3>3 DEF HandlerAt, Valid
    <2> QED
      BY <2>1, <2>2
  <1>18. frame' \in [Links -> Frames \cup {Absent}]
    BY <1>11 DEF UploadInv
  <1> QED
    BY <1>12, <1>13, <1>14, <1>15, <1>16, <1>17, <1>18 DEF UploadInv

LEMMA WriteStep ==
  ASSUME UploadInv, NEW k \in Links,
         \/ CreatePart(k) \/ CreateMeta(k) \/ CheckMeta(k) \/ CheckPart(k)
         \/ Write(k) \/ Checksum(k) \/ Rename(k) \/ RemoveMeta(k) \/ DiskFails(k)
  PROVE  UploadInv'
  <1>1. /\ UNCHANGED <<client, reply, network, inbox, frame>>
        /\ wpc[k] # "idle" /\ wpc[k] \in WriteSteps
    BY DEF CreatePart, CreateMeta, CheckMeta, CheckPart, Write, Checksum, Rename, RemoveMeta,
           DiskFails, At, handlerRest, WriteSteps
  <1>2. /\ wpc \in [Links -> {"idle", "createPart", "createMeta", "checkMeta", "checkPart",
                              "write", "checksum", "rename", "removeMeta", "cleanup",
                              "cancelPart", "cancelMeta", "ack"}]
        /\ part \in [Transfers -> Nat \cup {Absent, Torn}]
        /\ \A u \in Transfers : part[u] \notin {Absent, Torn} => part[u] <= Size[u]
        /\ meta \in [Transfers -> Nat \cup {Absent}]
        /\ dest \in {Old} \cup (Transfers \X (Nat \cup {Torn}))
        /\ commits \subseteq Transfers /\ staleMeta \subseteq Transfers
    BY DEF UploadInv, TypeOK
  <1>3. PICK t \in Transfers :
          /\ t = frame[k].t /\ frame[k].kind = "chunk" /\ ChunkAt(k, 0, t)
          /\ frame[k].off \in Nat /\ frame[k].len \in Nat /\ frame[k].final \in BOOLEAN
    BY <1>1, HandlerFrame DEF UploadInv, HandlerAt
  <1>4. /\ HandlerAt(k) /\ Valid(frame[k])
        /\ frame[k].off + frame[k].len <= Size[t]
        /\ t \in commits => wpc[k] = "removeMeta" /\ part[t] = Absent
    <2>1. HandlerAt(k) /\ Valid(frame[k])
      BY <1>1 DEF UploadInv, HandlerAt
    <2>2. t \in commits => wpc[k] \in {"removeMeta", "ack"} /\ part[t] = Absent
      BY <1>3 DEF UploadInv, CommitIsLast
    <2> QED
      BY <1>1, <1>3, <2>1, <2>2 DEF Valid, WriteSteps
  <1>5. Size[t] \in Nat /\ Absent \notin Int /\ Absent # Torn /\ Torn \notin Nat
    BY UploadAssumption DEF Torn
  <1>6. PICK to \in {"createMeta", "checkPart", "write", "checksum", "rename", "removeMeta",
                     "cleanup", "ack"} :
          wpc' = [wpc EXCEPT ![k] = to]
    <2>1. CASE CreatePart(k) \/ CreateMeta(k) \/ RemoveMeta(k) \/ DiskFails(k)
      BY <2>1 DEF CreatePart, CreateMeta, RemoveMeta, DiskFails, At
    <2>2. CASE CheckMeta(k) \/ CheckPart(k) \/ Checksum(k)
      BY <2>2 DEF CheckMeta, CheckPart, Checksum, At
    <2>3. CASE Write(k)
      BY <1>3, <2>3 DEF Write
    <2>4. CASE Rename(k)
      BY <2>4 DEF Rename, At
    <2> QED
      BY <2>1, <2>2, <2>3, <2>4
  <1>7. wpc'[k] = to /\ \A l \in Links \ {k} : wpc'[l] = wpc[l]
    BY <1>2, <1>6
  <1>8. /\ part' \in [Transfers -> Nat \cup {Absent, Torn}]
        /\ \A u \in Transfers \ {t} : part'[u] = part[u]
        /\ part'[t] \notin {Absent, Torn} => part'[t] <= Size[t]
    <2>1. CASE CreatePart(k)
      BY <1>2, <1>3, <1>5, <2>1 DEF CreatePart
    <2>2. CASE CreateMeta(k) \/ CheckMeta(k) \/ CheckPart(k) \/ Checksum(k) \/ RemoveMeta(k) \/ DiskFails(k)
      BY <1>2, <2>2 DEF CreateMeta, CheckMeta, CheckPart, Checksum, RemoveMeta, DiskFails, disk
    <2>3. CASE Write(k)
      <3>1. PICK v \in {frame[k].off + frame[k].len, Torn, part[t]} : part' = [part EXCEPT ![t] = v]
        BY <1>2, <1>3, <2>3 DEF Write
      <3>2. v \in Nat \cup {Absent, Torn} /\ (v \notin {Absent, Torn} => v <= Size[t])
        BY <1>2, <1>3, <1>4, <1>5, <3>1
      <3> QED
        BY <1>2, <3>1, <3>2
    <2>4. CASE Rename(k)
      BY <1>2, <1>3, <2>4 DEF Rename
    <2> QED
      BY <2>1, <2>2, <2>3, <2>4
  <1>9. /\ meta' \in [Transfers -> Nat \cup {Absent}]
        /\ \A u \in Transfers \ {t} : meta'[u] = meta[u]
        /\ staleMeta' \in {staleMeta, staleMeta \cup {t}}
    <2>1. CASE CreateMeta(k) \/ RemoveMeta(k)
      BY <1>2, <1>3, <1>5, <2>1 DEF CreateMeta, RemoveMeta
    <2>2. CASE ~(CreateMeta(k) \/ RemoveMeta(k))
      BY <1>2, <2>2 DEF CreatePart, CheckMeta, CheckPart, Write, Checksum, Rename, DiskFails, disk
    <2> QED
      BY <2>1, <2>2
  <1>10. \/ /\ Rename(k) /\ part[t] = Size[t]
            /\ dest' = <<t, part[t]>> /\ commits' = commits \cup {t} /\ part'[t] = Absent
            /\ to = "removeMeta" /\ frame[k].final
         \/ /\ dest' = dest /\ commits' = commits
            /\ to = "removeMeta" => FALSE
    <2>1. CASE Rename(k)
      <3>1. part[t] \in {Size[t], Absent} /\ frame[k].final
        BY <1>3, <1>4, <2>1 DEF HandlerAt, Rename, At
      <3>2. CASE part[t] = Absent
        BY <1>2, <1>3, <1>7, <2>1, <3>2 DEF Rename, At
      <3>3. CASE part[t] # Absent
        BY <1>2, <1>3, <1>7, <2>1, <3>1, <3>3 DEF Rename, At
      <3> QED
        BY <3>2, <3>3
    <2>2. CASE CreatePart(k) \/ CreateMeta(k) \/ RemoveMeta(k) \/ DiskFails(k)
      BY <1>2, <1>7, <2>2 DEF CreatePart, CreateMeta, RemoveMeta, DiskFails, At, disk
    <2>3. CASE CheckMeta(k) \/ CheckPart(k) \/ Checksum(k)
      BY <1>2, <1>7, <2>3 DEF CheckMeta, CheckPart, Checksum, At, disk
    <2>4. CASE Write(k)
      BY <1>2, <1>7, <2>4 DEF Write
    <2> QED
      BY <2>1, <2>2, <2>3, <2>4
  <1>11. TypeOK'
    <2>1. /\ dest' \in {Old} \cup (Transfers \X (Nat \cup {Torn}))
          /\ commits' \subseteq Transfers /\ staleMeta' \subseteq Transfers
      BY <1>2, <1>5, <1>9, <1>10
    <2>2. wpc' \in [Links -> {"idle", "createPart", "createMeta", "checkMeta", "checkPart",
                              "write", "checksum", "rename", "removeMeta", "cleanup",
                              "cancelPart", "cancelMeta", "ack"}]
      BY <1>2, <1>6
    <2>3. \A l \in Links : wpc'[l] # "idle" => frame'[l] \in Frames
      BY <1>1, <1>7 DEF UploadInv, TypeOK
    <2>4. \A u \in Transfers : part'[u] \notin {Absent, Torn} => part'[u] <= Size[u]
      BY <1>2, <1>8
    <2> QED
      BY <1>1, <1>8, <1>9, <2>1, <2>2, <2>3, <2>4 DEF UploadInv, TypeOK, client, network
  <1>12. \/ to \in {"createMeta", "checkPart", "write", "cleanup"}
         \/ to = "checksum" /\ frame[k].final
         \/ to = "rename" /\ frame[k].final /\ part'[t] = Size[t]
         \/ to = "removeMeta" /\ frame[k].final /\ t \in commits'
         \/ to = "ack" /\ ~frame[k].final
         \/ to = "ack" /\ t \in commits' /\ (meta'[t] = Absent \/ t \in staleMeta')
    <2>1. CASE CreatePart(k) \/ CreateMeta(k) \/ DiskFails(k)
      BY <1>2, <1>7, <2>1 DEF CreatePart, CreateMeta, DiskFails, At
    <2>2. CASE CheckMeta(k) \/ CheckPart(k)
      BY <1>2, <1>7, <2>2 DEF CheckMeta, CheckPart, At
    <2>3. CASE Checksum(k)
      <3>1. frame[k].final
        BY <1>4, <2>3 DEF HandlerAt, Checksum, At
      <3> QED
        BY <1>2, <1>3, <1>7, <2>3, <3>1 DEF Checksum, At, disk
    <2>4. CASE Write(k)
      BY <1>2, <1>3, <1>7, <2>4 DEF Write
    <2>5. CASE Rename(k)
      <3>1. to \in {"cleanup", "removeMeta"}
        BY <1>2, <1>7, <2>5 DEF Rename, At
      <3> QED
        BY <1>10, <3>1
    <2>6. CASE RemoveMeta(k)
      <3>1. t \in commits
        BY <1>3, <1>4, <2>6 DEF HandlerAt, RemoveMeta, At
      <3> QED
        BY <1>2, <1>3, <1>7, <2>6, <3>1 DEF RemoveMeta, At
    <2> QED
      BY <2>1, <2>2, <2>3, <2>4, <2>5, <2>6
  <1>13. HandlerAt(k)'
    BY <1>1, <1>3, <1>4, <1>7, <1>12 DEF HandlerAt, CancelSteps, WriteSteps, Valid, Gone
  <1>14. t \in commits' => /\ part'[t] = Absent /\ wpc'[k] \in {"removeMeta", "ack"}
                           /\ t \in commits \/ frame[k].final
    <2>1. CASE t \in commits
      <3>1. RemoveMeta(k)
        BY <1>4, <2>1 DEF CreatePart, CreateMeta, CheckMeta, CheckPart, Write, Checksum, Rename, DiskFails, At
      <3> QED
        BY <1>2, <1>4, <1>7, <2>1, <3>1 DEF RemoveMeta, At
    <2>2. CASE t \notin commits
      BY <1>7, <1>10, <2>2
    <2> QED
      BY <2>1, <2>2
  <1>15. \A u \in Transfers \ {t} :
             /\ part'[u] = part[u] /\ meta'[u] = meta[u]
             /\ u \in commits' <=> u \in commits
             /\ u \in staleMeta' <=> u \in staleMeta
    BY <1>8, <1>9, <1>10
  <1>16. wpc'[k] # "idle"
    BY <1>7
  <1> QED
    BY <1>1, <1>3, <1>7, <1>11, <1>13, <1>14, <1>15, <1>16, ChunkInner

(* The end of a handler: its frame leaves the line, and the request that   *)
(* still waits for it gets the answer.                                     *)
LEMMA FinishStep ==
  ASSUME UploadInv, NEW k \in Links, Ack(k) \/ Cleanup(k) \/ CancelFails(k)
  PROVE  UploadInv'
  <1>1. /\ UNCHANGED <<client, network, inbox, frame, dest, commits, staleMeta>>
        /\ wpc[k] # "idle" /\ wpc' = [wpc EXCEPT ![k] = "idle"]
    BY DEF Ack, Cleanup, CancelFails, At, disk
  <1>2. /\ wpc \in [Links -> {"idle", "createPart", "createMeta", "checkMeta", "checkPart",
                              "write", "checksum", "rename", "removeMeta", "cleanup",
                              "cancelPart", "cancelMeta", "ack"}]
        /\ part \in [Transfers -> Nat \cup {Absent, Torn}]
        /\ meta \in [Transfers -> Nat \cup {Absent}]
        /\ reply \in [Transfers -> {"none", "ack", "error"}]
    BY DEF UploadInv, TypeOK
  <1>3. PICK t \in Transfers :
          /\ t = frame[k].t
          /\ \/ frame[k].kind = "chunk" /\ ChunkAt(k, 0, t)
             \/ frame[k].kind = "cancel" /\ CancelAt(k, 0, t)
    BY <1>1, HandlerFrame
  <1>4. wpc'[k] = "idle" /\ \A l \in Links \ {k} : wpc'[l] = wpc[l]
    BY <1>1, <1>2
  <1>5. /\ part' \in [Transfers -> Nat \cup {Absent, Torn}]
        /\ meta' \in [Transfers -> Nat \cup {Absent}]
        /\ \A u \in Transfers : part'[u] \in {part[u], Absent} /\ meta'[u] \in {meta[u], Absent}
    BY <1>2, <1>3 DEF Ack, Cleanup, CancelFails, disk
  <1>6. /\ reply' \in [Transfers -> {"none", "ack", "error"}]
        /\ \A u \in Transfers : \/ reply'[u] = reply[u]
                                \/ u = t /\ Awaited(k) /\ (reply'[u] = "ack" => Ack(k))
    <2>1. PICK v \in {"ack", "error"} : Answer(k, v) /\ (v = "ack" => Ack(k))
      BY DEF Ack, Cleanup, CancelFails
    <2>2. CASE Awaited(k)
      <3>1. reply' = [reply EXCEPT ![t] = v]
        BY <1>3, <2>1, <2>2 DEF Answer
      <3> QED
        BY <1>2, <2>1, <2>2, <3>1
    <2>3. CASE ~Awaited(k)
      BY <1>2, <2>1, <2>3 DEF Answer
    <2> QED
      BY <2>2, <2>3
  <1>7. ASSUME NEW l \in Links, NEW i \in Nat
        PROVE  /\ Present(l, i)' => Present(l, i) /\ ~(l = k /\ i = 0)
               /\ FrameAt(l, i)' = FrameAt(l, i)
    BY <1>1, <1>4 DEF Present, FrameAt
  <1>8. ASSUME NEW l \in Links, NEW i \in Nat, NEW u \in Transfers
        PROVE  /\ ChunkAt(l, i, u)' => ChunkAt(l, i, u) /\ ~(l = k /\ i = 0)
               /\ CancelAt(l, i, u)' => CancelAt(l, i, u)
    BY <1>7 DEF ChunkAt, CancelAt
  <1>9. \A u \in Transfers : NextChunk(u)' = NextChunk(u) /\ (SourceEnded(u)' <=> SourceEnded(u))
    BY <1>1, NextChunkSame DEF client
  <1>10. /\ upc' = upc /\ lost' = lost /\ link' = link /\ frame' = frame
         /\ commits' = commits /\ staleMeta' = staleMeta
    BY <1>1 DEF client, network
  <1>11. Awaited(k) => \/ frame[k].kind = "chunk" /\ upc[t] = "waiting"
                       \/ frame[k].kind = "cancel" /\ upc[t] = "cancelling"
    BY <1>3 DEF Awaited
  <1>12. \A u \in Transfers : Gone(u) => Gone(u)'
    BY <1>5, <1>10 DEF Gone
  <1>13. TypeOK'
    <2>1. \A u \in Transfers : part'[u] \notin {Absent, Torn} => part'[u] <= Size[u]
      BY <1>5 DEF UploadInv, TypeOK
    <2>2. \A l \in Links : wpc'[l] # "idle" => frame'[l] \in Frames
      BY <1>4, <1>10 DEF UploadInv, TypeOK
    <2>3. wpc' \in [Links -> {"idle", "createPart", "createMeta", "checkMeta", "checkPart",
                              "write", "checksum", "rename", "removeMeta", "cleanup",
                              "cancelPart", "cancelMeta", "ack"}]
      BY <1>1, <1>2
    <2> QED
      BY <1>1, <1>5, <1>6, <2>1, <2>2, <2>3 DEF UploadInv, TypeOK, client, network
  <1>14. OneChunk'
    BY <1>8 DEF UploadInv, OneChunk
  <1>15. ChunkIsAwaited'
    <2> SUFFICES ASSUME NEW u \in Transfers, NEW l \in Links, NEW i \in Nat, ChunkAt(l, i, u)'
                 PROVE  /\ upc[u] \notin {"reading", "ok"}
                        /\ upc[u] = "waiting" => reply'[u] # "ack" /\ FrameAt(l, i) = NextChunk(u)
      BY <1>7, <1>9, <1>10 DEF ChunkIsAwaited
    <2>1. ChunkAt(l, i, u) /\ ~(l = k /\ i = 0)
      BY <1>8
    <2>2. /\ upc[u] \notin {"reading", "ok"}
          /\ upc[u] = "waiting" => reply[u] # "ack" /\ FrameAt(l, i) = NextChunk(u)
      BY <2>1 DEF UploadInv, ChunkIsAwaited
    <2>3. u = t => frame[k].kind # "chunk"
      BY <1>3, <2>1 DEF UploadInv, OneChunk
    <2> QED
      BY <1>6, <1>11, <2>2, <2>3
  <1>16. CommitIsLast'
    <2> SUFFICES ASSUME NEW u \in commits
                 PROVE  /\ upc[u] # "reading"
                        /\ upc[u] = "waiting" => NextChunk(u).final
                        /\ part'[u] = Absent
                        /\ \A l \in Links, i \in Nat :
                             ChunkAt(l, i, u)' => i = 0 /\ wpc'[l] \in {"removeMeta", "ack"}
      <3>1. \A u \in commits : u \in Transfers
        BY DEF UploadInv, TypeOK
      <3> QED
        BY <1>9, <1>10, <3>1 DEF CommitIsLast
    <2>1. u \in Transfers
      BY DEF UploadInv, TypeOK
    <2>2. /\ upc[u] # "reading"
          /\ upc[u] = "waiting" => NextChunk(u).final
          /\ part[u] = Absent
          /\ \A l \in Links, i \in Nat :
               ChunkAt(l, i, u) => i = 0 /\ wpc[l] \in {"removeMeta", "ack"}
      BY DEF UploadInv, CommitIsLast
    <2> QED
      BY <1>4, <1>5, <1>8, <2>1, <2>2
  <1>17. AckMeansCommitted'
    <2> SUFFICES ASSUME NEW u \in Transfers,
                        \/ upc[u] = "waiting" /\ reply'[u] = "ack" /\ NextChunk(u).final
                        \/ upc[u] = "ok"
                 PROVE  Gone(u)
      BY <1>9, <1>10, <1>12 DEF AckMeansCommitted
    <2>1. CASE upc[u] = "ok" \/ reply'[u] = reply[u]
      BY <2>1 DEF UploadInv, AckMeansCommitted
    <2>2. CASE upc[u] = "waiting" /\ reply'[u] # reply[u] /\ reply'[u] = "ack" /\ NextChunk(u).final
      <3>1. u = t /\ frame[k].kind = "chunk" /\ Ack(k)
        BY <1>6, <1>11, <2>2
      <3>2. frame[k] = NextChunk(t)
        BY <1>3, <2>2, <3>1 DEF UploadInv, ChunkIsAwaited, FrameAt
      <3> QED
        BY <1>3, <2>2, <3>1, <3>2 DEF UploadInv, HandlerAt, Ack, At
    <2> QED
      BY <2>1, <2>2
  <1>18. OffsetsInSource'
    BY <1>1, <1>9 DEF UploadInv, OffsetsInSource, client
  <1>19. CancelIsLast'
    <2>1. lost = 0 => link = 1 /\ \A l \in Links, i \in Nat : Present(l, i)' => l = 1
      BY <1>7 DEF UploadInv, CancelIsLast
    <2>2. \A u \in Transfers : upc[u] = "reading" => reply'[u] = "none"
      BY <1>6, <1>11 DEF UploadInv, CancelIsLast
    <2>3. \A u \in Transfers, l \in Links, i \in Nat :
            CancelAt(l, i, u)' =>
                /\ upc[u] \in {"cancelling", "failed"}
                /\ lost = 0 => \A j \in Nat : ChunkAt(l, j, u)' => j < i
      BY <1>8 DEF UploadInv, CancelIsLast
    <2>4. ASSUME lost = 0, NEW l \in Links
          PROVE  wpc'[l] = "idle"
      <3>1. Present(k, 0) /\ (wpc[l] # "idle" => Present(l, 0))
        BY <1>1 DEF Present
      <3>2. wpc[l] # "idle" => l = k
        BY <2>4, <3>1 DEF UploadInv, CancelIsLast
      <3> QED
        BY <1>4, <3>2
    <2>5. ASSUME NEW u \in Transfers, lost = 0, upc[u] \in {"cancelling", "failed"}, reply'[u] = "ack"
          PROVE  /\ part'[u] = Absent /\ meta'[u] = Absent
                 /\ \A l \in Links, i \in Nat : ~ChunkAt(l, i, u)'
      <3>1. /\ part[u] = Absent /\ meta[u] = Absent
            /\ \A l \in Links, i \in Nat : ~ChunkAt(l, i, u)
        <4>1. CASE reply'[u] = reply[u]
          BY <2>5, <4>1 DEF UploadInv, CancelIsLast
        <4>2. CASE reply'[u] # reply[u]
          <5>1. u = t /\ frame[k].kind = "cancel" /\ Ack(k)
            BY <1>6, <1>11, <2>5, <4>2
          <5>2. wpc[k] = "ack" /\ CancelAt(k, 0, t) /\ t = frame[k].t
            BY <1>3, <5>1 DEF Ack, At
          <5>3. part[t] = Absent /\ meta[t] = Absent
            BY <2>5, <5>1, <5>2 DEF UploadInv, CancelIsLast
          <5>4. \A j \in Nat : ~ChunkAt(k, j, t)
            <6>1. \A j \in Nat : ChunkAt(k, j, t) => j < 0
              BY <2>5, <5>2 DEF UploadInv, CancelIsLast
            <6> QED
              BY <6>1
          <5>5. \A l \in Links, i \in Nat : ChunkAt(l, i, t) => l = k
            BY <2>5, <5>2 DEF UploadInv, CancelIsLast, ChunkAt, CancelAt
          <5> QED
            BY <5>1, <5>3, <5>4, <5>5
        <4> QED
          BY <4>1, <4>2
      <3> QED
        BY <1>5, <1>8, <3>1
    <2> QED
      BY <1>10, <2>1, <2>2, <2>3, <2>4, <2>5 DEF CancelIsLast
  <1>20. ASSUME NEW l \in Links
         PROVE  HandlerAt(l)'
    <2>1. CASE l = k
      BY <1>4, <2>1 DEF HandlerAt, CancelSteps, WriteSteps
    <2>2. CASE l # k
      <3>1. HandlerAt(l) /\ wpc'[l] = wpc[l]
        BY <1>4, <2>2 DEF UploadInv
      <3>2. wpc[l] # "idle" => frame[l].t \in Transfers
        BY HandlerFrame
      <3> QED
        BY <1>5, <1>10, <1>12, <3>1, <3>2 DEF HandlerAt, Valid
    <2> QED
      BY <2>1, <2>2
  <1>21. frame' \in [Links -> Frames \cup {Absent}]
    BY <1>10 DEF UploadInv
  <1> QED
    BY <1>13, <1>14, <1>15, <1>16, <1>17, <1>18, <1>19, <1>20, <1>21 DEF UploadInv

----------------------------------------------------------------------------

LEMMA InitInv == Init => UploadInv
  <1> SUFFICES ASSUME Init PROVE UploadInv
    OBVIOUS
  <1>1. TypeOK
    BY UploadAssumption DEF Init, TypeOK, Links, Returned
  <1>2. \A k \in Links, i \in Nat : ~Present(k, i)
    BY DEF Init, Present
  <1>3. \A k \in Links, i \in Nat, t \in Transfers : ~ChunkAt(k, i, t) /\ ~CancelAt(k, i, t)
    BY <1>2 DEF ChunkAt, CancelAt
  <1>4. OneChunk /\ ChunkIsAwaited /\ CommitIsLast
    BY <1>3 DEF OneChunk, ChunkIsAwaited, CommitIsLast, Init
  <1>5. AckMeansCommitted /\ OffsetsInSource
    BY UploadAssumption DEF AckMeansCommitted, OffsetsInSource, Init
  <1>6. CancelIsLast
    BY <1>2, <1>3 DEF CancelIsLast, Init
  <1>7. \A k \in Links : HandlerAt(k)
    BY DEF Init, HandlerAt, CancelSteps, WriteSteps
  <1>8. frame \in [Links -> Frames \cup {Absent}]
    BY DEF Init
  <1> QED
    BY <1>1, <1>4, <1>5, <1>6, <1>7, <1>8 DEF UploadInv

(* No step of anyone, in whatever order, disturbs the invariant.           *)
LEMMA NextInv == UploadInv /\ [Next]_vars => UploadInv'
  <1> SUFFICES ASSUME UploadInv, [Next]_vars PROVE UploadInv'
    OBVIOUS
  <1>1. CASE \E t \in Transfers : Upload(t)
    BY <1>1, UploadOnlyStep, SendStep DEF Upload
  <1>2. CASE \E k \in Links : Handle(k)
    BY <1>2, TakeStep, WriteStep, CancelInner, FinishStep DEF Handle
  <1>3. CASE Break \/ Reconnect \/ Crash \/ \E k \in Links : DropInbox(k)
    BY <1>3, NetworkStep
  <1>4. CASE UNCHANGED vars
    <2>1. /\ UNCHANGED <<client, reply, network, inbox, wpc, frame, disk>>
      BY <1>4 DEF vars
    <2>2. \A k \in Links, i \in Nat :
            /\ Present(k, i)' <=> Present(k, i)
            /\ FrameAt(k, i)' = FrameAt(k, i)
            /\ \A t \in Transfers : /\ ChunkAt(k, i, t)' <=> ChunkAt(k, i, t)
                                    /\ CancelAt(k, i, t)' <=> CancelAt(k, i, t)
      BY <2>1, SameLines
    <2>3. \A t \in Transfers : NextChunk(t)' = NextChunk(t) /\ (SourceEnded(t)' <=> SourceEnded(t))
      BY <2>1, NextChunkSame DEF client
    <2>4. TypeOK'
      BY <2>1 DEF UploadInv, TypeOK, client, network, disk
    <2>5. OneChunk' /\ ChunkIsAwaited'
      BY <2>1, <2>2, <2>3 DEF UploadInv, OneChunk, ChunkIsAwaited, client
    <2>6. CommitIsLast'
      BY <2>1, <2>2, <2>3 DEF UploadInv, TypeOK, CommitIsLast, client, disk
    <2>7. AckMeansCommitted' /\ OffsetsInSource'
      BY <2>1, <2>3 DEF UploadInv, AckMeansCommitted, OffsetsInSource, Gone, client, disk
    <2>8. CancelIsLast'
      BY <2>1, <2>2 DEF UploadInv, CancelIsLast, client, network, disk
    <2>9. \A k \in Links : HandlerAt(k)'
      BY <2>1 DEF UploadInv, HandlerAt, Gone, Valid, disk
    <2> QED
      BY <2>1, <2>4, <2>5, <2>6, <2>7, <2>8, <2>9 DEF UploadInv
  <1> QED
    BY <1>1, <1>2, <1>3, <1>4 DEF Next

(* The parts of the invariant hold together in every reachable state.      *)
LEMMA UploadInvariant == Spec => []UploadInv
  BY InitInv, NextInv, PTL DEF Spec

(* Type correctness; a temporary file never holds more than the announced  *)
(* size of its transfer (fs.go checks a chunk before it writes it).        *)
THEOREM TypeOKTheorem == Spec => []TypeOK
  <1>1. UploadInv => TypeOK
    BY DEF UploadInv
  <1> QED
    BY <1>1, UploadInvariant, PTL

(* A transfer that succeeded leaves no .part file on the agent, and no     *)
(* .meta file unless the agent could not remove it after the commit; one   *)
(* whose cancel_file was acknowledged on a connection that never broke     *)
(* leaves neither (transfer.go:189-199, fs.go:348, 352-373).               *)
THEOREM NoLeftoversTheorem == Spec => []NoLeftovers
  <1>1. UploadInv => NoLeftovers
    <2> SUFFICES ASSUME UploadInv, NEW t \in Transfers
                 PROVE  /\ upc[t] = "ok" => part[t] = Absent /\ (meta[t] = Absent \/ t \in staleMeta)
                        /\ upc[t] = "failed" /\ reply[t] = "ack" /\ lost = 0 =>
                             part[t] = Absent /\ meta[t] = Absent
      BY DEF NoLeftovers
    <2>1. ASSUME upc[t] = "ok"
          PROVE  part[t] = Absent /\ (meta[t] = Absent \/ t \in staleMeta)
      <3>1. Gone(t)
        BY <2>1 DEF UploadInv, AckMeansCommitted
      <3> QED
        BY <3>1 DEF UploadInv, CommitIsLast, Gone
    <2>2. ASSUME upc[t] = "failed", reply[t] = "ack", lost = 0
          PROVE  part[t] = Absent /\ meta[t] = Absent
      BY <2>2 DEF UploadInv, CancelIsLast
    <2> QED
      BY <2>1, <2>2
  <1> QED
    BY <1>1, UploadInvariant, PTL

----------------------------------------------------------------------------
(* The refinement of AtomicFile                                            *)

results == [t \in Transfers |-> Result(t)]

(* A handler changes the destination in one place only: the rename of a    *)
(* complete temporary file of a transfer that was not committed before.    *)
LEMMA HandlerRefines ==
  ASSUME UploadInv, NEW k \in Links, Handle(k) \/ DropInbox(k)
  PROVE  \/ \E t \in Transfers : Abstract!Commit(t)
         \/ UNCHANGED <<Owner, commits, results>>
  <1>1. upc' = upc
    BY DEF Handle, DropInbox, Take, CreatePart, CreateMeta, CheckMeta, CheckPart, Write, Checksum,
           Rename, RemoveMeta, Ack, Cleanup, DiskFails, CancelPart, CancelMeta, CancelFails,
           handlerRest, client
  <1>2. results' = results
    BY <1>1 DEF results, Result
  <1>3. CASE Rename(k) /\ part[frame[k].t] # Absent
    <2>1. wpc[k] = "rename"
      BY <1>3 DEF Rename, At
    <2>2. /\ frame[k].t \in Transfers /\ ChunkAt(k, 0, frame[k].t)
          /\ part[frame[k].t] = Size[frame[k].t]
      <3>1. wpc[k] # "idle" /\ wpc[k] \in WriteSteps
        BY <2>1 DEF WriteSteps
      <3>2. frame[k].kind = "chunk" /\ part[frame[k].t] \in {Size[frame[k].t], Absent}
        BY <2>1, <3>1 DEF UploadInv, HandlerAt
      <3> QED
        BY <1>3, <3>1, <3>2, HandlerFrame
    <2>3. PICK t \in Transfers : t = frame[k].t
      BY <2>2
    <2>4. t \notin commits
      BY <2>1, <2>2, <2>3 DEF UploadInv, CommitIsLast
    <2>5. dest' = <<t, Size[t]>> /\ commits' = commits \cup {t}
      BY <1>3, <2>2, <2>3 DEF Rename
    <2>6. Owner' = t
      <3>1. Size[t] \in Int /\ Old \notin Transfers \X Int
        BY UploadAssumption
      <3>2. dest' # Old
        BY <2>5, <3>1
      <3> QED
        BY <2>5, <3>2 DEF Owner
    <2> QED
      BY <1>2, <2>4, <2>5, <2>6 DEF Abstract!Commit, results
  <1>4. CASE ~(Rename(k) /\ part[frame[k].t] # Absent)
    <2>1. dest' = dest /\ commits' = commits
      BY <1>4 DEF Handle, DropInbox, Take, CreatePart, CreateMeta, CheckMeta, CheckPart, Write,
           Checksum, Rename, RemoveMeta, Ack, Cleanup, DiskFails, CancelPart, CancelMeta,
           CancelFails, disk
    <2> QED
      BY <1>2, <2>1 DEF Owner
  <1> QED
    BY <1>3, <1>4

(* Upload reports once, and success only after the commit.                 *)
LEMMA UploadRefines ==
  ASSUME UploadInv, UploadInv', NEW t \in Transfers, Upload(t)
  PROVE  \/ \E verdict \in {"ok", "failed"} : Abstract!Report(t, verdict)
         \/ UNCHANGED <<Owner, commits, results>>
  <1>1. UNCHANGED disk
    BY DEF Upload, SendChunk, SendChunkFails, Abort, RequestTimesOut, ChunkAcked, ChunkRefused,
           SendCancel, SendCancelFails, CancelAnswered
  <1>2. Owner' = Owner /\ commits' = commits
    BY <1>1 DEF Owner, disk
  <1>3. upc \in [Transfers -> {"reading", "waiting", "cancel", "cancelling"} \cup Returned]
    BY DEF UploadInv, TypeOK
  <1>4. /\ upc[t] \notin Returned
        /\ \A u \in Transfers \ {t} : upc'[u] = upc[u]
    BY <1>3 DEF Upload, SendChunk, SendChunkFails, Abort, RequestTimesOut, ChunkAcked, ChunkRefused,
           SendCancel, SendCancelFails, CancelAnswered, Fail, Returned
  <1>5. \A u \in Transfers \ {t} : Result(u)' = Result(u)
    BY <1>4 DEF Result
  <1>6. Result(t) = "pending"
    BY <1>4 DEF Result
  <1>7. CASE upc'[t] \in Returned
    <2>1. PICK verdict \in {"ok", "failed"} : verdict = upc'[t]
      BY <1>7 DEF Returned
    <2>2. Result(t)' = verdict
      BY <1>7, <2>1 DEF Result
    <2>3. results' = [results EXCEPT ![t] = verdict]
      BY <1>5, <2>2 DEF results
    <2>4. verdict = "ok" => t \in commits
      BY <1>2, <2>1 DEF UploadInv, AckMeansCommitted, Gone
    <2>5. results[t] = "pending"
      BY <1>6 DEF results
    <2> QED
      BY <1>2, <2>3, <2>4, <2>5 DEF Abstract!Report, results
  <1>8. CASE upc'[t] \notin Returned
    <2>1. Result(t)' = Result(t)
      BY <1>6, <1>8 DEF Result
    <2> QED
      BY <1>2, <1>5, <2>1 DEF results
  <1> QED
    BY <1>7, <1>8

(* "The final path is replaced only after the final chunk has the expected *)
(* size and SHA-256 checksum" (fs.go:224-226): whatever breaks, fails,     *)
(* crashes or overtakes, the uploads implement AtomicFile.  Rename of a    *)
(* present temporary file is Commit, the return of Upload is Report, and   *)
(* every other step leaves the mapped variables alone.                     *)
THEOREM ImplementsAtomicFileTheorem == Spec => ImplementsAtomicFile
  <1>1. Init => Abstract!Init
    BY DEF Init, Abstract!Init, Owner, Result, Returned
  <1>2. UploadInv /\ UploadInv' /\ [Next]_vars =>
          [Abstract!Next]_<<Owner, commits, [t \in Transfers |-> Result(t)]>>
    <2> SUFFICES ASSUME UploadInv, UploadInv', [Next]_vars
                 PROVE  Abstract!Next \/ UNCHANGED <<Owner, commits, results>>
      BY DEF results
    <2>1. CASE \E t \in Transfers : Upload(t)
      BY <2>1, UploadRefines DEF Abstract!Next
    <2>2. CASE \E k \in Links : Handle(k) \/ DropInbox(k)
      BY <2>2, HandlerRefines DEF Abstract!Next
    <2>3. CASE Break \/ Reconnect \/ Crash \/ UNCHANGED vars
      BY <2>3 DEF Break, Reconnect, Crash, vars, client, disk, Owner, results, Result
    <2> QED
      BY <2>1, <2>2, <2>3 DEF Next
  <1> QED
    BY <1>1, <1>2, UploadInvariant, PTL DEF Spec, ImplementsAtomicFile, Abstract!Spec

============================================================================
