------------------------------ MODULE Download ------------------------------
(***************************************************************************)
(* Downloading one file: Download of                                       *)
(* control-center/backend/transfer/transfer.go against handleGetFile of    *)
(* agent/internal/server/handlers.go with ReadFileChunk and FileSHA256 of  *)
(* agent/internal/filesystem/fs.go, while somebody else writes the remote  *)
(* file.                                                                   *)
(*                                                                         *)
(* A file is a sequence of units, a chunk is ChunkSize of them, and a      *)
(* checksum is the content it was computed from.  The agent looks at its   *)
(* file in several steps - its size, a chunk, and for the checksum the     *)
(* whole file from the start - and the file may change between any two.    *)
(***************************************************************************)
EXTENDS Integers, Sequences

CONSTANTS
    Units,        \* the values of a unit
    Contents,     \* what the remote file may contain
    ChunkSize,    \* DefaultChunkSize
    MaxChanges,   \* bound of the model: how often the remote file changes
    Old, Absent

ASSUME DownloadAssumption ==
    /\ Contents \subseteq Seq(Units)
    /\ ChunkSize \in Nat \ {0}
    /\ MaxChanges \in Nat
    /\ Old \notin Contents

VARIABLES
    remote, changes,      \* the remote file, and how often it has changed
    hpc,                  \* handleGetFile: its step
    total, data, sum,     \* handleGetFile: totalSize, data and checksum
    dpc,                  \* Download: its step
    offset, totalSize,    \* Download: offset and totalSize
    part, dest,           \* the temporary file and the destination
    snap, quiet           \* history: the remote file when its checksum was
                          \* begun, and whether it stayed so until the end

agent == <<hpc, total, data, sum>>
client == <<dpc, offset, totalSize, part, dest>>
history == <<snap, quiet>>
vars == <<remote, changes, agent, client, history>>

(* "leaked": it failed, and its temporary file could not be removed.       *)
Ended == {"ok", "failed", "leaked", "crashed"}

Init ==
    /\ remote \in Contents
    /\ changes = 0
    /\ hpc = "idle"
    /\ total = 0
    /\ data = <<>>
    /\ sum = <<>>
    /\ dpc = "start"
    /\ offset = 0
    /\ totalSize = -1
    /\ part = Absent
    /\ dest = Old
    /\ snap = <<>>
    /\ quiet = TRUE

----------------------------------------------------------------------------
(* Download                                                                *)

(* Mutant: the temporary file of a failed download stays.                  *)
ReturnErrorMutant == dpc' = "failed" /\ UNCHANGED part

(* An error is returned; the deferred function removes the temporary file, *)
(* or cannot and says nothing.                                             *)
ReturnError ==
    \/ dpc' = "failed" /\ part' = Absent
    \/ part # Absent /\ dpc' = "leaked" /\ UNCHANGED part

CreateTemp ==
    /\ dpc = "start"
    /\ dpc' = "asking"
    /\ part' = <<>>
    /\ UNCHANGED <<remote, changes, agent, offset, totalSize, dest, history>>

(* The paths are unusable, or the context is cancelled.                    *)
GiveUp ==
    /\ dpc \in {"start", "asking"}
    /\ ReturnError
    /\ UNCHANGED <<remote, changes, agent, offset, totalSize, dest, history>>

Ask ==
    /\ dpc = "asking"
    /\ dpc' = "waiting"
    /\ hpc' = "stat"
    /\ UNCHANGED <<remote, changes, total, data, sum, offset, totalSize, part, dest, history>>

(* SendRequest fails or times out; the agent may still be at work.         *)
RequestFails ==
    /\ dpc = "waiting"
    /\ ReturnError
    /\ UNCHANGED <<remote, changes, agent, offset, totalSize, dest, history>>

Final == offset + Len(data) >= total

(* The checks before the chunk is written.                                 *)
ChunkFits ==
    /\ totalSize \in {-1, total}
    /\ offset + Len(data) <= total
    /\ Final \/ data # <<>>

(* Mutant: the checksum of the whole file is not compared.                 *)
ChunkAcceptedMutant ==
    IF Final THEN offset + Len(data) = total ELSE offset + Len(data) < total

(* verifyChecksum reads the temporary file back, with the chunk in it.     *)
ChecksumMatches == part \o data = sum

(* And the ones after it.                                                  *)
ChunkAccepted ==
    IF Final
    THEN offset + Len(data) = total /\ ChecksumMatches
    ELSE offset + Len(data) < total

(* Mutant: the loop goes on before it has taken a chunk that is not final. *)
ReceiveMutant ==
    /\ dpc = "received"
    /\ ChunkFits /\ ChunkAccepted
    /\ dpc' = IF Final THEN "verified" ELSE "asking"
    /\ totalSize' = total
    /\ offset' = IF Final THEN offset + Len(data) ELSE offset
    /\ part' = IF Final THEN part \o data ELSE part
    /\ UNCHANGED <<remote, changes, agent, dest, history>>

Receive ==
    /\ dpc = "received"
    /\ ChunkFits /\ ChunkAccepted
    /\ dpc' = IF Final THEN "verified" ELSE "asking"
    /\ totalSize' = total
    /\ offset' = offset + Len(data)
    /\ part' = part \o data
    /\ UNCHANGED <<remote, changes, agent, dest, history>>

(* The chunk is refused, or cannot be written.                             *)
Refuse ==
    /\ dpc = "received"
    /\ ReturnError
    /\ UNCHANGED <<remote, changes, agent, offset, totalSize, dest, history>>

Commit ==
    /\ dpc = "verified"
    /\ dpc' = "ok"
    /\ dest' = part
    /\ part' = Absent
    /\ UNCHANGED <<remote, changes, agent, offset, totalSize, history>>

(* Sync, Close or Rename fails.                                            *)
CommitFails ==
    /\ dpc = "verified"
    /\ ReturnError
    /\ UNCHANGED <<remote, changes, agent, offset, totalSize, dest, history>>

(* The control center dies; its temporary file stays.                      *)
Crash ==
    /\ dpc \notin Ended
    /\ dpc' = "crashed"
    /\ UNCHANGED <<remote, changes, agent, offset, totalSize, part, dest, history>>

----------------------------------------------------------------------------
(* handleGetFile                                                           *)

(* ReadFileChunk: the size, and whether there is something to read.        *)
Stat ==
    /\ hpc = "stat"
    /\ offset < Len(remote) \/ (remote = <<>> /\ offset = 0)
    /\ total' = Len(remote)
    /\ data' = <<>>
    /\ hpc' = IF remote = <<>> THEN "open" ELSE "read"
    /\ UNCHANGED <<remote, changes, sum, client, history>>

(* ReadFileChunk: at most a chunk, clamped to the size read before.  A     *)
(* file that has become shorter gives less.                                *)
Read ==
    /\ hpc = "read"
    /\ offset < Len(remote)
    /\ LET n == IF total - offset < ChunkSize THEN total - offset ELSE ChunkSize
           end == IF offset + n < Len(remote) THEN offset + n ELSE Len(remote)
       IN  /\ data' = SubSeq(remote, offset + 1, end)
           /\ hpc' = IF end >= total THEN "open" ELSE "reply"
    /\ UNCHANGED <<remote, changes, total, sum, client, history>>

(* FileSHA256 opens the file and reads it from start to end.               *)
OpenForSum ==
    /\ hpc = "open"
    /\ hpc' = "sum"
    /\ sum' = <<>>
    /\ snap' = remote
    /\ quiet' = TRUE
    /\ UNCHANGED <<remote, changes, total, data, client>>

AddToSum ==
    /\ hpc = "sum"
    /\ Len(sum) < Len(remote)
    /\ sum' = Append(sum, remote[Len(sum) + 1])
    /\ UNCHANGED <<remote, changes, hpc, total, data, client, history>>

SumDone ==
    /\ hpc = "sum"
    /\ Len(sum) >= Len(remote)
    /\ hpc' = "reply"
    /\ UNCHANGED <<remote, changes, total, data, sum, client, history>>

(* An operation on the file fails, among others because the file ends      *)
(* before the offset: an error is the answer.                              *)
GetFileFails ==
    /\ hpc \in {"stat", "read", "open", "sum"}
    /\ hpc' = "idle"
    /\ IF dpc = "waiting" THEN ReturnError ELSE UNCHANGED <<dpc, part>>
    /\ UNCHANGED <<remote, changes, total, data, sum, offset, totalSize, dest, history>>

(* The chunk arrives, if it is still waited for.                           *)
Reply ==
    /\ hpc = "reply"
    /\ hpc' = "idle"
    /\ dpc' = IF dpc = "waiting" THEN "received" ELSE dpc
    /\ UNCHANGED <<remote, changes, total, data, sum, offset, totalSize, part, dest, history>>

(* Somebody writes the remote file, in place or by replacing it.           *)
Change ==
    /\ changes < MaxChanges
    /\ changes' = changes + 1
    /\ remote' \in Contents \ {remote}
    /\ quiet' = (quiet /\ hpc # "sum")
    /\ UNCHANGED <<agent, client, snap>>

----------------------------------------------------------------------------

Downloading ==
    \/ CreateTemp \/ GiveUp \/ Ask \/ RequestFails
    \/ Receive \/ Refuse \/ Commit \/ CommitFails

Serving == Stat \/ Read \/ OpenForSum \/ AddToSum \/ SumDone \/ GetFileFails \/ Reply

Next == Downloading \/ Serving \/ Crash \/ Change

Spec == Init /\ [][Next]_vars

(* The download runs, and its requests end by an answer or a timeout.      *)
FairSpec == Spec /\ WF_vars(Downloading)

----------------------------------------------------------------------------

(* A download that succeeds has the content the remote file had when the   *)
(* agent computed its checksum, although the chunks were read at different *)
(* times and the file was changed meanwhile - unless it was changed while  *)
(* the checksum itself was being computed.                                 *)
CommittedIsSnapshot == dpc = "ok" /\ quiet => dest = snap

(* The destination is touched by a successful download only, and nothing   *)
(* temporary stays unless the control center dies or the removal itself    *)
(* fails, whose error transfer.go:92 ignores (transfer.go:83-94, 154-164). *)
AllOrNothing ==
    /\ dest # Old => dpc = "ok"
    /\ dpc \in {"ok", "failed"} => part = Absent

(* Every Download returns: each answer moves the offset forward and the    *)
(* announced size bounds it (transfer.go:121-144).                         *)
DownloadReturns == dpc = "asking" ~> dpc \in Ended

=============================================================================
