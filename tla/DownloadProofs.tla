--------------------------- MODULE DownloadProofs ---------------------------
(***************************************************************************)
(* A successful download is a snapshot of the remote file, and a failed    *)
(* one leaves nothing: for files of any length and content, any chunk size *)
(* and any number of changes to the remote file.                           *)
(***************************************************************************)
EXTENDS Download, TLAPS

(* The sequences the argument compares, and the steps of the two sides.    *)
Files ==
    /\ remote \in Seq(Units)
    /\ sum \in Seq(Units)
    /\ snap \in Seq(Units)
    /\ quiet \in BOOLEAN
    /\ hpc \in {"idle", "stat", "read", "open", "sum", "reply"}
    /\ dpc \in {"start", "asking", "waiting", "received", "verified"} \cup Ended

(* The agent works for a download that waits or has gone.                  *)
OneRequest == hpc # "idle" => dpc \in {"waiting", "failed", "leaked", "crashed"}

(* While nobody disturbs it, the checksum is a prefix of the snapshot, and *)
(* in the end all of it.                                                   *)
SumFollows ==
    quiet =>
        /\ hpc = "sum" =>
             /\ remote = snap
             /\ Len(sum) <= Len(snap)
             /\ \A i \in 1 .. Len(sum) : sum[i] = snap[i]
        /\ hpc # "sum" /\ dpc \notin {"failed", "leaked", "crashed"} => sum = snap

(* What was verified is the content of the checksum.                       *)
Verified ==
    /\ dpc = "verified" => part = sum
    /\ dpc = "ok" => dest = sum

DownloadInv == Files /\ OneRequest /\ SumFollows /\ Verified /\ AllOrNothing

(* Nothing has been read or written yet.                                   *)
LEMMA DownloadInit == Init => DownloadInv
  BY DownloadAssumption
     DEF Init, DownloadInv, Files, OneRequest, SumFollows, Verified, AllOrNothing, Ended

(* The steps of Download.                                                  *)
LEMMA DownloadingStep ==
  ASSUME DownloadInv, Downloading \/ Crash
  PROVE  DownloadInv'
  <1> USE DEF DownloadInv, Files, OneRequest, SumFollows, Verified, AllOrNothing, Ended,
              agent, history
  <1>1. CASE CreateTemp
    BY <1>1 DEF CreateTemp
  <1>2. CASE GiveUp \/ RequestFails \/ Refuse \/ CommitFails
    BY <1>2 DEF GiveUp, RequestFails, Refuse, CommitFails, ReturnError
  <1>3. CASE Ask
    BY <1>3 DEF Ask
  <1>4. CASE Receive
    <2>1. Final => part' = sum
      BY <1>4 DEF Receive, ChunkAccepted, ChecksumMatches
    <2> QED
      BY <1>4, <2>1 DEF Receive
  <1>5. CASE Commit
    BY <1>5 DEF Commit
  <1>6. CASE Crash
    BY <1>6 DEF Crash
  <1> QED
    BY <1>1, <1>2, <1>3, <1>4, <1>5, <1>6 DEF Downloading

(* The steps of handleGetFile.                                             *)
LEMMA ServingStep ==
  ASSUME DownloadInv, Serving
  PROVE  DownloadInv'
  <1> USE DEF DownloadInv, Files, OneRequest, SumFollows, Verified, AllOrNothing, Ended,
              client, history
  <1>1. CASE Stat
    BY <1>1 DEF Stat
  <1>2. CASE Read
    BY <1>2 DEF Read
  <1>3. CASE OpenForSum
    BY <1>3 DEF OpenForSum
  <1>4. CASE AddToSum
    <2>1. sum' \in Seq(Units) /\ Len(sum') = Len(sum) + 1
      BY <1>4 DEF AddToSum
    <2>2. \A i \in 1 .. Len(sum') : sum'[i] = IF i <= Len(sum) THEN sum[i] ELSE remote[i]
      BY <1>4 DEF AddToSum
    <2>3. quiet => \A i \in 1 .. Len(sum') : sum'[i] = snap[i]
      BY <1>4, <2>1, <2>2 DEF AddToSum
    <2>4. quiet => Len(sum') <= Len(snap)
      BY <1>4, <2>1 DEF AddToSum
    <2> QED
      BY <1>4, <2>1, <2>3, <2>4 DEF AddToSum
  <1>5. CASE SumDone
    <2>1. quiet => Len(sum) = Len(snap)
      BY <1>5 DEF SumDone
    <2>2. quiet => sum = snap
      BY <1>5, <2>1 DEF SumDone
    <2> QED
      BY <1>5, <2>2 DEF SumDone
  <1>6. CASE GetFileFails
    BY <1>6 DEF GetFileFails, ReturnError
  <1>7. CASE Reply
    BY <1>7 DEF Reply
  <1> QED
    BY <1>1, <1>2, <1>3, <1>4, <1>5, <1>6, <1>7 DEF Serving

(* The remote file changes.                                                *)
LEMMA ChangeStep ==
  ASSUME DownloadInv, Change
  PROVE  DownloadInv'
  BY DownloadAssumption
     DEF Change, DownloadInv, Files, OneRequest, SumFollows, Verified, AllOrNothing, Ended,
         agent, client

(* The conjunction is an invariant.                                        *)
LEMMA DownloadInvariant == Spec => []DownloadInv
  <1>1. DownloadInv /\ [Next]_vars => DownloadInv'
    <2> SUFFICES ASSUME DownloadInv, [Next]_vars
                 PROVE  DownloadInv'
      OBVIOUS
    <2>1. CASE UNCHANGED vars
      BY <2>1 DEF vars, agent, client, history, DownloadInv, Files, OneRequest, SumFollows,
                  Verified, AllOrNothing, Ended
    <2>2. CASE Next
      BY <2>2, DownloadingStep, ServingStep, ChangeStep DEF Next
    <2> QED
      BY <2>1, <2>2
  <1> QED
    BY DownloadInit, <1>1, PTL DEF Spec

(* Download writes what the remote file was when its checksum was          *)
(* computed: comparing that checksum with the chunks read before makes the *)
(* many reads one, if the file stands still for the last of them           *)
(* (transfer.go:142-151, handlers.go:186-196).                             *)
THEOREM CommittedIsSnapshotTheorem == Spec => []CommittedIsSnapshot
  <1>1. DownloadInv => CommittedIsSnapshot
    BY DEF DownloadInv, Files, OneRequest, SumFollows, Verified, CommittedIsSnapshot, Ended
  <1> QED
    BY DownloadInvariant, <1>1, PTL

(* Only a successful Download changes the destination, and one that        *)
(* returns leaves no temporary file, unless the system refuses to remove   *)
(* it (transfer.go:83-94, 154-164).                                        *)
THEOREM AllOrNothingTheorem == Spec => []AllOrNothing
  BY DownloadInvariant, PTL DEF DownloadInv

=============================================================================
