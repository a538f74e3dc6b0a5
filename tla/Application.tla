---------------------------- MODULE Application ----------------------------
(***************************************************************************)
(* File transfers of the control center and its shutdown                   *)
(* (control-center/app.go: beginTransfer, TransferFile,                    *)
(* UploadFileFromPath, shutdown; the request loops of                      *)
(* control-center/backend/transfer/transfer.go).                           *)
(*                                                                         *)
(* Each transfer is a goroutine of its own and asks for one chunk at a     *)
(* time through SendRequest (Requester).  What the chunks hold is checked  *)
(* in Download and AtomicUpload; here an answer is accepted or not.        *)
(***************************************************************************)
EXTENDS Requester, Naturals

CONSTANTS
    Downloads, Uploads,     \* calls of TransferFile and UploadFileFromPath
    MaxChunks               \* chunks of a file

Transfers == Downloads \cup Uploads

(* Transfers make their requests through SendRequest.                      *)
ASSUME AppAssumption == Downloads \cup Uploads \subseteq Requests

VARIABLES
    tpc,            \* transfer: its step
    chunks,         \* chunks accepted
    sentChunk,      \* Upload: a chunk may have reached the agent
    shuttingDown,   \* also: transferCtx is cancelled
    transferWG,     \* the wait group's counter
    services,       \* what shutdown has not closed yet
    logged,         \* the transfer's audit entry was made with the database open:
                    \* "stored"; or closed: "unstored"; "no": not made yet
    downpc          \* shutdown: its step

appVars == <<tpc, chunks, sentChunk, shuttingDown, transferWG, services, logged, downpc>>

AppInit ==
    /\ tpc = [t \in Transfers |-> "idle"]
    /\ chunks = [t \in Transfers |-> 0]
    /\ sentChunk = [t \in Transfers |-> FALSE]
    /\ shuttingDown = FALSE
    /\ transferWG = 0
    /\ services = {"discover", "sessions", "audit"}
    /\ logged = [t \in Transfers |-> "no"]
    /\ downpc = "off"

Moves(t, from, to) ==
    /\ tpc[t] = from
    /\ tpc' = [tpc EXCEPT ![t] = to]

----------------------------------------------------------------------------
(* A transfer                                                              *)

(* Mutant: beginTransfer does not look at the shutdown.                    *)
BeginTransferMutant(t) ==
    /\ Moves(t, "idle", "checking")
    /\ transferWG' = transferWG + 1
    /\ UNCHANGED <<chunks, sentChunk, shuttingDown, services, logged, downpc, requesterVars>>

(* beginTransfer: the check and the Add are under transferMu, as are the   *)
(* flag and the cancellation in shutdown.                                  *)
BeginTransfer(t) ==
    /\ IF shuttingDown
       THEN Moves(t, "idle", "refused") /\ UNCHANGED transferWG
       ELSE Moves(t, "idle", "checking") /\ transferWG' = transferWG + 1
    /\ UNCHANGED <<chunks, sentChunk, shuttingDown, services, logged, downpc, requesterVars>>

(* The head of the loop: the context, then (Upload) the local file.  An    *)
(* upload counts as begun on the agent before its request is made.         *)
ChecksContext(t) ==
    /\ \/ shuttingDown /\ Moves(t, "checking", "failed") /\ UNCHANGED sentChunk
       \/ /\ ~shuttingDown
          /\ Moves(t, "checking", "sending")
          /\ sentChunk' = [sentChunk EXCEPT ![t] = t \in Uploads]
    /\ UNCHANGED <<chunks, shuttingDown, transferWG, services, logged, downpc, requesterVars>>

(* The temporary or the local file cannot be opened, read or written.      *)
LocalFailure(t) ==
    /\ Moves(t, "checking", "failed")
    /\ UNCHANGED <<chunks, sentChunk, shuttingDown, transferWG, services, logged, downpc, requesterVars>>

(* sendUploadChunk looks at the context once more, Download does not.      *)
RequestsChunk(t) ==
    /\ IF t \in Uploads /\ shuttingDown
       THEN Moves(t, "sending", "failed") /\ UNCHANGED requesterVars
       ELSE Moves(t, "sending", "waiting") /\ Begin(t)
    /\ UNCHANGED <<chunks, sentChunk, shuttingDown, transferWG, services, logged, downpc>>

(* SendRequest returned: no answer or an unacceptable one ends the         *)
(* transfer, a final one completes it.                                     *)
TakesChunk(t) ==
    /\ req[t] # "open"
    /\ \/ Moves(t, "waiting", "failed") /\ UNCHANGED chunks
       \/ /\ req[t] = "answer"
          /\ chunks' = [chunks EXCEPT ![t] = @ + 1]
          /\ \/ chunks[t] + 1 < MaxChunks /\ Moves(t, "waiting", "checking")
             \/ Moves(t, "waiting", "ended")
    /\ UNCHANGED <<sentChunk, shuttingDown, transferWG, services, logged, downpc, requesterVars>>

(* The deferred functions of Download and Upload: a failed upload asks the *)
(* agent to drop its partial file, whatever the context says.              *)
CleansUp(t) ==
    /\ IF sentChunk[t]
       THEN Moves(t, "failed", "cancelling") /\ Begin(t)
       ELSE Moves(t, "failed", "ended") /\ UNCHANGED requesterVars
    /\ UNCHANGED <<chunks, sentChunk, shuttingDown, transferWG, services, logged, downpc>>

CancelReturns(t) ==
    /\ req[t] # "open"
    /\ Moves(t, "cancelling", "ended")
    /\ UNCHANGED <<chunks, sentChunk, shuttingDown, transferWG, services, logged, downpc, requesterVars>>

(* Audit.Log finds the database open or closed by shutdown; that the       *)
(* INSERT itself may fail is AuditLog's matter.                            *)
LogsOutcome(t) ==
    /\ Moves(t, "ended", "logged")
    /\ logged' = [logged EXCEPT ![t] = IF "audit" \in services THEN "stored" ELSE "unstored"]
    /\ UNCHANGED <<chunks, sentChunk, shuttingDown, transferWG, services, downpc, requesterVars>>

(* Mutant: the wait group is not told when the transfer failed.            *)
TransferReturnsMutant(t) ==
    /\ Moves(t, "logged", "returned")
    /\ transferWG' = IF chunks[t] > 0 THEN transferWG - 1 ELSE transferWG
    /\ UNCHANGED <<chunks, sentChunk, shuttingDown, services, logged, downpc, requesterVars>>

(* The deferred done().                                                    *)
TransferReturns(t) ==
    /\ Moves(t, "logged", "returned")
    /\ transferWG' = transferWG - 1
    /\ UNCHANGED <<chunks, sentChunk, shuttingDown, services, logged, downpc, requesterVars>>

----------------------------------------------------------------------------
(* shutdown                                                                *)

ShutdownBegins ==
    /\ downpc = "off"
    /\ downpc' = "waiting"
    /\ shuttingDown' = TRUE
    /\ UNCHANGED <<tpc, chunks, sentChunk, transferWG, services, logged, requesterVars>>

TransfersDone ==
    /\ downpc = "waiting"
    /\ transferWG = 0
    /\ downpc' = "drained"
    /\ UNCHANGED <<tpc, chunks, sentChunk, shuttingDown, transferWG, services, logged, requesterVars>>

Closes(from, service, to) ==
    /\ downpc = from
    /\ downpc' = to
    /\ services' = services \ {service}
    /\ UNCHANGED <<tpc, chunks, sentChunk, shuttingDown, transferWG, logged, requesterVars>>

StopsDiscovery == Closes("drained", "discover", "undiscovered")

ClosesAgents ==
    /\ downpc = "undiscovered"
    /\ downpc' = "down"
    /\ TakeDown
    /\ UNCHANGED <<tpc, chunks, sentChunk, shuttingDown, transferWG, services, logged>>

ClosesSessions == Closes("down", "sessions", "unsaved")
ClosesAudit == Closes("unsaved", "audit", "finished")

ShutsDown ==
    \/ TransfersDone \/ StopsDiscovery \/ ClosesAgents \/ ClosesSessions \/ ClosesAudit

----------------------------------------------------------------------------

Transferring(t) ==
    \/ ChecksContext(t) \/ LocalFailure(t) \/ RequestsChunk(t) \/ TakesChunk(t)
    \/ CleansUp(t) \/ CancelReturns(t) \/ LogsOutcome(t) \/ TransferReturns(t)

AppNext ==
    \/ \E t \in Transfers :
         BeginTransfer(t) \/ Transferring(t) \/ (Return(t) /\ UNCHANGED appVars)
    \/ ShutdownBegins
    \/ ShutsDown

AppSpec == RequesterInit /\ AppInit /\ [][AppNext]_<<requesterVars, appVars>>

----------------------------------------------------------------------------

(* Nothing is closed under a transfer: once shutdown goes past its wait    *)
(* (app.go:177), no transfer is under way or begins, no request of one,    *)
(* the upload's cancellation included, ended because the manager shut      *)
(* down, and shutdown has not closed the audit database before a           *)
(* transfer's outcome was logged.                                          *)
TransfersDrained ==
    /\ downpc \notin {"off", "waiting"} =>
         \A t \in Transfers : tpc[t] \in {"idle", "refused", "returned"}
    /\ \A t \in Transfers : req[t] # "shutdown" /\ logged[t] # "unstored"

(* shutdown ends, whatever the transfers are doing when it begins and      *)
(* however the agents behave (app.go:169-196).                             *)
ShutdownCompletes == downpc = "waiting" ~> downpc = "finished"

============================================================================
