----------------------------- MODULE AgentAudit ----------------------------
(***************************************************************************)
(* The agent's audit file and its one older generation                     *)
(* (agent/internal/audit/audit.go: open, Log, rotate, Close).              *)
(*                                                                         *)
(* Log holds l.mu from the size check to the write, so calls do not        *)
(* interleave; but the agent may end between any two file operations, and  *)
(* each of them may fail, which the code ignores.  Event number i is the   *)
(* i-th one logged and takes a unit of space; a write adds its whole line  *)
(* or nothing (a short one would spoil the next line too).                 *)
(***************************************************************************)
EXTENDS Naturals, Sequences

CONSTANTS
    maxSize,
    MaxEvents,      \* bound: calls of Log
    MaxCrashes      \* bound: ends of the agent

(* The file takes at least one event.                                      *)
ASSUME AuditAssumption == maxSize \in Nat \ {0}

VARIABLES
    current,    \* the file at l.path: the events in it
    older,      \* the file at l.path.1
    open,       \* "no" before Open has been called, "yes", or "nil": l.file is nil
    size,       \* l.size
    logpc,      \* Log: "off", "rotating", "removed", "renamed" or "writing"
    events,     \* calls of Log so far
    written,    \* the events that reached a file, in order, history
    stuck,      \* a rename failed since the last one that did not, history
    ends        \* bound

agentAuditVars == <<current, older, open, size, logpc, events, written, stuck, ends>>
auditFiles == <<current, older>>
auditHistory == <<events, written, stuck, ends>>

AgentAuditInit ==
    /\ current = <<>> /\ older = <<>>
    /\ open = "no"
    /\ size = 0
    /\ logpc = "off"
    /\ events = 0
    /\ written = <<>>
    /\ stuck = FALSE
    /\ ends = 0

----------------------------------------------------------------------------

(* Mutant: the file is created anew instead of appended to.                *)
OpenFileMutant ==
    /\ open' = "yes"
    /\ current' = <<>>
    /\ size' = 0

(* openFile appends to the file, or creates it.                            *)
OpenFile ==
    /\ open' = "yes"
    /\ size' = Len(current)
    /\ UNCHANGED current

(* Open, when the agent starts.                                            *)
OpensLog ==
    /\ open = "no"
    /\ OpenFile
    /\ UNCHANGED <<older, logpc, auditHistory>>

(* Log without a file discards the event.                                  *)
LogDiscards ==
    /\ logpc = "off" /\ events < MaxEvents
    /\ open = "nil"
    /\ events' = events + 1
    /\ UNCHANGED <<auditFiles, open, size, logpc, written, stuck, ends>>

LogBegins ==
    /\ logpc = "off" /\ events < MaxEvents
    /\ open = "yes"
    /\ events' = events + 1
    /\ IF size + 1 > maxSize
       THEN logpc' = "rotating" /\ open' = "nil"
       ELSE logpc' = "writing" /\ UNCHANGED open
    /\ UNCHANGED <<auditFiles, size, written, stuck, ends>>

(* rotate: the file is closed; now the older one is removed, or not.       *)
RotateRemoves ==
    /\ logpc = "rotating"
    /\ logpc' = "removed"
    /\ older' \in {<<>>, older}
    /\ UNCHANGED <<current, open, size, auditHistory>>

RotateRenames ==
    /\ logpc = "removed"
    /\ logpc' = "renamed"
    /\ older' = current
    /\ current' = <<>>
    /\ stuck' = FALSE
    /\ UNCHANGED <<open, size, events, written, ends>>

RotateKeeps ==
    /\ logpc = "removed"
    /\ logpc' = "renamed"
    /\ stuck' = TRUE
    /\ UNCHANGED <<auditFiles, open, size, events, written, ends>>

RotateOpens ==
    /\ logpc = "renamed"
    /\ logpc' = "writing"
    /\ OpenFile
    /\ UNCHANGED <<older, auditHistory>>

(* openFile fails: the event is lost, and so is every later one.           *)
RotateFails ==
    /\ logpc = "renamed"
    /\ logpc' = "off"
    /\ UNCHANGED <<auditFiles, open, size, auditHistory>>

LogWrites ==
    /\ logpc = "writing"
    /\ logpc' = "off"
    /\ current' = Append(current, events)
    /\ written' = Append(written, events)
    /\ size' = size + 1
    /\ UNCHANGED <<older, open, events, stuck, ends>>

WriteFails ==
    /\ logpc = "writing"
    /\ logpc' = "off"
    /\ UNCHANGED <<auditFiles, open, size, auditHistory>>

(* The agent ends, closing the log or not, and is started again.           *)
AgentEnds ==
    /\ ends < MaxCrashes
    /\ ends' = ends + 1
    /\ open' = "no"
    /\ logpc' = "off"
    /\ UNCHANGED <<auditFiles, size, events, written, stuck>>

AgentAuditNext ==
    \/ OpensLog \/ LogDiscards \/ LogBegins
    \/ RotateRemoves \/ RotateRenames \/ RotateKeeps \/ RotateOpens \/ RotateFails
    \/ LogWrites \/ WriteFails
    \/ AgentEnds

AgentAuditSpec == AgentAuditInit /\ [][AgentAuditNext]_agentAuditVars

----------------------------------------------------------------------------

Trail == older \o current

(* The two files together are the latest of the events that were written,  *)
(* in order and without a gap, the very last one included, wherever a      *)
(* rotation fails or is cut short; and the file does not outgrow maxSize   *)
(* unless it could not be renamed (audit.go:104-127).                      *)
TrailIsSuffix ==
    /\ Trail = SubSeq(written, Len(written) - Len(Trail) + 1, Len(written))
    /\ written # <<>> => Trail # <<>>
    /\ ~stuck => Len(current) <= maxSize

============================================================================
